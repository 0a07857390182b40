---------------------------- MODULE MCAuditGate ----------------------------
(* A small instance of AuditGate: a year of two months of two days.         *)
EXTENDS AuditGate

CONSTANTS ghsa1, ghsa2

Year == <<2, 2>>
On(m, d) == [month |-> m, day |-> d]
Entry(id, advisory, date) == [id |-> id, advisory |-> advisory, expiresAt |-> date]

\* First, last and middle days, days no month has, and none at all.
MCDates == {On(1, 1), On(1, 2), On(2, 2), On(1, 3), On(2, 3), On(1, 0), On(3, 1), Absent}

\* One entry of any date; two of other advisories, other dates, one id or none.
MCLedgers ==
    {<<>>}
    \cup {<<Entry("x", ghsa1, d)>> : d \in MCDates}
    \cup {<<Entry("x", ghsa1, On(1, 2)), Entry(i, ghsa2, d)>> :
            i \in {"x", "y"}, d \in {On(1, 1), On(2, 2)}}
    \cup {<<Entry(Absent, ghsa1, On(2, 2)), Entry(Absent, Absent, On(2, 2))>>}

Named(g, u) == [github_advisory_id |-> g, url |-> u]
MCReports ==
    {{}, {Named(ghsa1, Absent)}, {Named(Absent, ghsa1)}, {Named(ghsa2, ghsa1)},
     {Named(Absent, Absent)}, {Named(ghsa1, ghsa1), Named(Absent, ghsa2)}}
=============================================================================
