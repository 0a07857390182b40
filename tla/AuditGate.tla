----------------------------- MODULE AuditGate -----------------------------
(* The advisory audit gate (scripts/run-audit.mjs).  A run reads the clock, *)
(* then the ledger of accepted advisories, then what `bun audit` reports,   *)
(* and passes if every reported advisory is excepted by an entry and every  *)
(* entry of the ledger is sound and in force.  The clock goes on, and       *)
(* people edit the ledger, before, between and after the three readings.    *)
(* An advisory of a package is named by its id alone; messages are left out.*)
EXTENDS Integers, Sequences

CONSTANTS
    Advisories, \* GitHub ids
    DaysIn,     \* the calendar: how many days each month of a year has
    Ledgers,    \* what security/audit-exceptions.json may hold
    Reports,    \* what `bun audit --json` may print, parsed
    Absent,     \* a field left out, or text that is no date
    Unreadable, \* a ledger that is missing, or no JSON
    Unlisted,   \* a ledger that is JSON, but no list of objects
    Statuses,   \* what bun may exit with
    Malformed,  \* a report that is no JSON, or not of the shape
    Invalid     \* the Date of an AUDIT_REFERENCE_DATE that is none

ASSUME CalendarAssumption ==
    DaysIn \in Seq(Nat \ {0}) /\ DaysIn # <<>>

(* The calendar *************************************************************)

\* Noon and midnight are told apart: an instant is half a day.
DAY == 2
Months == DOMAIN DaysIn

\* The number of days before a month; the year that follows begins after the
\* last.
DaysBefore[m \in 1..(Len(DaysIn) + 1)] ==
    IF m = 1 THEN 0 ELSE DaysBefore[m - 1] + DaysIn[m - 1]
YearEnd == DAY * DaysBefore[Len(DaysIn) + 1]
Instants == 0..YearEnd

\* What may be written in the form of a date.
Dates == [month : Nat, day : Nat]
RealDates == {d \in Dates : d.month \in Months /\ d.day \in 1..DaysIn[d.month]}

Entries == [id : {Absent} \cup STRING, advisory : Advisories \cup {Absent},
            expiresAt : Dates \cup {Absent}]
RawAdvisories == [github_advisory_id : Advisories \cup {Absent},
                  url : Advisories \cup {Absent}]

ASSUME LedgersAssumption == \A l \in Ledgers : l \in Seq(Entries)
ASSUME ReportsAssumption == \A r \in Reports : r \subseteq RawAdvisories
ASSUME MarkersAssumption ==
    /\ Absent \notin Advisories \cup Dates /\ Absent \notin Int
    /\ Unreadable \notin Ledgers \cup {Unlisted} /\ Unlisted \notin Ledgers
    /\ Malformed \notin Reports /\ Invalid \notin Int

ASSUME StatusesAssumption == {0, 1} \subseteq Statuses /\ Statuses \subseteq Nat

(* The decision *************************************************************)

\* The id the advisory gives, or the one in its url.
AdvisoryId(a) == IF a.github_advisory_id # Absent THEN a.github_advisory_id ELSE a.url

ParseAdvisories(report) == {AdvisoryId(a) : a \in report}

\* Date.UTC takes a day beyond the end of a month for one of the next; a date
\* is real if it comes back from there as it was written.
UTC(date) == DAY * (DaysBefore[date.month] + date.day - 1)
IsOn(instant, date) ==
    /\ date.month \in Months
    /\ DaysBefore[date.month] <= instant \div DAY
    /\ instant \div DAY < DaysBefore[date.month + 1]
    /\ date.day = instant \div DAY - DaysBefore[date.month] + 1

\* Mutant: the rolled-over day is taken.
RolledOverBoundary(expiresAt) ==
    IF expiresAt # Absent /\ expiresAt.month \in Months
    THEN UTC(expiresAt) + DAY ELSE Absent

\* The first instant an entry no longer covers.
ExpiryBoundary(expiresAt) ==
    IF expiresAt # Absent /\ expiresAt.month \in Months /\ IsOn(UTC(expiresAt), expiresAt)
    THEN UTC(expiresAt) + DAY ELSE Absent

Repeated(entries, i) ==
    entries[i].id # Absent /\ \E j \in 1..(i - 1) : entries[j].id = entries[i].id

EntryProblem(entries, i, now) ==
    LET boundary == ExpiryBoundary(entries[i].expiresAt)
    IN  Repeated(entries, i) \/ boundary = Absent \/ boundary <= now

\* Mutant: an entry matters only while its advisory is reported.
ReportedProblems(entries, advisories, now) ==
    {i \in DOMAIN entries :
        entries[i].advisory \in advisories /\ EntryProblem(entries, i, now)}
\* Every entry is checked, reported or not.
CheckLedger(entries, advisories, now) ==
    {i \in DOMAIN entries : EntryProblem(entries, i, now)}

Covered(advisories, entries) ==
    {a \in advisories : a # Absent /\ \E i \in DOMAIN entries : entries[i].advisory = a}

\* Mutant: bun's own failure is forgotten.
StatusForgotten(advisories, entries, now, status) ==
    IF \/ advisories \ Covered(advisories, entries) # {}
       \/ CheckLedger(entries, advisories, now) # {}
    THEN 1 ELSE 0

\* The exit code: 1 for anything unexpected, bun's own where nothing was to be
\* excused.
EvaluateAudit(advisories, entries, now, status) ==
    LET covered == Covered(advisories, entries)
        failed == advisories \ covered # {} \/ CheckLedger(entries, advisories, now) # {}
    IN  CASE failed -> 1
          [] ~failed /\ covered = {} -> status
          [] OTHER -> 0

(* The gate *****************************************************************)

VARIABLES
    clock,      \* this instant
    ledger,     \* the ledger's file
    gate,       \* the run of the gate, or the last one
    lapsed      \* (auxiliary) a run of the clock found an entry of this ledger
                \* no longer in force, and it was not edited since

vars == <<clock, ledger, gate, lapsed>>

\* pc: what it reads next; now, entries, report: what it has read; status:
\* that of bun; code: its own.
Begun(now, byClock) ==
    [pc |-> "ledger", now |-> now, byClock |-> byClock, entries |-> <<>>,
     report |-> {}, status |-> 0, code |-> 0]

Init ==
    /\ clock = 0
    /\ ledger \in Ledgers
    /\ gate = [Begun(0, TRUE) EXCEPT !.pc = "idle"]
    /\ lapsed = FALSE

Rests == gate.pc \in {"idle", "judged", "threw"}

\* AUDIT_REFERENCE_DATE, if set, replaces the clock.
Start ==
    /\ Rests
    /\ \/ gate' = Begun(clock, TRUE)
       \/ \E now \in Instants \cup {Invalid} : gate' = Begun(now, FALSE)
    /\ UNCHANGED <<clock, ledger, lapsed>>

\* main catches what is thrown, and fails.
Throw == gate' = [gate EXCEPT !.pc = "threw", !.code = 1]

\* Mutant: what was read is not looked at before bun runs.
ReadLedgerUnchecked ==
    /\ gate.pc = "ledger"
    /\ gate' = [gate EXCEPT !.pc = "bun", !.entries = ledger]
    /\ UNCHANGED <<clock, ledger, lapsed>>
ReadLedger ==
    /\ gate.pc = "ledger"
    /\ IF ledger = Unreadable THEN Throw
       ELSE gate' = [gate EXCEPT !.pc = "bun", !.entries = ledger]
    /\ UNCHANGED <<clock, ledger, lapsed>>

InForce(entry, instant) ==
    \E d \in {entry.expiresAt} \cap RealDates :
        instant < DAY * (DaysBefore[d.month] + d.day)

\* bun did not start, ended on a signal or printed no JSON; no output at all
\* is a report of nothing.
BunFails ==
    /\ gate.pc = "bun"
    /\ Throw
    /\ UNCHANGED <<clock, ledger, lapsed>>

\* A report is parsed and judged in one piece, against the time and the ledger
\* read before bun ran; a ledger that is no list and a reference date that is
\* none throw only here.
RunBunAudit ==
    /\ gate.pc = "bun"
    /\ \E report \in Reports \cup {Malformed}, status \in Statuses :
        IF report = Malformed \/ gate.entries = Unlisted \/ gate.now = Invalid
        THEN Throw /\ UNCHANGED lapsed
        ELSE LET advisories == ParseAdvisories(report)
                 code == EvaluateAudit(advisories, gate.entries, gate.now, status)
             IN  /\ gate' = [gate EXCEPT !.pc = "judged", !.report = report,
                                         !.status = status, !.code = code]
                 /\ lapsed' = (lapsed \/ /\ gate.byClock /\ code = 1 /\ ledger = gate.entries
                                         /\ \E i \in DOMAIN ledger :
                                               ~InForce(ledger[i], gate.now))
    /\ UNCHANGED <<clock, ledger>>

(* Around it ****************************************************************)

Tick ==
    /\ clock < YearEnd
    /\ clock' = clock + 1
    /\ UNCHANGED <<ledger, gate, lapsed>>

EditLedger ==
    /\ ledger' \in (Ledgers \cup {Unreadable, Unlisted}) \ {ledger}
    /\ lapsed' = FALSE
    /\ UNCHANGED <<clock, gate>>

Next == Start \/ ReadLedger \/ BunFails \/ RunBunAudit \/ Tick \/ EditLedger

Spec == Init /\ [][Next]_vars

(* Properties ***************************************************************)

\* Every variable holds a value of its kind; a run that goes on past the
\* Every variable holds a value of its kind; a run that goes on past the
\* ledger has one it could read, and one that judges has a list.
TypeOK ==
    /\ clock \in Instants
    /\ ledger \in Ledgers \cup {Unreadable, Unlisted}
    /\ gate.pc \in {"idle", "ledger", "bun", "judged", "threw"}
    /\ gate.now \in Instants \cup {Invalid}
    /\ gate.byClock \in BOOLEAN /\ (gate.byClock => gate.now <= clock)
    /\ gate.pc = "bun" => gate.entries \in Ledgers \cup {Unlisted}
    /\ gate.pc = "judged" => gate.entries \in Ledgers
    /\ gate.report \in Reports \cup {{}}
    /\ gate.status \in Statuses /\ gate.code \in Statuses
    /\ lapsed \in BOOLEAN

\* The promise, stated by days instead of instants: every advisory is named
\* by an entry, and every entry has an id of its own and a real date whose day
\* is not over.
Excused ==
    \A a \in gate.report :
        /\ AdvisoryId(a) # Absent
        /\ \E i \in DOMAIN gate.entries : gate.entries[i].advisory = AdvisoryId(a)
LedgerSound ==
    /\ \A i \in DOMAIN gate.entries : InForce(gate.entries[i], gate.now)
    /\ \A i, j \in DOMAIN gate.entries :
         gate.entries[i].id = gate.entries[j].id /\ gate.entries[i].id # Absent => i = j

\* A run passes only if every advisory reported to it was excused by an entry
\* in force when it began, every other entry was in force as well, and bun did
\* not fail with nothing to excuse; it fails, unless it threw, only for want of
\* that, and then with bun's status if that was all.
VerdictJustified ==
    gate.pc = "judged" =>
        /\ gate.code = 0 =>
            Excused /\ LedgerSound /\ (gate.report = {} => gate.status = 0)
        /\ gate.code # 0 =>
            ~Excused \/ ~LedgerSound \/ (gate.report = {} /\ gate.code = gate.status)

\* An exception cannot outlive its review: once a run of the clock has failed
\* on a ledger with an entry that is over, no run of the clock passes, whatever
\* is reported to it then, until the ledger is edited.
LapsedStaysFailed ==
    [][RunBunAudit /\ lapsed /\ lapsed' /\ gate.byClock => gate'.code = 1]_vars
=============================================================================
