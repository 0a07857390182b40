-------------------------- MODULE AuditGateProofs --------------------------
(* Theorems about AuditGate, for any calendar, ledgers and reports.         *)
EXTENDS AuditGate, WellFoundedInduction, TLAPS

(* The calendar *************************************************************)

\* A set of numbers that is not empty has a least member: this is how the
\* recursion of DaysBefore is shown to define what it says.
LEMMA Least ==
    ASSUME NEW T, T \subseteq Nat, T # {}
    PROVE  \E x \in T : \A y \in T : x <= y
<1> DEFINE R == OpToRel(<, Nat)
<1>1. IsWellFoundedOn(R, Nat)
  BY NatLessThanWellFounded
<1>2. \A x, y \in Nat : y < x => <<y, x>> \in R
  BY DEF OpToRel
<1> HIDE DEF R
<1>3. PICK x \in T : \A y \in T : <<y, x>> \notin R
  BY <1>1, WFMin, Zenon
<1>4. \A y \in T : ~(y < x)
  BY <1>2, <1>3, Zenon
<1>5. QED
  BY <1>3, <1>4

\* A table of days before each month, as far as the n-th.
IsTable(f, n) ==
    /\ f \in [1..(n + 1) -> Nat]
    /\ f[1] = 0
    /\ \A m \in 1..n : f[m + 1] = f[m] + DaysIn[m]

LEMMA TableExists == \A n \in 0..Len(DaysIn) : \E f : IsTable(f, n)
<1> DEFINE T == {n \in 0..Len(DaysIn) : ~\E f : IsTable(f, n)}
<1>1. Len(DaysIn) \in Nat /\ \A m \in 1..Len(DaysIn) : DaysIn[m] \in Nat
  BY CalendarAssumption
<1>2. ASSUME T # {} PROVE FALSE
  <2>1. PICK x \in T : \A y \in T : x <= y
    <3>1. T \subseteq Nat
      BY <1>1
    <3> HIDE DEF T
    <3>2. QED
      BY <1>2, <3>1, Least
  <2>2. x # 0
    <3>1. IsTable([m \in 1..1 |-> 0], 0)
      BY DEF IsTable
    <3>2. QED
      BY <2>1, <3>1
  <2>3. x \in 1..Len(DaysIn) /\ x - 1 \in 0..Len(DaysIn) /\ x - 1 \notin T
    BY <1>1, <2>1, <2>2
  <2>4. PICK f : IsTable(f, x - 1)
    BY <2>3
  <2> DEFINE g == [m \in 1..(x + 1) |-> IF m <= x THEN f[m] ELSE f[x] + DaysIn[x]]
  <2>5. IsTable(g, x)
    BY <1>1, <2>3, <2>4 DEF IsTable
  <2>6. QED
    BY <2>1, <2>5
<1>3. QED
  BY <1>2

\* The calendar's recursive function is that table.
LEMMA Calendar == IsTable(DaysBefore, Len(DaysIn))
<1> DEFINE N == Len(DaysIn)
           F(d) == [m \in 1..(N + 1) |-> IF m = 1 THEN 0 ELSE d[m - 1] + DaysIn[m - 1]]
<1>1. N \in Nat /\ \A m \in 1..N : DaysIn[m] \in Nat
  BY CalendarAssumption
<1>2. PICK f : IsTable(f, N)
  BY <1>1, TableExists
<1>3. f = F(f)
  BY <1>1, <1>2 DEF IsTable
<1>4. DaysBefore = CHOOSE d : d = F(d)
  BY DEF DaysBefore
<1>5. DaysBefore = F(DaysBefore)
  <2> HIDE DEF F
  <2>1. QED
    BY <1>3, <1>4, Zenon
<1>6. PICK d : d = DaysBefore /\ d = F(d)
  BY <1>5
<1>7. /\ d = [m \in 1..(N + 1) |-> d[m]]
      /\ d[1] = 0
      /\ \A m \in 1..N : d[m + 1] = d[m] + DaysIn[m]
  BY <1>1, <1>6
<1> DEFINE T == {m \in 1..(N + 1) : d[m] \notin Nat}
<1>8. ASSUME T # {} PROVE FALSE
  <2>1. PICK x \in T : \A y \in T : x <= y
    <3>1. T \subseteq Nat
      BY <1>1
    <3> HIDE DEF T
    <3>2. QED
      BY <1>8, <3>1, Least
  <2>2. x \in 2..(N + 1)
    BY <1>1, <1>7, <2>1
  <2>3. PICK y \in 1..N : x = y + 1 /\ y \in 1..(N + 1) /\ y < x
    <3>1. x - 1 \in 1..N /\ x = (x - 1) + 1 /\ x - 1 \in 1..(N + 1) /\ x - 1 < x
      BY <1>1, <2>2
    <3>2. QED
      BY <3>1
  <2>4. d[y] \in Nat
    BY <1>1, <2>1, <2>3
  <2>5. d[x] = d[y] + DaysIn[y] /\ DaysIn[y] \in Nat
    BY <1>1, <1>7, <2>3
  <2>6. QED
    BY <2>1, <2>4, <2>5
<1>9. QED
  BY <1>1, <1>6, <1>7, <1>8 DEF IsTable

LEMMA DateTypes ==
    /\ DaysBefore \in [1..(Len(DaysIn) + 1) -> Nat]
    /\ \A m \in Months : /\ m \in Nat /\ m + 1 \in 1..(Len(DaysIn) + 1)
                         /\ m \in 1..(Len(DaysIn) + 1) /\ DaysIn[m] \in Nat \ {0}
                         /\ DaysBefore[m] \in Nat
                         /\ DaysBefore[m + 1] = DaysBefore[m] + DaysIn[m]
<1>1. /\ Months = 1..Len(DaysIn) /\ Len(DaysIn) \in Nat
      /\ \A m \in Months : DaysIn[m] \in Nat \ {0}
  BY CalendarAssumption DEF Months
<1>2. QED
  BY <1>1, Calendar DEF IsTable

(* One entry ****************************************************************)

\* The round trip through Date.UTC tells the real dates.
LEMMA RoundTrip ==
    ASSUME NEW d \in Dates, d.month \in Months
    PROVE  IsOn(UTC(d), d) <=> d.day \in 1..DaysIn[d.month]
<1> DEFINE B == DaysBefore[d.month]
           k == B + d.day - 1
<1>1. /\ d.month \in Nat /\ d.day \in Nat /\ B \in Nat /\ DaysIn[d.month] \in Nat
      /\ DaysBefore[d.month + 1] = B + DaysIn[d.month]
  BY DateTypes DEF Dates
<1>2. UTC(d) \div DAY = k
  <2>1. k \in Int /\ UTC(d) = 2 * k
    BY <1>1 DEF UTC, DAY
  <2> HIDE DEF k
  <2>2. QED
    BY <2>1 DEF DAY
<1>3. IsOn(UTC(d), d) <=>
        B <= k /\ k < B + DaysIn[d.month] /\ d.day = k - B + 1
  BY <1>1, <1>2 DEF IsOn
<1>4. QED
  BY <1>1, <1>3

\* An entry is in force exactly before the boundary computed for it.
LEMMA BoundaryInForce ==
    ASSUME NEW e \in Entries, NEW now \in Int
    PROVE  InForce(e, now) <=>
             ~(ExpiryBoundary(e.expiresAt) = Absent \/ ExpiryBoundary(e.expiresAt) <= now)
<1> DEFINE d == e.expiresAt
<1>1. d \in Dates \cup {Absent}
  BY DEF Entries
<1>2. CASE d \in RealDates
  <2>1. d \in Dates /\ d # Absent /\ d.month \in Months /\ d.day \in 1..DaysIn[d.month]
    BY <1>2, MarkersAssumption DEF RealDates
  <2>2. IsOn(UTC(d), d)
    BY <2>1, RoundTrip
  <2>3. ExpiryBoundary(d) = UTC(d) + DAY
    BY <2>1, <2>2 DEF ExpiryBoundary
  <2>4. d.day \in Nat /\ DaysBefore[d.month] \in Nat
    BY <2>1, DateTypes DEF Dates
  <2>5. UTC(d) + DAY = DAY * (DaysBefore[d.month] + d.day)
    BY <2>4 DEF UTC, DAY
  <2>6. UTC(d) + DAY \in Int
    BY <2>4, <2>5 DEF DAY
  <2>7. InForce(e, now) <=> now < UTC(d) + DAY
    BY <1>2, <2>5 DEF InForce
  <2>8. QED
    BY <2>3, <2>6, <2>7, MarkersAssumption
<1>3. CASE d \notin RealDates
  <2>1. ~InForce(e, now)
    BY <1>3 DEF InForce
  <2>2. d # Absent /\ d.month \in Months => ~IsOn(UTC(d), d)
    BY <1>1, <1>3, RoundTrip DEF RealDates
  <2>3. ExpiryBoundary(d) = Absent
    BY <2>2 DEF ExpiryBoundary
  <2>4. QED
    BY <2>1, <2>3
<1>4. QED
  BY <1>2, <1>3

\* What is in force at an instant was so before.
LEMMA InForceEarlier ==
    ASSUME NEW e \in Entries, NEW m \in Int, NEW n \in Int, m <= n, InForce(e, n)
    PROVE  InForce(e, m)
<1>1. PICK d \in {e.expiresAt} \cap RealDates :
        n < DAY * (DaysBefore[d.month] + d.day)
  BY DEF InForce
<1>2. d.day \in Nat /\ DaysBefore[d.month] \in Nat
  BY <1>1, DateTypes DEF RealDates, Dates
<1>3. QED
  BY <1>1, <1>2 DEF InForce, DAY

(* The decision *************************************************************)

\* What a ledger promises at an instant, of any run.
Sound(entries, now) ==
    /\ \A i \in DOMAIN entries : InForce(entries[i], now)
    /\ \A i, j \in DOMAIN entries :
         entries[i].id = entries[j].id /\ entries[i].id # Absent => i = j

\* The ledger's check finds nothing exactly where it is sound.
LEMMA CheckSound ==
    ASSUME NEW entries \in Seq(Entries), NEW now \in Int, NEW advisories
    PROVE  CheckLedger(entries, advisories, now) = {} <=> Sound(entries, now)
<1> DEFINE N == Len(entries)
<1>1. N \in Nat /\ DOMAIN entries = 1..N /\ \A i \in 1..N : entries[i] \in Entries
  OBVIOUS
<1>2. \A i \in 1..N :
        EntryProblem(entries, i, now) <=> Repeated(entries, i) \/ ~InForce(entries[i], now)
  BY <1>1, BoundaryInForce DEF EntryProblem
<1>3. (\A i \in 1..N : ~Repeated(entries, i)) <=>
        \A i, j \in 1..N : entries[i].id = entries[j].id /\ entries[i].id # Absent => i = j
  BY <1>1 DEF Repeated
<1>4. CheckLedger(entries, advisories, now) = {} <=>
        \A i \in 1..N : ~EntryProblem(entries, i, now)
  BY <1>1 DEF CheckLedger
<1>5. QED
  BY <1>1, <1>2, <1>3, <1>4 DEF Sound

\* Which advisories a report names, and whether the ledger names each of them.
AllNamed(report, entries) ==
    \A a \in report :
        /\ AdvisoryId(a) # Absent
        /\ \E i \in DOMAIN entries : entries[i].advisory = AdvisoryId(a)

\* The exit code, as the promise reads it.
LEMMA VerdictExact ==
    ASSUME NEW entries \in Seq(Entries), NEW now \in Int, NEW report,
           NEW status \in Statuses,
           NEW code, code = EvaluateAudit(ParseAdvisories(report), entries, now, status)
    PROVE  /\ code \in Statuses
           /\ code = 0 => /\ AllNamed(report, entries) /\ Sound(entries, now)
                          /\ report = {} => status = 0
           /\ code # 0 => \/ ~AllNamed(report, entries)
                          \/ ~Sound(entries, now)
                          \/ report = {} /\ code = status
           /\ ~Sound(entries, now) => code = 1
<1> DEFINE named == ParseAdvisories(report)
           covered == Covered(named, entries)
           problems == CheckLedger(entries, named, now)
<1>1. problems = {} <=> Sound(entries, now)
  BY CheckSound
<1>2. named \ covered = {} <=> AllNamed(report, entries)
  BY DEF ParseAdvisories, Covered, AllNamed
<1>3. covered \subseteq named /\ (named = {} <=> report = {}) /\ {0, 1} \subseteq Statuses
  BY StatusesAssumption DEF Covered, ParseAdvisories
<1> HIDE DEF named, covered, problems
<1>4. code = CASE named \ covered # {} \/ problems # {} -> 1
               [] ~(named \ covered # {} \/ problems # {}) /\ covered = {} -> status
               [] OTHER -> 0
  BY DEF EvaluateAudit, named, covered, problems
<1>5. CASE named \ covered # {} \/ problems # {}
  BY <1>1, <1>2, <1>3, <1>4, <1>5
<1>6. CASE ~(named \ covered # {} \/ problems # {}) /\ covered = {}
  <2>1. named = {} /\ code = status
    BY <1>4, <1>6
  <2>2. QED
    BY <1>1, <1>2, <1>3, <1>6, <2>1
<1>7. CASE ~(named \ covered # {} \/ problems # {}) /\ covered # {}
  BY <1>1, <1>2, <1>3, <1>4, <1>7
<1>8. QED
  BY <1>5, <1>6, <1>7

(* The inductive invariant **************************************************)

Gates ==
    [pc : {"idle", "ledger", "bun", "judged", "threw"}, now : Instants \cup {Invalid},
     byClock : BOOLEAN, entries : Ledgers \cup {<<>>, Unlisted},
     report : Reports \cup {{}}, status : Statuses, code : Statuses]

\* The code is what the decision gave for what the run has read.
Judged ==
    gate.pc = "judged" =>
        /\ gate.now \in Instants
        /\ gate.code = EvaluateAudit(ParseAdvisories(gate.report), gate.entries, gate.now,
                                     gate.status)

Over(entries, now) == \E i \in DOMAIN entries : ~InForce(entries[i], now)

\* A ledger that lapsed has an entry that is over now, and was over for the
\* run of the clock that is under way, if it began since.
LapseKnown ==
    lapsed =>
        /\ ledger \in Ledgers /\ Over(ledger, clock)
        /\ gate.byClock /\ gate.pc = "ledger" => Over(ledger, gate.now)
        /\ gate.byClock /\ gate.pc = "bun" =>
             gate.entries \in Ledgers /\ Over(gate.entries, gate.now)

IInv ==
    /\ clock \in Instants
    /\ ledger \in Ledgers \cup {Unreadable, Unlisted}
    /\ gate \in Gates
    /\ gate.byClock => gate.now \in Instants /\ gate.now <= clock
    /\ gate.pc = "bun" => gate.entries \in Ledgers \cup {Unlisted}
    /\ gate.pc = "judged" => gate.entries \in Ledgers
    /\ lapsed \in BOOLEAN
    /\ Judged
    /\ LapseKnown

LEMMA YearType == YearEnd \in Nat /\ Instants \subseteq Int /\ 0 \in Instants
<1>1. Len(DaysIn) + 1 \in 1..(Len(DaysIn) + 1)
  BY CalendarAssumption
<1>2. DaysBefore[Len(DaysIn) + 1] \in Nat
  BY <1>1, DateTypes
<1>3. YearEnd \in Nat
  BY <1>2 DEF YearEnd, DAY
<1>4. QED
  BY <1>3 DEF Instants

\* A record that begins a run.
LEMMA BegunType ==
    ASSUME NEW now \in Instants \cup {Invalid}, NEW byClock \in BOOLEAN
    PROVE  /\ Begun(now, byClock) \in Gates
           /\ Begun(now, byClock).pc = "ledger" /\ Begun(now, byClock).now = now
           /\ Begun(now, byClock).byClock = byClock
BY StatusesAssumption DEF Begun, Gates

\* What is over stays over.
LEMMA OverLater ==
    ASSUME NEW entries \in Ledgers, NEW m \in Instants, NEW n \in Instants, m <= n,
           Over(entries, m)
    PROVE  Over(entries, n)
<1>1. entries \in Seq(Entries) /\ m \in Int /\ n \in Int
  BY LedgersAssumption, YearType
<1>2. PICK i \in DOMAIN entries : ~InForce(entries[i], m)
  BY DEF Over
<1>3. entries[i] \in Entries
  BY <1>1
<1>4. ~InForce(entries[i], n)
  BY <1>1, <1>2, <1>3, InForceEarlier
<1>5. QED
  BY <1>4 DEF Over

LEMMA InitIInv == Init => IInv
<1> SUFFICES ASSUME Init PROVE IInv
  OBVIOUS
<1>1. /\ gate \in Gates /\ gate.pc = "idle" /\ gate.now = 0 /\ clock = 0
  <2> DEFINE b == Begun(0, TRUE)
  <2>1. b \in Gates /\ b.now = 0
    BY YearType, BegunType
  <2>2. gate = [b EXCEPT !.pc = "idle"] /\ clock = 0
    BY DEF Init
  <2> HIDE DEF b
  <2>3. QED
    BY <2>1, <2>2 DEF Gates
<1>2. gate.byClock => gate.now \in Instants /\ gate.now <= clock
  BY <1>1, YearType
<1>3. clock \in Instants /\ ledger \in Ledgers /\ lapsed = FALSE
  BY YearType DEF Init
<1>4. QED
  BY <1>1, <1>2, <1>3 DEF IInv, Judged, LapseKnown

LEMMA StepIInv == IInv /\ [Next]_vars => IInv'
<1> SUFFICES ASSUME IInv, [Next]_vars PROVE IInv'
  OBVIOUS
<1> USE DEF IInv
<1>1. CASE Start
  <2>1. PICK now \in Instants \cup {Invalid}, byClock \in BOOLEAN :
          /\ gate' = Begun(now, byClock) /\ (byClock => now = clock)
    BY <1>1 DEF Start
  <2>2. /\ gate' \in Gates /\ gate'.pc = "ledger" /\ gate'.now = now
        /\ gate'.byClock = byClock /\ UNCHANGED <<clock, ledger, lapsed>>
    BY <1>1, <2>1, BegunType DEF Start
  <2>3. byClock => gate'.now \in Instants /\ gate'.now <= clock
    BY <2>1, <2>2, YearType
  <2>4. LapseKnown'
    BY <2>1, <2>2 DEF LapseKnown, Over
  <2>5. QED
    BY <2>2, <2>3, <2>4 DEF Judged
<1>2. CASE Throw /\ UNCHANGED <<clock, ledger, lapsed>>
  <2>1. /\ gate' \in Gates /\ gate'.pc = "threw"
        /\ gate'.now = gate.now /\ gate'.byClock = gate.byClock
    BY <1>2, StatusesAssumption DEF Throw, Gates
  <2>2. QED
    BY <1>2, <2>1 DEF Judged, LapseKnown, Over
<1>3. CASE ReadLedger
  <2>1. CASE ledger = Unreadable
    BY <1>2, <1>3, <2>1 DEF ReadLedger
  <2>2. CASE ledger # Unreadable
    <3>1. /\ gate' \in Gates /\ gate'.pc = "bun" /\ gate'.entries = ledger
          /\ gate'.now = gate.now /\ gate'.byClock = gate.byClock
          /\ gate.pc = "ledger" /\ UNCHANGED <<clock, ledger, lapsed>>
      BY <1>3, <2>2 DEF ReadLedger, Gates
    <3>2. QED
      BY <2>2, <3>1 DEF Judged, LapseKnown, Over
  <2>3. QED
    BY <2>1, <2>2
<1>4. CASE BunFails
  BY <1>2, <1>4 DEF BunFails
<1>5. CASE RunBunAudit
  <2>1. PICK report \in Reports \cup {Malformed}, status \in Statuses :
          IF report = Malformed \/ gate.entries = Unlisted \/ gate.now = Invalid
          THEN Throw /\ UNCHANGED lapsed
          ELSE LET advisories == ParseAdvisories(report)
                   code == EvaluateAudit(advisories, gate.entries, gate.now, status)
               IN  /\ gate' = [gate EXCEPT !.pc = "judged", !.report = report,
                                           !.status = status, !.code = code]
                   /\ lapsed' = (lapsed \/ /\ gate.byClock /\ code = 1 /\ ledger = gate.entries
                                           /\ \E i \in DOMAIN ledger :
                                                 ~InForce(ledger[i], gate.now))
    BY <1>5 DEF RunBunAudit
  <2>2. CASE report = Malformed \/ gate.entries = Unlisted \/ gate.now = Invalid
    BY <1>2, <1>5, <2>1, <2>2 DEF RunBunAudit
  <2>3. CASE ~(report = Malformed \/ gate.entries = Unlisted \/ gate.now = Invalid)
    <3> DEFINE code == EvaluateAudit(ParseAdvisories(report), gate.entries, gate.now, status)
    <3>1. /\ gate.pc = "bun" /\ gate.entries \in Ledgers /\ gate.entries \in Seq(Entries)
          /\ gate.now \in Instants /\ gate.now \in Int /\ report \in Reports
          /\ UNCHANGED <<clock, ledger>>
      BY <1>5, <2>3, LedgersAssumption, YearType DEF RunBunAudit, Gates
    <3>2. code \in Statuses
      <4> HIDE DEF code
      <4>1. code = EvaluateAudit(ParseAdvisories(report), gate.entries, gate.now, status)
        BY DEF code
      <4>2. QED
        BY <3>1, <4>1, VerdictExact
    <3>3. /\ gate' = [gate EXCEPT !.pc = "judged", !.report = report,
                                  !.status = status, !.code = code]
          /\ lapsed' \in BOOLEAN
          /\ lapsed' => lapsed \/ (gate.byClock /\ ledger = gate.entries /\ Over(ledger, gate.now))
      BY <2>1, <2>3 DEF Over
    <3> HIDE DEF code
    <3>4. /\ gate' \in Gates /\ gate'.pc = "judged" /\ gate'.report = report
          /\ gate'.entries = gate.entries /\ gate'.now = gate.now
          /\ gate'.byClock = gate.byClock /\ gate'.status = status /\ gate'.code = code
      BY <3>1, <3>2, <3>3 DEF Gates
    <3>5. Judged'
      BY <3>1, <3>4 DEF Judged, code
    <3>6. lapsed' => ledger \in Ledgers /\ Over(ledger, clock)
      BY <3>1, <3>3, OverLater DEF LapseKnown
    <3>7. LapseKnown'
      BY <3>1, <3>4, <3>6 DEF LapseKnown, Over
    <3>8. QED
      BY <3>1, <3>3, <3>4, <3>5, <3>7
  <2>4. QED
    BY <2>2, <2>3
<1>6. CASE Tick
  <2>1. clock' \in Instants /\ clock <= clock' /\ UNCHANGED <<ledger, gate, lapsed>>
    BY <1>6, YearType DEF Tick, Instants
  <2>2. gate.byClock => gate.now <= clock'
    <3>1. clock \in Int /\ clock' \in Int /\ (gate.byClock => gate.now \in Int)
      BY <2>1, YearType
    <3>2. QED
      BY <2>1, <3>1
  <2>3. lapsed => Over(ledger, clock')
    BY <2>1, OverLater DEF LapseKnown
  <2>4. LapseKnown'
    BY <2>1, <2>3 DEF LapseKnown, Over
  <2>5. QED
    BY <2>1, <2>2, <2>4 DEF Judged
<1>7. CASE EditLedger
  BY <1>7 DEF EditLedger, Judged, LapseKnown
<1>8. CASE UNCHANGED vars
  BY <1>8 DEF vars, Judged, LapseKnown, Over
<1>9. QED
  BY <1>1, <1>3, <1>4, <1>5, <1>6, <1>7, <1>8 DEF Next

LEMMA AlwaysIInv == Spec => []IInv
<1>1. QED
  BY InitIInv, StepIInv, PTL DEF Spec

(* Theorems *****************************************************************)

\* A run judges only a ledger it could read, against a time it could read.
THEOREM TypeSafety == Spec => []TypeOK
<1>1. IInv => TypeOK
  BY DEF IInv, TypeOK, Gates
<1>2. QED
  BY AlwaysIInv, <1>1, PTL

\* The exit code means what the gate promises, for any ledger and report: the
\* round trip through instants and the two sets of findings say the same as
\* the days and the entries.
THEOREM VerdictSafety == Spec => []VerdictJustified
<1>1. IInv => VerdictJustified
  <2> SUFFICES ASSUME IInv, gate.pc = "judged" PROVE VerdictJustified
    BY DEF VerdictJustified
  <2>1. /\ gate.entries \in Seq(Entries) /\ gate.now \in Int /\ gate.status \in Statuses
        /\ gate.code = EvaluateAudit(ParseAdvisories(gate.report), gate.entries, gate.now,
                                     gate.status)
    BY LedgersAssumption, YearType DEF IInv, Judged, Gates
  <2>2. /\ gate.code = 0 => /\ AllNamed(gate.report, gate.entries)
                            /\ Sound(gate.entries, gate.now)
                            /\ gate.report = {} => gate.status = 0
        /\ gate.code # 0 => \/ ~AllNamed(gate.report, gate.entries)
                            \/ ~Sound(gate.entries, gate.now)
                            \/ gate.report = {} /\ gate.code = gate.status
    BY <2>1, VerdictExact
  <2>3. /\ AllNamed(gate.report, gate.entries) <=> Excused
        /\ Sound(gate.entries, gate.now) <=> LedgerSound
    BY DEF AllNamed, Excused, Sound, LedgerSound
  <2>4. QED
    BY <2>2, <2>3 DEF VerdictJustified
<1>2. QED
  BY AlwaysIInv, <1>1, PTL

\* Once a run of the clock has failed on an entry that is over, every later run
\* of the clock fails, until the ledger is edited: time brings no entry back.
THEOREM LapsedSafety == Spec => LapsedStaysFailed
<1>1. IInv /\ [Next]_vars =>
        [RunBunAudit /\ lapsed /\ lapsed' /\ gate.byClock => gate'.code = 1]_vars
  <2> SUFFICES ASSUME IInv, RunBunAudit, lapsed, gate.byClock PROVE gate'.code = 1
    OBVIOUS
  <2>1. /\ gate \in Gates /\ gate.pc = "bun" /\ Over(gate.entries, gate.now)
        /\ gate.entries \in Seq(Entries) /\ gate.now \in Int
    BY LedgersAssumption, YearType DEF IInv, LapseKnown, RunBunAudit
  <2>2. PICK report \in Reports \cup {Malformed}, status \in Statuses :
          \/ Throw
          \/ gate' = [gate EXCEPT !.pc = "judged", !.report = report, !.status = status,
                        !.code = EvaluateAudit(ParseAdvisories(report), gate.entries,
                                               gate.now, status)]
    BY DEF RunBunAudit
  <2>3. CASE Throw
    BY <2>1, <2>3 DEF Throw, Gates
  <2>4. CASE gate' = [gate EXCEPT !.pc = "judged", !.report = report, !.status = status,
                        !.code = EvaluateAudit(ParseAdvisories(report), gate.entries,
                                               gate.now, status)]
    <3>1. gate'.code = EvaluateAudit(ParseAdvisories(report), gate.entries, gate.now, status)
      BY <2>1, <2>4 DEF Gates
    <3>2. ~Sound(gate.entries, gate.now) => gate'.code = 1
      BY <2>1, <3>1, VerdictExact
    <3>3. QED
      BY <2>1, <3>2 DEF Over, Sound
  <2>5. QED
    BY <2>2, <2>3, <2>4
<1>2. QED
  BY AlwaysIInv, <1>1, PTL DEF Spec, LapsedStaysFailed
=============================================================================
