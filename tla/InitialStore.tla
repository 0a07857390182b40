---------------------------- MODULE InitialStore ----------------------------
(* Building the fixture store of a simulation (simulation.ts, entities.ts,  *)
(* entities/repository.ts, store/index.ts): the initial state is parsed,    *)
(* identifiers are allocated where the caller gave none, an installation is *)
(* made for each organisation that has none, and the rows are keyed into    *)
(* tables.  All of it runs without an await, so simulations of one process  *)
(* are built one after another; they share the repository id counter, a     *)
(* variable of the module.  One action is one iteration of a loop.          *)
EXTENDS Integers, Sequences, FiniteSets

CONSTANTS
    Sims,       \* simulations a process builds
    Fixtures,   \* initial states callers pass
    Logins,     \* names of accounts
    Keys,       \* owner-and-name keys of repositories, branches and blobs
    FirstInstallationId,    \* 2000
    FirstRepositoryId,      \* 3000
    MaxExact,   \* the number adding one to which changes nothing (2^53)
    ResetValues,    \* what resetNextRepositoryId is called with
    NoId,       \* an identifier the caller left out
    None        \* no simulation is being built

ASSUME NumbersAssumption ==
    /\ FirstInstallationId \in Nat \ {0}
    /\ FirstRepositoryId \in Nat
    /\ MaxExact \in Nat
    /\ FirstInstallationId <= MaxExact /\ FirstRepositoryId <= MaxExact
    /\ ResetValues \subseteq 0..MaxExact
    /\ NoId \notin Int

\* Whole numbers up to the last that can be counted from (a bound: numbers
\* above it, and fractions, are left out).
Ids == {n \in Int : n <= MaxExact}
Installations == [id : Ids \cup {NoId}, account : Logins, target : Ids \cup {NoId}]
Organizations == [id : Ids, login : Logins]
Repositories == [id : Ids \cup {NoId}, key : Keys]

\* malformed: some row, repositories apart, fails its schema.  keyed: the
\* tables of branches and of blobs, by the store keys of their rows.
ASSUME FixturesAssumption ==
    Fixtures \subseteq
        [malformed : BOOLEAN, installations : Seq(Installations),
         organizations : Seq(Organizations), repositories : Seq(Repositories),
         keyed : Seq(Seq(Keys))]

ASSUME NoneAssumption == None \notin Sims

VARIABLES
    nextGeneratedRepositoryId,  \* the counter all simulations share
    current,    \* the simulation being built
    phase,      \* the loop its parse is in
    at,         \* the element that loop is at
    fixture,    \* its initial state
    repositories, installations,    \* the rows parsed so far
    usedInstallationIds, nextInstallationId,    \* of this parse only
    stores      \* what came of each simulation

parse == <<current, phase, at, fixture, repositories, installations,
           usedInstallationIds, nextInstallationId>>
vars == <<nextGeneratedRepositoryId, parse, stores>>

EmptyFixture == [malformed |-> FALSE, installations |-> <<>>, organizations |-> <<>>,
                 repositories |-> <<>>, keyed |-> <<>>]

\* What became of a simulation.  Tables are functions from keys to rows.
Store(result, from, insts, repos) ==
    [status |-> result, from |-> from, installations |-> insts, repositories |-> repos]
NoStore(result) == Store(result, EmptyFixture, <<>>, <<>>)

Init ==
    /\ nextGeneratedRepositoryId = FirstRepositoryId
    /\ current = None
    /\ phase = "idle"
    /\ at = 1
    /\ fixture = EmptyFixture
    /\ repositories = <<>>
    /\ installations = <<>>
    /\ usedInstallationIds = {}
    /\ nextInstallationId = 0
    /\ stores = [s \in Sims |-> NoStore("none")]

(* Helpers ******************************************************************)

\* Mutant: the sum is discarded.
IncrementLost(n) == n

\* A double has no fraction left to count with above 2^53.
Increment(n) == IF n < MaxExact THEN n + 1 ELSE n

Greatest(S) == CHOOSE n \in S : \A m \in S : m <= n
Elements(s) == {s[i] : i \in DOMAIN s}
NoDuplicates(s) == Cardinality(Elements(s)) = Len(s)

\* The ids the caller gave, and the accounts with an installation of theirs.
GivenIds(rows) == {row.id : row \in Elements(rows)} \ {NoId}
ExistingAccounts(f) == {i.account : i \in Elements(f.installations)}

\* convertObjByKey refuses a key it has seen; convertObjToProp keeps the row
\* that came last.
ConvertObjByKey(rows) ==
    [k \in {r.key : r \in Elements(rows)} |-> (CHOOSE r \in Elements(rows) : r.key = k).id]
ConvertObjToProp(rows) ==
    [k \in {r.id : r \in Elements(rows)} |->
        rows[Greatest({i \in DOMAIN rows : rows[i].id = k})]]

(* Building a simulation ****************************************************)

Enter(next) == phase' = next /\ at' = 1

\* Parsing allocates nothing that outlives it but repository ids.
Forget ==
    /\ current' = None
    /\ Enter("idle")
    /\ fixture' = EmptyFixture
    /\ repositories' = <<>>
    /\ installations' = <<>>
    /\ usedInstallationIds' = {}
    /\ nextInstallationId' = 0

\* Mutant: every parse counts from the beginning.
SimulateAfresh(s) ==
    /\ current = None
    /\ stores[s].status = "none"
    /\ \E f \in Fixtures :
        /\ fixture' = f
        /\ current' = s
    /\ Enter("repositories")
    /\ nextGeneratedRepositoryId' = FirstRepositoryId
    /\ UNCHANGED <<repositories, installations,
                   usedInstallationIds, nextInstallationId, stores>>

Simulate(s) ==
    /\ current = None
    /\ stores[s].status = "none"
    /\ \E f \in Fixtures :
        /\ fixture' = f
        /\ current' = s
    /\ Enter("repositories")
    /\ UNCHANGED <<nextGeneratedRepositoryId, repositories, installations,
                   usedInstallationIds, nextInstallationId, stores>>

\* No initial state: nothing is parsed and every table is empty.
SimulateUnseeded(s) ==
    /\ current = None
    /\ stores[s].status = "none"
    /\ stores' = [stores EXCEPT ![s] = NoStore("built")]
    /\ UNCHANGED <<nextGeneratedRepositoryId, parse>>

\* A repository's own transform runs as soon as its row is parsed, before
\* anything is known of the rest of the initial state.
ParseRepository ==
    /\ phase = "repositories"
    /\ at <= Len(fixture.repositories)
    /\ LET row == fixture.repositories[at]
           next == IF row.id = NoId THEN nextGeneratedRepositoryId ELSE row.id
       IN  /\ repositories' = Append(repositories, [row EXCEPT !.id = next])
           /\ nextGeneratedRepositoryId' =
                IF row.id = NoId THEN Increment(nextGeneratedRepositoryId)
                                 ELSE nextGeneratedRepositoryId
    /\ at' = at + 1
    /\ UNCHANGED <<current, phase, fixture, installations,
                   usedInstallationIds, nextInstallationId, stores>>

RejectInitialState ==
    /\ phase = "repositories"
    /\ at > Len(fixture.repositories)
    /\ fixture.malformed
    /\ stores' = [stores EXCEPT ![current] = NoStore("failed")]
    /\ Forget
    /\ UNCHANGED nextGeneratedRepositoryId

\* Mutant: allocation starts at the default, and the ids given are not kept.
TransformFromDefault ==
    /\ phase = "repositories"
    /\ at > Len(fixture.repositories)
    /\ ~fixture.malformed
    /\ usedInstallationIds' = {}
    /\ nextInstallationId' = FirstInstallationId
    /\ Enter("installations")
    /\ UNCHANGED <<nextGeneratedRepositoryId, current, fixture, repositories,
                   installations, stores>>

\* The store's transform: allocation starts above every id the caller gave.
TransformInitialState ==
    /\ phase = "repositories"
    /\ at > Len(fixture.repositories)
    /\ ~fixture.malformed
    /\ usedInstallationIds' = GivenIds(fixture.installations)
    /\ nextInstallationId' =
         Increment(Greatest({FirstInstallationId - 1} \cup GivenIds(fixture.installations)))
    /\ Enter("installations")
    /\ UNCHANGED <<nextGeneratedRepositoryId, current, fixture, repositories,
                   installations, stores>>

\* Mutants: the row's own, absent, id is spread over the new one; the id is
\* handed out without being marked as used.
TakeNoInstallationId(row) ==
    /\ nextInstallationId \notin usedInstallationIds
    /\ installations' = Append(installations, row)
    /\ usedInstallationIds' = usedInstallationIds \cup {nextInstallationId}
    /\ nextInstallationId' = Increment(nextInstallationId)
TakeUnmarkedInstallationId(row) ==
    /\ nextInstallationId \notin usedInstallationIds
    /\ installations' = Append(installations, [row EXCEPT !.id = nextInstallationId])
    /\ UNCHANGED <<usedInstallationIds, nextInstallationId>>

\* getNextInstallationId: a free candidate is taken, and the next is its
\* successor; a candidate in use is passed over (PassOverUsedId).
TakeNextInstallationId(row) ==
    /\ nextInstallationId \notin usedInstallationIds
    /\ installations' = Append(installations, [row EXCEPT !.id = nextInstallationId])
    /\ usedInstallationIds' = usedInstallationIds \cup {nextInstallationId}
    /\ nextInstallationId' = Increment(nextInstallationId)

NormalizeInstallation ==
    /\ phase = "installations"
    /\ at <= Len(fixture.installations)
    /\ LET row == fixture.installations[at]
       IN  \/ /\ row.id # NoId
              /\ installations' = Append(installations, row)
              /\ UNCHANGED <<usedInstallationIds, nextInstallationId>>
           \/ row.id = NoId /\ TakeNextInstallationId(row)
    /\ at' = at + 1
    /\ UNCHANGED <<nextGeneratedRepositoryId, current, phase, fixture, repositories, stores>>

EndInstallations ==
    /\ phase = "installations"
    /\ at > Len(fixture.installations)
    /\ Enter("organizations")
    /\ UNCHANGED <<nextGeneratedRepositoryId, current, fixture, repositories,
                   installations, usedInstallationIds, nextInstallationId, stores>>

\* Only what the caller gave counts as an existing account, so two
\* organisations of one login both get an installation.
InstallOrganization ==
    /\ phase = "organizations"
    /\ at <= Len(fixture.organizations)
    /\ LET org == fixture.organizations[at]
       IN  IF org.login \in ExistingAccounts(fixture)
           THEN UNCHANGED <<installations, usedInstallationIds, nextInstallationId>>
           ELSE TakeNextInstallationId(
                    [id |-> NoId, account |-> org.login, target |-> org.id])
    /\ at' = at + 1
    /\ UNCHANGED <<nextGeneratedRepositoryId, current, phase, fixture, repositories, stores>>

\* while (usedInstallationIds.has(candidateId)) candidateId += 1
PassOverUsedId ==
    /\ \/ /\ phase = "installations"
          /\ at <= Len(fixture.installations)
          /\ fixture.installations[at].id = NoId
       \/ /\ phase = "organizations"
          /\ at <= Len(fixture.organizations)
          /\ fixture.organizations[at].login \notin ExistingAccounts(fixture)
    /\ nextInstallationId \in usedInstallationIds
    /\ nextInstallationId' = Increment(nextInstallationId)
    /\ UNCHANGED <<nextGeneratedRepositoryId, current, phase, at, fixture, repositories,
                   installations, usedInstallationIds, stores>>

\* The rows are keyed when the server asks for the store's schema.
RepositoryKeys == [i \in DOMAIN repositories |-> repositories[i].key]
KeysApart ==
    NoDuplicates(RepositoryKeys) /\ \A table \in Elements(fixture.keyed) : NoDuplicates(table)
KeyTables ==
    /\ phase = "organizations"
    /\ at > Len(fixture.organizations)
    /\ stores' = [stores EXCEPT ![current] =
         IF KeysApart
         THEN Store("built", fixture, ConvertObjToProp(installations),
                    ConvertObjByKey(repositories))
         ELSE NoStore("failed")]
    /\ Forget
    /\ UNCHANGED nextGeneratedRepositoryId

\* The exported reset, between two simulations.
ResetNextRepositoryId ==
    /\ current = None
    /\ nextGeneratedRepositoryId' \in ResetValues
    /\ UNCHANGED <<parse, stores>>

\* Bound: the reset is not called with an id that was handed out.
ResetsForward ==
    ResetNextRepositoryId => nextGeneratedRepositoryId' >= nextGeneratedRepositoryId

Parse ==
    \/ ParseRepository \/ RejectInitialState \/ TransformInitialState
    \/ NormalizeInstallation \/ EndInstallations \/ InstallOrganization
    \/ PassOverUsedId \/ KeyTables

Next ==
    \/ \E s \in Sims : Simulate(s) \/ SimulateUnseeded(s)
    \/ Parse
    \/ ResetNextRepositoryId

Spec == Init /\ [][Next]_vars

\* Nothing else runs until the call returns.
FairSpec == Spec /\ WF_vars(Parse)

(* Properties ***************************************************************)

\* Every variable holds a value of its kind: an id that is made for an
\* installation is a number, and so is every id of the tables.
TypeOK ==
    /\ nextGeneratedRepositoryId \in Ids
    /\ current \in Sims \cup {None}
    /\ phase \in {"idle", "repositories", "installations", "organizations"}
    /\ at \in Nat \ {0}
    /\ fixture \in Fixtures \cup {EmptyFixture}
    /\ repositories \in Seq([id : Ids, key : Keys])
    /\ installations \in Seq([id : Ids, account : Logins, target : Ids \cup {NoId}])
    /\ usedInstallationIds \subseteq Ids
    /\ nextInstallationId \in Ids

\* An id made for an installation is one the caller gave to none, wherever in
\* the list that one stands, and is made once.
InstallationIdsUnique ==
    \A i, j \in DOMAIN installations :
        i # j /\ installations[i].id = installations[j].id =>
            \A k \in {i, j} : k <= Len(fixture.installations)
                              /\ fixture.installations[k].id # NoId

\* The id of a row of a table is made where its caller left it out.
MadeFor(s, k) ==
    \A row \in Elements(stores[s].from.repositories) : row.key = k => row.id = NoId

\* Two repositories, of one simulation or of two, failed parses between them
\* or not, have one id only if it was given to one of the two.
RepositoryIdsUnique ==
    \A s, t \in Sims :
        \A k \in DOMAIN stores[s].repositories, l \in DOMAIN stores[t].repositories :
            <<s, k>> # <<t, l>> /\ MadeFor(s, k) /\ MadeFor(t, l) =>
                stores[s].repositories[k] # stores[t].repositories[l]

\* Both counters: an id that the code makes it has not made before, and for an
\* installation it is none that the caller gave.
GeneratedIdsUnique == InstallationIdsUnique /\ RepositoryIdsUnique

\* In a store built of installations whose ids differ, an organisation can be
\* found by its installation, and one whose login is its own and that no
\* installation named has exactly one, aimed at it.
OrganizationsInstalled ==
    \A s \in Sims :
        LET f == stores[s].from
            given == f.installations
            Of(org) == {i \in DOMAIN stores[s].installations :
                            stores[s].installations[i].account = org.login}
            ownLogin(org) == \A other \in Elements(f.organizations) :
                                other.login = org.login => other = org
        IN  /\ stores[s].status = "built"
            /\ \A i, j \in DOMAIN given :
                 i # j /\ given[i].id = given[j].id => given[i].id = NoId
            => \A org \in Elements(f.organizations) :
                 /\ Of(org) # {}
                 /\ org.login \notin ExistingAccounts(f) /\ ownLogin(org)
                        /\ NoDuplicates(f.organizations)
                    => /\ Cardinality(Of(org)) = 1
                       /\ \A i \in Of(org) : stores[s].installations[i].target = org.id

\* Ids are made from the greatest given on, or from the default; they suffice
\* if the last one needed can still be counted.
IdsToMake(f) ==
    Cardinality({i \in DOMAIN f.installations : f.installations[i].id = NoId})
    + Cardinality({m \in DOMAIN f.organizations :
                       f.organizations[m].login \notin ExistingAccounts(f)})
IdsSuffice(f) ==
    Greatest({FirstInstallationId - 1} \cup GivenIds(f.installations)) + IdsToMake(f) <= MaxExact

\* A simulation that is being built is built or refused, unless its caller
\* gave an installation an id so great that the ones to make do not all fit
\* below the last exact number: from there, and from nowhere else, the search
\* for a free id runs for ever, and the process with it.
AssemblyEnds ==
    /\ \A s \in Sims :
        current = s /\ (fixture.malformed \/ IdsSuffice(fixture)) ~> current = None
    /\ [][current # None /\ ~fixture.malformed /\ ~IdsSuffice(fixture)
            => current' = current]_vars
=============================================================================
