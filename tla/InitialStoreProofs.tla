------------------------- MODULE InitialStoreProofs -------------------------
(* Theorems about InitialStore, for any simulations, initial states and     *)
(* first ids.                                                               *)
EXTENDS InitialStore, FiniteSetTheorems, WellFoundedInduction, TLAPS

(* Numbers, lists and tables ************************************************)

\* A set of ids that is not empty has a greatest.
LEMMA GreatestId ==
    ASSUME NEW S, S \subseteq Ids, S # {}
    PROVE  Greatest(S) \in S /\ \A m \in S : m <= Greatest(S)
<1> DEFINE T == {MaxExact - n : n \in S}
           R == OpToRel(<, Nat)
<1>1. T \subseteq Nat /\ T # {} /\ \A n \in S : n \in Int
  <2>1. \A n \in S : n \in Int /\ MaxExact - n \in Nat
    BY NumbersAssumption DEF Ids
  <2>2. QED
    BY <2>1
<1>2. IsWellFoundedOn(R, Nat)
  BY NatLessThanWellFounded
<1>3. \A x, y \in Nat : y < x => <<y, x>> \in R
  BY DEF OpToRel
<1>4. PICK x \in T : \A y \in T : <<y, x>> \notin R
  <2> HIDE DEF R, T
  <2>1. QED
    BY <1>1, <1>2, WFMin, Zenon
<1>5. \A y \in T : ~(y < x)
  BY <1>1, <1>3, <1>4, Zenon
<1>6. PICK n \in S : x = MaxExact - n
  BY <1>4
<1>7. ASSUME NEW m \in S PROVE m <= n
  <2>1. MaxExact - m \in T
    OBVIOUS
  <2>2. ~(MaxExact - m < MaxExact - n)
    BY <1>5, <1>6, <2>1
  <2>3. m \in Int /\ n \in Int /\ MaxExact \in Int
    BY <1>1, NumbersAssumption
  <2>4. QED
    BY <2>2, <2>3
<1>8. QED
  BY <1>7 DEF Greatest

LEMMA IncrementType == \A n \in Ids : Increment(n) \in Ids
  BY NumbersAssumption DEF Ids, Increment

\* What the caller gave.
LEMMA GivenIdsAre ==
    ASSUME NEW rows
    PROVE  /\ \A i \in DOMAIN rows : rows[i].id # NoId => rows[i].id \in GivenIds(rows)
           /\ \A x \in GivenIds(rows) : x # NoId /\ \E i \in DOMAIN rows : x = rows[i].id
  BY DEF GivenIds, Elements

\* A list with as many elements as places has none twice.
LEMMA NoDuplicatesApart ==
    ASSUME NEW S, NEW s \in Seq(S), NoDuplicates(s)
    PROVE  \A i, j \in DOMAIN s : s[i] = s[j] => i = j
<1> DEFINE N == Len(s)
<1>1. N \in Nat /\ DOMAIN s = 1..N
  OBVIOUS
<1>2. s \in Surjection(1..N, Elements(s))
  <2>1. s \in [1..N -> Elements(s)]
    BY <1>1 DEF Elements
  <2>2. \A x \in Elements(s) : \E i \in 1..N : s[i] = x
    BY <1>1 DEF Elements
  <2>3. QED
    BY <2>1, <2>2 DEF Surjection
<1>3. IsFiniteSet(1..N) /\ Cardinality(1..N) = N
  BY <1>1, FS_Interval
<1>4. Cardinality(Elements(s)) = Cardinality(1..N)
  BY <1>3 DEF NoDuplicates
<1>5. s \in Injection(1..N, Elements(s))
  BY <1>2, <1>3, <1>4, FS_SurjSameCardinalityImpliesInj
<1>6. QED
  BY <1>1, <1>5 DEF Injection, IsInjective

\* The tables: an id leads to a row that has it, and a key to its row's id.
LEMMA TableByKey ==
    ASSUME NEW rows, NEW k \in DOMAIN ConvertObjByKey(rows)
    PROVE  \E i \in DOMAIN rows : rows[i].key = k /\ ConvertObjByKey(rows)[k] = rows[i].id
<1> DEFINE row == CHOOSE r \in Elements(rows) : r.key = k
<1>1. \E r \in Elements(rows) : r.key = k
  BY DEF ConvertObjByKey
<1>2. row \in Elements(rows) /\ row.key = k
  BY <1>1
<1>3. ConvertObjByKey(rows)[k] = row.id
  BY DEF ConvertObjByKey
<1> HIDE DEF row
<1>4. QED
  BY <1>2, <1>3 DEF Elements

\* Where ids differ, the table of installations has each row at its id.
LEMMA TableById ==
    ASSUME NEW S, NEW rows \in Seq(S),
           \A i, j \in DOMAIN rows : rows[i].id = rows[j].id => i = j
    PROVE  /\ \A i \in DOMAIN rows : rows[i].id \in DOMAIN ConvertObjToProp(rows)
                                     /\ ConvertObjToProp(rows)[rows[i].id] = rows[i]
           /\ \A k \in DOMAIN ConvertObjToProp(rows) :
                \E i \in DOMAIN rows : k = rows[i].id
<1>1. DOMAIN ConvertObjToProp(rows) = {r.id : r \in Elements(rows)}
  BY DEF ConvertObjToProp
<1>2. \A k \in DOMAIN ConvertObjToProp(rows) : \E i \in DOMAIN rows : k = rows[i].id
  BY <1>1 DEF Elements
<1>3. ASSUME NEW i \in DOMAIN rows
      PROVE  rows[i].id \in DOMAIN ConvertObjToProp(rows)
             /\ ConvertObjToProp(rows)[rows[i].id] = rows[i]
  <2>1. rows[i].id \in DOMAIN ConvertObjToProp(rows)
    BY <1>1 DEF Elements
  <2>2. {j \in DOMAIN rows : rows[j].id = rows[i].id} = {i}
    OBVIOUS
  <2>3. Greatest({i}) = i
    BY DEF Greatest
  <2>4. ConvertObjToProp(rows)[rows[i].id]
          = rows[Greatest({j \in DOMAIN rows : rows[j].id = rows[i].id})]
    BY <1>1, <2>1 DEF ConvertObjToProp
  <2>5. QED
    BY <2>1, <2>2, <2>3, <2>4
<1>4. QED
  BY <1>2, <1>3

(* The inductive invariant **************************************************)

\* A simulation is being built from one of the initial states, or none is.
Located ==
    /\ stores = [s \in Sims |-> stores[s]]
    /\ phase # "idle" <=> current # None
    /\ phase # "idle" => fixture \in Fixtures
    /\ phase \in {"idle", "repositories"} => installations = <<>>

\* The row at k is one the caller gave an id, or an installation of the
\* organisation at m.
HasGivenId(k) ==
    k <= Len(fixture.installations) /\ fixture.installations[k].id # NoId
InstallationOf(k, m) ==
    /\ installations[k].account = fixture.organizations[m].login
    /\ installations[k].target = fixture.organizations[m].id

Marked ==
    /\ GivenIds(fixture.installations) \subseteq usedInstallationIds
    /\ \A k \in DOMAIN installations :
        /\ installations[k].id \in usedInstallationIds
        /\ HasGivenId(k) => installations[k].id = fixture.installations[k].id
        /\ ~HasGivenId(k) => installations[k].id \notin GivenIds(fixture.installations)

\* The rows so far: those of the list, then one for each organisation passed
\* that had none.
Listed ==
    LET given == Len(fixture.installations)
    IN  /\ phase = "installations" => Len(installations) = at - 1 /\ at - 1 <= given
        /\ phase = "organizations" => Len(installations) >= given
        /\ \A k \in DOMAIN installations :
            k <= given => installations[k].account = fixture.installations[k].account

Uninstalled(m) == fixture.organizations[m].login \notin ExistingAccounts(fixture)
Added == {k \in DOMAIN installations : k > Len(fixture.installations)}
Passed == {m \in DOMAIN fixture.organizations : phase = "organizations" /\ m < at}

Installed ==
    /\ \A k \in Added : \E m \in Passed : Uninstalled(m) /\ InstallationOf(k, m)
    /\ \A m \in Passed : Uninstalled(m) => \E k \in Added : InstallationOf(k, m)
    /\ \A k, l \in Added :
        k # l /\ installations[k].account = installations[l].account =>
            \E m, n \in Passed :
                m # n /\ InstallationOf(k, m) /\ installations[k].account = fixture.organizations[n].login

Building == phase \in {"installations", "organizations"}

IInv ==
    /\ TypeOK
    /\ Located
    /\ Building => Marked /\ Listed /\ Installed
    /\ InstallationIdsUnique
    /\ OrganizationsInstalled

\* The rows parsed so far are those of the initial state, in its order.
Followed ==
    /\ phase = "idle" => repositories = <<>>
    /\ phase = "repositories" => at = Len(repositories) + 1
    /\ \A i \in DOMAIN repositories : i \in DOMAIN fixture.repositories
                                    /\ repositories[i].key = fixture.repositories[i].key

\* Every repository id that was made is below the counter, and is of one
\* repository, in a table or among the rows parsed.
MadeRow(i) == fixture.repositories[i].id = NoId
RepositoriesKnown ==
    /\ \A s \in Sims : \A k \in DOMAIN stores[s].repositories :
        /\ stores[s].repositories[k] \in Ids
        /\ MadeFor(s, k) => stores[s].repositories[k] < nextGeneratedRepositoryId
        /\ \A i \in DOMAIN repositories :
             MadeFor(s, k) /\ MadeRow(i) => stores[s].repositories[k] # repositories[i].id
    /\ \A i \in DOMAIN repositories :
        MadeRow(i) => repositories[i].id < nextGeneratedRepositoryId
    /\ \A i, j \in DOMAIN repositories :
        i # j /\ MadeRow(i) /\ MadeRow(j) => repositories[i].id # repositories[j].id
    /\ RepositoryIdsUnique

\* The counter has not come to the number from which it cannot count.
CountsExactly == nextGeneratedRepositoryId < MaxExact

(* Types ********************************************************************)

Rows == [id : Ids, account : Logins, target : Ids \cup {NoId}]

LEMMA FixtureFields ==
    ASSUME TypeOK
    PROVE  /\ fixture.malformed \in BOOLEAN
           /\ fixture.installations \in Seq(Installations)
           /\ fixture.organizations \in Seq(Organizations)
           /\ fixture.repositories \in Seq(Repositories)
<1>1. CASE fixture \in Fixtures
  BY <1>1, FixturesAssumption
<1>2. CASE fixture = EmptyFixture
  BY <1>2 DEF EmptyFixture
<1>3. QED
  BY <1>1, <1>2 DEF TypeOK

LEMMA AppendRow ==
    ASSUME NEW S, NEW s \in Seq(S), NEW x \in S
    PROVE  /\ Append(s, x) \in Seq(S) /\ Len(Append(s, x)) = Len(s) + 1
           /\ DOMAIN Append(s, x) = DOMAIN s \cup {Len(s) + 1}
           /\ \A i \in DOMAIN s : Append(s, x)[i] = s[i]
           /\ Append(s, x)[Len(s) + 1] = x
  OBVIOUS

\* A free id is taken for a row: what the row becomes, and the rest.
LEMMA Taking ==
    ASSUME TypeOK, NEW row \in Installations, TakeNextInstallationId(row)
    PROVE  /\ nextInstallationId \notin usedInstallationIds
           /\ usedInstallationIds' = usedInstallationIds \cup {nextInstallationId}
           /\ usedInstallationIds' \subseteq Ids /\ nextInstallationId' \in Ids
           /\ \E new \in Rows :
                /\ installations' = Append(installations, new)
                /\ new.id = nextInstallationId
                /\ new.account = row.account /\ new.target = row.target
<1> DEFINE new == [row EXCEPT !.id = nextInstallationId]
<1>1. nextInstallationId \in Ids /\ usedInstallationIds \subseteq Ids
  BY DEF TypeOK
<1>2. new \in Rows /\ new.id = nextInstallationId
      /\ new.account = row.account /\ new.target = row.target
  BY <1>1 DEF Installations, Rows
<1>3. installations' = Append(installations, new)
  BY DEF TakeNextInstallationId
<1>4. nextInstallationId' \in Ids
  BY <1>1, IncrementType DEF TakeNextInstallationId
<1> HIDE DEF new
<1>5. QED
  BY <1>1, <1>2, <1>3, <1>4 DEF TakeNextInstallationId

LEMMA OrganizationRow ==
    ASSUME NEW org \in Organizations
    PROVE  [id |-> NoId, account |-> org.login, target |-> org.id] \in Installations
  BY DEF Organizations, Installations

\* The row an installation that is normalised becomes.
LEMMA Normalizing ==
    ASSUME TypeOK, NormalizeInstallation
    PROVE  LET row == fixture.installations[at]
           IN  /\ row \in Installations /\ at \in DOMAIN fixture.installations
               /\ \E new \in Rows :
                    /\ installations' = Append(installations, new)
                    /\ new.account = row.account
                    /\ \/ /\ row.id # NoId /\ new.id = row.id
                          /\ UNCHANGED <<usedInstallationIds, nextInstallationId>>
                       \/ /\ row.id = NoId /\ new.id = nextInstallationId
                          /\ nextInstallationId \notin usedInstallationIds
                          /\ usedInstallationIds' = usedInstallationIds \cup {nextInstallationId}
                          /\ usedInstallationIds' \subseteq Ids /\ nextInstallationId' \in Ids
<1> DEFINE row == fixture.installations[at]
<1>1. at \in DOMAIN fixture.installations /\ row \in Installations
  BY FixtureFields DEF TypeOK, NormalizeInstallation
<1>2. CASE row.id # NoId /\ installations' = Append(installations, row)
           /\ UNCHANGED <<usedInstallationIds, nextInstallationId>>
  <2>1. row \in Rows
    BY <1>1, <1>2 DEF Installations, Rows
  <2> HIDE DEF row
  <2>2. QED
    BY <1>1, <1>2, <2>1 DEF row
<1>3. CASE row.id = NoId /\ TakeNextInstallationId(row)
  <2> HIDE DEF row
  <2>1. PICK new \in Rows :
          /\ installations' = Append(installations, new)
          /\ new.id = nextInstallationId /\ new.account = row.account
    BY <1>1, <1>3, Taking
  <2>2. /\ nextInstallationId \notin usedInstallationIds
        /\ usedInstallationIds' = usedInstallationIds \cup {nextInstallationId}
        /\ usedInstallationIds' \subseteq Ids /\ nextInstallationId' \in Ids
    BY <1>1, <1>3, Taking
  <2>3. QED
    BY <1>1, <1>3, <2>1, <2>2 DEF row
<1>4. QED
  BY <1>2, <1>3 DEF NormalizeInstallation

\* The installation that is made of an organisation, if one is.
LEMMA Installing ==
    ASSUME TypeOK, InstallOrganization
    PROVE  LET org == fixture.organizations[at]
           IN  /\ at \in DOMAIN fixture.organizations /\ org \in Organizations
               /\ \/ /\ ~Uninstalled(at)
                     /\ UNCHANGED <<installations, usedInstallationIds, nextInstallationId>>
                  \/ /\ Uninstalled(at)
                     /\ nextInstallationId \notin usedInstallationIds
                     /\ usedInstallationIds' = usedInstallationIds \cup {nextInstallationId}
                     /\ usedInstallationIds' \subseteq Ids /\ nextInstallationId' \in Ids
                     /\ \E new \in Rows :
                          /\ installations' = Append(installations, new)
                          /\ new.id = nextInstallationId
                          /\ new.account = org.login /\ new.target = org.id
<1> DEFINE org == fixture.organizations[at]
           row == [id |-> NoId, account |-> org.login, target |-> org.id]
<1>1. at \in DOMAIN fixture.organizations /\ org \in Organizations
  BY FixtureFields DEF TypeOK, InstallOrganization
<1>2. CASE org.login \in ExistingAccounts(fixture)
  BY <1>1, <1>2 DEF InstallOrganization, Uninstalled
<1>3. CASE org.login \notin ExistingAccounts(fixture)
  <2>1. TakeNextInstallationId(row) /\ Uninstalled(at)
    BY <1>3 DEF InstallOrganization, Uninstalled
  <2>2. row \in Installations /\ row.account = org.login /\ row.target = org.id
    BY <1>1, OrganizationRow
  <2> HIDE DEF row, org
  <2>3. QED
    BY <1>1, <2>1, <2>2, Taking DEF org
<1>4. QED
  BY <1>2, <1>3

LEMMA TypeStep ==
    ASSUME TypeOK, [Next]_vars
    PROVE  TypeOK'
<1>1. CASE UNCHANGED vars
  BY <1>1 DEF TypeOK, vars, parse
<1>2. CASE \E s \in Sims : Simulate(s) \/ SimulateUnseeded(s)
  BY <1>2 DEF TypeOK, Simulate, SimulateUnseeded, Enter, parse
<1>3. CASE ParseRepository
  <2> DEFINE row == fixture.repositories[at]
             next == IF row.id = NoId THEN nextGeneratedRepositoryId ELSE row.id
             new == [row EXCEPT !.id = next]
  <2>1. row \in Repositories
    BY <1>3, FixtureFields DEF TypeOK, ParseRepository
  <2>2. next \in Ids
    BY <2>1 DEF TypeOK, Repositories
  <2>3. new \in [id : Ids, key : Keys]
    BY <2>1, <2>2 DEF Repositories
  <2>4. repositories' = Append(repositories, new)
    BY <1>3 DEF ParseRepository
  <2> HIDE DEF new
  <2>5. repositories' \in Seq([id : Ids, key : Keys])
    BY <2>3, <2>4 DEF TypeOK
  <2>6. nextGeneratedRepositoryId' \in Ids
    BY <1>3, IncrementType DEF TypeOK, ParseRepository
  <2>7. QED
    BY <1>3, <2>5, <2>6 DEF TypeOK, ParseRepository
<1>4. CASE RejectInitialState \/ KeyTables
  <2>1. 0 \in Ids
    BY NumbersAssumption DEF Ids
  <2>2. QED
    <3>1. Forget /\ UNCHANGED nextGeneratedRepositoryId
      BY <1>4 DEF RejectInitialState, KeyTables
    <3>2. QED
      BY <2>1, <3>1 DEF TypeOK, Forget, Enter
<1>5. CASE TransformInitialState
  <2> DEFINE given == GivenIds(fixture.installations)
  <2>1. given \subseteq Ids
    <3>1. \A i \in DOMAIN fixture.installations :
            fixture.installations[i].id \in Ids \cup {NoId}
      <4>1. \A i \in DOMAIN fixture.installations :
              fixture.installations[i] \in Installations
        BY FixtureFields
      <4>2. \A row \in Installations : row.id \in Ids \cup {NoId}
        BY DEF Installations
      <4>3. QED
        BY <4>1, <4>2
    <3>2. QED
      BY <3>1, GivenIdsAre
  <2>2. FirstInstallationId - 1 \in Ids
    BY NumbersAssumption DEF Ids
  <2> HIDE DEF given
  <2>3. Greatest({FirstInstallationId - 1} \cup given) \in Ids
    BY <2>1, <2>2, GreatestId
  <2>4. nextInstallationId' \in Ids /\ usedInstallationIds' \subseteq Ids
    BY <1>5, <2>1, <2>3, IncrementType DEF TransformInitialState, given
  <2>5. QED
    BY <1>5, <2>4 DEF TypeOK, TransformInitialState, Enter
<1>6. CASE NormalizeInstallation
  <2>1. installations \in Seq(Rows) /\ usedInstallationIds \subseteq Ids
        /\ nextInstallationId \in Ids
    BY DEF TypeOK, Rows
  <2>2. installations' \in Seq(Rows)
    BY <1>6, <2>1, Normalizing, AppendRow
  <2>3. usedInstallationIds' \subseteq Ids /\ nextInstallationId' \in Ids
    BY <1>6, <2>1, Normalizing
  <2>4. QED
    BY <1>6, <2>2, <2>3 DEF TypeOK, NormalizeInstallation, Rows
<1>7. CASE EndInstallations
  BY <1>7 DEF TypeOK, EndInstallations, Enter
<1>8. CASE InstallOrganization
  <2>1. installations \in Seq(Rows) /\ usedInstallationIds \subseteq Ids
        /\ nextInstallationId \in Ids
    BY DEF TypeOK, Rows
  <2>2. installations' \in Seq(Rows)
    BY <1>8, <2>1, Installing, AppendRow
  <2>3. usedInstallationIds' \subseteq Ids /\ nextInstallationId' \in Ids
    BY <1>8, <2>1, Installing
  <2>4. QED
    BY <1>8, <2>2, <2>3 DEF TypeOK, InstallOrganization, Rows
<1>9. CASE PassOverUsedId
  BY <1>9, IncrementType DEF TypeOK, PassOverUsedId
<1>10. CASE ResetNextRepositoryId
  BY <1>10, NumbersAssumption DEF TypeOK, ResetNextRepositoryId, parse, Ids
<1>11. QED
  BY <1>1, <1>2, <1>3, <1>4, <1>5, <1>6, <1>7, <1>8, <1>9, <1>10 DEF Next, Parse

(* Installations ************************************************************)

\* An id that is handed out is not one in use, so only callers make two alike.
LEMMA NormalizeStep ==
    ASSUME IInv, NormalizeInstallation
    PROVE  (Building => Marked /\ Listed /\ Installed)' /\ InstallationIdsUnique'
<1> DEFINE given == fixture.installations
           row == given[at]
           n == Len(installations) + 1
<1>1. /\ phase = "installations" /\ phase' = phase /\ at' = at + 1 /\ fixture' = fixture
      /\ given \in Seq(Installations) /\ at \in DOMAIN given
      /\ installations \in Seq(Rows)
  BY Normalizing, FixtureFields DEF NormalizeInstallation, IInv, TypeOK, Rows
<1>2. Marked /\ Listed /\ InstallationIdsUnique
  BY <1>1 DEF IInv, Building
<1>3. n = at /\ at <= Len(given) /\ DOMAIN installations = 1..(at - 1) /\ at \in Nat
  BY <1>1, <1>2 DEF Listed
<1>4. PICK new \in Rows :
        /\ installations' = Append(installations, new)
        /\ new.account = row.account
        /\ \/ /\ row.id # NoId /\ new.id = row.id
              /\ usedInstallationIds' = usedInstallationIds
           \/ /\ row.id = NoId /\ new.id = nextInstallationId
              /\ nextInstallationId \notin usedInstallationIds
              /\ usedInstallationIds' = usedInstallationIds \cup {nextInstallationId}
  BY Normalizing DEF IInv
<1>5. /\ DOMAIN installations' = DOMAIN installations \cup {at}
      /\ \A k \in DOMAIN installations : k # at /\ installations'[k] = installations[k]
      /\ installations'[at] = new /\ Len(installations') = at
  BY <1>1, <1>3, <1>4, AppendRow
<1>6. \A k : HasGivenId(k)' <=> HasGivenId(k)
  BY <1>1 DEF HasGivenId
<1>7. HasGivenId(at) <=> row.id # NoId
  BY <1>3 DEF HasGivenId
<1>8. row.id # NoId => row.id \in GivenIds(given)
  BY <1>1, GivenIdsAre
<1>9. Marked'
  <2>1. GivenIds(given) \subseteq usedInstallationIds /\ usedInstallationIds \subseteq usedInstallationIds'
    BY <1>2, <1>4 DEF Marked
  <2>2. /\ new.id \in usedInstallationIds'
        /\ HasGivenId(at) => new.id = given[at].id
        /\ ~HasGivenId(at) => new.id \notin GivenIds(given)
    BY <1>4, <1>7, <1>8, <2>1
  <2>3. QED
    BY <1>1, <1>2, <1>5, <1>6, <2>1, <2>2 DEF Marked
<1>10. Listed'
  BY <1>1, <1>2, <1>3, <1>4, <1>5 DEF Listed
<1>11. Installed'
  BY <1>1, <1>3, <1>5 DEF Installed, Added, Passed
<1>12. InstallationIdsUnique'
  <2>1. ASSUME NEW k \in DOMAIN installations, installations[k].id = new.id
        PROVE  HasGivenId(k) /\ HasGivenId(at)
    BY <1>2, <1>4, <1>7, <1>8, <2>1 DEF Marked
  <2>2. \A k, l \in DOMAIN installations :
          k # l /\ installations[k].id = installations[l].id => HasGivenId(k) /\ HasGivenId(l)
    BY <1>2 DEF InstallationIdsUnique, HasGivenId
  <2>3. \A k, l \in DOMAIN installations' :
          k # l /\ installations'[k].id = installations'[l].id => HasGivenId(k) /\ HasGivenId(l)
    BY <1>5, <2>1, <2>2
  <2>4. QED
    BY <1>6, <2>3 DEF InstallationIdsUnique, HasGivenId
<1>13. QED
  BY <1>9, <1>10, <1>11, <1>12

LEMMA InstallStep ==
    ASSUME IInv, InstallOrganization
    PROVE  (Building => Marked /\ Listed /\ Installed)' /\ InstallationIdsUnique'
<1> SUFFICES ASSUME NEW a, a = at, NEW n, n = Len(installations) + 1
             PROVE  (Building => Marked /\ Listed /\ Installed)' /\ InstallationIdsUnique'
  OBVIOUS
<1> DEFINE given == fixture.installations
           org == fixture.organizations[a]
<1>1. /\ phase = "organizations" /\ phase' = phase /\ at' = a + 1 /\ fixture' = fixture
      /\ given \in Seq(Installations) /\ a \in DOMAIN fixture.organizations
      /\ fixture.organizations \in Seq(Organizations)
      /\ installations \in Seq(Rows) /\ TypeOK
  BY Installing, FixtureFields DEF InstallOrganization, IInv, TypeOK, Rows
<1>2. Marked /\ Listed /\ Installed /\ InstallationIdsUnique
  BY <1>1 DEF IInv, Building
<1>3. \A k : HasGivenId(k)' <=> HasGivenId(k)
  BY <1>1 DEF HasGivenId
<1>4. Passed' = Passed \cup {a} /\ a \notin Passed
  BY <1>1 DEF Passed
<1>5. \A m : Uninstalled(m)' <=> Uninstalled(m)
  BY <1>1 DEF Uninstalled
<1>6. CASE ~Uninstalled(a)
           /\ UNCHANGED <<installations, usedInstallationIds, nextInstallationId>>
  <2>1. Added' = Added /\ \A k, m : InstallationOf(k, m)' <=> InstallationOf(k, m)
    BY <1>1, <1>6 DEF Added, InstallationOf
  <2>2. Installed'
    BY <1>1, <1>2, <1>4, <1>5, <1>6, <2>1 DEF Installed
  <2>3. Marked' /\ Listed'
    BY <1>1, <1>2, <1>3, <1>6 DEF Marked, Listed
  <2>4. InstallationIdsUnique'
    BY <1>1, <1>2, <1>6 DEF InstallationIdsUnique
  <2>5. QED
    BY <2>2, <2>3, <2>4
<1>7. ASSUME Uninstalled(a), nextInstallationId \notin usedInstallationIds,
             usedInstallationIds' = usedInstallationIds \cup {nextInstallationId},
             NEW new \in Rows, installations' = Append(installations, new),
             new.id = nextInstallationId, new.account = org.login, new.target = org.id
      PROVE  (Building => Marked /\ Listed /\ Installed)' /\ InstallationIdsUnique'
  <2>1. /\ DOMAIN installations' = DOMAIN installations \cup {n}
        /\ \A k \in DOMAIN installations : k # n /\ installations'[k] = installations[k]
        /\ installations'[n] = new /\ Len(installations') = n
        /\ n \in Nat /\ Len(given) \in Nat
    BY <1>1, <1>7, AppendRow
  <2>2. n > Len(given) /\ Len(installations) >= Len(given)
    BY <1>1, <1>2 DEF Listed
  <2>3. ~HasGivenId(n)
    BY <2>1, <2>2 DEF HasGivenId
  <2>4. Added' = Added \cup {n} /\ n \notin Added
    BY <1>1, <2>1, <2>2 DEF Added
  <2>5. /\ \A k \in Added, m \in Passed : InstallationOf(k, m)' <=> InstallationOf(k, m)
        /\ InstallationOf(n, a)'
        /\ \A k \in Added : installations'[k].account = installations[k].account
    <3>1. \A k \in Added : installations'[k] = installations[k]
      BY <2>1 DEF Added
    <3>2. \A k \in Added, m \in Passed : InstallationOf(k, m)' <=> InstallationOf(k, m)
      BY <1>1, <3>1 DEF InstallationOf
    <3>3. InstallationOf(n, a)'
      <4>1. /\ installations'[n].account = fixture'.organizations[a].login
            /\ installations'[n].target = fixture'.organizations[a].id
        BY <1>1, <1>7, <2>1
      <4>2. QED
        BY <4>1 DEF InstallationOf
    <3>4. QED
      BY <3>1, <3>2, <3>3
  <2>6. Marked'
    BY <1>1, <1>2, <1>3, <1>7, <2>1, <2>3 DEF Marked
  <2>7. Listed'
    BY <1>1, <1>2, <2>1, <2>2 DEF Listed
  <2>8. Installed'
    <3>1. ASSUME NEW k \in Added'
          PROVE  \E m \in Passed' : Uninstalled(m)' /\ InstallationOf(k, m)'
      <4>1. CASE k = n
        BY <1>4, <1>5, <1>7, <2>5, <4>1
      <4>2. CASE k \in Added
        <5>1. PICK m \in Passed : Uninstalled(m) /\ InstallationOf(k, m)
          BY <1>2, <4>2 DEF Installed
        <5>2. QED
          BY <1>4, <1>5, <2>5, <4>2, <5>1
      <4>3. QED
        BY <2>4, <4>1, <4>2
    <3>2. ASSUME NEW m \in Passed', Uninstalled(m)'
          PROVE  \E k \in Added' : InstallationOf(k, m)'
      <4>1. CASE m = a
        BY <2>4, <2>5, <4>1
      <4>2. CASE m \in Passed
        <5>1. PICK k \in Added : InstallationOf(k, m)
          BY <1>2, <1>5, <3>2, <4>2 DEF Installed
        <5>2. QED
          BY <2>4, <2>5, <4>2, <5>1
      <4>3. QED
        BY <1>4, <4>1, <4>2
    <3>3. ASSUME NEW k \in Added', NEW l \in Added', k # l,
                 installations'[k].account = installations'[l].account
          PROVE  \E m, q \in Passed' :
                    m # q /\ InstallationOf(k, m)'
                    /\ installations'[k].account = fixture'.organizations[q].login
      <4>1. CASE k \in Added /\ l \in Added
        <5>1. PICK m \in Passed, q \in Passed :
                m # q /\ InstallationOf(k, m)
                /\ installations[k].account = fixture.organizations[q].login
          BY <1>2, <2>5, <3>3, <4>1 DEF Installed
        <5>2. QED
          BY <1>1, <1>4, <2>5, <4>1, <5>1
      <4>2. CASE k = n /\ l \in Added
        <5>1. PICK q \in Passed : InstallationOf(l, q)
          BY <1>2, <4>2 DEF Installed
        <5>2. installations'[k].account = fixture.organizations[q].login
          BY <2>5, <3>3, <4>2, <5>1 DEF InstallationOf
        <5>3. QED
          <6>1. InstallationOf(k, a)' /\ a # q /\ a \in Passed' /\ q \in Passed'
            BY <1>4, <2>5, <4>2
          <6>2. installations'[k].account = fixture'.organizations[q].login
            BY <1>1, <5>2
          <6>3. QED
            BY <6>1, <6>2
      <4>3. CASE k \in Added /\ l = n
        <5>1. PICK m \in Passed : InstallationOf(k, m)
          BY <1>2, <4>3 DEF Installed
        <5>2. installations'[k].account = org.login
          BY <1>7, <2>1, <3>3, <4>3
        <5>3. QED
          BY <1>1, <1>4, <2>5, <4>3, <5>1, <5>2
      <4>4. QED
        BY <2>4, <3>3, <4>1, <4>2, <4>3
    <3>4. QED
      BY <3>1, <3>2, <3>3 DEF Installed
  <2>9. InstallationIdsUnique'
    <3>1. \A k \in DOMAIN installations : installations'[k].id # installations'[n].id
      BY <1>2, <1>7, <2>1 DEF Marked
    <3>2. \A k, l \in DOMAIN installations' :
            k # l /\ installations'[k].id = installations'[l].id =>
                HasGivenId(k) /\ HasGivenId(l)
      BY <1>2, <2>1, <3>1 DEF InstallationIdsUnique, HasGivenId
    <3>3. QED
      BY <1>3, <3>2 DEF InstallationIdsUnique, HasGivenId
  <2>10. QED
    BY <2>6, <2>7, <2>8, <2>9
<1>8. QED
  BY <1>1, <1>6, <1>7, Installing

\* The steps that make no installation.
LEMMA OtherSteps ==
    ASSUME IInv, [Next]_vars, ~NormalizeInstallation, ~InstallOrganization
    PROVE  (Building => Marked /\ Listed /\ Installed)' /\ InstallationIdsUnique'
<1>1. CASE UNCHANGED vars
  BY <1>1 DEF IInv, vars, parse, Building, Marked, Listed, Installed, Added, Passed,
              InstallationOf, Uninstalled, HasGivenId, InstallationIdsUnique
<1>2. CASE TransformInitialState
  <2>1. installations' = <<>> /\ fixture' = fixture /\ phase' = "installations" /\ at' = 1
        /\ usedInstallationIds' = GivenIds(fixture.installations)
    BY <1>2 DEF IInv, Located, TransformInitialState, Enter
  <2>2. Len(installations') = 0 /\ DOMAIN installations' = {}
    BY <2>1
  <2>3. Len(fixture.installations) \in Nat
    BY FixtureFields DEF IInv
  <2>4. Marked'
    BY <2>1, <2>2 DEF Marked
  <2>5. Listed'
    BY <2>1, <2>2, <2>3 DEF Listed
  <2>6. Installed'
    BY <2>1, <2>2 DEF Installed, Added, Passed
  <2>7. InstallationIdsUnique'
    BY <2>2 DEF InstallationIdsUnique
  <2>8. QED
    BY <2>4, <2>5, <2>6, <2>7
<1>3. CASE EndInstallations
  <2>1. /\ fixture' = fixture /\ phase = "installations" /\ phase' = "organizations" /\ at' = 1
        /\ UNCHANGED <<installations, usedInstallationIds>>
        /\ at > Len(fixture.installations) /\ at \in Nat
        /\ fixture.installations \in Seq(Installations)
        /\ fixture.organizations \in Seq(Organizations)
        /\ installations \in Seq(Rows)
    BY <1>3, FixtureFields DEF IInv, TypeOK, EndInstallations, Enter, Rows
  <2>2. Marked /\ Listed /\ InstallationIdsUnique
    BY <2>1 DEF IInv, Building
  <2>3. Len(installations) = Len(fixture.installations)
    BY <2>1, <2>2 DEF Listed
  <2>4. Added' = {} /\ Passed' = {}
    BY <2>1, <2>3 DEF Added, Passed
  <2>5. Marked' /\ Listed' /\ Installed'
    BY <2>1, <2>2, <2>3, <2>4 DEF Marked, HasGivenId, Listed, Installed
  <2>6. InstallationIdsUnique'
    BY <2>1, <2>2 DEF InstallationIdsUnique
  <2>7. QED
    BY <2>5, <2>6
<1>4. CASE PassOverUsedId
  BY <1>4 DEF IInv, PassOverUsedId, Building, Marked, Listed, Installed, Added, Passed,
              InstallationOf, Uninstalled, HasGivenId, InstallationIdsUnique
<1>5. CASE RejectInitialState \/ KeyTables
  <2>1. phase' = "idle" /\ installations' = <<>>
    BY <1>5 DEF RejectInitialState, KeyTables, Forget, Enter
  <2>2. QED
    BY <2>1 DEF Building, InstallationIdsUnique
<1>6. CASE \/ \E s \in Sims : Simulate(s) \/ SimulateUnseeded(s)
           \/ ParseRepository \/ ResetNextRepositoryId
  <2>1. phase \in {"idle", "repositories"} /\ phase' \in {"idle", "repositories"}
        /\ installations' = installations
    BY <1>6 DEF IInv, Located, Simulate, SimulateUnseeded, ParseRepository,
                ResetNextRepositoryId, Enter, parse
  <2>2. installations' = <<>>
    BY <2>1 DEF IInv, Located
  <2>3. QED
    BY <2>1, <2>2 DEF Building, InstallationIdsUnique
<1>7. QED
  BY <1>1, <1>2, <1>3, <1>4, <1>5, <1>6 DEF Next, Parse

LEMMA LocatedStep ==
    ASSUME IInv, [Next]_vars
    PROVE  Located'
<1>1. CASE UNCHANGED vars \/ ResetNextRepositoryId \/ EndInstallations \/ PassOverUsedId
           \/ TransformInitialState
  BY <1>1 DEF IInv, Located, vars, parse, ResetNextRepositoryId, EndInstallations,
              PassOverUsedId, TransformInitialState, Enter
<1>2. CASE \E s \in Sims : Simulate(s) \/ SimulateUnseeded(s)
  BY <1>2, NoneAssumption DEF IInv, Located, Simulate, SimulateUnseeded, Enter, parse
<1>3. CASE ParseRepository \/ NormalizeInstallation \/ InstallOrganization
  BY <1>3 DEF IInv, Located, ParseRepository, NormalizeInstallation, InstallOrganization
<1>4. CASE RejectInitialState \/ KeyTables
  <2>1. /\ current' = None /\ phase' = "idle" /\ installations' = <<>>
        /\ \E st : stores' = [stores EXCEPT ![current] = st]
    BY <1>4 DEF RejectInitialState, KeyTables, Forget, Enter
  <2>2. QED
    BY <2>1 DEF IInv, Located
<1>5. QED
  BY <1>1, <1>2, <1>3, <1>4 DEF Next, Parse

(* A store that was built ***************************************************)

\* OrganizationsInstalled, of one store.
Serves(st) ==
    LET f == st.from
        given == f.installations
        Of(org) == {i \in DOMAIN st.installations : st.installations[i].account = org.login}
        ownLogin(org) == \A other \in Elements(f.organizations) :
                            other.login = org.login => other = org
    IN  /\ st.status = "built"
        /\ \A i, j \in DOMAIN given :
             i # j /\ given[i].id = given[j].id => given[i].id = NoId
        => \A org \in Elements(f.organizations) :
             /\ Of(org) # {}
             /\ org.login \notin ExistingAccounts(f) /\ ownLogin(org)
                    /\ NoDuplicates(f.organizations)
                => /\ Cardinality(Of(org)) = 1
                   /\ \A i \in Of(org) : st.installations[i].target = org.id

LEMMA EveryStoreServes == OrganizationsInstalled <=> \A s \in Sims : Serves(stores[s])
  BY DEF OrganizationsInstalled, Serves

LEMMA NoStoreServes == \A result : Serves(NoStore(result))
  BY DEF Serves, NoStore, Store, EmptyFixture, Elements

LEMMA BuiltServes ==
    ASSUME IInv, phase = "organizations", at > Len(fixture.organizations), NEW repos
    PROVE  Serves(Store("built", fixture, ConvertObjToProp(installations), repos))
<1> DEFINE st == Store("built", fixture, ConvertObjToProp(installations), repos)
           table == ConvertObjToProp(installations)
           given == fixture.installations
           orgs == fixture.organizations
           Of(org) == {i \in DOMAIN table : table[i].account = org.login}
           Own(org) == \A other \in Elements(orgs) : other.login = org.login => other = org
<1>1. /\ given \in Seq(Installations) /\ orgs \in Seq(Organizations)
      /\ installations \in Seq(Rows) /\ at \in Nat
  BY FixtureFields DEF IInv, TypeOK, Rows
<1>2. Marked /\ Listed /\ Installed /\ InstallationIdsUnique
  BY DEF IInv, Building
<1>3. Passed = DOMAIN orgs
  BY <1>1 DEF Passed
<1> SUFFICES ASSUME \A i, j \in DOMAIN given :
                      i # j /\ given[i].id = given[j].id => given[i].id = NoId,
                    NEW org \in Elements(orgs)
             PROVE  /\ Of(org) # {}
                    /\ org.login \notin ExistingAccounts(fixture) /\ Own(org)
                           /\ NoDuplicates(orgs)
                       => /\ Cardinality(Of(org)) = 1
                          /\ \A i \in Of(org) : table[i].target = org.id
  BY DEF Serves, Store
<1>4. \A i, j \in DOMAIN installations : installations[i].id = installations[j].id => i = j
  <2> SUFFICES ASSUME NEW i \in DOMAIN installations, NEW j \in DOMAIN installations,
                      installations[i].id = installations[j].id, i # j
               PROVE  FALSE
    OBVIOUS
  <2>1. HasGivenId(i) /\ HasGivenId(j)
    BY <1>2 DEF InstallationIdsUnique, HasGivenId
  <2>2. given[i].id = given[j].id /\ given[i].id # NoId
    BY <1>2, <2>1 DEF Marked, HasGivenId
  <2>3. i \in DOMAIN given /\ j \in DOMAIN given
    BY <1>1, <2>1 DEF HasGivenId
  <2>4. QED
    BY <2>2, <2>3
<1>5. /\ \A k \in DOMAIN installations :
           installations[k].id \in DOMAIN table /\ table[installations[k].id] = installations[k]
      /\ \A i \in DOMAIN table : \E k \in DOMAIN installations : i = installations[k].id
  BY <1>1, <1>4, TableById
<1> HIDE DEF table
<1>6. PICK m \in DOMAIN orgs : org = orgs[m]
  BY DEF Elements
<1>7. \A k \in DOMAIN installations : k \notin Added =>
        k \in DOMAIN given /\ installations[k].account = given[k].account
  BY <1>1, <1>2 DEF Added, Listed
<1>8. Of(org) # {}
  <2>1. CASE Uninstalled(m)
    <3>1. PICK k \in Added : InstallationOf(k, m)
      BY <1>2, <1>3, <2>1 DEF Installed
    <3>2. k \in DOMAIN installations /\ installations[k].account = org.login
      BY <1>6, <3>1 DEF Added, InstallationOf
    <3>3. QED
      BY <1>5, <3>2
  <2>2. CASE ~Uninstalled(m)
    <3>1. PICK k \in DOMAIN given : given[k].account = org.login
      BY <1>6, <2>2 DEF Uninstalled, ExistingAccounts, Elements
    <3>2. k \in DOMAIN installations /\ installations[k].account = org.login
      BY <1>1, <1>2, <3>1 DEF Listed
    <3>3. QED
      BY <1>5, <3>2
  <2>3. QED
    BY <2>1, <2>2
<1>9. ASSUME org.login \notin ExistingAccounts(fixture), Own(org), NoDuplicates(orgs)
      PROVE  Cardinality(Of(org)) = 1 /\ \A i \in Of(org) : table[i].target = org.id
  <2>1. Uninstalled(m)
    BY <1>6, <1>9 DEF Uninstalled
  <2>2. PICK c \in Added : InstallationOf(c, m)
    BY <1>2, <1>3, <2>1 DEF Installed
  <2>3. c \in DOMAIN installations /\ installations[c].account = org.login
        /\ installations[c].target = org.id
    BY <1>6, <2>2 DEF Added, InstallationOf
  <2>4. ASSUME NEW k \in DOMAIN installations, installations[k].account = org.login
        PROVE  k = c
    <3>1. k \in Added
      BY <1>7, <1>9, <2>4 DEF ExistingAccounts, Elements
    <3>2. SUFFICES ASSUME k # c PROVE FALSE
      OBVIOUS
    <3>3. PICK a \in Passed, b \in Passed :
            a # b /\ InstallationOf(k, a) /\ installations[k].account = orgs[b].login
      BY <1>2, <2>2, <2>3, <2>4, <3>1, <3>2 DEF Installed
    <3>4. orgs[a].login = org.login /\ orgs[b].login = org.login
      BY <2>4, <3>3 DEF InstallationOf
    <3>5. orgs[a] = org /\ orgs[b] = org
      BY <1>3, <1>9, <3>4 DEF Elements
    <3>6. QED
      BY <1>1, <1>3, <1>9, <3>3, <3>5, NoDuplicatesApart
  <2>5. Of(org) = {installations[c].id}
    BY <1>5, <2>3, <2>4
  <2>6. Cardinality(Of(org)) = 1
    BY <2>5, FS_Singleton
  <2>7. QED
    BY <1>5, <2>3, <2>5, <2>6
<1>10. QED
  BY <1>8, <1>9

LEMMA StoresStep ==
    ASSUME IInv, [Next]_vars
    PROVE  OrganizationsInstalled'
<1>1. stores = [s \in Sims |-> stores[s]] /\ \A s \in Sims : Serves(stores[s])
  BY EveryStoreServes DEF IInv, Located
<1>2. \/ stores' = stores
      \/ \E t, st : stores' = [stores EXCEPT ![t] = st] /\ Serves(st)
  <2>1. CASE \E s \in Sims : SimulateUnseeded(s)
    BY <2>1, NoStoreServes DEF SimulateUnseeded
  <2>2. CASE RejectInitialState
    BY <2>2, NoStoreServes DEF RejectInitialState
  <2>3. CASE KeyTables
    <3>1. phase = "organizations" /\ at > Len(fixture.organizations)
      BY <2>3 DEF KeyTables
    <3>2. CASE KeysApart
      BY <2>3, <3>1, <3>2, BuiltServes DEF KeyTables
    <3>3. CASE ~KeysApart
      BY <2>3, <3>3, NoStoreServes DEF KeyTables
    <3>4. QED
      BY <3>2, <3>3
  <2>4. CASE ~(\E s \in Sims : SimulateUnseeded(s)) /\ ~RejectInitialState /\ ~KeyTables
    BY <2>4 DEF Next, Parse, vars, Simulate, ParseRepository, TransformInitialState,
                NormalizeInstallation, EndInstallations, InstallOrganization,
                PassOverUsedId, ResetNextRepositoryId
  <2>5. QED
    BY <2>1, <2>2, <2>3, <2>4
<1>3. \A s \in Sims : Serves(stores'[s])
  BY <1>1, <1>2
<1>4. QED
  BY <1>3 DEF OrganizationsInstalled, Serves

LEMMA InitIInv == Init => IInv
<1> SUFFICES ASSUME Init
             PROVE  IInv
  OBVIOUS
<1>1. TypeOK
  BY NumbersAssumption DEF Init, TypeOK, Ids
<1>2. Located /\ ~Building /\ InstallationIdsUnique
  BY DEF Init, Located, Building, InstallationIdsUnique
<1>3. OrganizationsInstalled
  BY EveryStoreServes, NoStoreServes DEF Init
<1>4. QED
  BY <1>1, <1>2, <1>3 DEF IInv

LEMMA StepIInv == IInv /\ [Next]_vars => IInv'
<1> SUFFICES ASSUME IInv, [Next]_vars
             PROVE  IInv'
  OBVIOUS
<1>1. TypeOK'
  BY TypeStep DEF IInv
<1>2. (Building => Marked /\ Listed /\ Installed)' /\ InstallationIdsUnique'
  BY NormalizeStep, InstallStep, OtherSteps
<1>3. Located' /\ OrganizationsInstalled'
  BY LocatedStep, StoresStep
<1>4. QED
  BY <1>1, <1>2, <1>3 DEF IInv

LEMMA AlwaysIInv == Spec => []IInv
  BY InitIInv, StepIInv, PTL DEF Spec

(* Repositories *************************************************************)

LEMMA ParsedRows ==
    ASSUME TypeOK
    PROVE  \A i \in DOMAIN repositories :
             repositories[i] \in [id : Ids, key : Keys] /\ repositories[i].id \in Ids
<1> DEFINE Parsed == [id : Ids, key : Keys]
<1>1. \A row \in Parsed : row.id \in Ids
  OBVIOUS
<1>2. repositories \in Seq(Parsed)
  BY DEF TypeOK
<1> HIDE DEF Parsed
<1>3. \A i \in DOMAIN repositories : repositories[i] \in Parsed
  BY <1>2
<1>4. QED
  BY <1>1, <1>3 DEF Parsed

LEMMA FollowedStep ==
    ASSUME IInv, IInv', [Next]_vars, Followed
    PROVE  Followed'
<1>1. CASE UNCHANGED vars \/ (\E s \in Sims : SimulateUnseeded(s)) \/ ResetNextRepositoryId
           \/ EndInstallations \/ TransformInitialState
           \/ NormalizeInstallation \/ InstallOrganization \/ PassOverUsedId
  BY <1>1 DEF Followed, vars, parse, SimulateUnseeded, ResetNextRepositoryId, EndInstallations,
              TransformInitialState, NormalizeInstallation, InstallOrganization,
              PassOverUsedId, Enter
<1>2. CASE \E s \in Sims : Simulate(s)
  <2>1. repositories' = <<>> /\ phase' = "repositories" /\ at' = 1
    BY <1>2 DEF Followed, Simulate, Enter, IInv, Located
  <2>2. QED
    BY <2>1 DEF Followed
<1>3. CASE RejectInitialState \/ KeyTables
  <2>1. repositories' = <<>> /\ phase' = "idle"
    BY <1>3 DEF RejectInitialState, KeyTables, Forget, Enter
  <2>2. QED
    BY <2>1 DEF Followed
<1>4. CASE ParseRepository
  <2> DEFINE row == fixture.repositories[at]
             next == IF row.id = NoId THEN nextGeneratedRepositoryId ELSE row.id
             new == [row EXCEPT !.id = next]
             Parsed == [id : Ids, key : Keys]
  <2>1. at \in DOMAIN fixture.repositories /\ row \in Repositories
    BY <1>4, FixtureFields DEF IInv, TypeOK, ParseRepository
  <2>2. repositories \in Seq(Parsed) /\ nextGeneratedRepositoryId \in Ids
        /\ at = Len(repositories) + 1
    BY <1>4 DEF IInv, TypeOK, Followed, ParseRepository
  <2>3. new \in Parsed /\ new.key = row.key
    BY <2>1, <2>2 DEF Repositories
  <2>4. repositories' = Append(repositories, new) /\ at' = at + 1
        /\ phase' = "repositories" /\ fixture' = fixture
    BY <1>4 DEF ParseRepository
  <2> HIDE DEF new, next, Parsed
  <2>5. /\ Len(repositories') = Len(repositories) + 1
        /\ DOMAIN repositories' = DOMAIN repositories \cup {Len(repositories) + 1}
        /\ \A i \in DOMAIN repositories : repositories'[i] = repositories[i]
        /\ repositories'[Len(repositories) + 1] = new
    BY <2>2, <2>3, <2>4, AppendRow
  <2>6. QED
    BY <2>1, <2>2, <2>3, <2>4, <2>5 DEF Followed
<1>5. QED
  BY <1>1, <1>2, <1>3, <1>4 DEF Next, Parse

\* A step that parses no row, and keeps no table but an empty one.
LEMMA QuietRepositories ==
    ASSUME IInv, IInv', RepositoriesKnown,
           UNCHANGED <<repositories, fixture>> \/ repositories' = <<>>,
           nextGeneratedRepositoryId' >= nextGeneratedRepositoryId,
           \/ stores' = stores
           \/ \E t, r : stores' = [stores EXCEPT ![t] = NoStore(r)]
    PROVE  RepositoriesKnown'
<1>1. \A s \in Sims : \A k \in DOMAIN stores'[s].repositories :
        /\ k \in DOMAIN stores[s].repositories
        /\ stores'[s].repositories[k] = stores[s].repositories[k]
        /\ stores'[s].from = stores[s].from
  BY DEF IInv, Located, NoStore, Store
<1>2. \A s \in Sims : \A k \in DOMAIN stores'[s].repositories :
        MadeFor(s, k)' => MadeFor(s, k)
  BY <1>1 DEF MadeFor
<1>3. \A i \in DOMAIN repositories' :
        /\ i \in DOMAIN repositories /\ repositories'[i] = repositories[i]
        /\ repositories[i].id \in Ids
        /\ MadeRow(i)' <=> MadeRow(i)
  BY ParsedRows DEF IInv, MadeRow
<1>4. /\ nextGeneratedRepositoryId \in Int /\ nextGeneratedRepositoryId' \in Int
      /\ \A n \in Ids : n \in Int
      /\ \A n \in Ids : n < nextGeneratedRepositoryId => n < nextGeneratedRepositoryId'
  BY DEF IInv, TypeOK, Ids
<1>5. RepositoryIdsUnique'
  BY <1>1, <1>2 DEF RepositoriesKnown, RepositoryIdsUnique
<1>6. QED
  BY <1>1, <1>2, <1>3, <1>4, <1>5 DEF RepositoriesKnown

\* A row is parsed: its id is the caller's, or the counter's, which goes on.
LEMMA ParsingRepository ==
    ASSUME IInv, Followed, RepositoriesKnown, CountsExactly, ParseRepository
    PROVE  RepositoriesKnown'
<1> SUFFICES ASSUME NEW n, n = Len(repositories) + 1
             PROVE  RepositoriesKnown'
  OBVIOUS
<1> DEFINE row == fixture.repositories[at]
           next == IF row.id = NoId THEN nextGeneratedRepositoryId ELSE row.id
           new == [row EXCEPT !.id = next]
           Parsed == [id : Ids, key : Keys]
<1>1. at \in DOMAIN fixture.repositories /\ row \in Repositories /\ at = n
  BY FixtureFields DEF IInv, TypeOK, ParseRepository, Followed
<1>2. repositories \in Seq(Parsed) /\ nextGeneratedRepositoryId \in Ids
  BY DEF IInv, TypeOK
<1>3. new \in Parsed /\ new.id = next /\ next \in Ids
  BY <1>1, <1>2 DEF Repositories
<1>4. repositories' = Append(repositories, new) /\ stores' = stores /\ fixture' = fixture
  BY DEF ParseRepository
<1>5. MadeRow(n) => next = nextGeneratedRepositoryId
                    /\ nextGeneratedRepositoryId' = nextGeneratedRepositoryId + 1
  BY <1>1 DEF ParseRepository, Increment, CountsExactly, MadeRow
<1>6. ~MadeRow(n) => nextGeneratedRepositoryId' = nextGeneratedRepositoryId
  BY <1>1 DEF ParseRepository, MadeRow
<1> HIDE DEF new, next, row
<1>7. /\ \A i \in Ids : i \in Int
      /\ \A i \in Ids : i < nextGeneratedRepositoryId => i < nextGeneratedRepositoryId'
      /\ MadeRow(n) => next < nextGeneratedRepositoryId'
      /\ \A i \in Ids : i < nextGeneratedRepositoryId => ~MadeRow(n) \/ i # next
  BY <1>2, <1>3, <1>5, <1>6 DEF Ids
<1>8. /\ DOMAIN repositories' = DOMAIN repositories \cup {n} /\ n \notin DOMAIN repositories
      /\ \A i \in DOMAIN repositories :
           repositories'[i] = repositories[i] /\ repositories[i].id \in Ids
      /\ repositories'[n] = new
  <2>1. \A i \in DOMAIN repositories : repositories[i] \in Parsed
    BY ParsedRows DEF IInv
  <2>2. QED
    BY <1>2, <1>3, <1>4, <2>1, AppendRow
<1>9. \A i : MadeRow(i)' <=> MadeRow(i)
  BY <1>4 DEF MadeRow
<1>10. \A s, k : MadeFor(s, k)' <=> MadeFor(s, k)
  BY <1>4 DEF MadeFor
<1>11. ASSUME NEW s \in Sims, NEW k \in DOMAIN stores[s].repositories
       PROVE  /\ stores[s].repositories[k] \in Ids
              /\ MadeFor(s, k) => stores[s].repositories[k] < nextGeneratedRepositoryId'
              /\ \A i \in DOMAIN repositories' :
                   MadeFor(s, k) /\ MadeRow(i) => stores[s].repositories[k] # repositories'[i].id
  <2>1. /\ stores[s].repositories[k] \in Ids
        /\ MadeFor(s, k) => stores[s].repositories[k] < nextGeneratedRepositoryId
        /\ \A i \in DOMAIN repositories :
             MadeFor(s, k) /\ MadeRow(i) => stores[s].repositories[k] # repositories[i].id
    BY DEF RepositoriesKnown
  <2>2. MadeFor(s, k) /\ MadeRow(n) => stores[s].repositories[k] # next
    BY <1>7, <2>1
  <2>3. QED
    BY <1>3, <1>7, <1>8, <2>1, <2>2
<1>12. \A i \in DOMAIN repositories' :
         MadeRow(i) => repositories'[i].id < nextGeneratedRepositoryId'
  <2>1. \A i \in DOMAIN repositories : MadeRow(i) => repositories[i].id < nextGeneratedRepositoryId
    BY DEF RepositoriesKnown
  <2>2. QED
    BY <1>3, <1>7, <1>8, <2>1
<1>13. \A i, j \in DOMAIN repositories' :
         i # j /\ MadeRow(i) /\ MadeRow(j) => repositories'[i].id # repositories'[j].id
  <2>1. \A i \in DOMAIN repositories : MadeRow(i) /\ MadeRow(n) => repositories[i].id # next
    BY <1>7, <1>8 DEF RepositoriesKnown
  <2>2. \A i, j \in DOMAIN repositories :
          i # j /\ MadeRow(i) /\ MadeRow(j) => repositories[i].id # repositories[j].id
    BY DEF RepositoriesKnown
  <2>3. QED
    BY <1>3, <1>8, <2>1, <2>2
<1>14. RepositoryIdsUnique'
  BY <1>4, <1>10 DEF RepositoriesKnown, RepositoryIdsUnique
<1>15. QED
  BY <1>4, <1>9, <1>10, <1>11, <1>12, <1>13, <1>14 DEF RepositoriesKnown

\* The rows become a table: its ids are theirs.
LEMMA KeyingRepositories ==
    ASSUME IInv, Followed, RepositoriesKnown, KeyTables
    PROVE  RepositoriesKnown'
<1>1. /\ repositories' = <<>> /\ nextGeneratedRepositoryId' = nextGeneratedRepositoryId
      /\ current \in Sims
  BY DEF KeyTables, Forget, IInv, Located, TypeOK
<1> SUFFICES ASSUME NEW c \in Sims, c = current
             PROVE  RepositoriesKnown'
  BY <1>1
<1>2. /\ \A s \in Sims : s # c => stores'[s] = stores[s]
      /\ \A k \in DOMAIN stores'[c].repositories :
           /\ stores'[c].from = fixture
           /\ \E i \in DOMAIN repositories :
                repositories[i].key = k /\ stores'[c].repositories[k] = repositories[i].id
  <2>1. PICK st : /\ stores' = [stores EXCEPT ![current] = st]
                  /\ \/ st.from = fixture /\ st.repositories = ConvertObjByKey(repositories)
                     \/ st.repositories = <<>>
    <3>1. CASE KeysApart
      <4> DEFINE st == Store("built", fixture, ConvertObjToProp(installations),
                             ConvertObjByKey(repositories))
      <4>1. stores' = [stores EXCEPT ![current] = st]
        BY <3>1 DEF KeyTables
      <4>2. st.from = fixture /\ st.repositories = ConvertObjByKey(repositories)
        BY DEF Store
      <4> HIDE DEF st
      <4>3. QED
        BY <4>1, <4>2
    <3>2. CASE ~KeysApart
      <4>1. stores' = [stores EXCEPT ![current] = NoStore("failed")]
        BY <3>2 DEF KeyTables
      <4>2. NoStore("failed").repositories = <<>>
        BY DEF NoStore, Store
      <4>3. QED
        BY <4>1, <4>2
    <3>3. QED
      BY <3>1, <3>2
  <2>2. stores'[c] = st /\ \A s \in Sims : s # c => stores'[s] = stores[s]
    BY <2>1 DEF IInv, Located
  <2>3. QED
    BY <2>1, <2>2, TableByKey
<1>3. \A i \in DOMAIN repositories : repositories[i].id \in Ids
  BY ParsedRows DEF IInv
<1>4. ASSUME NEW k \in DOMAIN stores'[c].repositories
      PROVE  \E i \in DOMAIN repositories :
               /\ repositories[i].key = k /\ stores'[c].repositories[k] = repositories[i].id
               /\ MadeFor(c, k)' => MadeRow(i)
  <2>1. PICK i \in DOMAIN repositories :
          repositories[i].key = k /\ stores'[c].repositories[k] = repositories[i].id
    BY <1>2
  <2>2. i \in DOMAIN fixture.repositories /\ fixture.repositories[i].key = k
    BY <2>1 DEF Followed
  <2>3. fixture.repositories[i] \in Elements(stores'[c].from.repositories)
    BY <1>2, <2>2 DEF Elements
  <2>4. MadeFor(c, k)' => MadeRow(i)
    BY <2>2, <2>3 DEF MadeFor, MadeRow
  <2>5. QED
    BY <2>1, <2>4
<1>5. \A s \in Sims : s # c => \A k : MadeFor(s, k)' <=> MadeFor(s, k)
  BY <1>2 DEF MadeFor
<1>6. ASSUME NEW s \in Sims, NEW k \in DOMAIN stores'[s].repositories
      PROVE  /\ stores'[s].repositories[k] \in Ids
             /\ MadeFor(s, k)' => stores'[s].repositories[k] < nextGeneratedRepositoryId
  <2>1. CASE s = c
    BY <1>3, <1>4, <2>1 DEF RepositoriesKnown
  <2>2. CASE s # c
    BY <1>2, <1>5, <2>2 DEF RepositoriesKnown
  <2>3. QED
    BY <2>1, <2>2
<1>7. ASSUME NEW s \in Sims, NEW t \in Sims,
             NEW k \in DOMAIN stores'[s].repositories, NEW l \in DOMAIN stores'[t].repositories,
             <<s, k>> # <<t, l>>, MadeFor(s, k)', MadeFor(t, l)'
      PROVE  stores'[s].repositories[k] # stores'[t].repositories[l]
  <2>1. CASE s # c /\ t # c
    BY <1>2, <1>5, <1>7, <2>1 DEF RepositoriesKnown, RepositoryIdsUnique
  <2>2. CASE s = c /\ t # c
    BY <1>2, <1>4, <1>5, <1>7, <2>2 DEF RepositoriesKnown
  <2>3. CASE s # c /\ t = c
    BY <1>2, <1>4, <1>5, <1>7, <2>3 DEF RepositoriesKnown
  <2>4. CASE s = c /\ t = c
    <3>1. PICK i \in DOMAIN repositories :
            repositories[i].key = k /\ stores'[c].repositories[k] = repositories[i].id
            /\ MadeRow(i)
      BY <1>4, <1>7, <2>4
    <3>2. PICK j \in DOMAIN repositories :
            repositories[j].key = l /\ stores'[c].repositories[l] = repositories[j].id
            /\ MadeRow(j)
      BY <1>4, <1>7, <2>4
    <3>3. i # j
      BY <1>7, <2>4, <3>1, <3>2
    <3>4. QED
      BY <2>4, <3>1, <3>2, <3>3 DEF RepositoriesKnown
  <2>5. QED
    BY <2>1, <2>2, <2>3, <2>4
<1>8. RepositoryIdsUnique'
  BY <1>7 DEF RepositoryIdsUnique
<1>9. QED
  BY <1>1, <1>6, <1>8 DEF RepositoriesKnown

LEMMA StepRepositories ==
    ASSUME IInv, IInv', [Next]_vars, ResetsForward, CountsExactly, Followed, RepositoriesKnown
    PROVE  RepositoriesKnown'
<1>1. CASE UNCHANGED vars \/ (\E s \in Sims : Simulate(s)) \/ TransformInitialState
           \/ NormalizeInstallation \/ EndInstallations \/ InstallOrganization \/ PassOverUsedId
  <2>1. /\ UNCHANGED <<repositories, nextGeneratedRepositoryId, stores>>
        /\ UNCHANGED fixture \/ \E s \in Sims : Simulate(s)
    BY <1>1 DEF vars, parse, Simulate, TransformInitialState, NormalizeInstallation,
                EndInstallations, InstallOrganization, PassOverUsedId
  <2>2. UNCHANGED <<repositories, fixture>> \/ repositories' = <<>>
    BY <2>1 DEF Simulate, Followed, IInv, Located
  <2>3. nextGeneratedRepositoryId' >= nextGeneratedRepositoryId
    BY <2>1 DEF IInv, TypeOK, Ids
  <2>4. QED
    BY <2>1, <2>2, <2>3, QuietRepositories
<1>2. CASE (\E s \in Sims : SimulateUnseeded(s)) \/ RejectInitialState
  <2>1. /\ UNCHANGED <<repositories, fixture>> \/ repositories' = <<>>
        /\ nextGeneratedRepositoryId' = nextGeneratedRepositoryId
        /\ \E t, r : stores' = [stores EXCEPT ![t] = NoStore(r)]
    BY <1>2 DEF SimulateUnseeded, parse, RejectInitialState, Forget
  <2>2. nextGeneratedRepositoryId' >= nextGeneratedRepositoryId
    BY <2>1 DEF IInv, TypeOK, Ids
  <2>3. QED
    BY <2>1, <2>2, QuietRepositories
<1>3. CASE ResetNextRepositoryId
  <2>1. UNCHANGED <<repositories, fixture, stores>>
        /\ nextGeneratedRepositoryId' >= nextGeneratedRepositoryId
    BY <1>3 DEF ResetNextRepositoryId, ResetsForward, parse
  <2>2. QED
    BY <2>1, QuietRepositories
<1>4. QED
  BY <1>1, <1>2, <1>3, ParsingRepository, KeyingRepositories DEF Next, Parse

(* Theorems *****************************************************************)

\* Every id that is made is a number, and every row a whole one.
THEOREM TypeSafety == Spec => []TypeOK
<1>1. IInv => TypeOK
  BY DEF IInv
<1>2. QED
  BY <1>1, AlwaysIInv, PTL

\* An id made for an installation is one that no caller gave and is made once,
\* even where ids can no longer be counted: the search would not end, but
\* hands nothing out.
THEOREM InstallationSafety == Spec => []InstallationIdsUnique
<1>1. IInv => InstallationIdsUnique
  BY DEF IInv
<1>2. QED
  BY <1>1, AlwaysIInv, PTL

\* Simulations of one process, failed ones between them, make no id twice,
\* while the counter can count and is not set back to what it handed out.
THEOREM GeneratedSafety ==
    Spec /\ [][ResetsForward]_vars /\ []CountsExactly => []GeneratedIdsUnique
<1>1. Init => Followed /\ RepositoriesKnown
  BY DEF Init, Followed, RepositoriesKnown, RepositoryIdsUnique, NoStore, Store
<1>2. IInv /\ IInv' /\ [Next]_vars /\ [ResetsForward]_vars /\ CountsExactly
        /\ Followed /\ RepositoriesKnown => Followed' /\ RepositoriesKnown'
  <2>1. IInv /\ UNCHANGED vars => ResetsForward
    BY DEF vars, ResetsForward, IInv, TypeOK, Ids
  <2>2. QED
    BY <2>1, FollowedStep, StepRepositories
<1>3. IInv /\ RepositoriesKnown => GeneratedIdsUnique
  BY DEF IInv, RepositoriesKnown, GeneratedIdsUnique
<1>4. QED
  BY <1>1, <1>2, <1>3, AlwaysIInv, PTL DEF Spec

\* In a store that was built an organisation is found by its installation, and
\* one that needed an installation has exactly one, aimed at it.
THEOREM OrganizationSafety == Spec => []OrganizationsInstalled
<1>1. IInv => OrganizationsInstalled
  BY DEF IInv
<1>2. QED
  BY <1>1, AlwaysIInv, PTL
=============================================================================
