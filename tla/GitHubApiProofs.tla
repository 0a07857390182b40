-------------------------- MODULE GitHubApiProofs --------------------------
(* Theorems about GitHubApi, for any tables a simulation starts with.        *)
EXTENDS GitHubApi, SequenceTheorems, WellFoundedInduction, TLAPS

(* What the tables answer ***************************************************)

ShownOf(t, i) ==
    LET first == GetAppInstallation(t, i.account)
    IN  IF first # {} THEN first ELSE {i}

MembershipsOf(t, requested) ==
    LET user == RequestedUser(t, requested)
    IN  ShowIf("memberships", requested, user # {}, 401,
               {org \in t.organizations :
                    \E u \in user : org \in NormalizeUser(u).organizations})

TokenFor(t, id) ==
    IF \E i \in t.installations : i.id = id
    THEN LET i == CHOOSE i \in t.installations : i.id = id
         IN  Response("token", id, 201, AllReposWithOrgs(t, i.account))
    ELSE Response("token", id, 404, {})

LinkedBlob(t, entry) == ShowFound("blob", entry, GetBlob(t, entry.of, EffectiveSha(entry)))

UserOrganizations(t, login) ==
    LET user == GraphQLUser(t, login)
    IN  ShowIf("userOrganizations", login,
               \E u \in user : u.organizations # Absent, GraphQLError,
               {org \in t.organizations :
                 \E u \in user : u.organizations # Absent /\ org \in u.organizations})

Owner(t, repo) ==
    ShowIf("owner", repo.owner, DeriveOwner(t, repo.owner) # {}, GraphQLError,
           UNION {ReposOf(t, login) : login \in DeriveOwner(t, repo.owner)})

Organization(t, org) ==
    ShowIf("organization", org, org \in t.organizations, GraphQLError, ReposOf(t, org))

\* A held response is what these tables answer.
Answers(t, h) ==
    /\ h.op = "list" => h.rows = UNION {ShownOf(t, i) : i \in t.installations}
    /\ h.op = "orgInstallation" =>
        h.of \in Logins /\ h.rows = GetAppInstallation(t, h.of)
    /\ h.op = "repoInstallation" =>
        h.of \in Repositories /\ h.rows = GetRepoAppInstallation(t, h.of)
    /\ h.op = "listForOrg" =>
        /\ h.status = 200 => h.of \in t.organizations
        /\ h.rows = AllReposWithOrgs(t, h.of)
    /\ h.op = "accessible" => h.rows = t.repositories
    /\ h.op \in {"tree", "content"} => h.rows \subseteq GetBlobAtOwnerRepo(t, h.of)
    /\ h.op = "user" => h.rows = {u.login : u \in FirstUser(t)}
    /\ h.op = "memberships" =>
        h.of \in Logins \cup {Absent} /\ h = MembershipsOf(t, h.of)

\* The next response is what they answer to a request made of that one.
Follows(t, h, g) ==
    /\ g.op = "token" => \E shown \in h.rows : g = TokenFor(t, shown.id)
    /\ g.op = "blob" =>
        /\ h.op \in {"tree", "content"}
        /\ \E entry \in h.rows : g = LinkedBlob(t, entry)
    /\ g.op = "memberships" =>
        h.op = "user" /\ \E login \in h.rows : g = MembershipsOf(t, login)
    /\ g.op = "userOrganizations" =>
        h.op = "memberships" /\ g = UserOrganizations(t, h.of)
    /\ g.op = "owner" =>
        /\ h.op \in {"listForOrg", "accessible"}
        /\ \E repo \in h.rows : g = Owner(t, repo)
    /\ g.op = "organization" =>
        \/ h.op = "listForOrg" /\ g = Organization(t, h.of)
        \/ h.op = "memberships" /\ \E org \in h.rows : g = Organization(t, org)
    /\ g.op = "repository" =>
        /\ h.op \in {"listForOrg", "accessible"}
        /\ \E repo \in h.rows :
            LET found == FindRepository(t, repo)
            IN  \/ found = {} /\ g = Response("repository", repo, GraphQLError, {})
                \/ \E r \in found : g = Response("repository", repo, 200, {r})

\* The inductive invariant.  Before the first request there is nothing to be
\* stale; after a change that followed it, nothing is claimed.
IInv ==
    /\ TypeOK
    /\ held.op = "none" => got = NoResponse
    /\ ~changed => Answers(tables, held) /\ Follows(tables, held, got)

(* Sequences ****************************************************************)

\* A set of numbers that is not empty has a least member.
LEMMA Least ==
    ASSUME NEW T, T \subseteq Nat, T # {}
    PROVE  \E x \in T : \A y \in T : x <= y
<1> DEFINE R == OpToRel(<, Nat)
<1>1. IsWellFoundedOn(R, Nat)
  BY NatLessThanWellFounded
<1>2. \A x, y \in Nat : y < x => <<y, x>> \in R
  BY DEF OpToRel
<1> HIDE DEF R
<1>3. PICK x \in T : \A y \in T : <<y, x>> \notin R
  BY <1>1, WFMin, Zenon
<1>4. \A y \in T : ~(y < x)
  BY <1>2, <1>3, Zenon
<1>5. QED
  BY <1>3, <1>4

\* find() gives one of the rows it looks for, and one if there are any.
LEMMA FirstAtIs ==
    ASSUME NEW S, NEW s \in Seq(S), NEW places \in SUBSET (DOMAIN s)
    PROVE  /\ \A b \in FirstAt(s, places) : \E k \in places : b = s[k]
           /\ places # {} => FirstAt(s, places) # {}
<1>1. \A b \in FirstAt(s, places) : \E k \in places : b = s[k]
  BY DEF FirstAt
<1>2. ASSUME places # {} PROVE FirstAt(s, places) # {}
  <2>1. places \subseteq Nat
    OBVIOUS
  <2>2. PICK k \in places : \A l \in places : k <= l
    BY <1>2, <2>1, Least
  <2>3. s[k] \in FirstAt(s, places)
    BY <2>2 DEF FirstAt
  <2>4. QED
    BY <2>3
<1>3. QED
  BY <1>1, <1>2

\* Where the m-th was before the k-th was removed.
Place(k, m) == IF m < k THEN m ELSE m + 1

LEMMA Removed ==
    ASSUME NEW S, NEW s \in Seq(S), NEW k \in DOMAIN s
    PROVE  /\ RemoveAt(s, k) \in Seq(S)
           /\ \A m \in DOMAIN RemoveAt(s, k) :
                Place(k, m) \in DOMAIN s /\ RemoveAt(s, k)[m] = s[Place(k, m)]
           /\ \A l, m \in DOMAIN RemoveAt(s, k) : Place(k, l) = Place(k, m) => l = m
<1> DEFINE a == SubSeq(s, 1, k - 1)
           b == SubSeq(s, k + 1, Len(s))
           N == Len(s)
<1>1. N \in Nat /\ k \in 1..N /\ DOMAIN s = 1..N
  OBVIOUS
<1>2. /\ a \in Seq(S) /\ Len(a) = k - 1
      /\ \A m \in 1..(k - 1) : a[m] = s[m]
  BY <1>1
<1>3. /\ b \in Seq(S) /\ Len(b) = N - k
      /\ \A m \in 1..(N - k) : b[m] = s[k + m]
  BY <1>1
<1>4. RemoveAt(s, k) = a \o b
  BY DEF RemoveAt
<1> HIDE DEF a, b, N
<1>5. a \o b \in Seq(S) /\ Len(a \o b) = Len(a) + Len(b) /\ DOMAIN (a \o b) = 1..Len(a \o b)
  <2>1. a \in Seq(S) /\ b \in Seq(S)
    BY <1>2, <1>3
  <2>2. a \o b \in Seq(S) /\ Len(a \o b) = Len(a) + Len(b)
    BY <2>1, ConcatProperties
  <2>3. QED
    BY <2>2
<1>6. DOMAIN (a \o b) = 1..(N - 1)
  <2>1. (k - 1) + (N - k) = N - 1
    BY <1>1
  <2>2. QED
    BY <1>2, <1>3, <1>5, <2>1
<1>7. ASSUME NEW m \in 1..(N - 1)
      PROVE  Place(k, m) \in 1..N /\ (a \o b)[m] = s[Place(k, m)]
  <2>1. CASE m < k
    <3>1. m \in 1..(k - 1) /\ m \in 1..N /\ Place(k, m) = m
      BY <1>1, <2>1 DEF Place
    <3>2. (a \o b)[m] = a[m]
      BY <1>2, <1>3, <3>1
    <3>3. QED
      BY <1>2, <3>1, <3>2
  <2>2. CASE ~(m < k)
    <3>1. /\ m - (k - 1) \in 1..(N - k) /\ k + (m - (k - 1)) = m + 1
          /\ m + 1 \in 1..N /\ Place(k, m) = m + 1 /\ ~(m <= k - 1)
          /\ m \in 1..((k - 1) + (N - k))
      BY <1>1, <2>2 DEF Place
    <3>2. (a \o b)[m] = b[m - (k - 1)]
      BY <1>1, <1>2, <1>3, <3>1
    <3>3. b[m - (k - 1)] = s[m + 1]
      BY <1>3, <3>1
    <3>4. QED
      BY <3>1, <3>2, <3>3
  <2>3. QED
    BY <2>1, <2>2
<1>8. \A l, m \in 1..(N - 1) : Place(k, l) = Place(k, m) => l = m
  BY <1>1 DEF Place
<1>9. QED
  BY <1>1, <1>4, <1>5, <1>6, <1>7, <1>8

(* Selectors ****************************************************************)

LEMMA BlobsAre ==
    ASSUME NEW t \in Tables
    PROVE  /\ t.blobs \in Seq(Blobs)
           /\ \A k \in DOMAIN t.blobs : t.blobs[k] \in Blobs
           /\ t.users \in Seq(Users)
           /\ \A k \in DOMAIN t.users : t.users[k] \in Users /\ t.users[k].login \in Logins
<1>1. t.blobs \in Seq(Blobs) /\ t.users \in Seq(Users)
  BY DEF Tables
<1>2. \A k \in DOMAIN t.blobs : t.blobs[k] \in Blobs
  BY <1>1
<1>3. \A k \in DOMAIN t.users : t.users[k] \in Users
  BY <1>1
<1>4. \A u \in Users : u.login \in Logins
  BY DEF Users
<1>5. QED
  BY <1>1, <1>2, <1>3, <1>4, Zenon

LEMMA GetBlobIs ==
    ASSUME NEW t \in Tables, NEW repo, NEW ref
    PROVE  /\ \A b \in GetBlob(t, repo, ref) :
                \E k \in DOMAIN t.blobs :
                    b = t.blobs[k] /\ b.of = repo /\ ref \in {b.path, b.sha}
           /\ (\E k \in DOMAIN t.blobs :
                    t.blobs[k].of = repo /\ ref \in {t.blobs[k].path, t.blobs[k].sha})
                => GetBlob(t, repo, ref) # {}
<1> DEFINE places == {k \in DOMAIN t.blobs :
                t.blobs[k].of = repo /\ ref \in {t.blobs[k].path, t.blobs[k].sha}}
<1>1. places \in SUBSET (DOMAIN t.blobs)
  OBVIOUS
<1>2. GetBlob(t, repo, ref) = FirstAt(t.blobs, places)
  BY DEF GetBlob
<1>3. t.blobs \in Seq(Blobs)
  BY BlobsAre
<1>4. /\ \A b \in FirstAt(t.blobs, places) : \E k \in places : b = t.blobs[k]
      /\ places # {} => FirstAt(t.blobs, places) # {}
  <2> HIDE DEF places
  <2>1. QED
    BY <1>1, <1>3, FirstAtIs
<1>5. QED
  BY <1>2, <1>4

LEMMA FirstUserIs ==
    ASSUME NEW t \in Tables
    PROVE  /\ \A u \in FirstUser(t) : \E k \in DOMAIN t.users : u = t.users[k]
<1>1. DOMAIN t.users \in SUBSET (DOMAIN t.users) /\ t.users \in Seq(Users)
  BY BlobsAre
<1>2. QED
  BY <1>1, FirstAtIs DEF FirstUser, FirstRow

\* An organisation with an installation has a first.
LEMMA GetAppInstallationIs ==
    ASSUME NEW t \in Tables, NEW org
    PROVE  /\ \A i \in GetAppInstallation(t, org) :
                i \in t.installations /\ i.account = org /\ org \in t.organizations
           /\ org \in t.organizations /\ InstallationsOf(t, org) # {}
                => GetAppInstallation(t, org) # {}
<1>1. \A i \in GetAppInstallation(t, org) :
        i \in t.installations /\ i.account = org /\ org \in t.organizations
  BY DEF GetAppInstallation, InstallationsOf
<1>2. ASSUME org \in t.organizations, InstallationsOf(t, org) # {}
      PROVE  GetAppInstallation(t, org) # {}
  <2> DEFINE rows == InstallationsOf(t, org)
             T == {i.id : i \in rows}
  <2>1. T \subseteq Nat /\ T # {}
    <3>1. \A i \in t.installations : i.id \in Nat
      BY IdsAssumption DEF Tables, Installations
    <3>2. QED
      BY <1>2, <3>1 DEF InstallationsOf
  <2>2. PICK n \in T : \A m \in T : n <= m
    <3> HIDE DEF T
    <3>1. QED
      BY <2>1, Least
  <2>3. PICK i \in rows : \A j \in rows : i.id <= j.id
    BY <2>2
  <2>4. First(rows) \in rows
    BY <2>3 DEF First
  <2>5. QED
    BY <1>2, <2>4 DEF GetAppInstallation
<1>3. QED
  BY <1>1, <1>2

\* The id alone decides what a token is for.
LEMMA TokenForShown ==
    ASSUME NEW t \in Tables, Keyed(t), NEW i \in t.installations
    PROVE  TokenFor(t, i.id) = Response("token", i.id, 201, AllReposWithOrgs(t, i.account))
<1>1. (CHOOSE j \in t.installations : j.id = i.id) = i
  <2>1. \A j \in t.installations : j.id = i.id => j = i
    BY DEF Keyed
  <2>2. QED
    BY <2>1
<1>2. QED
  BY <1>1 DEF TokenFor

\* Every installation listed is in the table, for the account it is shown for.
LEMMA ShownOfIs ==
    ASSUME NEW t \in Tables, NEW i \in t.installations
    PROVE  /\ \A j \in ShownOf(t, i) : j \in t.installations /\ j.account = i.account
           /\ ShownOf(t, i) # {}
  BY GetAppInstallationIs DEF ShownOf

LEMMA ResponseFields ==
    ASSUME NEW op, NEW arg, NEW status, NEW rows
    PROVE  /\ Response(op, arg, status, rows).op = op
           /\ Response(op, arg, status, rows).of = arg
           /\ Response(op, arg, status, rows).status = status
           /\ Response(op, arg, status, rows).rows = rows
  BY DEF Response

LEMMA ShowFoundFields ==
    ASSUME NEW op, NEW arg, NEW rows
    PROVE  /\ ShowFound(op, arg, rows).op = op
           /\ ShowFound(op, arg, rows).of = arg
           /\ ShowFound(op, arg, rows).rows = rows
           /\ rows # {} => ShowFound(op, arg, rows).status = 200
  BY DEF ShowFound, ShowIf, Response

(* What the invariant implies ***********************************************)

LEMMA TokenCovers == IInv => TokenCoversRepository
<1> SUFFICES ASSUME IInv, got.op = "token", ~changed
             PROVE  /\ held.op = "repoInstallation" =>
                        /\ got.status = 201
                        /\ held.of \in got.rows
                        /\ \A r \in got.rows : r.owner = held.of.owner
                    /\ held.op = "orgInstallation" =>
                        /\ got.status = 201
                        /\ got.rows = AllReposWithOrgs(tables, held.of)
  BY DEF TokenCoversRepository
<1>1. tables \in Tables /\ Keyed(tables)
  BY DEF IInv, TypeOK
<1>2. PICK shown \in held.rows : got = TokenFor(tables, shown.id)
  BY DEF IInv, Follows
<1>3. ASSUME NEW org, shown \in GetAppInstallation(tables, org)
      PROVE  /\ org \in tables.organizations
             /\ got = Response("token", shown.id, 201, AllReposWithOrgs(tables, org))
  <2>1. shown \in tables.installations /\ shown.account = org /\ org \in tables.organizations
    BY <1>1, <1>3, GetAppInstallationIs
  <2>2. QED
    BY <1>1, <1>2, <2>1, TokenForShown
<1>4. CASE held.op = "repoInstallation"
  <2>1. held.of \in Repositories /\ held.rows = GetRepoAppInstallation(tables, held.of)
    BY <1>4 DEF IInv, Answers
  <2>2. held.of \in tables.repositories /\ shown \in GetAppInstallation(tables, held.of.owner)
    BY <1>2, <2>1 DEF GetRepoAppInstallation
  <2>3. /\ got.status = 201
        /\ got.rows = ReposOf(tables, held.of.owner)
    BY <1>3, <2>2, ResponseFields DEF AllReposWithOrgs
  <2>4. QED
    BY <1>4, <2>2, <2>3 DEF ReposOf
<1>5. CASE held.op = "orgInstallation"
  <2>1. held.rows = GetAppInstallation(tables, held.of)
    BY <1>5 DEF IInv, Answers
  <2>2. got = Response("token", shown.id, 201, AllReposWithOrgs(tables, held.of))
    BY <1>2, <1>3, <2>1
  <2>3. QED
    BY <1>5, <2>2, ResponseFields
<1>6. QED
  BY <1>4, <1>5

LEMMA ListCompletes == IInv => ListIsComplete
<1> SUFFICES ASSUME IInv, held.op = "list", ~changed
             PROVE  /\ {i.account : i \in held.rows} = {i.account : i \in tables.installations}
                    /\ got.op = "token" =>
                        /\ got.status = 201
                        /\ \E i \in held.rows :
                            i.id = got.of /\ got.rows = AllReposWithOrgs(tables, i.account)
                    /\ (\A i, j \in tables.installations : i.account = j.account => i = j)
                         => held.rows = tables.installations
  BY DEF ListIsComplete
<1>1. tables \in Tables /\ Keyed(tables)
  BY DEF IInv, TypeOK
<1>2. held.rows = UNION {ShownOf(tables, i) : i \in tables.installations}
  BY DEF IInv, Answers
<1>3. \A i \in tables.installations :
        /\ \A j \in ShownOf(tables, i) : j \in tables.installations /\ j.account = i.account
        /\ \E j \in ShownOf(tables, i) : TRUE
  BY <1>1, ShownOfIs
<1>4. /\ \A j \in held.rows : j \in tables.installations
      /\ \A i \in tables.installations : \E j \in held.rows : j.account = i.account
  BY <1>2, <1>3
<1>5. {i.account : i \in held.rows} = {i.account : i \in tables.installations}
  BY <1>4
<1>6. ASSUME got.op = "token"
      PROVE  /\ got.status = 201
             /\ \E i \in held.rows :
                 i.id = got.of /\ got.rows = AllReposWithOrgs(tables, i.account)
  <2>1. PICK shown \in held.rows : got = TokenFor(tables, shown.id)
    BY <1>6 DEF IInv, Follows
  <2>2. QED
    BY <1>1, <1>4, <2>1, TokenForShown, ResponseFields
<1>7. ASSUME \A i, j \in tables.installations : i.account = j.account => i = j
      PROVE  held.rows = tables.installations
  BY <1>4, <1>7
<1>8. QED
  BY <1>5, <1>6, <1>7

LEMMA LinkReturns == IInv => TreeLinkReturnsEntry
<1> SUFFICES ASSUME IInv, got.op = "blob", ~changed,
                    ProperShas(GetBlobAtOwnerRepo(tables, held.of))
             PROVE  got.status = 200 /\ \A b \in got.rows : b.content = got.of.content
  BY DEF TreeLinkReturnsEntry
<1>1. tables \in Tables /\ Keyed(tables)
  BY DEF IInv, TypeOK
<1>2. PICK entry \in held.rows : got = LinkedBlob(tables, entry)
  BY DEF IInv, Follows
<1>3. held.rows \subseteq GetBlobAtOwnerRepo(tables, held.of)
  BY DEF IInv, Follows, Answers
<1> DEFINE ref == EffectiveSha(entry)
           rows == GetBlob(tables, entry.of, ref)
<1>4. got.of = entry /\ got.rows = rows /\ (rows # {} => got.status = 200)
  BY <1>2, ShowFoundFields DEF LinkedBlob
<1>5. PICK k \in DOMAIN tables.blobs : entry = tables.blobs[k] /\ entry.of = held.of
  BY <1>2, <1>3 DEF GetBlobAtOwnerRepo, ToSet
<1>6. entry.path # Absent \/ entry.sha # Absent
  BY <1>1, <1>5, BlobsAre DEF Blobs
<1>7. rows # {}
  <2>1. ref \in {entry.path, entry.sha}
    BY DEF EffectiveSha
  <2>2. tables.blobs[k].of = entry.of /\ ref \in {tables.blobs[k].path, tables.blobs[k].sha}
    BY <1>5, <2>1
  <2> HIDE DEF ref
  <2>3. QED
    BY <1>1, <2>2, GetBlobIs
<1>8. ASSUME NEW b \in rows PROVE b.content = entry.content
  <2>1. PICK l \in DOMAIN tables.blobs :
            b = tables.blobs[l] /\ b.of = entry.of /\ ref \in {b.path, b.sha}
    <3> HIDE DEF ref
    <3>1. QED
      BY <1>1, <1>8, GetBlobIs
  <2>2. /\ b \in GetBlobAtOwnerRepo(tables, held.of)
        /\ entry \in GetBlobAtOwnerRepo(tables, held.of)
    BY <1>5, <2>1 DEF GetBlobAtOwnerRepo, ToSet
  <2>3. CASE entry.sha # Absent
    <3>1. ref = entry.sha
      BY <2>3 DEF EffectiveSha
    <3>2. ref # b.path
      BY <2>2, <2>3, <3>1 DEF ProperShas
    <3>3. QED
      BY <2>1, <2>2, <2>3, <3>1, <3>2 DEF ProperShas
  <2>4. CASE entry.sha = Absent
    <3>1. ref = entry.path /\ entry.path # Absent
      BY <1>6, <2>4 DEF EffectiveSha
    <3>2. ref # b.sha
      BY <2>2, <3>1 DEF ProperShas
    <3>3. BlobStoreKey(tables.blobs[l]) = BlobStoreKey(tables.blobs[k])
      BY <1>5, <2>1, <3>1, <3>2 DEF BlobStoreKey
    <3>4. l = k
      BY <1>1, <3>3 DEF Keyed
    <3>5. QED
      BY <1>5, <2>1, <3>4
  <2>5. QED
    BY <2>3, <2>4
<1>9. QED
  BY <1>4, <1>7, <1>8

\* GraphQL's organisations of a user are the memberships of that user.
LEMMA UserOrganizationsAgree ==
    ASSUME NEW t, NEW login, NEW h, NEW g,
           h = MembershipsOf(t, login), g = UserOrganizations(t, login)
    PROVE  /\ g.status = 200 => h.status = 200
           /\ g.rows = h.rows
<1> DEFINE user == GraphQLUser(t, login)
           some == \E u \in user : u.organizations # Absent
           orgs == {org \in t.organizations :
                        \E u \in user : u.organizations # Absent /\ org \in u.organizations}
           members == {org \in t.organizations :
                        \E u \in user : org \in NormalizeUser(u).organizations}
<1>1. /\ h = ShowIf("memberships", login, user # {}, 401, members)
      /\ g = ShowIf("userOrganizations", login, some, GraphQLError, orgs)
  BY DEF MembershipsOf, UserOrganizations, RequestedUser, GraphQLUser
<1>2. /\ user # {} => h.status = 200 /\ h.rows = members
      /\ user = {} => h.rows = {}
  BY <1>1 DEF ShowIf, Response
<1>3. /\ some => g.rows = orgs
      /\ ~some => g.status = GraphQLError /\ g.rows = {}
  BY <1>1 DEF ShowIf, Response
<1>4. orgs = members
  BY DEF NormalizeUser
<1>5. ~some => orgs = {}
  OBVIOUS
<1>6. some => user # {}
  OBVIOUS
<1>7. GraphQLError # 200
  BY DEF GraphQLError
<1> HIDE DEF user, some, orgs, members
<1>8. QED
  BY <1>2, <1>3, <1>4, <1>5, <1>6, <1>7

LEMMA RestAgrees == IInv => RestAgreesWithGraphQL
<1> SUFFICES ASSUME IInv, ~changed
             PROVE  RestAgreesWithGraphQL
  BY DEF RestAgreesWithGraphQL
<1>1. tables \in Tables
  BY DEF IInv, TypeOK
<1>2. Answers(tables, held) /\ Follows(tables, held, got)
  BY DEF IInv
<1>3. ASSUME got.op = "memberships" PROVE got.status = 200
  <2>1. PICK login \in held.rows : got = MembershipsOf(tables, login)
    BY <1>2, <1>3 DEF Follows
  <2>2. PICK u \in FirstUser(tables) : login = u.login
    BY <1>2, <1>3 DEF Follows, Answers
  <2>3. u \in ToSet(tables.users) /\ login \in Logins
    BY <1>1, <2>2, FirstUserIs, BlobsAre DEF ToSet
  <2>4. RequestedUser(tables, login) # {}
    BY <2>2, <2>3, AbsentAssumption DEF RequestedUser, UserOf
  <2>5. QED
    BY <2>1, <2>4 DEF MembershipsOf, ShowIf, Response
<1>4. ASSUME got.op = "userOrganizations"
      PROVE  (got.status = 200 => held.status = 200) /\ got.rows = held.rows
  <2>1. held = MembershipsOf(tables, held.of) /\ got = UserOrganizations(tables, held.of)
    BY <1>2, <1>4 DEF Follows, Answers
  <2>2. QED
    BY <2>1, UserOrganizationsAgree
<1>5. ASSUME got.op = "owner"
      PROVE  /\ got.status = 200 => got.rows = {r \in held.rows : r.owner = got.of}
             /\ held.op = "listForOrg" => got.status = 200
  <2>1. PICK repo \in held.rows : got = Owner(tables, repo)
    BY <1>2, <1>5 DEF Follows
  <2> DEFINE logins == DeriveOwner(tables, repo.owner)
             owned == UNION {ReposOf(tables, login) : login \in logins}
  <2>2. \A login \in logins : login = repo.owner
    BY DEF DeriveOwner, UserOf
  <2>3. logins # {} => owned = ReposOf(tables, repo.owner)
    BY <2>2
  <2>4. /\ got.of = repo.owner
        /\ logins # {} => got.status = 200 /\ got.rows = owned
        /\ logins = {} => got.status = GraphQLError
    <3> HIDE DEF logins, owned
    <3>1. got = ShowIf("owner", repo.owner, logins # {}, GraphQLError, owned)
      BY <2>1 DEF Owner, logins, owned
    <3>2. QED
      BY <3>1 DEF ShowIf, Response
  <2>5. {r \in held.rows : r.owner = repo.owner} = ReposOf(tables, repo.owner)
    <3>1. CASE held.op = "accessible"
      BY <1>2, <3>1 DEF Answers, ReposOf
    <3>2. CASE held.op = "listForOrg"
      BY <1>2, <3>2 DEF Answers, AllReposWithOrgs, ReposOf
    <3>3. QED
      BY <1>2, <1>5, <3>1, <3>2 DEF Follows
  <2>6. held.op = "listForOrg" => logins # {}
    BY <1>2 DEF Answers, AllReposWithOrgs, ReposOf, DeriveOwner
  <2> HIDE DEF logins, owned
  <2>7. GraphQLError # 200
    BY DEF GraphQLError
  <2>8. QED
    BY <2>3, <2>4, <2>5, <2>6, <2>7
<1>6. ASSUME got.op = "organization"
      PROVE  /\ held.status = 200 => got.status = 200
             /\ held.op = "listForOrg" => got.rows = held.rows
  <2>1. ASSUME NEW org, got = Organization(tables, org)
        PROVE  /\ org \in tables.organizations =>
                    got.status = 200 /\ got.rows = ReposOf(tables, org)
               /\ org \notin tables.organizations => got.rows = {}
    BY <2>1 DEF Organization, ShowIf, Response
  <2>2. CASE held.op = "listForOrg"
    <3>1. got = Organization(tables, held.of)
      BY <1>2, <1>6, <2>2 DEF Follows
    <3>2. /\ held.status = 200 => held.of \in tables.organizations
          /\ held.rows = AllReposWithOrgs(tables, held.of)
      BY <1>2, <2>2 DEF Answers
    <3>3. QED
      BY <2>1, <3>1, <3>2 DEF AllReposWithOrgs
  <2>3. CASE held.op = "memberships"
    <3>1. PICK org \in held.rows : got = Organization(tables, org)
      BY <1>2, <1>6, <2>3 DEF Follows
    <3>2. held = MembershipsOf(tables, held.of)
      BY <1>2, <2>3 DEF Answers
    <3>3. org \in tables.organizations
      BY <3>1, <3>2 DEF MembershipsOf, ShowIf, Response
    <3>4. QED
      BY <2>1, <2>3, <3>1, <3>3
  <2>4. QED
    BY <1>2, <1>6, <2>2, <2>3 DEF Follows
<1>7. ASSUME got.op = "repository"
      PROVE  /\ got.status = 200
             /\ got.rows # {got.of} =>
                  \E r \in tables.repositories \ {got.of} : SameFolded(r, got.of)
  <2>1. PICK repo \in held.rows :
            \/ /\ FindRepository(tables, repo) = {}
               /\ got = Response("repository", repo, GraphQLError, {})
            \/ \E r \in FindRepository(tables, repo) :
                    got = Response("repository", repo, 200, {r})
    BY <1>2, <1>7 DEF Follows
  <2>2. repo \in tables.repositories
    <3>1. CASE held.op = "accessible"
      BY <1>2, <2>1, <3>1 DEF Answers
    <3>2. CASE held.op = "listForOrg"
      BY <1>2, <2>1, <3>2 DEF Answers, AllReposWithOrgs, ReposOf
    <3>3. QED
      BY <1>2, <1>7, <3>1, <3>2 DEF Follows
  <2>3. repo \in FindRepository(tables, repo)
    BY <2>2 DEF FindRepository, SameFolded
  <2>4. PICK r \in FindRepository(tables, repo) : got = Response("repository", repo, 200, {r})
    BY <2>1, <2>3
  <2>5. got.status = 200 /\ got.of = repo /\ got.rows = {r}
    BY <2>4, ResponseFields
  <2>6. r \in tables.repositories /\ SameFolded(r, repo)
    BY <2>4 DEF FindRepository
  <2>7. QED
    BY <2>5, <2>6
<1>8. QED
  BY <1>3, <1>4, <1>5, <1>6, <1>7 DEF RestAgreesWithGraphQL

(* Requests *****************************************************************)

FirstOps == {"list", "orgInstallation", "repoInstallation", "listForOrg", "accessible",
             "tree", "content", "user", "memberships"}
NextOps == {"token", "blob", "memberships", "userOrganizations", "owner", "organization",
            "repository"}

\* What a first request does, and what the one after it does.
HoldsAnswer ==
    /\ held'.op \in FirstOps /\ ShowsRowsIfFound(held') /\ Answers(tables, held')
    /\ got' = NoResponse /\ changed' = FALSE /\ UNCHANGED tables

GetsAnswer ==
    /\ held.op # "none"
    /\ got'.op \in NextOps /\ ShowsRowsIfFound(got') /\ Follows(tables, held, got')
    /\ UNCHANGED <<tables, held, changed>>

LEMMA HoldsKeeps == IInv /\ HoldsAnswer => IInv'
<1> SUFFICES ASSUME IInv, HoldsAnswer PROVE IInv'
  OBVIOUS
<1>1. NoResponse.op = "none" /\ ShowsRowsIfFound(NoResponse)
  BY DEF NoResponse, Response, ShowsRowsIfFound
<1>2. tables' = tables /\ got' = NoResponse /\ changed' = FALSE
  BY DEF HoldsAnswer
<1>3. Follows(tables, held', NoResponse)
  BY <1>1 DEF Follows
<1>4. TypeOK'
  BY <1>1, <1>2 DEF IInv, TypeOK, HoldsAnswer, FirstOps, Keyed
<1>5. QED
  BY <1>2, <1>3, <1>4 DEF IInv, HoldsAnswer

LEMMA GetsKeeps == IInv /\ GetsAnswer => IInv'
<1> SUFFICES ASSUME IInv, GetsAnswer PROVE IInv'
  OBVIOUS
<1>1. tables' = tables /\ held' = held /\ changed' = changed
  BY DEF GetsAnswer
<1>2. TypeOK'
  BY <1>1 DEF IInv, TypeOK, GetsAnswer, NextOps, Keyed
<1>3. QED
  BY <1>1, <1>2 DEF IInv, GetsAnswer

LEMMA FirstRequests ==
    ASSUME tables \in Tables
    PROVE  /\ ListInstallations \/ ListReposAccessible \/ GetAuthenticated => HoldsAnswer
           /\ \A org \in Logins : GetOrgInstallation(org) \/ ListForOrg(org) => HoldsAnswer
           /\ \A repo \in Repositories : GetRepoInstallation(repo) \/ GetTree(repo) => HoldsAnswer
           /\ \A repo \in Repositories, path \in Refs : GetContent(repo, path) => HoldsAnswer
           /\ \A requested \in Logins \cup {Absent} : ListMemberships(requested) => HoldsAnswer
<1>1. ListInstallations => HoldsAnswer
  <2>1. SUFFICES ASSUME ListInstallations PROVE HoldsAnswer
    OBVIOUS
  <2>2. {Shown(i) : i \in tables.installations} = {ShownOf(tables, i) : i \in tables.installations}
    BY DEF Shown, ShownOf
  <2>3. held'.op = "list" /\ held'.status = 200 /\ held'.rows = UNION {ShownOf(tables, i) : i \in tables.installations}
    BY <2>1, <2>2, ResponseFields DEF ListInstallations, Hold
  <2>4. QED
    BY <2>1, <2>3 DEF HoldsAnswer, ListInstallations, Hold, FirstOps, ShowsRowsIfFound, Answers
<1>2. ListReposAccessible => HoldsAnswer
  <2>1. SUFFICES ASSUME ListReposAccessible PROVE HoldsAnswer
    OBVIOUS
  <2>2. held'.op = "accessible" /\ held'.status = 200 /\ held'.rows = tables.repositories
    BY <2>1, ResponseFields DEF ListReposAccessible, Hold
  <2>3. QED
    BY <2>1, <2>2 DEF HoldsAnswer, ListReposAccessible, Hold, FirstOps, ShowsRowsIfFound, Answers
<1>3. GetAuthenticated => HoldsAnswer
  <2>1. SUFFICES ASSUME GetAuthenticated PROVE HoldsAnswer
    OBVIOUS
  <2>2. /\ held'.op = "user"
        /\ held'.status = 200 \/ held'.rows = {}
        /\ held'.rows = {u.login : u \in FirstUser(tables)}
    BY <2>1 DEF GetAuthenticated, Hold, ShowIf, Response
  <2>3. QED
    BY <2>1, <2>2 DEF HoldsAnswer, GetAuthenticated, Hold, FirstOps, ShowsRowsIfFound, Answers
<1>4. ASSUME NEW org \in Logins, GetOrgInstallation(org) PROVE HoldsAnswer
  <2>1. /\ held'.op = "orgInstallation" /\ held'.of = org
        /\ held'.status = 200 \/ held'.rows = {}
        /\ held'.rows = GetAppInstallation(tables, org)
    BY <1>4, ShowFoundFields DEF GetOrgInstallation, Hold
  <2>2. QED
    BY <1>4, <2>1 DEF HoldsAnswer, GetOrgInstallation, Hold, FirstOps, ShowsRowsIfFound, Answers
<1>5. ASSUME NEW org \in Logins, ListForOrg(org) PROVE HoldsAnswer
  <2>1. /\ held'.op = "listForOrg" /\ held'.of = org
        /\ held'.status = 200 \/ held'.rows = {}
        /\ held'.status = 200 => org \in tables.organizations
        /\ held'.rows = AllReposWithOrgs(tables, org)
    BY <1>5 DEF ListForOrg, Hold, ShowIf, Response, AllReposWithOrgs
  <2>2. QED
    BY <1>5, <2>1 DEF HoldsAnswer, ListForOrg, Hold, FirstOps, ShowsRowsIfFound, Answers
<1>6. ASSUME NEW repo \in Repositories, GetRepoInstallation(repo) PROVE HoldsAnswer
  <2>1. /\ held'.op = "repoInstallation" /\ held'.of = repo
        /\ held'.status = 200 \/ held'.rows = {}
        /\ held'.rows = GetRepoAppInstallation(tables, repo)
    BY <1>6, ShowFoundFields DEF GetRepoInstallation, Hold
  <2>2. QED
    BY <1>6, <2>1 DEF HoldsAnswer, GetRepoInstallation, Hold, FirstOps, ShowsRowsIfFound, Answers
<1>7. ASSUME NEW repo \in Repositories, GetTree(repo) PROVE HoldsAnswer
  <2>1. /\ held'.op = "tree" /\ held'.of = repo
        /\ held'.status = 200 \/ held'.rows = {}
        /\ held'.rows \subseteq GetBlobAtOwnerRepo(tables, repo)
    BY <1>7 DEF GetTree, Hold, ShowIf, Response
  <2>2. QED
    BY <1>7, <2>1 DEF HoldsAnswer, GetTree, Hold, FirstOps, ShowsRowsIfFound, Answers
<1>8. ASSUME NEW repo \in Repositories, NEW path \in Refs, GetContent(repo, path)
      PROVE  HoldsAnswer
  <2>1. /\ held'.op = "content" /\ held'.of = repo
        /\ held'.status = 200 \/ held'.rows = {}
        /\ held'.rows = GetBlob(tables, repo, path)
    BY <1>8, ShowFoundFields DEF GetContent, Hold
  <2>2. GetBlob(tables, repo, path) \subseteq GetBlobAtOwnerRepo(tables, repo)
    BY GetBlobIs DEF GetBlobAtOwnerRepo, ToSet
  <2>3. QED
    BY <1>8, <2>1, <2>2 DEF HoldsAnswer, GetContent, Hold, FirstOps, ShowsRowsIfFound, Answers
<1>9. ASSUME NEW requested \in Logins \cup {Absent}, ListMemberships(requested)
      PROVE  HoldsAnswer
  <2>1. held' = MembershipsOf(tables, requested)
    BY <1>9 DEF ListMemberships, Hold, Memberships, MembershipsOf
  <2>2. /\ held'.op = "memberships" /\ held'.of = requested
        /\ held'.status = 200 \/ held'.rows = {}
    BY <2>1 DEF MembershipsOf, ShowIf, Response
  <2>3. QED
    BY <1>9, <2>1, <2>2 DEF HoldsAnswer, ListMemberships, Hold, FirstOps, ShowsRowsIfFound, Answers
<1>10. QED
  BY <1>1, <1>2, <1>3, <1>4, <1>5, <1>6, <1>7, <1>8, <1>9

LEMMA NextRequests ==
    CreateInstallationAccessToken \/ GetLinkedBlob \/ ListOwnMemberships
        \/ QueryUserOrganizations \/ QueryRepositoryOwner \/ QueryOrganization \/ QueryRepository
      => GetsAnswer
<1>1. CreateInstallationAccessToken => GetsAnswer
  <2>1. SUFFICES ASSUME CreateInstallationAccessToken PROVE GetsAnswer
    OBVIOUS
  <2>2. PICK shown \in held.rows : got' = TokenFor(tables, shown.id)
    BY <2>1 DEF CreateInstallationAccessToken, Get, TokenFor
  <2>3. got'.op = "token" /\ (got'.status = 201 \/ got'.rows = {})
    BY <2>2 DEF TokenFor, Response
  <2>4. UNCHANGED <<tables, held, changed>> /\ held.op # "none"
    BY <2>1 DEF CreateInstallationAccessToken, Get
  <2>5. QED
    BY <2>2, <2>3, <2>4 DEF GetsAnswer, NextOps, ShowsRowsIfFound, Follows
<1>2. GetLinkedBlob => GetsAnswer
  <2>1. SUFFICES ASSUME GetLinkedBlob PROVE GetsAnswer
    OBVIOUS
  <2>2. PICK entry \in held.rows : got' = LinkedBlob(tables, entry)
    BY <2>1 DEF GetLinkedBlob, Get, LinkedBlob
  <2>3. got'.op = "blob" /\ (got'.status = 200 \/ got'.rows = {})
    BY <2>2, ShowFoundFields DEF LinkedBlob
  <2>4. UNCHANGED <<tables, held, changed>> /\ held.op \in {"tree", "content"}
    BY <2>1 DEF GetLinkedBlob, Get
  <2>5. QED
    BY <2>2, <2>3, <2>4 DEF GetsAnswer, NextOps, ShowsRowsIfFound, Follows
<1>3. ListOwnMemberships => GetsAnswer
  <2>1. SUFFICES ASSUME ListOwnMemberships PROVE GetsAnswer
    OBVIOUS
  <2>2. PICK login \in held.rows : got' = MembershipsOf(tables, login)
    BY <2>1 DEF ListOwnMemberships, Get, Memberships, MembershipsOf
  <2>3. got'.op = "memberships" /\ (got'.status = 200 \/ got'.rows = {})
    BY <2>2 DEF MembershipsOf, ShowIf, Response
  <2>4. UNCHANGED <<tables, held, changed>> /\ held.op = "user"
    BY <2>1 DEF ListOwnMemberships, Get
  <2>5. QED
    BY <2>2, <2>3, <2>4 DEF GetsAnswer, NextOps, ShowsRowsIfFound, Follows
<1>4. QueryUserOrganizations => GetsAnswer
  <2>1. SUFFICES ASSUME QueryUserOrganizations PROVE GetsAnswer
    OBVIOUS
  <2>2. got' = UserOrganizations(tables, held.of)
    BY <2>1 DEF QueryUserOrganizations, Get, UserOrganizations
  <2>3. got'.op = "userOrganizations" /\ (got'.status = 200 \/ got'.rows = {})
    BY <2>2 DEF UserOrganizations, ShowIf, Response
  <2>4. UNCHANGED <<tables, held, changed>> /\ held.op = "memberships"
    BY <2>1 DEF QueryUserOrganizations, Get
  <2>5. QED
    BY <2>2, <2>3, <2>4 DEF GetsAnswer, NextOps, ShowsRowsIfFound, Follows
<1>5. QueryRepositoryOwner => GetsAnswer
  <2>1. SUFFICES ASSUME QueryRepositoryOwner PROVE GetsAnswer
    OBVIOUS
  <2>2. PICK repo \in held.rows : got' = Owner(tables, repo)
    BY <2>1 DEF QueryRepositoryOwner, Get, Owner
  <2>3. got'.op = "owner" /\ (got'.status = 200 \/ got'.rows = {})
    BY <2>2 DEF Owner, ShowIf, Response
  <2>4. UNCHANGED <<tables, held, changed>> /\ held.op \in {"listForOrg", "accessible"}
    BY <2>1 DEF QueryRepositoryOwner, Get
  <2>5. QED
    BY <2>2, <2>3, <2>4 DEF GetsAnswer, NextOps, ShowsRowsIfFound, Follows
<1>6. QueryOrganization => GetsAnswer
  <2>1. SUFFICES ASSUME QueryOrganization PROVE GetsAnswer
    OBVIOUS
  <2>2. \/ held.op = "listForOrg" /\ got' = Organization(tables, held.of)
        \/ held.op = "memberships" /\ \E org \in held.rows : got' = Organization(tables, org)
    BY <2>1 DEF QueryOrganization, Get, Organization
  <2>3. got'.op = "organization" /\ (got'.status = 200 \/ got'.rows = {})
    BY <2>2 DEF Organization, ShowIf, Response
  <2>4. UNCHANGED <<tables, held, changed>>
    BY <2>1 DEF QueryOrganization, Get
  <2>5. QED
    BY <2>2, <2>3, <2>4 DEF GetsAnswer, NextOps, ShowsRowsIfFound, Follows
<1>7. QueryRepository => GetsAnswer
  <2>1. SUFFICES ASSUME QueryRepository PROVE GetsAnswer
    OBVIOUS
  <2>2. PICK repo \in held.rows :
            \/ /\ FindRepository(tables, repo) = {}
               /\ got' = Response("repository", repo, GraphQLError, {})
            \/ \E r \in FindRepository(tables, repo) :
                    got' = Response("repository", repo, 200, {r})
    BY <2>1 DEF QueryRepository, Get
  <2>3. got'.op = "repository" /\ (got'.status = 200 \/ got'.rows = {})
    BY <2>2 DEF Response
  <2>4. UNCHANGED <<tables, held, changed>> /\ held.op \in {"listForOrg", "accessible"}
    BY <2>1 DEF QueryRepository, Get
  <2>5. QED
    BY <2>2, <2>3, <2>4 DEF GetsAnswer, NextOps, ShowsRowsIfFound, Follows
<1>8. QED
  BY <1>1, <1>2, <1>3, <1>4, <1>5, <1>6, <1>7

(* Extensions ***************************************************************)

\* A change of tables leaves the invariant if it leaves them their kinds and
\* their keys.
LEMMA ChangesKeep ==
    ASSUME IInv, NEW t \in Tables, Keyed(t), ChangeTables(t)
    PROVE  IInv'
<1>1. tables' = t /\ held' = held /\ got' = got /\ changed' = (held.op # "none")
  BY DEF ChangeTables
<1>2. changed' \in BOOLEAN
  BY <1>1
<1>3. TypeOK'
  BY <1>1, <1>2 DEF IInv, TypeOK, Keyed
<1>4. ASSUME ~changed' PROVE Answers(tables', held') /\ Follows(tables', held', got')
  <2>1. held.op = "none"
    BY <1>1, <1>4, Zenon
  <2>2. got.op = "none"
    BY <2>1 DEF IInv, NoResponse, Response
  <2>3. QED
    BY <1>1, <2>1, <2>2 DEF Answers, Follows
<1>5. QED
  BY <1>1, <1>3, <1>4 DEF IInv

LEMMA RemovalKeepsUsers ==
    ASSUME NEW t \in Tables, Keyed(t), NEW k \in DOMAIN t.users
    PROVE  /\ [t EXCEPT !.users = RemoveAt(@, k)] \in Tables
           /\ Keyed([t EXCEPT !.users = RemoveAt(@, k)])
<1> DEFINE rows == RemoveAt(t.users, k)
           u == [t EXCEPT !.users = rows]
<1>1. t.users \in Seq(Users)
  BY BlobsAre
<1>2. /\ rows \in Seq(Users)
      /\ \A m \in DOMAIN rows : Place(k, m) \in DOMAIN t.users /\ rows[m] = t.users[Place(k, m)]
      /\ \A l, m \in DOMAIN rows : Place(k, l) = Place(k, m) => l = m
  BY <1>1, Removed
<1> HIDE DEF rows
<1>3. u \in Tables
  BY <1>2 DEF Tables
<1>4. /\ u.users = rows /\ u.installations = t.installations /\ u.blobs = t.blobs
  BY DEF Tables
<1>5. \A l, m \in DOMAIN rows : rows[l].login = rows[m].login => l = m
  BY <1>2 DEF Keyed
<1> HIDE DEF u
<1>6. Keyed(u)
  BY <1>4, <1>5 DEF Keyed
<1>7. QED
  BY <1>3, <1>6 DEF u, rows

LEMMA RemovalKeepsBlobs ==
    ASSUME NEW t \in Tables, Keyed(t), NEW k \in DOMAIN t.blobs
    PROVE  /\ [t EXCEPT !.blobs = RemoveAt(@, k)] \in Tables
           /\ Keyed([t EXCEPT !.blobs = RemoveAt(@, k)])
<1> DEFINE rows == RemoveAt(t.blobs, k)
           u == [t EXCEPT !.blobs = rows]
<1>1. t.blobs \in Seq(Blobs)
  BY BlobsAre
<1>2. /\ rows \in Seq(Blobs)
      /\ \A m \in DOMAIN rows : Place(k, m) \in DOMAIN t.blobs /\ rows[m] = t.blobs[Place(k, m)]
      /\ \A l, m \in DOMAIN rows : Place(k, l) = Place(k, m) => l = m
  BY <1>1, Removed
<1> HIDE DEF rows
<1>3. u \in Tables
  BY <1>2 DEF Tables
<1>4. /\ u.blobs = rows /\ u.installations = t.installations /\ u.users = t.users
  BY DEF Tables
<1>5. \A l, m \in DOMAIN rows : BlobStoreKey(rows[l]) = BlobStoreKey(rows[m]) => l = m
  BY <1>2 DEF Keyed
<1> HIDE DEF u
<1>6. Keyed(u)
  BY <1>4, <1>5 DEF Keyed
<1>7. QED
  BY <1>3, <1>6 DEF u, rows

LEMMA Appended ==
    ASSUME NEW S, NEW s \in Seq(S), NEW x \in S
    PROVE  /\ Append(s, x) \in Seq(S)
           /\ \A m \in DOMAIN Append(s, x) :
                \/ m \in DOMAIN s /\ Append(s, x)[m] = s[m]
                \/ m = Len(s) + 1 /\ Append(s, x)[m] = x
  OBVIOUS

LEMMA AdditionKeepsUsers ==
    ASSUME NEW t \in Tables, Keyed(t), NEW u \in Users, UserOf(t, u.login) = {}
    PROVE  /\ [t EXCEPT !.users = Append(@, u)] \in Tables
           /\ Keyed([t EXCEPT !.users = Append(@, u)])
<1> DEFINE rows == Append(t.users, u)
           w == [t EXCEPT !.users = rows]
<1>1. t.users \in Seq(Users)
  BY BlobsAre
<1>2. /\ rows \in Seq(Users)
      /\ \A m \in DOMAIN rows :
            \/ m \in DOMAIN t.users /\ rows[m] = t.users[m]
            \/ m = Len(t.users) + 1 /\ rows[m] = u
  BY <1>1, Appended
<1> HIDE DEF rows
<1>3. w \in Tables
  BY <1>2 DEF Tables
<1>4. /\ w.users = rows /\ w.installations = t.installations /\ w.blobs = t.blobs
  BY DEF Tables
<1>5. \A k \in DOMAIN t.users : t.users[k].login # u.login
  BY DEF UserOf, ToSet
<1>6. \A l, m \in DOMAIN rows : rows[l].login = rows[m].login => l = m
  BY <1>2, <1>5 DEF Keyed
<1> HIDE DEF w
<1>7. Keyed(w)
  BY <1>4, <1>6 DEF Keyed
<1>8. QED
  BY <1>3, <1>7 DEF w, rows

LEMMA AdditionKeepsBlobs ==
    ASSUME NEW t \in Tables, Keyed(t), NEW b \in Blobs,
           \A k \in DOMAIN t.blobs : BlobStoreKey(t.blobs[k]) # BlobStoreKey(b)
    PROVE  /\ [t EXCEPT !.blobs = Append(@, b)] \in Tables
           /\ Keyed([t EXCEPT !.blobs = Append(@, b)])
<1> DEFINE rows == Append(t.blobs, b)
           w == [t EXCEPT !.blobs = rows]
<1>1. t.blobs \in Seq(Blobs)
  BY BlobsAre
<1>2. /\ rows \in Seq(Blobs)
      /\ \A m \in DOMAIN rows :
            \/ m \in DOMAIN t.blobs /\ rows[m] = t.blobs[m]
            \/ m = Len(t.blobs) + 1 /\ rows[m] = b
  BY <1>1, Appended
<1> HIDE DEF rows
<1>3. w \in Tables
  BY <1>2 DEF Tables
<1>4. /\ w.blobs = rows /\ w.installations = t.installations /\ w.users = t.users
  BY DEF Tables
<1>5. \A l, m \in DOMAIN rows : BlobStoreKey(rows[l]) = BlobStoreKey(rows[m]) => l = m
  BY <1>2 DEF Keyed
<1> HIDE DEF w
<1>6. Keyed(w)
  BY <1>4, <1>5 DEF Keyed
<1>7. QED
  BY <1>3, <1>6 DEF w, rows

\* A row of its own key may take its place.
LEMMA ReplacementKeepsUsers ==
    ASSUME NEW t \in Tables, Keyed(t), NEW k \in DOMAIN t.users, NEW u \in Users,
           t.users[k].login = u.login,
           NEW w, w = [t EXCEPT !.users = [@ EXCEPT ![k] = u]]
    PROVE  w \in Tables /\ Keyed(w)
<1>1. PICK rows \in Seq(Users) : rows = t.users
  BY DEF Tables
<1>2. PICK q : q = [rows EXCEPT ![k] = u]
  OBVIOUS
<1>3. /\ q \in Seq(Users) /\ DOMAIN q = DOMAIN rows
      /\ \A l \in DOMAIN rows : q[l].login = rows[l].login
  BY <1>1, <1>2
<1>4. /\ w \in Tables /\ w.users = q
      /\ w.installations = t.installations /\ w.blobs = t.blobs
  BY <1>1, <1>2, <1>3 DEF Tables
<1>5. QED
  BY <1>1, <1>3, <1>4 DEF Keyed

LEMMA ReplacementKeepsBlobs ==
    ASSUME NEW t \in Tables, Keyed(t), NEW k \in DOMAIN t.blobs, NEW b \in Blobs,
           BlobStoreKey(t.blobs[k]) = BlobStoreKey(b),
           NEW w, w = [t EXCEPT !.blobs = [@ EXCEPT ![k] = b]]
    PROVE  w \in Tables /\ Keyed(w)
<1>1. PICK rows \in Seq(Blobs) : rows = t.blobs
  BY DEF Tables
<1>2. PICK q : q = [rows EXCEPT ![k] = b]
  OBVIOUS
<1>3. /\ q \in Seq(Blobs) /\ DOMAIN q = DOMAIN rows
      /\ \A l \in DOMAIN rows : l # k => q[l] = rows[l]
      /\ k \in DOMAIN rows /\ q[k] = b
  BY <1>1, <1>2
<1>4. \A l \in DOMAIN rows : BlobStoreKey(q[l]) = BlobStoreKey(rows[l])
  <2> TAKE l \in DOMAIN rows
  <2>1. CASE l = k
    BY <1>1, <1>3, <2>1
  <2>2. CASE l # k
    BY <1>3, <2>2
  <2>3. QED
    BY <2>1, <2>2
<1>5. /\ w \in Tables /\ w.blobs = q
      /\ w.installations = t.installations /\ w.users = t.users
  BY <1>1, <1>2, <1>3 DEF Tables
<1>6. QED
  BY <1>1, <1>3, <1>4, <1>5 DEF Keyed

LEMMA PutKeeps == IInv /\ PutRow => IInv'
<1> SUFFICES ASSUME IInv, PutRow PROVE IInv'
  OBVIOUS
<1>1. tables \in Tables /\ Keyed(tables)
  BY DEF IInv, TypeOK
<1>2. ASSUME NEW u \in Users, UserOf(tables, u.login) = {},
             ChangeTables([tables EXCEPT !.users = Append(@, u)])
      PROVE  IInv'
  <2>1. PICK t : t = [tables EXCEPT !.users = Append(@, u)]
    OBVIOUS
  <2>2. t \in Tables /\ Keyed(t)
    BY <1>1, <1>2, <2>1, AdditionKeepsUsers
  <2>3. ChangeTables(t)
    BY <1>2, <2>1
  <2>4. QED
    BY <2>2, <2>3, ChangesKeep
<1>3. ASSUME NEW org \in Logins,
             ChangeTables([tables EXCEPT !.organizations = @ \cup {org}])
      PROVE  IInv'
  <2>1. PICK t : t = [tables EXCEPT !.organizations = @ \cup {org}]
    OBVIOUS
  <2>2. t \in Tables /\ Keyed(t)
    BY <1>1, <2>1 DEF Tables, Keyed
  <2>3. ChangeTables(t)
    BY <1>3, <2>1
  <2>4. QED
    BY <2>2, <2>3, ChangesKeep
<1>4. ASSUME NEW i \in Installations,
             ChangeTables([tables EXCEPT !.installations = {j \in @ : j.id # i.id} \cup {i}])
      PROVE  IInv'
  <2>1. PICK t : t = [tables EXCEPT !.installations = {j \in @ : j.id # i.id} \cup {i}]
    OBVIOUS
  <2>2. t \in Tables
    BY <1>1, <2>1 DEF Tables
  <2>3. /\ t.installations = {j \in tables.installations : j.id # i.id} \cup {i}
        /\ t.users = tables.users /\ t.blobs = tables.blobs
    BY <1>1, <2>1 DEF Tables
  <2>4. Keyed(t)
    BY <1>1, <2>3 DEF Keyed
  <2>5. ChangeTables(t)
    BY <1>4, <2>1
  <2>6. QED
    BY <2>2, <2>4, <2>5, ChangesKeep
<1>5. ASSUME NEW r \in Repositories,
             ChangeTables([tables EXCEPT !.repositories = @ \cup {r}])
      PROVE  IInv'
  <2>1. PICK t : t = [tables EXCEPT !.repositories = @ \cup {r}]
    OBVIOUS
  <2>2. t \in Tables /\ Keyed(t)
    BY <1>1, <2>1 DEF Tables, Keyed
  <2>3. ChangeTables(t)
    BY <1>5, <2>1
  <2>4. QED
    BY <2>2, <2>3, ChangesKeep
<1>6. ASSUME NEW b \in Blobs,
             \A k \in DOMAIN tables.blobs : BlobStoreKey(tables.blobs[k]) # BlobStoreKey(b),
             ChangeTables([tables EXCEPT !.blobs = Append(@, b)])
      PROVE  IInv'
  <2>1. PICK t : t = [tables EXCEPT !.blobs = Append(@, b)]
    OBVIOUS
  <2>2. t \in Tables /\ Keyed(t)
    BY <1>1, <1>6, <2>1, AdditionKeepsBlobs
  <2>3. ChangeTables(t)
    BY <1>6, <2>1
  <2>4. QED
    BY <2>2, <2>3, ChangesKeep
<1>7. ASSUME NEW k \in DOMAIN tables.users, NEW u \in Users,
             tables.users[k].login = u.login,
             ChangeTables([tables EXCEPT !.users = [@ EXCEPT ![k] = u]])
      PROVE  IInv'
  <2>1. PICK t : t = [tables EXCEPT !.users = [@ EXCEPT ![k] = u]]
    OBVIOUS
  <2>2. t \in Tables /\ Keyed(t)
    BY <1>1, <1>7, <2>1, ReplacementKeepsUsers
  <2>3. ChangeTables(t)
    BY <1>7, <2>1
  <2>4. QED
    BY <2>2, <2>3, ChangesKeep
<1>8. ASSUME NEW k \in DOMAIN tables.blobs, NEW b \in Blobs,
             BlobStoreKey(tables.blobs[k]) = BlobStoreKey(b),
             ChangeTables([tables EXCEPT !.blobs = [@ EXCEPT ![k] = b]])
      PROVE  IInv'
  <2>1. PICK t : t = [tables EXCEPT !.blobs = [@ EXCEPT ![k] = b]]
    OBVIOUS
  <2>2. t \in Tables /\ Keyed(t)
    BY <1>1, <1>8, <2>1, ReplacementKeepsBlobs
  <2>3. ChangeTables(t)
    BY <1>8, <2>1
  <2>4. QED
    BY <2>2, <2>3, ChangesKeep
<1>9. QED
  BY <1>2, <1>3, <1>4, <1>5, <1>6, <1>7, <1>8 DEF PutRow

LEMMA RemoveKeeps == IInv /\ RemoveRow => IInv'
<1> SUFFICES ASSUME IInv, RemoveRow PROVE IInv'
  OBVIOUS
<1>1. tables \in Tables /\ Keyed(tables)
  BY DEF IInv, TypeOK
<1>2. ASSUME NEW k \in DOMAIN tables.users,
             ChangeTables([tables EXCEPT !.users = RemoveAt(@, k)])
      PROVE  IInv'
  <2>1. PICK t : t = [tables EXCEPT !.users = RemoveAt(@, k)]
    OBVIOUS
  <2>2. t \in Tables /\ Keyed(t)
    BY <1>1, <2>1, RemovalKeepsUsers
  <2>3. ChangeTables(t)
    BY <1>2, <2>1
  <2>4. QED
    BY <2>2, <2>3, ChangesKeep
<1>3. ASSUME NEW org, ChangeTables([tables EXCEPT !.organizations = @ \ {org}])
      PROVE  IInv'
  <2>1. PICK t : t = [tables EXCEPT !.organizations = @ \ {org}]
    OBVIOUS
  <2>2. t \in Tables /\ Keyed(t)
    BY <1>1, <2>1 DEF Tables, Keyed
  <2>3. ChangeTables(t)
    BY <1>3, <2>1
  <2>4. QED
    BY <2>2, <2>3, ChangesKeep
<1>4. ASSUME NEW i, ChangeTables([tables EXCEPT !.installations = @ \ {i}])
      PROVE  IInv'
  <2>1. PICK t : t = [tables EXCEPT !.installations = @ \ {i}]
    OBVIOUS
  <2>2. t \in Tables /\ Keyed(t)
    BY <1>1, <2>1 DEF Tables, Keyed
  <2>3. ChangeTables(t)
    BY <1>4, <2>1
  <2>4. QED
    BY <2>2, <2>3, ChangesKeep
<1>5. ASSUME NEW r, ChangeTables([tables EXCEPT !.repositories = @ \ {r}])
      PROVE  IInv'
  <2>1. PICK t : t = [tables EXCEPT !.repositories = @ \ {r}]
    OBVIOUS
  <2>2. t \in Tables /\ Keyed(t)
    BY <1>1, <2>1 DEF Tables, Keyed
  <2>3. ChangeTables(t)
    BY <1>5, <2>1
  <2>4. QED
    BY <2>2, <2>3, ChangesKeep
<1>6. ASSUME NEW k \in DOMAIN tables.blobs,
             ChangeTables([tables EXCEPT !.blobs = RemoveAt(@, k)])
      PROVE  IInv'
  <2>1. PICK t : t = [tables EXCEPT !.blobs = RemoveAt(@, k)]
    OBVIOUS
  <2>2. t \in Tables /\ Keyed(t)
    BY <1>1, <2>1, RemovalKeepsBlobs
  <2>3. ChangeTables(t)
    BY <1>6, <2>1
  <2>4. QED
    BY <2>2, <2>3, ChangesKeep
<1>7. QED
  BY <1>2, <1>3, <1>4, <1>5, <1>6 DEF RemoveRow

(* The invariant ************************************************************)

LEMMA InitImplies == Init => IInv
<1> SUFFICES ASSUME Init PROVE IInv
  OBVIOUS
<1>1. NoResponse.op = "none" /\ ShowsRowsIfFound(NoResponse)
  BY DEF NoResponse, Response, ShowsRowsIfFound
<1>2. tables \in Tables /\ Keyed(tables)
  BY StoresAssumption DEF Init
<1>3. held = NoResponse /\ got = NoResponse /\ changed = FALSE
  BY DEF Init
<1>4. TypeOK
  BY <1>1, <1>2, <1>3 DEF TypeOK
<1>5. Answers(tables, held) /\ Follows(tables, held, got)
  BY <1>1, <1>3 DEF Answers, Follows
<1>6. QED
  BY <1>3, <1>4, <1>5 DEF IInv

LEMMA NextKeeps == IInv /\ [Next]_vars => IInv'
<1> SUFFICES ASSUME IInv, [Next]_vars PROVE IInv'
  OBVIOUS
<1>1. CASE Request
  <2>1. tables \in Tables
    BY DEF IInv, TypeOK
  <2>2. HoldsAnswer \/ GetsAnswer
    BY <1>1, <2>1, FirstRequests, NextRequests DEF Request
  <2>3. QED
    BY <2>2, HoldsKeeps, GetsKeeps
<1>2. CASE PutRow
  BY <1>2, PutKeeps
<1>3. CASE RemoveRow
  BY <1>3, RemoveKeeps
<1>4. CASE UNCHANGED vars
  <2>1. tables' = tables /\ held' = held /\ got' = got /\ changed' = changed
    BY <1>4 DEF vars
  <2>2. TypeOK'
    BY <2>1 DEF IInv, TypeOK, Keyed
  <2>3. QED
    BY <2>1, <2>2 DEF IInv
<1>5. QED
  BY <1>1, <1>2, <1>3, <1>4 DEF Next

LEMMA Inductive == Spec => []IInv
  BY InitImplies, NextKeeps, PTL DEF Spec

\* The tables keep their kinds and their keys whatever an extension puts or
\* removes, and a response shows rows only of what it found.
THEOREM TypeSafety == Spec => []TypeOK
<1>1. IInv => TypeOK
  BY DEF IInv
<1>2. QED
  BY <1>1, Inductive, PTL

\* The installation found for a repository or an organisation gives a token
\* for it: POST app/installations/:id/access_tokens looks in the same tables.
THEOREM TokenSafety == Spec => []TokenCoversRepository
  BY Inductive, TokenCovers, PTL

\* GET app/installations leaves out no account, and no id it lists is refused
\* a token.
THEOREM ListSafety == Spec => []ListIsComplete
  BY Inductive, ListCompletes, PTL

\* The sha of a tree's entry, or of a file's content, leads getBlob to the
\* same content, however many rows share a path or a sha.
THEOREM LinkSafety == Spec => []TreeLinkReturnsEntry
  BY Inductive, LinkReturns, PTL

\* What REST shows of users, organisations and repositories GraphQL shows too.
THEOREM AgreementSafety == Spec => []RestAgreesWithGraphQL
  BY Inductive, RestAgrees, PTL
=============================================================================
