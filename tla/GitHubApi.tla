----------------------------- MODULE GitHubApi -----------------------------
(* The REST handlers (rest/index.ts, handlers/user.ts) and the GraphQL      *)
(* owners (graphql/) over one store (store/index.ts), and a client that     *)
(* makes a second request of what its first was answered: an access token   *)
(* for an installation it was shown, a blob a tree links to, the GraphQL    *)
(* account behind a REST listing.  A handler reads the tables in one piece, *)
(* with no await; between two requests a caller's extension may change a    *)
(* table.  An answer is its status and the rows it shows; what is shown of  *)
(* a row besides its keys, and paging (RelayPagination), are left out.      *)
EXTENDS Naturals, Sequences, SequencesExt

CONSTANTS
    Ids,        \* ids of installations
    Logins,     \* accounts
    Names,      \* names of repositories
    Lower,      \* a login or a name in lower case
    Refs,       \* paths and shas of blobs
    Contents,   \* of blobs
    Stores,     \* tables a simulation starts with
    MaxBlobs,   \* bound: rows of the blob table
    Absent      \* no path, no sha, no organisations, no header, no request

ASSUME IdsAssumption == Ids \subseteq Nat
ASSUME LowerAssumption == DOMAIN Lower = Logins \cup Names
ASSUME AbsentAssumption == Absent \notin Refs \cup Logins

Repositories == [owner : Logins, name : Names]
Installations == [id : Ids, account : Logins]
Blobs == {b \in [of : Repositories, path : Refs \cup {Absent},
                 sha : Refs \cup {Absent}, content : Contents] :
            b.path # Absent \/ b.sha # Absent}

\* A row an extension put may lack what the schema of users demands.
Users == [login : Logins, organizations : (SUBSET Logins) \cup {Absent}]

\* Tables keyed by id, login or owner and name have one row of a key.  What
\* order they are listed in matters to the first row found: installations are
\* listed by id, users and blobs as they were added.
Tables == [users : Seq(Users), organizations : SUBSET Logins,
           installations : SUBSET Installations,
           repositories : SUBSET Repositories, blobs : Seq(Blobs)]

BlobStoreKey(b) == <<b.of, IF b.path # Absent THEN b.path ELSE b.sha>>

Keyed(t) ==
    /\ \A i, j \in t.installations : i.id = j.id => i = j
    /\ \A k, l \in DOMAIN t.users : t.users[k].login = t.users[l].login => k = l
    /\ \A k, l \in DOMAIN t.blobs :
         BlobStoreKey(t.blobs[k]) = BlobStoreKey(t.blobs[l]) => k = l

ASSUME StoresAssumption == Stores \subseteq {t \in Tables : Keyed(t)}

VARIABLES
    tables,     \* the store
    held,       \* the response the client holds
    got,        \* the response to what it asked next
    changed     \* (auxiliary) a table changed between the two

vars == <<tables, held, got, changed>>

(* Selectors ****************************************************************)

\* The rows a lookup of one account, or of one path or sha, may take, and the
\* one that comes first.
InstallationsOf(t, org) == {i \in t.installations : i.account = org}
First(rows) == CHOOSE i \in rows : \A j \in rows : i.id <= j.id

\* The rows shown to the client: none, or one.
GetAppInstallation(t, org) ==
    {i \in InstallationsOf(t, org) :
        i = First(InstallationsOf(t, org)) /\ org \in t.organizations}

\* Mutant: a repository of the name is looked for, whoever owns it.
GetNamedAppInstallation(t, repo) ==
    IF \E r \in t.repositories : r.name = repo.name
    THEN GetAppInstallation(t, repo.owner) ELSE {}
GetRepoAppInstallation(t, repo) ==
    IF repo \in t.repositories THEN GetAppInstallation(t, repo.owner) ELSE {}

ReposOf(t, org) == {r \in t.repositories : r.owner = org}

AllReposWithOrgs(t, org) == IF org \in t.organizations THEN ReposOf(t, org) ELSE {}

\* What find() gives: the row at the least of these places.
FirstAt(rows, places) == {rows[k] : k \in {k \in places : \A l \in places : k <= l}}
FirstRow(rows) == FirstAt(rows, DOMAIN rows)

\* Mutant: only paths are compared.
GetBlobByPathOnly(t, repo, ref) ==
    FirstAt(t.blobs, {k \in DOMAIN t.blobs : t.blobs[k].of = repo /\ t.blobs[k].path = ref})
GetBlob(t, repo, ref) ==
    FirstAt(t.blobs, {k \in DOMAIN t.blobs :
        t.blobs[k].of = repo /\ ref \in {t.blobs[k].path, t.blobs[k].sha}})
GetBlobAtOwnerRepo(t, repo) == {b \in ToSet(t.blobs) : b.of = repo}

EffectiveSha(b) == IF b.sha # Absent THEN b.sha ELSE b.path

(* Users and owners *********************************************************)

\* REST reads a row without organisations as one with none.
NormalizeUser(u) == [u EXCEPT !.organizations = IF @ = Absent THEN {} ELSE @]

FirstUser(t) == FirstRow(t.users)
UserOf(t, login) == {u \in ToSet(t.users) : u.login = login}

\* Mutant: the header is not read.
AlwaysFirstUser(t, requested) == FirstUser(t)
\* The user a request speaks for, if there is one: the header names it, and
\* without a header it is the first.
RequestedUser(t, requested) ==
    IF requested = Absent THEN FirstUser(t) ELSE UserOf(t, requested)

\* GraphQL's viewer, and its user(login).
GraphQLUser(t, login) == IF login = Absent THEN FirstUser(t) ELSE UserOf(t, login)

\* The accounts GraphQL's deriveOwner finds for a login, organisations first.
DeriveOwner(t, login) ==
    IF login \in t.organizations THEN {login} ELSE {u.login : u \in UserOf(t, login)}

\* The repositories GraphQL takes for one asked for, whatever the case of its
\* letters or of its owner's.
SameFolded(r, repo) == Lower[r.owner] = Lower[repo.owner] /\ Lower[r.name] = Lower[repo.name]
FindRepository(t, repo) == {r \in t.repositories : SameFolded(r, repo)}

(* Responses ****************************************************************)

\* rows: what is shown, of the kind the operation answers with.
Response(op, arg, status, rows) == [op |-> op, of |-> arg, status |-> status, rows |-> rows]
NoResponse == Response("none", Absent, 0, {})

\* Mutant: rows are shown whatever becomes of the lookup.
ShowAnyway(op, arg, found, otherwise, rows) ==
    Response(op, arg, IF found THEN 200 ELSE otherwise, rows)
ShowIf(op, arg, found, otherwise, rows) ==
    IF found THEN Response(op, arg, 200, rows) ELSE Response(op, arg, otherwise, {})
ShowFound(op, arg, rows) == ShowIf(op, arg, rows # {}, 404, rows)

\* Stands for a GraphQL answer with errors: a resolver asserted or threw.
GraphQLError == 500

Init ==
    /\ tables \in Stores
    /\ held = NoResponse
    /\ got = NoResponse
    /\ changed = FALSE

Hold(response) ==
    /\ held' = response
    /\ got' = NoResponse
    /\ changed' = FALSE
    /\ UNCHANGED tables

Get(response) ==
    /\ got' = response
    /\ UNCHANGED <<tables, held, changed>>

(* What a client asks first *************************************************)

\* Mutant: what has no account to show is left out.
ShownWithAccount(i) == GetAppInstallation(tables, i.account)

\* An installation is shown as its account's first, and as it is if no such
\* organisation is left.
Shown(i) ==
    LET first == GetAppInstallation(tables, i.account)
    IN  IF first # {} THEN first ELSE {i}

ListInstallations ==
    Hold(Response("list", Absent, 200, UNION {Shown(i) : i \in tables.installations}))

GetOrgInstallation(org) ==
    Hold(ShowFound("orgInstallation", org, GetAppInstallation(tables, org)))

GetRepoInstallation(repo) ==
    Hold(ShowFound("repoInstallation", repo, GetRepoAppInstallation(tables, repo)))

ListForOrg(org) ==
    Hold(ShowIf("listForOrg", org, org \in tables.organizations, 404,
                AllReposWithOrgs(tables, org)))

\* The token is not asked for: every repository of the store is accessible.
ListReposAccessible ==
    Hold(Response("accessible", Absent, 200, tables.repositories))

\* A tree's entries, each with the row it stands for.
GetTree(repo) ==
    Hold(ShowIf("tree", repo, repo \in tables.repositories, 404,
                GetBlobAtOwnerRepo(tables, repo)))

\* Content is found by path or sha, and is shown with its sha.
GetContent(repo, path) ==
    Hold(ShowFound("content", repo, GetBlob(tables, repo, path)))

GetAuthenticated ==
    Hold(ShowIf("user", Absent, FirstUser(tables) # {}, 401,
                {u.login : u \in FirstUser(tables)}))

\* The organisations of the store that the requested user belongs to.
Memberships(requested) ==
    LET user == RequestedUser(tables, requested)
    IN  ShowIf("memberships", requested, user # {}, 401,
               {org \in tables.organizations :
                    \E u \in user : org \in NormalizeUser(u).organizations})

ListMemberships(requested) == Hold(Memberships(requested))

(* What it asks with the answer *********************************************)

\* The id alone decides; the repositories are those of its account now.
CreateInstallationAccessToken ==
    /\ held.op \in {"list", "orgInstallation", "repoInstallation"}
    /\ \E shown \in held.rows :
        Get(IF \E i \in tables.installations : i.id = shown.id
            THEN LET i == CHOOSE i \in tables.installations : i.id = shown.id
                 IN  Response("token", shown.id, 201, AllReposWithOrgs(tables, i.account))
            ELSE Response("token", shown.id, 404, {}))

\* The link of an entry names its sha; the first row with that sha or path is
\* the answer.
GetLinkedBlob ==
    /\ held.op \in {"tree", "content"}
    /\ \E entry \in held.rows :
        Get(ShowFound("blob", entry, GetBlob(tables, entry.of, EffectiveSha(entry))))

\* The user a client is, named in the header of its next request.
ListOwnMemberships ==
    /\ held.op = "user"
    /\ \E login \in held.rows : Get(Memberships(login))

\* GraphQL's viewer or user(login), and its organizations.  The resolver does
\* not normalise: a row without organisations fails.
QueryUserOrganizations ==
    /\ held.op = "memberships"
    /\ LET user == GraphQLUser(tables, held.of)
       IN  Get(ShowIf("userOrganizations", held.of,
                      \E u \in user : u.organizations # Absent, GraphQLError,
                      {org \in tables.organizations :
                        \E u \in user : u.organizations # Absent /\ org \in u.organizations}))

\* GraphQL's repositoryOwner(login), and its repositories.
QueryRepositoryOwner ==
    /\ held.op \in {"listForOrg", "accessible"}
    /\ \E repo \in held.rows :
        Get(ShowIf("owner", repo.owner, DeriveOwner(tables, repo.owner) # {}, GraphQLError,
                   UNION {ReposOf(tables, login) : login \in DeriveOwner(tables, repo.owner)}))

\* GraphQL's organization(login), and its repositories.
QueryOrganization ==
    /\ held.op \in {"listForOrg", "memberships"}
    /\ \E org \in IF held.op = "listForOrg" THEN {held.of} ELSE held.rows :
        Get(ShowIf("organization", org, org \in tables.organizations, GraphQLError,
                   ReposOf(tables, org)))

\* GraphQL's repository(owner, name) is the first that was added of those it
\* takes for the one asked for: which it is, is left open.
QueryRepository ==
    /\ held.op \in {"listForOrg", "accessible"}
    /\ \E repo \in held.rows :
        LET found == FindRepository(tables, repo)
        IN  \/ found = {} /\ Get(Response("repository", repo, GraphQLError, {}))
            \/ \E r \in found : Get(Response("repository", repo, 200, {r}))

(* A caller's extension *****************************************************)

ChangeTables(t) ==
    /\ tables' = t
    /\ changed' = (held.op # "none")
    /\ UNCHANGED <<held, got>>

\* A row of a key that is there takes its place, and any other comes last.
PutRow ==
    \/ \E u \in Users \ ToSet(tables.users) :
        /\ UserOf(tables, u.login) = {}
        /\ ChangeTables([tables EXCEPT !.users = Append(@, u)])
    \/ \E k \in DOMAIN tables.users, u \in Users :
        /\ tables.users[k].login = u.login
        /\ ChangeTables([tables EXCEPT !.users = [@ EXCEPT ![k] = u]])
    \/ \E org \in Logins : ChangeTables([tables EXCEPT !.organizations = @ \cup {org}])
    \/ \E i \in Installations :
        ChangeTables([tables EXCEPT !.installations = {j \in @ : j.id # i.id} \cup {i}])
    \/ \E r \in Repositories : ChangeTables([tables EXCEPT !.repositories = @ \cup {r}])
    \/ \E b \in Blobs :
        /\ Len(tables.blobs) < MaxBlobs
        /\ \A k \in DOMAIN tables.blobs : BlobStoreKey(tables.blobs[k]) # BlobStoreKey(b)
        /\ ChangeTables([tables EXCEPT !.blobs = Append(@, b)])
    \/ \E k \in DOMAIN tables.blobs, b \in Blobs :
        /\ BlobStoreKey(tables.blobs[k]) = BlobStoreKey(b)
        /\ ChangeTables([tables EXCEPT !.blobs = [@ EXCEPT ![k] = b]])

RemoveRow ==
    \/ \E k \in DOMAIN tables.users : ChangeTables([tables EXCEPT !.users = RemoveAt(@, k)])
    \/ \E org \in tables.organizations : ChangeTables([tables EXCEPT !.organizations = @ \ {org}])
    \/ \E i \in tables.installations : ChangeTables([tables EXCEPT !.installations = @ \ {i}])
    \/ \E r \in tables.repositories : ChangeTables([tables EXCEPT !.repositories = @ \ {r}])
    \/ \E k \in DOMAIN tables.blobs : ChangeTables([tables EXCEPT !.blobs = RemoveAt(@, k)])

Request ==
    \/ ListInstallations \/ ListReposAccessible \/ GetAuthenticated
    \/ \E org \in Logins : GetOrgInstallation(org) \/ ListForOrg(org)
    \/ \E repo \in Repositories : GetRepoInstallation(repo) \/ GetTree(repo)
    \/ \E repo \in Repositories, path \in Refs : GetContent(repo, path)
    \/ \E requested \in Logins \cup {Absent} : ListMemberships(requested)
    \/ CreateInstallationAccessToken
    \/ GetLinkedBlob
    \/ ListOwnMemberships
    \/ QueryUserOrganizations
    \/ QueryRepositoryOwner
    \/ QueryOrganization
    \/ QueryRepository

Next == Request \/ PutRow \/ RemoveRow

Spec == Init /\ [][Next]_vars

(* Properties ***************************************************************)

ShowsRowsIfFound(response) == response.status \in {200, 201} \/ response.rows = {}

\* Every variable holds a value of its kind, the tables their keys, and a
\* response shows rows only if it found what it was asked for.
TypeOK ==
    /\ tables \in Tables /\ Keyed(tables)
    /\ held.op \in {"none", "list", "orgInstallation", "repoInstallation", "listForOrg",
                     "accessible", "tree", "content", "user", "memberships"}
    /\ got.op \in {"none", "token", "blob", "memberships", "userOrganizations", "owner",
                     "organization", "repository"}
    /\ ShowsRowsIfFound(held) /\ ShowsRowsIfFound(got)
    /\ changed \in BOOLEAN

\* An installation that a client found for a repository gives it a token for
\* that repository, among others of its owner and of nobody else; one found
\* for an organisation, for what the organisation's listing holds.
TokenCoversRepository ==
    got.op = "token" /\ ~changed =>
        /\ held.op = "repoInstallation" =>
            /\ got.status = 201
            /\ held.of \in got.rows
            /\ \A r \in got.rows : r.owner = held.of.owner
        /\ held.op = "orgInstallation" =>
            /\ got.status = 201
            /\ got.rows = AllReposWithOrgs(tables, held.of)

\* Every account with an installation has one in the list, every id in the
\* list is granted a token, for what its account owns as it was shown, and
\* where no account has two, every installation is in the list.
ListIsComplete ==
    held.op = "list" /\ ~changed =>
        /\ {i.account : i \in held.rows} = {i.account : i \in tables.installations}
        /\ got.op = "token" =>
            /\ got.status = 201
            /\ \E i \in held.rows :
                i.id = got.of /\ got.rows = AllReposWithOrgs(tables, i.account)
        /\ (\A i, j \in tables.installations : i.account = j.account => i = j)
             => held.rows = tables.installations

\* In a repository whose shas name contents and whose paths are no shas, the
\* sha of a tree's entry, or of a file's content, leads to the same content,
\* whichever rows share its path or sha in the order they were added.
ProperShas(rows) ==
    \A b, c \in rows :
        /\ b.sha # Absent /\ b.sha = c.sha => b.content = c.content
        /\ b.path # Absent => b.path # c.sha

TreeLinkReturnsEntry ==
    got.op = "blob" /\ ~changed /\ ProperShas(GetBlobAtOwnerRepo(tables, held.of)) =>
        /\ got.status = 200
        /\ \A b \in got.rows : b.content = got.of.content

\* REST and GraphQL show one store.  The user GET /user shows is authenticated
\* by its login; the organisations GraphQL gives a user are its memberships,
\* and it gives none where REST refuses or finds a row that belongs nowhere;
\* the owner of a listed repository owns what is listed of it, and has an
\* account if an organisation's listing showed it; an organisation that either
\* listing named has in GraphQL what it has in REST; and a listed repository
\* is found, as itself unless another differs from it by letter case alone.
RestAgreesWithGraphQL ==
    ~changed =>
        /\ got.op = "memberships" => got.status = 200
        /\ got.op = "userOrganizations" =>
            /\ got.status = 200 => held.status = 200
            /\ got.rows = held.rows
        /\ got.op = "owner" =>
            /\ got.status = 200 => got.rows = {r \in held.rows : r.owner = got.of}
            /\ held.op = "listForOrg" => got.status = 200
        /\ got.op = "organization" =>
            /\ held.status = 200 => got.status = 200
            /\ held.op = "listForOrg" => got.rows = held.rows
        /\ got.op = "repository" =>
            /\ got.status = 200
            /\ got.rows # {got.of} =>
                \E r \in tables.repositories \ {got.of} : SameFolded(r, got.of)
=============================================================================
