# A verification project for DigitalPuddle

TLA+ models of the parts of this repository whose behaviour depends on order,
failure or arithmetic, checked with TLC on small instances, and TLAPS proofs of
what matters most for every instance. Paths below are those of the repository;
line numbers are in `PROJECT.json`, which maps every definition to the code it
stands for.

## 1. The system

DigitalPuddle is a simulator of the DigitalOcean API that still carries the
GitHub simulator it grew from. What it consists of:

| Part | State | Operations | Hard about it |
|---|---|---|---|
| OpenAPI refresh, `sync-digitalocean-openapi.ts` | two committed files (contract, provenance), a temporary root and two temporary output files per run | one command: pin, download, extract, bundle, sanitise, write and rename twice | runs overlap, fail at any `await`, time out, are killed |
| Provenance gate, `src/openapi/artifact.ts` | none; reads the two files | validate, compare | the files change between its reads |
| Downloads, `fetchBytes` and `sync.ts` | a timer, a reader, chunks; `sync.ts` the schema file | fetch, count, cap, abort; write in place | servers lie about lengths, break off, stall; kills in mid-write |
| Typos dictionary cache, `scripts/*.py` | cache, metadata, generated `typos.toml` | refresh from HTTPS or a file, fall back, generate | two files not written as one, stale validators, overlap |
| Initial store, `src/store/entities*`, `src/simulation.ts` | tables of one simulation, an id counter of the process | parse, generate ids, key rows | ids across simulations, 2^53 |
| Selectors and REST handlers, `src/store/index.ts`, `src/rest` | none of their own; read the tables | installations, tokens, repositories, trees, contents, blobs | responses used after the tables changed |
| GraphQL paging, `src/graphql/relay.ts` | none; cursors are list positions | one pure function | boundaries; a client's walk over a list that changes |
| User handlers, `src/handlers/user.ts` | none | current user, memberships | whom a request speaks for; normalising malformed rows |
| GraphQL resolvers and converters | none; read the tables | viewer, users, organisations, repositories, owners | their own lookups of what REST shows too |
| Capability manifest, `src/openapi/capabilities.ts`, `projections.ts`, `src/handlers/unsupported.ts` | static table | validate on import, project, look up, refuse | one route, several spellings |
| Admin endpoint, `src/admin` | one lazily built payload | get | a builder that throws, or changes its mind |
| Server assembly, `src/simulation.ts`, `src/extend-api.ts` | none | wiring | order of routes |
| Audit gate, `scripts/run-audit.mjs` | none; reads the clock, a ledger, a report | read, judge | expiry at midnight, days no month has, what changes between the readings |

How they interact. The refresh writes the files the gate reads, and downloads
through `fetchBytes`. `simulation()` parses an initial state into a store once,
synchronously, and every simulation of a process shares the repository id
counter; after that the handlers read the tables, synchronously per request,
while a caller's extensions may dispatch updates to them between requests. The
GraphQL resolvers page those tables with `applyRelayPagination`. The typos
helper is a command of its own that shares three files with other invocations
of itself and with whoever cleans the checkout.

What makes each part correct:

- *Refresh*: no credential-like example in a published or temporary output
  file; provenance never torn and always that of the commit it names; the pair
  may disagree, but only with somebody to answer for it, and a run alone
  repairs it; nothing is left behind by a run that reports success; runs end.
- *Gate*: accepts only the named commit's bytes; rejects only for a cause.
- *Downloads*: whole or failed, never keeping more than the cap, failed only for
  a cause.
- *Typos cache*: never malformed; metadata vouches only for what was cached;
  reported freshness is real; an authority's dictionary arrives in the end.
- *Store*: generated ids never repeat one given or made; each organisation can
  be found by its installation; building ends.
- *REST and GraphQL*: what one response names, the next request finds, and the
  two say the same of one store.
- *Paging*: the page defined by counting; a walk without gap or repetition
  that ends, off by no more than the rows removed and inserted under it.
- *Capabilities*: one classification of a route, however it is spelled; a
  payload served is served for good, a builder that throws leaves nothing.
- *Audit gate*: passes only what is excused by exceptions in force; a lapsed
  exception fails it until somebody edits the ledger.

## 2. The modules

| Module | Models |
|---|---|
| `PublishedPair` | the abstract promise: two files, each replaced whole, provenance only for an artefact its publisher has put in place |
| `OpenApiRefresh` | the refresh, one action per stretch between two awaits; refines `PublishedPair` |
| `OpenApiGate` | the gate composed with the refresh |
| `MCOpenApiGate` | upstream contents for TLC |
| `OpenApiRefreshProofs`, `CappedFetchProofs`, `TyposCacheProofs`, `AuditGateProofs`, `CapabilityManifestProofs`, `InitialStoreProofs`, `GitHubApiProofs`, `RelayPaginationProofs` | theorems about the module each is named for, the first also about `OpenApiGate` |
| `CappedFetch` | both downloads against a server of any behaviour, and the schema file |
| `TyposCache` | invocations of the typos helper over its three files |
| `InitialStore`, `MCInitialStore` | building simulations one after another |
| `GitHubApi`, `MCGitHubApi` | REST handlers and GraphQL owners over one store, with a client of two requests and changing tables |
| `RelayPagination`, `MCRelayPagination` | one page, its connection, and a client's walk |
| `AuditGate`, `MCAuditGate` | runs of the audit gate, a clock, people who edit the ledger |
| `CapabilityManifest`, `MCCapabilityManifest` | the manifest's import, its projections, the admin endpoint, refusals |

### OpenApiRefresh

`pc[r]` is where run `r` stands between awaits; `StartRun` reads the pin before
anything is made (`RejectPin` leaves no trace); `Mkdtemp`, `FetchArchive`,
`ExtractArchive`, `BundleOpenApi`, `SanitizeBundle` follow the `try` block;
`OpenArtifact`, `WriteArtifact`, `RenameArtifact` and the three for provenance
are `writeCanonicalJsonContent` cut at the points where a kill leaves different
files. `Throw` is any rejected await inside the `try`, which goes to `Unwind`
(the `finally` and the rethrow); `RemoveTempRoot` is the `finally` of a run
that succeeded; `TimeOut` is one of the three timers; `Crash` is a kill.
A document is what distinguishes it and which kinds of credential text it
holds; the hash is an injective constructor; a random UUID in a temporary name
is the run's own name, a name `mkdtemp` gives is one not in use. `owing` and
`solo` are auxiliary: the runs between their renames, or ended there, and those
no other run was active with.

### OpenApiGate

The test of the checked-in artefact
(`tests/digitalocean-openapi-artifact.test.ts`) reads provenance, then artefact,
in two steps, and judges them with `artifact.ts`; `RefreshStep` is any step of
the refreshes between them, and `moved` remembers whether a file was replaced.

### CappedFetch

`command` chooses `fetchBytes` or `syncSchemaRest`. `Respond`, `SendChunk` and
`StopSending` are the server. The archive's timer runs to the last byte; the
schema's is cleared when the headers are there. A declared length need not be
the body's, since `content-length` counts encoded bytes. Parsing the JSON is a
choice of success or failure. `MakeSchemaDir`, `OpenSchemaFile` and
`WriteSchemaFile` are what `sync.ts` does with it: opening the file empties it,
a failure or a kill (`KillSync`) before the write ends leaves it torn. What a
kill of the archive's command leaves is in `OpenApiRefresh`.

### TyposCache

`BeginRemote` reads the metadata and sends the conditional request, `Answer`
is the server, `NotModified` and `Respond` the two ways on; `BodyLost` a body
cut short, which the helper either falls back from or fails with, as not every
exception of the HTTP library is one it catches; `BeginLocal` and `ReadLocal` the comparison with a local authority
and the later read of it; `WriteCache` and `WriteMetadata` the two atomic
writes, `WriteFails` either of them failing, `Crash` a kill anywhere. What an
authority holds is named by its source and time, so "older" is visible.
`BeginLocal` takes the stat of the authority and the read of the metadata as
one step. A fallback to the tracked configuration fails where that is missing or
invalid. The dates of a `Garbled` authority do not parse: they are compared as
text. `CleanCheckout` deletes files, one by one where `CleanAnytime`.
`cached` and `unvouched` are auxiliary: what the cache has held, and that it
was written without its metadata since the metadata was last written.

### InitialStore

One action per iteration of a loop of the parse, repositories first, as the
schema's own transforms run before the store's. `Increment` is addition of
doubles: from `MaxExact` on it changes nothing. Ids are integers up to there, of
either sign; what a fraction or a greater id does is left out. `PassOverUsedId`
is the body of the `while` that looks for a free id. Each table is checked for
duplicate keys by itself: that of repositories, and any others of a fixture
(`keyed`), which stand for branches and blobs. The counter of repository ids is the
module's, is shared by simulations and keeps what failed parses took. Fields
with no part in a decision are left out.

### GitHubApi

A handler reads the store in one piece, as it has no `await`. `held` is the
response a client keeps and `got` the one to what it asks of it: an action
`Hold`s or `Get`s. A response is its status and rows; a `GraphQLError` stands
for an answer with errors. Installations are listed by ascending id, because
integer-like keys of an object are; users and blobs in the order they were
added. A user without `organizations` is a row an extension put: REST
normalises it, GraphQL does not; a user's `organizations` are a set. `PutRow`
and `RemoveRow` are a caller's extension adding, replacing and removing rows
between requests; `changed` remembers that they did.
`Lower` is the lower case of a name. GraphQL's `repository` takes the first of
the rows that agree but for case; repositories are a set, so which is first is
left open.

### RelayPagination

`ApplyRelayPagination` and its helpers, operator by function. The page size of
100 is scaled down; the connection keeps the page's cursors. `AddNode` puts a
row anywhere in the list while a client walks it, as a table that is an object
lists keys that look like integers first; `RemoveNode` takes one from anywhere.
`listed`, `gone` and `pushed` are auxiliary: what a whole walk would show, the
rows removed since it began, and those put in front of others.

### AuditGate

`Start` reads the clock or `AUDIT_REFERENCE_DATE`, `ReadLedger` the ledger,
`RunBunAudit` the report, which it judges against what was read before;
`BunFails` and `Throw` are the exceptions that `main` turns into a failure.
Time goes by half days, so that noon and midnight differ, through a calendar of
its own (`DaysIn`): `UTC` and `IsOn` are `Date.UTC` and the round trip that
finds out a day no month has. A malformed report, an unreadable
ledger and one that is JSON but no list are values of their own: the last is
found out only when the report is judged. `lapsed` is auxiliary: a run of the clock has found an
entry of this ledger over.

### CapabilityManifest

A path is the sequence of what stands between its slashes, so that normalising
is dropping what is empty. `LoadModule` is the import, which validates the
manifest that is written in the module or throws; `V1Manifest` is the one it
ships, row by row. `GetCapabilities` is a request to the admin endpoint of one
provider: the default one reads the manifest, a custom one what its builder is
given by then (`draft`, changed by `EditDraft`); `served` is auxiliary, the
first payload each was answered with. `RequestOperation` is the
lookup a route adapter makes to refuse an operation.

## 3. The runs

| Run | Question | Bounds |
|---|---|---|
| `OpenApiGate` | safety, refinement and termination of overlapping runs, and the gate beside them | 2 runs, 5 pins (one per outcome of sanitising and extracting), 2 roots, 2 bodies |
| `CappedFetch` | every download, and the schema file | cap 4, chunks of 1, 3 and 5, at most 4 of them, lengths below, at and above the cap |
| `TyposCache_single` | one invocation at a time, with crashes, failed writes and cleaning | every kind of authority, two of them dated, one of these with dates that do not parse; 3 publications, one malformed |
| `TyposCache_overlap` | overlapping invocations | 2 processes, 2 authorities, 3 publications |
| `TyposCache_catchup` | arrival of a dictionary | 1 process, 2 authorities, one that gives tags and one that gives dates, 4 publications |
| `TyposCache_regress`, `TyposCache_notmodified` | the disagreements of section 4 | the least that shows them |
| `InitialStore` | ids and tables | 2 simulations; lists of up to 2 installations, organisations, repositories; given ids at the default and at the last two exact numbers |
| `GitHubApi` | second requests, REST against GraphQL | 2 ids, 2 accounts, 2 names that differ by case, 2 refs, 2 blobs; installations, users, blobs and names vary one kind at a time |
| `RelayPagination` | pages and walks | lists of up to 4 nodes, one of each length to begin with, default page of 2 |
| `AuditGate` | verdicts and expiry | a year of 2 months of 2 days, 2 advisories, ledgers of up to 2 entries, 3 exit statuses of bun |
| `CapabilityManifest` | routes and payloads | the shipped manifest and small ones of up to 2 rows; 5 paths, 2 methods, 2 custom providers, 3 drafts |

Why these bounds are enough to meet the cases: two runs are the least that
overlap, and a run that follows another alone is among their behaviours; two
publishable pins are the least whose files can be mixed; one pin stands for
each class of text the sanitiser treats differently. Three publications let an
authority change before, during and after an invocation. Chunks reach the cap
exactly (1+3) and pass it by one chunk (5) or by addition (3+3). Two
simulations are the least that share a counter; a third would repeat the second.
With two ids to make, a given id at the last exact number but one leaves one too
few, and at the default enough. Lists of four against a default page of two have
empty, partial, exact and several pages in both directions; what the nodes are
called tells nothing, so one list of each length begins. Two blobs of one repository are the least
that can stand in each other's place. Two months of two days have every first,
last and next day, a day and a month that do not exist, and an entry's last
instant on both sides of a month's end. Two rows are the least that can be
duplicates, and the five paths spell one route in three ways. Named bounds: `MaxTime`, `MaxChunks`,
`MaxBlobs`, `MaxNodes`; `ResetsForward` (the id counter is not set back to ids
handed out), `OneConcern` (installations, blobs, users or names that differ
by case change at a time, since no operation reads two of them), `FreshEnough` (nothing follows two
responses that a change came between or after, as the properties are silent
about those).

`CHECK_DEADLOCK FALSE` stands where every run, walk or simulation of the
instance comes to an end, and where a module refused by its own validation has
nothing more to do.

### Fairness

- `OpenApiRefresh`, `OpenApiGate`: weak fairness of each run's local steps and of its three
  timers only. The event loop runs what is ready and fires timers; nothing is
  assumed of the server, `tar` or the bundler.
- `CappedFetch`: the same, of one download.
- `TyposCache`: strong fairness of the helper's steps where the authority
  answers, that is: invocations are repeated, are not killed every time, and
  the authority is reachable again and again. Publications are finitely many.
- `InitialStore`: weak fairness of the parse, a synchronous call.
- `RelayPagination`: a client that goes on asking.

## 4. Disagreements found

Each is a run that TLC must end with a counterexample.

- `TyposCache_regress`. `docs/developers-guide.md:178` says the helper replaces
  the cache only when the authoritative copy is newer. Tags and dates are
  compared only with the metadata read before the request, so of two overlapping invocations the
  one answered first may write last and put the older dictionary back.
- `TyposCache_notmodified`. `scripts/generate_typos_config.py:49` lets the
  tracked configuration stand in only for an unavailable authority. The
  validators are sent whether or not the cache they describe is there; when it
  is not, the answer 304 is treated as the authority being unavailable, and
  every later invocation goes the same way until the metadata is deleted or the
  authority publishes.

Not a contradiction of anything written, but shown by the models: a given
installation id of 2^53 makes `simulation()` loop for ever if an id is to be made,
and one that leaves fewer numbers below 2^53 than there are ids to make does
too (`AssemblyEnds` says that these, and no others, do); two installations of one id become
one row without an error, where other tables refuse duplicates; a stalled body
holds `sync.ts` for ever, as its timer is cleared at the headers
(`EveryFetchEnds` says so); a schema sync whose write fails or is killed
leaves a torn file (`DownloadIntact`); when the metadata write of the typos
helper fails after its cache write, the metadata of another authority may stand
beside the cache, and two authorities' dates are then compared as if they were
one's (`ReportedConfigIsFresh` excuses that); a blob whose path is another's sha
is what that other's link leads to (`TreeLinkReturnsEntry` excludes it); two installations of one account are listed as the
first one twice (`ListIsComplete` claims completeness without such); a user row without organisations
has no memberships over REST and is an error over GraphQL, and of two repositories whose names differ by case GraphQL finds
the one that was added first (`RestAgreesWithGraphQL` counts that error as no
membership, and allows that other repository); a removed row
makes a forward walk skip one and a backward walk repeat one, and one put in
front of others makes a forward walk repeat or skip one and a backward walk skip
one (`WalkIsBounded` says so).

## 5. What is proved

Every theorem is about the specification (`Spec`, no fairness) and holds for
all values of the constants that satisfy the assumptions named. Each module of
proofs has an inductive invariant `IInv`; its theorems follow from
`Init => IInv`, from `IInv /\ [Next]_vars => IInv'`, proved by the actions that
can disturb it, and from `IInv` implying the property or the step's promise.

| Module | Theorem | States |
|---|---|---|
| `OpenApiRefreshProofs` | `TypeSafety` | `TypeOK` always |
| | `CredentialSafety` | `NoCredentialOnDisk` always |
| | `ProvenanceSafety` | `ProvenanceTruthful` always |
| | `MismatchSafety` | `MismatchExplained` always |
| | `LeftoversSafety` | `LeftoversExplained` always |
| | `RepairTheorem` | `SoloRunRepairs` |
| | `Refinement` | `OpenApiRefresh` implements `PublishedPair` |
| | `GateSoundness` | `GateAcceptsOnlyTheNamedCommit` always |
| | `GateRejection` | `GateRejectionExplained` always |
| `TyposCacheProofs` | `TypeSafety` | `TypeOK` always |
| | `MalformedSafety` | `MalformedNeverInstalled` always |
| | `FollowsSafety` | `MetadataFollowsCache` always |
| | `VouchingSafety` | `MetadataVouchesForCache` always, without overlap |
| | `FreshnessSafety` | `ReportedConfigIsFresh`, without overlap |
| `AuditGateProofs` | `TypeSafety` | `TypeOK` always |
| | `VerdictSafety` | `VerdictJustified` always |
| | `LapsedSafety` | `LapsedStaysFailed` |
| `CappedFetchProofs` | `TypeSafety` | `TypeOK` always |
| | `DownloadSafety` | `DownloadIntact` always |
| | `FailureSafety` | `FailureExplained` |
| `CapabilityManifestProofs` | `RouteSafety` | `RouteClassifiedOnce` always |
| | `PayloadSafety` | `PayloadServedForGood` |
| `InitialStoreProofs` | `TypeSafety` | `TypeOK` always |
| | `InstallationSafety` | `InstallationIdsUnique` always |
| | `GeneratedSafety` | `GeneratedIdsUnique` always, while `CountsExactly` and `ResetsForward` |
| | `OrganizationSafety` | `OrganizationsInstalled` always |
| `GitHubApiProofs` | `TypeSafety` | `TypeOK` always |
| | `TokenSafety` | `TokenCoversRepository` always |
| | `ListSafety` | `ListIsComplete` always |
| | `LinkSafety` | `TreeLinkReturnsEntry` always |
| | `AgreementSafety` | `RestAgreesWithGraphQL` always |
| `RelayPaginationProofs` | `TypeSafety` | `TypeOK` always |
| | `PagesSafety` | `PagesAreExact` always |
| | `WalkSafety` | `WalkIsBounded` always |

### OpenApiRefresh and OpenApiGate

For any sets of runs, pins, roots and bodies that satisfy `UpstreamAssumption`
(every pin has an archive and a document) and `DistinctAssumption` (the marker
values are not data). None of the safety properties is inductive: that an
artefact is clean depends on what a run holds in memory, that on what is in its
temporary root, and that on no other run writing there. `IInv` names the chain.
`RootsIsolated`: a run that holds a root has it to itself, and what it bundled
is its own pin's. `RunsTruthful`: what a run holds or has written is the
sanitised document of its pin, or torn and not yet to be renamed. `FilesWhole`:
each published file is absent or a whole publication of one commit.
`OwingExact`: who stands between the renames. `SoloExact`: what a run that is
alone knows of the files; with `OwingExact` it carries `MismatchExplained`
through the second rename. `TracesExact`: in which stages a run can have a
temporary file, and that the root it names is gone once it succeeded, which is
what `LeftoversExplained` needs of every run but the one that steps. The
refinement maps the rename of the artefact to `Publish`, the rename of the
provenance to `Certify`, and every other step to a stutter. The gate adds that
what it saw was once published: `FilesWhole` at the time of the read gives
soundness whatever was renamed since.

### TyposCache

From `BoundsAssumption`, `GarbledAssumption` (a date that does not parse is a
date) and `MarkersAssumption` (the markers are not texts or tags). Two invariants, one inside the other. `IInv` holds however invocations
overlap: what a process carries (`Sound`) is a text its authority has held and
metadata made of that very text (`MadeOf`), and a process about to write
metadata has seen its text written; so the metadata file was always made of a
text the cache has held. `SoloInv` holds where one process runs the helper,
which is the theorems' hypothesis `NoOverlap`, as often as it likes and killed
wherever it likes: what the process read of the metadata is still there when it
acts on it (`Informed`), so a 304 or a date confirms the text that is in the
cache. The hypothesis is needed: two overlapping invocations break the
property, as `TyposCache_regress` shows for its neighbour.

### AuditGate

From `CalendarAssumption` (months have days), `LedgersAssumption` and
`ReportsAssumption` (what can be read is of the form the code reads),
`StatusesAssumption` (an exit status is a number, and may be 0 or 1) and
`MarkersAssumption`. The step from code to promise is in the operators:
`RoundTrip` shows that comparing a date with the date its instant names tells
the days that exist; `BoundaryInForce`, that the instant computed from a date
is the end of that day; `VerdictExact`, that the two lists of findings are
empty exactly when every advisory is excused and every entry in force. Then
`Judged` says that the code came from what this run read, whoever edited the
ledger since, and `LapseKnown` that an entry once over is over for every later
reading of the clock.

### CappedFetch

From `SizesAssumption` (the cap and the sizes of chunks are numbers) for bodies
of any length. `BeforeReading`, `WhileReading` and `Writing` say what each stage
has: no chunk before the headers, then what was kept is the beginning of what
was sent, as far as taken, and its sum within the cap; the file is touched only
when the answer is whole.

### CapabilityManifest

From `ProvidersAssumption` and `EntriesAssumption`, for any manifests and drafts
of entries of the schema's kinds. A loaded manifest is `Accepted`: its keys
differ and every entry's runtime fits, also after parsing put in what was left
out. By `KeySpells` two spellings of a route have one key, so the lookup by key
finds the one entry a request spells (`RequestIsRight`), and rows and entries
correspond one to one (`MatrixSize`). That what is cached is what was first
served carries `PayloadServedForGood`; a refused draft leaves both untouched.

### InitialStore

From `NumbersAssumption`, `FixturesAssumption` and `NoneAssumption`, for any
simulations and initial states of any length. `Marked`: every id of a row so
far, and every id given anywhere in the list, is in the set of used ones, and a
made id is none of those given; a made id is taken outside that set, so the
saturated counter of `MaxExact` cannot repeat one (it only never ends).
`Listed` and `Installed`: the rows are the list's, in its order, then one for
each organisation passed that had none; two rows of one account come of two
organisations of one login. With distinct ids the table keeps every row
(`TableById`), which gives `OrganizationsInstalled`. Repository ids have no such
set: `RepositoriesKnown` has every made id below the counter, in all stores and
among the rows being parsed. That needs what the run needs: the counter below
2^53 (`CountsExactly`, where the run stops) and no reset to an id handed out
(`ResetsForward`), which the code leaves to its caller.

### GitHubApi

From `IdsAssumption` (ids are numbers, so the first installation of an account
exists), `AbsentAssumption` and `StoresAssumption` (a simulation starts with
tables of the right kinds and keys). While no table changed, a kept response is
what the tables still answer (`Answers`), and the next is what they answer to a
request made of it (`Follows`); once a table changed nothing is claimed until
the next first request. The five properties are then about two answers of one
store: the row `find()` gives exists wherever some row fits (`GetBlobIs`,
`GetAppInstallationIs`), the keys make a row found by id the row that was shown
(`TokenForShown`), and both APIs read one user (`UserOrganizationsAgree`). Keys
survive what an extension does: `Removed` and `Appended` say where each row of
a shortened or lengthened table was before, and a row that is replaced has the
key of the one that takes its place.

### RelayPagination

From `LengthAssumption`, `InitialAssumption` (a list to begin with has no node
twice), `PageSizeAssumption` and `ArgumentAssumption` (a number is neither a
malformed nor an omitted argument), for lists, page sizes and default of any
size. `PageIsRun`: what the cursors leave, and what `first`
and then `last` leave of it, are runs of the list (`IsRun`), and the positions
that counting allows are intervals (`FrontIs`, `BackIs`), the same ones; with
the lengths of both (`FlagsAre`) this is `PagesAreExact`. A walk needs to count
what removals and insertions have shifted. Forward, `Missed` has the places
behind which the next page begins that show nothing seen, and `Ahead` those
still to come that show a row already seen. A removal adds at most one to
`Missed`, an insertion one to either (`OneMoreRemoved`, `OneMorePut`), and a
page turns places of `Ahead` into repetitions one for one (`PageCounts`); a row
skipped in the end was at such a place. Backward, `Again` has the places still
to come that show a row already seen, `Lost` those passed that show one skipped:
only a removal adds to the first, only an insertion in front to the second.
While nothing is gone or pushed (`Still`) the invariant has the place of every
row seen, which makes the walk gapless.

### Recursive functions

`DaysBefore` and `Sum` are recursive functions, which the provers unfold to a
choice: it means nothing until such a function is known to exist. `TableExists`
and `SumsExist` show that, by taking the least number a table does not reach and
building the next table from the one before. `Calendar` and `SumIs` then
identify the function with the table, after which it is used through its
equations only.

### Only model-checked

- Everything under fairness (`EveryRunEnds`, `CatchesUp`, `AssemblyEnds`,
  `WalkEnds`, `EveryFetchEnds`): liveness is out of the prover's reach.

The inductive invariants are proved and in no run; TLC checked them on the
instances of section 3 before.

## 6. What is not modelled

- Dictionary merging and TOML rendering of the typos helper, JSON Schema
  validation and OpenAPI request routing: conversions of data, no order.
- Branches and the combined status, which read one table or none; converters
  that copy fields, and connections that are always empty.
- Mock tokens and the OAuth redirect of `src/extend-api.ts`: constant answers.
- CLI, journal, worker, engine and scenario modules hold only types so far.
- The foundation simulator and openapi-backend are libraries; their part is
  external where a model touches it.

## 7. Plan

In order of weight; the first part is done.

1. Refresh, gate and abstract pair, with their proofs. *Done.*
2. Typos cache, downloads, initial store, paging, handlers. *Done, checked by
   TLC.*
3. Audit gate, capability manifest and admin endpoint, the schema file, walks
   over lists that lose rows, GraphQL's remaining root queries. *Done, checked
   by TLC.*
4. Proofs about the refresh's leftovers, the typos cache, the audit gate, the
   downloads, the capability manifest and the initial store. *Done.*
5. Proofs about `GitHubApi` and `RelayPagination`. *Done.*
6. `DictionaryMerge`: the typos policy as functions on small dictionaries,
   against a definition by sets.
7. Branches in `GitHubApi`.
