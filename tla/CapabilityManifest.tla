------------------------- MODULE CapabilityManifest -------------------------
(* The release policy of DigitalOcean operations: the manifest that is      *)
(* validated when its module loads (openapi/capabilities.ts), the views     *)
(* made of it (openapi/projections.ts), the refusal of an unsupported       *)
(* operation (handlers/unsupported.ts) and the admin endpoint that serves a *)
(* lazily built payload (admin/).  A path is the sequence of what stands    *)
(* between its slashes: "" where two of them meet, or at a trailing one.    *)
(* Stages, product areas, notes, and the order of rows are left out.        *)
EXTENDS Naturals, Sequences, FiniteSets, Functions

CONSTANTS
    Manifests,  \* what the module's manifest may be written as
    Drafts,     \* what the builder of a custom provider may be given
    Methods,    \* of HTTP, a request may have
    Paths,      \* paths a request may spell
    Default,    \* the payload provider the routes are registered with
    Custom,     \* providers made of another builder
    Absent      \* a field left out, no payload, no manifest

Providers == {Default} \cup Custom

ASSUME ProvidersAssumption ==
    /\ Default \notin Custom
    /\ \A p \in Providers \cup {Absent} : p \notin Methods \X Paths
    /\ Absent \notin BOOLEAN

(* Entries ******************************************************************)

Capabilities == {"scriptable", "engine-backed", "stubbed", "unsupported"}
Behaviours == {"handler", "worker", "fixture", "not-implemented"}

Runtimes == [behaviour : Behaviours, workerRequired : BOOLEAN,
             enginePortRequired : BOOLEAN, deterministicFixture : BOOLEAN]

Entries == [operationId : STRING, method : STRING, path : Seq(STRING),
            capability : Capabilities, runtime : Runtimes,
            exposeInDocs : BOOLEAN \cup {Absent}]

ASSUME EntriesAssumption == \A entries \in Manifests \cup Drafts : entries \in Seq(Entries)

\* The runtime each capability of the seed manifest is given.
Runtime(capability) ==
    [behaviour |-> CASE capability = "scriptable" -> "handler"
                     [] capability = "engine-backed" -> "worker"
                     [] capability = "stubbed" -> "fixture"
                     [] capability = "unsupported" -> "not-implemented",
     workerRequired |-> capability = "engine-backed",
     enginePortRequired |-> capability = "engine-backed",
     deterministicFixture |-> capability = "stubbed"]

\* A path below /v2/, or /v2 itself.
IsApiPath(path) == path # <<>> /\ path[1] = "v2"

\* What a capability demands of the runtime.
RuntimeFits(e) ==
    /\ e.capability = "unsupported" <=> e.runtime.behaviour = "not-implemented"
    /\ e.capability = "engine-backed" => e.runtime.workerRequired
    /\ e.capability = "stubbed" => e.runtime.deterministicFixture

ValidEntry(e) == IsApiPath(e.path) /\ RuntimeFits(e)

\* Documented unless said otherwise.
ParseEntry(e) == [e EXCEPT !.exposeInDocs = IF @ = Absent THEN TRUE ELSE @]

\* Mutant: only the trailing slash is taken off.
NormalizeTrailing(path) ==
    IF Len(path) > 1 /\ path[Len(path)] = "" THEN SubSeq(path, 1, Len(path) - 1) ELSE path

\* Slashes that meet are one, and a trailing one is none.
NormalizeOperationPath(path) == SelectSeq(path, LAMBDA part : part # "")

CreateOperationKey(method, path) == <<method, NormalizeOperationPath(path)>>
KeyOf(e) == CreateOperationKey(e.method, e.path)

\* A manifest is accepted whole or refused whole.
ManifestIsValid(entries) ==
    /\ \A i \in DOMAIN entries : ValidEntry(entries[i])
    /\ \A i, j \in DOMAIN entries : KeyOf(entries[i]) = KeyOf(entries[j]) => i = j

ParseManifest(entries) == [i \in DOMAIN entries |-> ParseEntry(entries[i])]

(* Projections **************************************************************)

ToMatrixRow(e) ==
    [operationKey |-> KeyOf(e), operationId |-> e.operationId, capability |-> e.capability,
     runtimeBehaviour |-> e.runtime.behaviour, exposeInDocs |-> e.exposeInDocs]

BuildCapabilityMatrix(manifest) == {ToMatrixRow(e) : e \in Range(manifest)}

BuildDocumentationMetadata(manifest) ==
    {row \in BuildCapabilityMatrix(manifest) : row.exposeInDocs}

UnsupportedEntries(manifest) == {e \in Range(manifest) : e.capability = "unsupported"}
BuildUnsupportedOperationLookup(manifest) ==
    [key \in {KeyOf(e) : e \in UnsupportedEntries(manifest)} |->
        CHOOSE e \in UnsupportedEntries(manifest) : KeyOf(e) = key]

(* The process **************************************************************)

VARIABLES
    module,     \* unloaded, loaded, or refused by its own validation
    manifest,   \* v1CapabilityManifest, parsed
    draft,      \* what the builder of a custom provider reads, as it is now
    cachedPayload,  \* of each provider
    answer,     \* to the last request
    served      \* (auxiliary) what each provider's first 200 showed

vars == <<module, manifest, draft, cachedPayload, answer, served>>

NoAnswer == [of |-> Absent, status |-> 0, shown |-> {}]

Init ==
    /\ module = "unloaded"
    /\ manifest = <<>>
    /\ draft \in [Custom -> Drafts]
    /\ cachedPayload = [p \in Providers |-> Absent]
    /\ answer = NoAnswer
    /\ served = [p \in Providers |-> Absent]

\* Importing the module validates the manifest written in it, or throws.
LoadModule ==
    /\ module = "unloaded"
    /\ \E entries \in Manifests :
        IF ManifestIsValid(entries)
        THEN module' = "loaded" /\ manifest' = ParseManifest(entries)
        ELSE module' = "refused" /\ UNCHANGED manifest
    /\ UNCHANGED <<draft, cachedPayload, answer, served>>

EditDraft ==
    /\ \E p \in Custom, entries \in Drafts :
        draft' = [draft EXCEPT ![p] = entries]
    /\ UNCHANGED <<module, manifest, cachedPayload, answer, served>>

\* The default builder reads the validated manifest, any other validates what
\* it is given, and throws if it is refused.
BuilderThrows(p) == p # Default /\ ~ManifestIsValid(draft[p])
Built(p) ==
    BuildDocumentationMetadata(IF p = Default THEN manifest ELSE ParseManifest(draft[p]))

Serve(p, status, shown) ==
    /\ answer' = [of |-> p, status |-> status, shown |-> shown]
    /\ served' = IF status = 200 /\ served[p] = Absent
                 THEN [served EXCEPT ![p] = shown] ELSE served

\* Mutant: what is left of a builder that threw is cached.
GetCapabilitiesOnce(p) ==
    /\ module = "loaded"
    /\ LET payload == IF cachedPayload[p] # Absent THEN cachedPayload[p]
                      ELSE IF BuilderThrows(p) THEN {} ELSE Built(p)
           failed == cachedPayload[p] = Absent /\ BuilderThrows(p)
       IN  /\ cachedPayload' = [cachedPayload EXCEPT ![p] = payload]
           /\ Serve(p, IF failed THEN 500 ELSE 200, payload)
    /\ UNCHANGED <<module, manifest, draft>>

\* The payload is built at the first request that can; a builder that throws
\* leaves nothing behind.
GetCapabilities(p) ==
    /\ module = "loaded"
    /\ IF cachedPayload[p] = Absent /\ BuilderThrows(p)
       THEN Serve(p, 500, {}) /\ UNCHANGED cachedPayload
       ELSE LET payload == IF cachedPayload[p] # Absent THEN cachedPayload[p] ELSE Built(p)
            IN  /\ cachedPayload' = [cachedPayload EXCEPT ![p] = payload]
                /\ Serve(p, 200, payload)
    /\ UNCHANGED <<module, manifest, draft>>

\* The response to an unsupported operation; any other entry throws.
ToUnsupportedOperationResponse(request, e) ==
    IF e.capability = "unsupported"
    THEN [of |-> request, status |-> 501, shown |-> {KeyOf(e)}]
    ELSE [of |-> request, status |-> 500, shown |-> {}]

\* A route adapter asks whether an operation, however its path is spelled, is
\* one to refuse; 404 stands for its going on to other routes.
RequestOperation(method, path) ==
    /\ module = "loaded"
    /\ LET lookup == BuildUnsupportedOperationLookup(manifest)
           key == CreateOperationKey(method, path)
           request == <<method, path>>
       IN  answer' = IF key \in DOMAIN lookup
                     THEN ToUnsupportedOperationResponse(request, lookup[key])
                     ELSE [of |-> request, status |-> 404, shown |-> {}]
    /\ UNCHANGED <<module, manifest, draft, cachedPayload, served>>

Next ==
    \/ LoadModule
    \/ EditDraft
    \/ \E p \in Providers : GetCapabilities(p)
    \/ \E method \in Methods, path \in Paths : RequestOperation(method, path)

Spec == Init /\ [][Next]_vars

(* Properties ***************************************************************)

\* Two paths are one route if they name the same parts.
Parts(path) == SelectSeq(path, LAMBDA part : part # "")
Spells(method, path, e) == method = e.method /\ Parts(path) = Parts(e.path)

\* However paths are spelled, a loaded manifest classifies a route once: the
\* matrix has a row for each of its entries, a request is refused with 501
\* exactly when the entry it spells is unsupported, and names that entry; and
\* nothing refused is documented as a behaviour of another kind.
RouteClassifiedOnce ==
    module = "loaded" =>
        /\ \A i, j \in DOMAIN manifest :
             Spells(manifest[i].method, manifest[i].path, manifest[j]) => i = j
        /\ Cardinality(BuildCapabilityMatrix(manifest)) = Len(manifest)
        /\ answer.of \in Methods \X Paths =>
             LET spelled == {e \in Range(manifest) : Spells(answer.of[1], answer.of[2], e)}
             IN  /\ answer.status = 501 <=> \E e \in spelled : e.capability = "unsupported"
                 /\ answer.status = 501 =>
                      /\ answer.shown = {KeyOf(e) : e \in spelled}
                      /\ \A row \in BuildCapabilityMatrix(manifest) :
                           row.operationKey \in answer.shown =>
                               row.runtimeBehaviour = "not-implemented"

\* A provider answers 500 only while its builder cannot build, and tries again
\* at the next request; the first payload it served, the documented rows of
\* what was valid then, it serves for good, whatever its builder would build
\* since.  The default provider never fails.
PayloadServedForGood ==
    [][\A p \in Providers :
        answer' # answer /\ answer'.of = p =>
            /\ served[p] = Absent =>
                /\ answer'.status = IF p = Default \/ ManifestIsValid(draft[p])
                                    THEN 200 ELSE 500
                /\ answer'.status = 200 =>
                    \A e \in Range(IF p = Default THEN manifest ELSE draft[p]) :
                        e.exposeInDocs # FALSE <=>
                            \E row \in answer'.shown : row.operationKey = KeyOf(e)
            /\ served[p] # Absent =>
                answer'.status = 200 /\ answer'.shown = served[p]]_vars

(* The seed manifest ********************************************************)

Operation(id, method, path, capability) ==
    [operationId |-> id, method |-> method, path |-> path, capability |-> capability,
     runtime |-> Runtime(capability), exposeInDocs |-> Absent]

Cluster == <<"v2", "kubernetes", "clusters", "{id}">>

V1Manifest == <<
    Operation("account.get", "GET", <<"v2", "account">>, "scriptable"),
    Operation("account.getRateLimit", "GET", <<"v2", "account", "ratelimit">>, "scriptable"),
    Operation("regions.list", "GET", <<"v2", "regions">>, "scriptable"),
    Operation("sizes.list", "GET", <<"v2", "sizes">>, "scriptable"),
    Operation("images.list", "GET", <<"v2", "images">>, "scriptable"),
    Operation("sshKeys.list", "GET", <<"v2", "ssh_keys">>, "scriptable"),
    Operation("sshKeys.create", "POST", <<"v2", "ssh_keys">>, "scriptable"),
    Operation("sshKeys.get", "GET", <<"v2", "ssh_keys", "{id}">>, "scriptable"),
    Operation("sshKeys.delete", "DELETE", <<"v2", "ssh_keys", "{id}">>, "scriptable"),
    Operation("projects.list", "GET", <<"v2", "projects">>, "scriptable"),
    Operation("projects.create", "POST", <<"v2", "projects">>, "scriptable"),
    Operation("projects.get", "GET", <<"v2", "projects", "{id}">>, "scriptable"),
    Operation("projects.assignResources", "POST", <<"v2", "projects", "{id}", "resources">>, "scriptable"),
    Operation("projects.listResources", "GET", <<"v2", "projects", "{id}", "resources">>, "scriptable"),
    Operation("actions.get", "GET", <<"v2", "actions", "{id}">>, "scriptable"),
    Operation("kubernetes.getOptions", "GET", <<"v2", "kubernetes", "options">>, "stubbed"),
    Operation("kubernetes.listClusters", "GET", <<"v2", "kubernetes", "clusters">>, "scriptable"),
    Operation("kubernetes.createCluster", "POST", <<"v2", "kubernetes", "clusters">>, "engine-backed"),
    Operation("kubernetes.getCluster", "GET", Cluster, "scriptable"),
    Operation("kubernetes.deleteCluster", "DELETE", Cluster, "engine-backed"),
    Operation("kubernetes.getKubeconfig", "GET", Cluster \o <<"kubeconfig">>, "engine-backed"),
    Operation("kubernetes.listNodePools", "GET", Cluster \o <<"node_pools">>, "scriptable"),
    Operation("kubernetes.getNodePool", "GET", Cluster \o <<"node_pools", "{pool_id}">>, "scriptable"),
    Operation("kubernetes.updateNodePool", "PUT", Cluster \o <<"node_pools", "{pool_id}">>, "unsupported"),
    Operation("droplets.list", "GET", <<"v2", "droplets">>, "unsupported"),
    Operation("spacesKeys.list", "GET", <<"v2", "spaces", "keys">>, "unsupported"),
    [Operation("digitalocean.unsupported", "GET", <<"v2", "{path*}">>, "unsupported")
        EXCEPT !.exposeInDocs = FALSE]>>
=============================================================================
