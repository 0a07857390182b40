---------------------- MODULE CapabilityManifestProofs ----------------------
(* Theorems about CapabilityManifest, for any manifests, providers, methods *)
(* and paths.                                                               *)
EXTENDS CapabilityManifest, FiniteSetTheorems, TLAPS

(* Keys *********************************************************************)

\* A key is the method and the parts of the path.
LEMMA KeySpells ==
    ASSUME NEW method, NEW path, NEW e
    PROVE  Spells(method, path, e) <=> CreateOperationKey(method, path) = KeyOf(e)
<1>1. \A q : Parts(q) = NormalizeOperationPath(q)
  BY DEF Parts, NormalizeOperationPath
<1>2. QED
  BY <1>1 DEF Spells, CreateOperationKey, KeyOf

\* Parsing keeps all of an entry but an exposure left out.
LEMMA ParseKeeps ==
    ASSUME NEW e \in Entries
    PROVE  /\ KeyOf(ParseEntry(e)) = KeyOf(e)
           /\ ParseEntry(e).capability = e.capability /\ ParseEntry(e).runtime = e.runtime
           /\ ParseEntry(e).exposeInDocs \in BOOLEAN
           /\ ParseEntry(e).exposeInDocs <=> e.exposeInDocs # FALSE
<1> DEFINE d == ParseEntry(e)
<1>1. /\ d.method = e.method /\ d.path = e.path
      /\ d.capability = e.capability /\ d.runtime = e.runtime
      /\ d.exposeInDocs = IF e.exposeInDocs = Absent THEN TRUE ELSE e.exposeInDocs
  BY DEF ParseEntry, Entries
<1>2. e.exposeInDocs \in BOOLEAN \cup {Absent}
  BY DEF Entries
<1>3. d.exposeInDocs \in BOOLEAN
  BY <1>1, <1>2, Zenon
<1>4. d.exposeInDocs <=> e.exposeInDocs # FALSE
  BY <1>1, <1>2, ProvidersAssumption, Zenon
<1>5. QED
  BY <1>1, <1>3, <1>4 DEF KeyOf

(* A manifest that was accepted *********************************************)

\* What an accepted manifest is: of each route one entry, each of a fitting
\* runtime, and exposed or not.
Accepted(m) ==
    /\ Len(m) \in Nat /\ DOMAIN m = 1..Len(m)
    /\ \A i \in DOMAIN m : RuntimeFits(m[i]) /\ m[i].exposeInDocs \in BOOLEAN
    /\ \A i, j \in DOMAIN m : KeyOf(m[i]) = KeyOf(m[j]) => i = j

LEMMA ParsedIsAccepted ==
    ASSUME NEW entries \in Seq(Entries), ManifestIsValid(entries)
    PROVE  Accepted(ParseManifest(entries))
<1> DEFINE m == ParseManifest(entries)
           N == Len(entries)
<1>1. N \in Nat /\ DOMAIN entries = 1..N /\ \A i \in 1..N : entries[i] \in Entries
  OBVIOUS
<1>2. m = [i \in 1..N |-> ParseEntry(entries[i])]
  BY <1>1 DEF ParseManifest
<1>3. Len(m) = N /\ DOMAIN m = 1..N /\ \A i \in 1..N : m[i] = ParseEntry(entries[i])
  BY <1>1, <1>2
<1> HIDE DEF m, N
<1>4. ASSUME NEW i \in 1..N
      PROVE  RuntimeFits(m[i]) /\ m[i].exposeInDocs \in BOOLEAN /\ KeyOf(m[i]) = KeyOf(entries[i])
  <2>1. /\ KeyOf(m[i]) = KeyOf(entries[i]) /\ m[i].capability = entries[i].capability
        /\ m[i].runtime = entries[i].runtime /\ m[i].exposeInDocs \in BOOLEAN
    <3>1. PICK e \in Entries : e = entries[i]
      BY <1>1
    <3>2. m[i] = ParseEntry(e)
      BY <1>3, <3>1
    <3>3. QED
      BY <3>1, <3>2, ParseKeeps
  <2>2. RuntimeFits(entries[i])
    BY <1>1 DEF ManifestIsValid, ValidEntry
  <2>3. QED
    BY <2>1, <2>2 DEF RuntimeFits
<1>5. \A i, j \in 1..N : KeyOf(m[i]) = KeyOf(m[j]) => i = j
  BY <1>1, <1>4 DEF ManifestIsValid
<1>6. Accepted(m)
  BY <1>1, <1>3, <1>4, <1>5 DEF Accepted
<1>7. QED
  BY <1>6 DEF m

\* The matrix has a row for each entry.
LEMMA MatrixSize ==
    ASSUME NEW m, Accepted(m)
    PROVE  Cardinality(BuildCapabilityMatrix(m)) = Len(m)
<1> DEFINE N == Len(m)
           rows == BuildCapabilityMatrix(m)
           f == [i \in 1..N |-> ToMatrixRow(m[i])]
<1>1. N \in Nat /\ DOMAIN m = 1..N
  BY DEF Accepted
<1>2. rows = {ToMatrixRow(m[i]) : i \in 1..N}
  BY <1>1 DEF BuildCapabilityMatrix, Range
<1>3. \A i \in 1..N : ToMatrixRow(m[i]).operationKey = KeyOf(m[i])
  BY DEF ToMatrixRow
<1>4. \A i, j \in 1..N : f[i] = f[j] => i = j
  <2> SUFFICES ASSUME NEW i \in 1..N, NEW j \in 1..N, ToMatrixRow(m[i]) = ToMatrixRow(m[j])
               PROVE  i = j
    OBVIOUS
  <2>1. KeyOf(m[i]) = KeyOf(m[j])
    BY <1>3
  <2>2. QED
    BY <1>1, <2>1 DEF Accepted
<1>5. f \in Bijection(1..N, rows)
  <2>1. f \in [1..N -> rows]
    BY <1>2
  <2>2. \A row \in rows : \E i \in 1..N : f[i] = row
    BY <1>2
  <2> HIDE DEF f, rows
  <2>3. QED
    BY <1>4, <2>1, <2>2 DEF Bijection, Injection, Surjection, IsInjective
<1>6. ExistsBijection(1..N, rows)
  BY <1>5 DEF ExistsBijection
<1>7. QED
  BY <1>1, <1>6, FS_CountingElements

\* A request is refused for the entry it spells.
RightAnswer(m, a) ==
    a.of \in Methods \X Paths =>
        LET spelled == {e \in Range(m) : Spells(a.of[1], a.of[2], e)}
        IN  /\ a.status = 501 <=> \E e \in spelled : e.capability = "unsupported"
            /\ a.status = 501 =>
                 /\ a.shown = {KeyOf(e) : e \in spelled}
                 /\ \A row \in BuildCapabilityMatrix(m) :
                      row.operationKey \in a.shown => row.runtimeBehaviour = "not-implemented"

LEMMA EntriesByKey ==
    ASSUME NEW m, Accepted(m)
    PROVE  /\ \A e, d \in Range(m) : KeyOf(e) = KeyOf(d) => e = d
           /\ \A e \in Range(m) : RuntimeFits(e) /\ e.exposeInDocs \in BOOLEAN
<1>1. Range(m) = {m[i] : i \in DOMAIN m}
  BY DEF Range
<1>2. QED
  BY <1>1 DEF Accepted

LEMMA RequestIsRight ==
    ASSUME NEW m, Accepted(m), NEW method \in Methods, NEW path \in Paths, NEW a,
           LET lookup == BuildUnsupportedOperationLookup(m)
               key == CreateOperationKey(method, path)
               request == <<method, path>>
           IN  a = IF key \in DOMAIN lookup
                   THEN ToUnsupportedOperationResponse(request, lookup[key])
                   ELSE [of |-> request, status |-> 404, shown |-> {}]
    PROVE  RightAnswer(m, a)
<1> DEFINE key == CreateOperationKey(method, path)
           spelled == {e \in Range(m) : KeyOf(e) = key}
           refused == UnsupportedEntries(m)
<1>1. refused = {e \in Range(m) : e.capability = "unsupported"}
  BY DEF UnsupportedEntries
<1>2. DOMAIN BuildUnsupportedOperationLookup(m) = {KeyOf(e) : e \in refused}
  BY DEF BuildUnsupportedOperationLookup
<1>3. \A q : q \in spelled <=> q \in Range(m) /\ Spells(method, path, q)
  BY KeySpells
<1>4. a.of = <<method, path>> /\ a.of[1] = method /\ a.of[2] = path
  BY DEF ToUnsupportedOperationResponse
<1>5. CASE key \notin {KeyOf(e) : e \in refused}
  <2>1. a.status = 404
    BY <1>2, <1>5
  <2>2. ~\E e \in spelled : e.capability = "unsupported"
    BY <1>1, <1>5
  <2>3. QED
    BY <1>3, <1>4, <2>1, <2>2 DEF RightAnswer
<1>6. CASE key \in {KeyOf(e) : e \in refused}
  <2> DEFINE chosen == CHOOSE e \in refused : KeyOf(e) = key
  <2>1. chosen \in refused /\ KeyOf(chosen) = key
    BY <1>6
  <2>2. BuildUnsupportedOperationLookup(m)[key] = chosen
    BY <1>6 DEF BuildUnsupportedOperationLookup
  <2>3. a = ToUnsupportedOperationResponse(<<method, path>>, chosen)
    BY <1>2, <1>6, <2>2
  <2> HIDE DEF chosen
  <2>4. chosen \in Range(m) /\ chosen.capability = "unsupported" /\ chosen \in spelled
    BY <1>1, <2>1
  <2>5. a.status = 501 /\ a.shown = {key}
    BY <2>1, <2>3, <2>4 DEF ToUnsupportedOperationResponse
  <2>6. {KeyOf(e) : e \in spelled} = {key}
    BY <2>4
  <2>7. ASSUME NEW row \in BuildCapabilityMatrix(m), row.operationKey = key
        PROVE  row.runtimeBehaviour = "not-implemented"
    <3>1. PICK e \in Range(m) : row = ToMatrixRow(e)
      BY DEF BuildCapabilityMatrix
    <3>2. KeyOf(e) = key /\ row.runtimeBehaviour = e.runtime.behaviour
      BY <2>7, <3>1 DEF ToMatrixRow
    <3>3. e = chosen
      BY <2>1, <2>4, <3>2, EntriesByKey
    <3>4. QED
      BY <2>4, <3>2, <3>3, EntriesByKey DEF RuntimeFits
  <2>8. QED
    BY <1>3, <1>4, <2>4, <2>5, <2>6, <2>7 DEF RightAnswer
<1>7. QED
  BY <1>5, <1>6

(* The documented rows ******************************************************)

\* An accepted entry has a documented row if it is exposed.
LEMMA DocumentedRow ==
    ASSUME NEW m, Accepted(m), NEW e \in Range(m)
    PROVE  e.exposeInDocs <=>
               \E row \in BuildDocumentationMetadata(m) : row.operationKey = KeyOf(e)
<1> DEFINE documented == BuildDocumentationMetadata(m)
<1>1. \A d : ToMatrixRow(d).operationKey = KeyOf(d)
             /\ ToMatrixRow(d).exposeInDocs = d.exposeInDocs
  BY DEF ToMatrixRow
<1>2. \A row : row \in documented <=>
                   \E d \in Range(m) : row = ToMatrixRow(d) /\ row.exposeInDocs
  BY DEF BuildDocumentationMetadata, BuildCapabilityMatrix
<1> HIDE DEF documented
<1>3. ASSUME e.exposeInDocs
      PROVE  \E row \in documented : row.operationKey = KeyOf(e)
  <2>1. ToMatrixRow(e).exposeInDocs
    BY <1>1, <1>3, Zenon
  <2>2. ToMatrixRow(e) \in documented
    BY <1>2, <2>1
  <2>3. QED
    BY <1>1, <2>2
<1>4. ASSUME NEW row \in documented, row.operationKey = KeyOf(e)
      PROVE  e.exposeInDocs
  <2>1. PICK d \in Range(m) : row = ToMatrixRow(d) /\ row.exposeInDocs
    BY <1>2
  <2>2. d = e
    BY <1>1, <1>4, <2>1, EntriesByKey
  <2>3. QED
    BY <1>1, <2>1, <2>2, Zenon
<1>5. QED
  BY <1>3, <1>4 DEF documented

\* The entries of a valid manifest that nothing keeps back are documented.
LEMMA ParsedRow ==
    ASSUME NEW entries \in Seq(Entries), ManifestIsValid(entries), NEW e \in Range(entries)
    PROVE  e.exposeInDocs # FALSE <=>
               \E row \in BuildDocumentationMetadata(ParseManifest(entries)) :
                   row.operationKey = KeyOf(e)
<1> DEFINE m == ParseManifest(entries)
<1>1. PICK i \in DOMAIN entries : e = entries[i]
  BY DEF Range
<1>2. e \in Entries
  BY <1>1
<1>3. ParseEntry(e) \in Range(m)
  BY <1>1 DEF ParseManifest, Range
<1>4. Accepted(m)
  BY ParsedIsAccepted
<1>5. KeyOf(ParseEntry(e)) = KeyOf(e)
      /\ (ParseEntry(e).exposeInDocs <=> e.exposeInDocs # FALSE)
  BY <1>2, ParseKeeps
<1> HIDE DEF m
<1>6. ParseEntry(e).exposeInDocs <=>
          \E row \in BuildDocumentationMetadata(m) : row.operationKey = KeyOf(ParseEntry(e))
  BY <1>3, <1>4, DocumentedRow
<1>7. e.exposeInDocs # FALSE <=>
          \E row \in BuildDocumentationMetadata(m) : row.operationKey = KeyOf(e)
  BY <1>5, <1>6
<1>8. QED
  BY <1>7 DEF m

(* The inductive invariant **************************************************)

\* A loaded module's manifest was accepted and its last answer fits it; before
\* that nothing is answered; what a provider showed first is what it caches.
IInv ==
    /\ draft \in [Custom -> Drafts]
    /\ module = "loaded" => Accepted(manifest) /\ RightAnswer(manifest, answer)
    /\ module # "loaded" => answer = NoAnswer
    /\ cachedPayload = served /\ served = [p \in Providers |-> served[p]]

LEMMA InitIInv == Init => IInv
  BY DEF Init, IInv

\* A request for anything but an operation is answered rightly.
LEMMA OtherAnswers ==
    ASSUME NEW m, NEW a, a.of \in Providers \cup {Absent}
    PROVE  RightAnswer(m, a)
  BY ProvidersAssumption DEF RightAnswer

LEMMA Loading == IInv /\ LoadModule => IInv'
<1> SUFFICES ASSUME IInv, LoadModule
             PROVE  IInv'
  OBVIOUS
<1>1. module = "unloaded" /\ answer = NoAnswer /\ answer' = answer
  BY DEF IInv, LoadModule
<1>2. UNCHANGED <<draft, cachedPayload, served>>
  BY DEF LoadModule
<1>3. PICK entries \in Manifests :
          IF ManifestIsValid(entries)
          THEN module' = "loaded" /\ manifest' = ParseManifest(entries)
          ELSE module' = "refused" /\ UNCHANGED manifest
  BY DEF LoadModule
<1>4. module' = "loaded" => Accepted(manifest')
  BY <1>3, EntriesAssumption, ParsedIsAccepted
<1>5. answer.of \in Providers \cup {Absent}
  BY <1>1 DEF NoAnswer
<1>6. RightAnswer(manifest', answer')
  BY <1>1, <1>5, OtherAnswers
<1>7. QED
  BY <1>1, <1>2, <1>4, <1>6 DEF IInv

LEMMA Editing == IInv /\ EditDraft => IInv'
<1> SUFFICES ASSUME IInv, EditDraft
             PROVE  IInv'
  OBVIOUS
<1>1. draft' \in [Custom -> Drafts]
  BY DEF IInv, EditDraft
<1>2. QED
  BY <1>1 DEF IInv, EditDraft

\* What a request for the payload does, by whether there is one or can be one.
LEMMA PayloadStep ==
    ASSUME IInv, NEW p \in Providers, GetCapabilities(p)
    PROVE  /\ module = "loaded" /\ UNCHANGED <<module, manifest, draft>>
           /\ answer'.of = p
           /\ served[p] # Absent =>
                answer'.status = 200 /\ answer'.shown = served[p] /\ served' = served
           /\ served[p] = Absent /\ BuilderThrows(p) =>
                answer'.status = 500 /\ served' = served
           /\ served[p] = Absent /\ ~BuilderThrows(p) =>
                answer'.status = 200 /\ answer'.shown = Built(p)
                /\ served' = [served EXCEPT ![p] = Built(p)]
           /\ cachedPayload' = served'
<1>1. module = "loaded" /\ UNCHANGED <<module, manifest, draft>>
  BY DEF GetCapabilities
<1>2. cachedPayload = served /\ served = [q \in Providers |-> served[q]]
  BY DEF IInv
<1>3. \A q \in Providers : [served EXCEPT ![q] = served[q]] = served
  BY <1>2
<1>4. CASE served[p] # Absent
  BY <1>1, <1>2, <1>3, <1>4 DEF GetCapabilities, Serve
<1>5. CASE served[p] = Absent /\ BuilderThrows(p)
  BY <1>1, <1>2, <1>5 DEF GetCapabilities, Serve
<1>6. CASE served[p] = Absent /\ ~BuilderThrows(p)
  <2>1. /\ cachedPayload' = [cachedPayload EXCEPT ![p] = Built(p)]
        /\ Serve(p, 200, Built(p))
    BY <1>2, <1>6 DEF GetCapabilities
  <2>2. QED
    BY <1>1, <1>2, <1>6, <2>1 DEF Serve
<1>7. QED
  BY <1>4, <1>5, <1>6

LEMMA Getting == IInv /\ (\E p \in Providers : GetCapabilities(p)) => IInv'
<1> SUFFICES ASSUME IInv, NEW p \in Providers, GetCapabilities(p)
             PROVE  IInv'
  OBVIOUS
<1>1. /\ module = "loaded" /\ UNCHANGED <<module, manifest, draft>>
      /\ answer'.of = p /\ cachedPayload' = served'
  BY PayloadStep
<1>2. served' = [q \in Providers |-> served'[q]]
  BY DEF IInv, GetCapabilities, Serve
<1>3. RightAnswer(manifest', answer')
  BY <1>1, OtherAnswers
<1>4. QED
  BY <1>1, <1>2, <1>3 DEF IInv

LEMMA Requesting ==
    IInv /\ (\E method \in Methods, path \in Paths : RequestOperation(method, path)) => IInv'
<1> SUFFICES ASSUME IInv, NEW method \in Methods, NEW path \in Paths,
                    RequestOperation(method, path)
             PROVE  IInv'
  OBVIOUS
<1>1. module = "loaded" /\ UNCHANGED <<module, manifest, draft, cachedPayload, served>>
  BY DEF RequestOperation
<1>2. Accepted(manifest)
  BY <1>1 DEF IInv
<1>3. RightAnswer(manifest, answer')
  BY <1>2, RequestIsRight DEF RequestOperation
<1>4. QED
  BY <1>1, <1>2, <1>3 DEF IInv

LEMMA Step == IInv /\ [Next]_vars => IInv'
<1>1. IInv /\ UNCHANGED vars => IInv'
  BY DEF IInv, vars
<1>2. QED
  BY <1>1, Loading, Editing, Getting, Requesting DEF Next

(* Theorems *****************************************************************)

\* A manifest that loads classifies every route once, and every request for an
\* operation is answered as its entry says.
THEOREM RouteSafety == Spec => []RouteClassifiedOnce
<1>1. IInv => RouteClassifiedOnce
  <2> SUFFICES ASSUME IInv, module = "loaded"
               PROVE  RouteClassifiedOnce
    BY DEF RouteClassifiedOnce
  <2>1. Accepted(manifest) /\ RightAnswer(manifest, answer)
    BY DEF IInv
  <2>2. ASSUME NEW i \in DOMAIN manifest, NEW j \in DOMAIN manifest,
               Spells(manifest[i].method, manifest[i].path, manifest[j])
        PROVE  i = j
    <3>1. KeyOf(manifest[i]) = KeyOf(manifest[j])
      BY <2>2, KeySpells DEF KeyOf
    <3>2. QED
      BY <2>1, <3>1 DEF Accepted
  <2>3. Cardinality(BuildCapabilityMatrix(manifest)) = Len(manifest)
    BY <2>1, MatrixSize
  <2>4. QED
    BY <2>1, <2>2, <2>3 DEF RouteClassifiedOnce, RightAnswer
<1>2. QED
  BY <1>1, InitIInv, Step, PTL DEF Spec

\* A provider fails only while its builder cannot build, documents what it is
\* built of but the entries kept back, and never shows anything else after.
THEOREM PayloadSafety == Spec => PayloadServedForGood
<1> DEFINE Shown(p) ==
      answer' # answer /\ answer'.of = p =>
          /\ served[p] = Absent =>
              /\ answer'.status = IF p = Default \/ ManifestIsValid(draft[p])
                                  THEN 200 ELSE 500
              /\ answer'.status = 200 =>
                  \A e \in Range(IF p = Default THEN manifest ELSE draft[p]) :
                      e.exposeInDocs # FALSE <=>
                          \E row \in answer'.shown : row.operationKey = KeyOf(e)
          /\ served[p] # Absent =>
              answer'.status = 200 /\ answer'.shown = served[p]
<1>1. ASSUME IInv, NEW p \in Providers, GetCapabilities(p)
      PROVE  Shown(p)
  <2>1. BuilderThrows(p) <=> ~(p = Default \/ ManifestIsValid(draft[p]))
    BY DEF BuilderThrows
  <2>2. ASSUME served[p] = Absent, ~BuilderThrows(p),
               NEW e \in Range(IF p = Default THEN manifest ELSE draft[p])
        PROVE  e.exposeInDocs # FALSE <=>
                   \E row \in Built(p) : row.operationKey = KeyOf(e)
    <3>1. CASE p = Default
      <4>1. Accepted(manifest) /\ e \in Range(manifest)
        BY <1>1, <2>2, <3>1, PayloadStep DEF IInv
      <4>2. e.exposeInDocs \in BOOLEAN
        BY <4>1, EntriesByKey
      <4>3. e.exposeInDocs # FALSE <=> e.exposeInDocs
        BY <4>2, Zenon
      <4>4. QED
        BY <3>1, <4>1, <4>3, DocumentedRow DEF Built
    <3>2. CASE p # Default
      <4>1. p \in Custom /\ draft[p] \in Drafts
        BY <1>1, <3>2 DEF Providers, IInv
      <4>2. draft[p] \in Seq(Entries) /\ ManifestIsValid(draft[p]) /\ e \in Range(draft[p])
        BY <2>1, <2>2, <3>2, <4>1, EntriesAssumption
      <4>3. QED
        BY <3>2, <4>2, ParsedRow DEF Built
    <3>3. QED
      BY <3>1, <3>2
  <2>3. /\ served[p] # Absent => answer'.status = 200 /\ answer'.shown = served[p]
        /\ served[p] = Absent /\ BuilderThrows(p) => answer'.status = 500
        /\ served[p] = Absent /\ ~BuilderThrows(p) =>
             answer'.status = 200 /\ answer'.shown = Built(p)
    BY <1>1, PayloadStep
  <2>4. CASE served[p] # Absent
    BY <2>3, <2>4
  <2>5. CASE served[p] = Absent /\ BuilderThrows(p)
    <3>1. answer'.status = (IF p = Default \/ ManifestIsValid(draft[p]) THEN 200 ELSE 500)
      BY <2>1, <2>3, <2>5, Zenon
    <3>2. answer'.status # 200
      BY <2>3, <2>5
    <3>3. QED
      BY <2>5, <3>1, <3>2, Zenon
  <2>6. CASE served[p] = Absent /\ ~BuilderThrows(p)
    <3>1. answer'.status = (IF p = Default \/ ManifestIsValid(draft[p]) THEN 200 ELSE 500)
      BY <2>1, <2>3, <2>6, Zenon
    <3>2. ASSUME NEW e \in Range(IF p = Default THEN manifest ELSE draft[p])
          PROVE  e.exposeInDocs # FALSE <=>
                     \E row \in answer'.shown : row.operationKey = KeyOf(e)
      <4>1. e.exposeInDocs # FALSE <=> \E row \in Built(p) : row.operationKey = KeyOf(e)
        BY <2>2, <2>6, <3>2, Zenon
      <4>2. answer'.shown = Built(p)
        BY <2>3, <2>6
      <4>3. QED
        BY <4>1, <4>2, Zenon
    <3>3. QED
      BY <2>6, <3>1, <3>2, Zenon
  <2>7. QED
    BY <2>4, <2>5, <2>6
<1>2. ASSUME IInv, [Next]_vars, NEW p \in Providers
      PROVE  Shown(p)
  <2>1. CASE LoadModule \/ EditDraft \/ UNCHANGED vars
    BY <2>1 DEF LoadModule, EditDraft, vars
  <2>2. CASE \E q \in Providers : GetCapabilities(q)
    <3>1. PICK q \in Providers : GetCapabilities(q)
      BY <2>2
    <3>2. answer'.of = q
      BY <1>2, <3>1, PayloadStep
    <3>3. CASE p = q
      <4>1. GetCapabilities(p)
        BY <3>1, <3>3
      <4>2. QED
        BY <1>1, <1>2, <4>1
    <3>4. CASE p # q
      BY <3>2, <3>4
    <3>5. QED
      BY <3>3, <3>4
  <2>3. CASE \E method \in Methods, path \in Paths : RequestOperation(method, path)
    <3>1. answer'.of \in Methods \X Paths
      BY <2>3 DEF RequestOperation, ToUnsupportedOperationResponse
    <3>2. answer'.of # p
      BY <3>1, ProvidersAssumption
    <3>3. QED
      BY <3>2
  <2>4. QED
    BY <1>2, <2>1, <2>2, <2>3 DEF Next
<1>3. IInv /\ [Next]_vars => [\A p \in Providers : Shown(p)]_vars
  BY <1>2
<1>4. QED
  BY <1>3, InitIInv, Step, PTL DEF Spec, PayloadServedForGood
=============================================================================
