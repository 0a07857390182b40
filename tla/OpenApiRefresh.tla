--------------------------- MODULE OpenApiRefresh ---------------------------
(* The refresh of the pinned DigitalOcean OpenAPI contract                  *)
(* (sync-digitalocean-openapi.ts).  Each member of Runs is one invocation   *)
(* of the command; invocations share the repository checkout and the        *)
(* directory temporary roots are made in, and may overlap, fail at any      *)
(* await, or be killed.  One action is the code between two awaits, with    *)
(* the file system operation it waits for.                                  *)
EXTENDS Naturals

CONSTANTS
    Runs,       \* invocations of the command
    Pins,       \* well-formed commit arguments (40 lower-case hex digits)
    BadPins,    \* arguments readPinArgument rejects
    TempRoots,  \* names mkdtemp can give a temporary root
    Bodies,     \* what distinguishes two documents, credentials apart
    Upstream,   \* what the upstream repository holds at each pin
    Absent,     \* a file or directory that is not there
    Torn,       \* a file created but not yet completely written
    NoPin       \* a run that has read no pin, a file holding no archive

\* Texts the credential rules are about, by where and how they appear.
Secrets == {"webhookValue", "webhookKey", "pemBlock", "pemHeader"}

Docs == [body : Bodies, secrets : SUBSET Secrets]
Hashes == [sha256 : Docs]
Provenances == [upstreamCommit : Pins, generatedArtifactSha256 : Hashes]

ASSUME UpstreamAssumption ==
    Upstream \in [Pins -> [roots : Nat, doc : Docs]]

ASSUME DistinctAssumption ==
    /\ NoPin \notin Pins
    /\ Pins \cap BadPins = {}
    /\ Absent \notin TempRoots
    /\ {Absent, Torn} \cap (Docs \cup Provenances) = {}
    /\ Absent \notin [archive : Pins \cup {NoPin}, extracted : Pins \cup {NoPin},
                      bundle : Docs \cup {Absent}]
    /\ Absent # Torn

VARIABLES
    pc,         \* where each run is
    pin,        \* the commit each run refreshes to
    root,       \* the temporary root of each run
    content,    \* the artefact text each run holds in memory
    temp,       \* the temporary roots on disk
    artifactTmp,    \* temporary output files beside the artefact
    provenanceTmp,  \* temporary output files beside the provenance
    artifact,   \* digitalocean.openapi.json
    provenance, \* digitalocean.openapi.provenance.json
    owing,      \* runs that renamed their artefact and not their provenance
    solo        \* runs no other run has been active with since they started

vars == <<pc, pin, root, content, temp, artifactTmp, provenanceTmp,
          artifact, provenance, owing, solo>>

(* Pure steps ***************************************************************)

\* Rules replace a webhook URL and a complete PEM block in string values:
\* object keys are kept, and so is a PEM header with no footer.
ScrubSecretLikeExamples(doc) ==
    [doc EXCEPT !.secrets = @ \ {"webhookValue", "pemBlock"}]

\* Throws on the whole text, keys and lone headers included.
AssertNoCredentialLikeExamples(doc) ==
    doc.secrets = {}

\* Collision-free, and never equal to what was hashed.
Sha256Hex(doc) == [sha256 |-> doc]

BuildProvenance(p, hash) ==
    [upstreamCommit |-> p, generatedArtifactSha256 |-> hash]

\* The reader's check of the pair.
ProvenanceMatchesArtifact(prov, doc) ==
    Sha256Hex(doc) = prov.generatedArtifactSha256

\* Mutant: one fixed temporary name beside the output.
SharedTempOutputPath(r) == CHOOSE s \in Runs : TRUE

\* The path is unique: a random UUID stands in it, here the run's name.
CreateTempOutputPath(r) == r

\* What a pin is refreshed to, and the pins a refresh can succeed with.
Sanitized(p) == ScrubSecretLikeExamples(Upstream[p].doc)
Publishable == {p \in Pins : Upstream[p].roots = 1 /\
                             AssertNoCredentialLikeExamples(Sanitized(p))}

(* State ********************************************************************)

EmptyRoot == [archive |-> NoPin, extracted |-> NoPin, bundle |-> Absent]
TempRootContents == [archive : Pins \cup {NoPin}, extracted : Pins \cup {NoPin},
                     bundle : Docs \cup {Absent}]

Working == {"fetch", "extract", "bundle", "sanitize",
            "openArtifact", "writeArtifact", "renameArtifact",
            "openProvenance", "writeProvenance", "renameProvenance"}
Active == Working \cup {"mkdtemp", "cleanup", "unwind"}
Ended == {"succeeded", "failed", "crashed"}

Init ==
    /\ pc = [r \in Runs |-> "idle"]
    /\ pin = [r \in Runs |-> NoPin]
    /\ root = [r \in Runs |-> Absent]
    /\ content = [r \in Runs |-> Absent]
    /\ temp = [d \in TempRoots |-> Absent]
    /\ artifactTmp = [r \in Runs |-> Absent]
    /\ provenanceTmp = [r \in Runs |-> Absent]
    /\ \/ artifact = Absent /\ provenance = Absent
       \/ \E p \in Publishable :
            /\ artifact = Sanitized(p)
            /\ provenance = BuildProvenance(p, Sha256Hex(Sanitized(p)))
    /\ owing = {}
    /\ solo = Runs

(* The command **************************************************************)

Others(r) == {s \in Runs \ {r} : pc[s] \in Active}

\* The argument is read before anything is created: a bad pin leaves no trace.
StartRun(r) ==
    /\ pc[r] = "idle"
    /\ \E p \in Pins :
        /\ pin' = [pin EXCEPT ![r] = p]
        /\ pc' = [pc EXCEPT ![r] = "mkdtemp"]
    /\ solo' = IF Others(r) = {} THEN solo ELSE solo \ ({r} \cup Others(r))
    /\ UNCHANGED <<root, content, temp, artifactTmp, provenanceTmp,
                   artifact, provenance, owing>>

RejectPin(r) ==
    /\ pc[r] = "idle"
    /\ BadPins # {}
    /\ pc' = [pc EXCEPT ![r] = "failed"]
    /\ UNCHANGED <<pin, root, content, temp, artifactTmp, provenanceTmp,
                   artifact, provenance, owing, solo>>

\* mkdtemp makes a directory of a name nobody has.
Mkdtemp(r) ==
    /\ pc[r] = "mkdtemp"
    /\ \E d \in TempRoots :
        /\ temp[d] = Absent
        /\ temp' = [temp EXCEPT ![d] = EmptyRoot]
        /\ root' = [root EXCEPT ![r] = d]
    /\ pc' = [pc EXCEPT ![r] = "fetch"]
    /\ UNCHANGED <<pin, content, artifactTmp, provenanceTmp,
                   artifact, provenance, owing, solo>>

\* The whole archive arrived in time, under the size cap, and is written down.
FetchArchive(r) ==
    /\ pc[r] = "fetch"
    /\ temp[root[r]] # Absent
    /\ temp' = [temp EXCEPT ![root[r]].archive = pin[r]]
    /\ pc' = [pc EXCEPT ![r] = "extract"]
    /\ UNCHANGED <<pin, root, content, artifactTmp, provenanceTmp,
                   artifact, provenance, owing, solo>>

ExtractArchive(r) ==
    /\ pc[r] = "extract"
    /\ temp[root[r]] # Absent
    /\ temp[root[r]].archive # NoPin
    /\ temp' = [temp EXCEPT ![root[r]].extracted = temp[root[r]].archive]
    /\ pc' = [pc EXCEPT ![r] = "bundle"]
    /\ UNCHANGED <<pin, root, content, artifactTmp, provenanceTmp,
                   artifact, provenance, owing, solo>>

\* findExtractedRepositoryRoot wants exactly one directory named for the pin;
\* the bundler then reads the document in it.
BundleOpenApi(r) ==
    /\ pc[r] = "bundle"
    /\ temp[root[r]] # Absent
    /\ temp[root[r]].extracted = pin[r]
    /\ Upstream[pin[r]].roots = 1
    /\ temp' = [temp EXCEPT ![root[r]].bundle = Upstream[pin[r]].doc]
    /\ pc' = [pc EXCEPT ![r] = "sanitize"]
    /\ UNCHANGED <<pin, root, content, artifactTmp, provenanceTmp,
                   artifact, provenance, owing, solo>>

\* Mutant: scrubbing is trusted, and nothing asserted of its result.
SanitizeUnasserted(r) ==
    /\ pc[r] = "sanitize"
    /\ temp[root[r]] # Absent
    /\ temp[root[r]].bundle # Absent
    /\ content' = [content EXCEPT ![r] = ScrubSecretLikeExamples(temp[root[r]].bundle)]
    /\ pc' = [pc EXCEPT ![r] = "openArtifact"]
    /\ UNCHANGED <<pin, root, temp, artifactTmp, provenanceTmp,
                   artifact, provenance, owing, solo>>

\* Parse, scrub, serialise and assert run with no await between them.
SanitizeBundle(r) ==
    /\ pc[r] = "sanitize"
    /\ temp[root[r]] # Absent
    /\ temp[root[r]].bundle # Absent
    /\ LET scrubbed == ScrubSecretLikeExamples(temp[root[r]].bundle)
       IN  /\ AssertNoCredentialLikeExamples(scrubbed)
           /\ content' = [content EXCEPT ![r] = scrubbed]
    /\ pc' = [pc EXCEPT ![r] = "openArtifact"]
    /\ UNCHANGED <<pin, root, temp, artifactTmp, provenanceTmp,
                   artifact, provenance, owing, solo>>

\* Mutant: the output is opened for writing in place.
OpenArtifactInPlace(r) ==
    /\ pc[r] = "openArtifact"
    /\ artifact' = Torn
    /\ pc' = [pc EXCEPT ![r] = "writeArtifact"]
    /\ UNCHANGED <<pin, root, content, temp, artifactTmp, provenanceTmp, provenance, owing, solo>>

(* writeCanonicalJsonContent: the temporary file is created, then complete, *)
(* then renamed over the published one.                                     *)
OpenArtifact(r) ==
    /\ pc[r] = "openArtifact"
    /\ artifactTmp' = [artifactTmp EXCEPT ![CreateTempOutputPath(r)] = Torn]
    /\ pc' = [pc EXCEPT ![r] = "writeArtifact"]
    /\ UNCHANGED <<pin, root, content, temp, provenanceTmp, artifact, provenance, owing, solo>>

WriteArtifact(r) ==
    /\ pc[r] = "writeArtifact"
    /\ artifactTmp' = [artifactTmp EXCEPT ![CreateTempOutputPath(r)] = content[r]]
    /\ pc' = [pc EXCEPT ![r] = "renameArtifact"]
    /\ UNCHANGED <<pin, root, content, temp, provenanceTmp, artifact, provenance, owing, solo>>

RenameArtifact(r) ==
    /\ pc[r] = "renameArtifact"
    /\ artifactTmp[CreateTempOutputPath(r)] # Absent
    /\ artifact' = artifactTmp[CreateTempOutputPath(r)]
    /\ artifactTmp' = [artifactTmp EXCEPT ![CreateTempOutputPath(r)] = Absent]
    /\ owing' = owing \cup {r}
    /\ pc' = [pc EXCEPT ![r] = "openProvenance"]
    /\ UNCHANGED <<pin, root, content, temp, provenanceTmp, provenance, solo>>

OpenProvenance(r) ==
    /\ pc[r] = "openProvenance"
    /\ provenanceTmp' = [provenanceTmp EXCEPT ![CreateTempOutputPath(r)] = Torn]
    /\ pc' = [pc EXCEPT ![r] = "writeProvenance"]
    /\ UNCHANGED <<pin, root, content, temp, artifactTmp, artifact, provenance, owing, solo>>

\* Mutant: the hash is taken of the bundle, before scrubbing.
HashBundle(r) ==
    /\ pc[r] = "writeProvenance"
    /\ temp[root[r]] # Absent
    /\ provenanceTmp' = [provenanceTmp EXCEPT ![CreateTempOutputPath(r)] =
                            BuildProvenance(pin[r], Sha256Hex(temp[root[r]].bundle))]
    /\ pc' = [pc EXCEPT ![r] = "renameProvenance"]
    /\ UNCHANGED <<pin, root, content, temp, artifactTmp, artifact, provenance, owing, solo>>

\* The hash is taken of the text in memory, never of the file.
WriteProvenance(r) ==
    /\ pc[r] = "writeProvenance"
    /\ provenanceTmp' = [provenanceTmp EXCEPT ![CreateTempOutputPath(r)] =
                            BuildProvenance(pin[r], Sha256Hex(content[r]))]
    /\ pc' = [pc EXCEPT ![r] = "renameProvenance"]
    /\ UNCHANGED <<pin, root, content, temp, artifactTmp, artifact, provenance, owing, solo>>

\* Mutant: a provenance that exists is kept.
RenameProvenanceOnce(r) ==
    /\ pc[r] = "renameProvenance"
    /\ provenanceTmp[CreateTempOutputPath(r)] # Absent
    /\ provenance' = IF provenance = Absent
                     THEN provenanceTmp[CreateTempOutputPath(r)] ELSE provenance
    /\ provenanceTmp' = [provenanceTmp EXCEPT ![CreateTempOutputPath(r)] = Absent]
    /\ owing' = owing \ {r}
    /\ pc' = [pc EXCEPT ![r] = "cleanup"]
    /\ UNCHANGED <<pin, root, content, temp, artifactTmp, artifact, solo>>

RenameProvenance(r) ==
    /\ pc[r] = "renameProvenance"
    /\ provenanceTmp[CreateTempOutputPath(r)] # Absent
    /\ provenance' = provenanceTmp[CreateTempOutputPath(r)]
    /\ provenanceTmp' = [provenanceTmp EXCEPT ![CreateTempOutputPath(r)] = Absent]
    /\ owing' = owing \ {r}
    /\ pc' = [pc EXCEPT ![r] = "cleanup"]
    /\ UNCHANGED <<pin, root, content, temp, artifactTmp, artifact, solo>>

\* Mutant: the temporary root is removed in a catch.
RemoveTempRootOnFailure(r) ==
    /\ pc[r] \in {"cleanup", "unwind"}
    /\ temp' = IF pc[r] = "unwind" THEN [temp EXCEPT ![root[r]] = Absent] ELSE temp
    /\ pc' = [pc EXCEPT ![r] = IF pc[r] = "cleanup" THEN "succeeded" ELSE "failed"]
    /\ UNCHANGED <<pin, root, content, artifactTmp, provenanceTmp,
                   artifact, provenance, owing, solo>>

\* finally: the temporary root goes, whatever the outcome.
RemoveTempRoot(r) ==
    /\ pc[r] \in {"cleanup", "unwind"}
    /\ temp' = [temp EXCEPT ![root[r]] = Absent]
    /\ pc' = [pc EXCEPT ![r] = IF pc[r] = "cleanup" THEN "succeeded" ELSE "failed"]
    /\ UNCHANGED <<pin, root, content, artifactTmp, provenanceTmp,
                   artifact, provenance, owing, solo>>

(* Failure ******************************************************************)

Unwind(r) ==
    /\ pc' = [pc EXCEPT ![r] = "unwind"]
    /\ UNCHANGED <<pin, root, content, temp, artifactTmp, provenanceTmp,
                   artifact, provenance, owing, solo>>

\* Mutant: the bundler is given no timeout.
TimeOutDownload(r) == pc[r] \in {"fetch", "extract"} /\ Unwind(r)

\* The download, tar and the bundler are the awaits given a timeout.
TimeOut(r) == pc[r] \in {"fetch", "extract", "bundle"} /\ Unwind(r)

\* A document the code refuses: a wrong archive, or a credential left in it.
Refuse(r) ==
    /\ \/ pc[r] = "bundle" /\ Upstream[pin[r]].roots # 1
       \/ /\ pc[r] = "sanitize"
          /\ temp[root[r]] # Absent
          /\ ~AssertNoCredentialLikeExamples(
                 ScrubSecretLikeExamples(temp[root[r]].bundle))
    /\ Unwind(r)

\* Any await inside the try may reject: a full disk, a failed child process.
Throw(r) == pc[r] \in Working /\ Unwind(r)

\* Outside the try nothing is undone: mkdtemp itself, or the final removal.
ThrowOutsideTry(r) ==
    /\ pc[r] \in {"mkdtemp", "cleanup", "unwind"}
    /\ pc' = [pc EXCEPT ![r] = "failed"]
    /\ UNCHANGED <<pin, root, content, temp, artifactTmp, provenanceTmp,
                   artifact, provenance, owing, solo>>

\* The process is killed: nothing of it runs any more, the finally included.
Crash(r) ==
    /\ pc[r] \in Active
    /\ pc' = [pc EXCEPT ![r] = "crashed"]
    /\ UNCHANGED <<pin, root, content, temp, artifactTmp, provenanceTmp,
                   artifact, provenance, owing, solo>>

(* Specification ************************************************************)

\* Steps that wait for this machine's own file system only.
LocalStep(r) ==
    \/ Mkdtemp(r)
    \/ SanitizeBundle(r)
    \/ OpenArtifact(r) \/ WriteArtifact(r) \/ RenameArtifact(r)
    \/ OpenProvenance(r) \/ WriteProvenance(r) \/ RenameProvenance(r)
    \/ RemoveTempRoot(r)
    \/ Refuse(r)

Step(r) ==
    \/ StartRun(r) \/ RejectPin(r)
    \/ FetchArchive(r) \/ ExtractArchive(r) \/ BundleOpenApi(r)
    \/ LocalStep(r)
    \/ TimeOut(r) \/ Throw(r) \/ ThrowOutsideTry(r) \/ Crash(r)

Next == \E r \in Runs : Step(r)

Spec == Init /\ [][Next]_vars

\* Neither the server nor a child process need ever answer; the timers and
\* the local file system do.
Fairness == \A r \in Runs : WF_vars(LocalStep(r)) /\ WF_vars(TimeOut(r))

FairSpec == Spec /\ Fairness

(* Properties ***************************************************************)

\* Every variable holds a value of its kind.
TypeOK ==
    /\ pc \in [Runs -> {"idle"} \cup Active \cup Ended]
    /\ pin \in [Runs -> Pins \cup {NoPin}]
    /\ root \in [Runs -> TempRoots \cup {Absent}]
    /\ content \in [Runs -> Docs \cup {Absent}]
    /\ temp \in [TempRoots -> TempRootContents \cup {Absent}]
    /\ artifactTmp \in [Runs -> Docs \cup {Absent, Torn}]
    /\ provenanceTmp \in [Runs -> Provenances \cup {Absent, Torn}]
    /\ artifact \in Docs \cup {Absent}
    /\ provenance \in Provenances \cup {Absent}
    /\ owing \subseteq Runs
    /\ solo \subseteq Runs

\* No text a credential rule is about ever stands under the repository, in
\* the artefact or in a temporary file beside it: the assertion comes before
\* the first write, and looks at what scrubbing does not reach.
NoCredentialOnDisk ==
    \A text \in {artifact} \cup {artifactTmp[r] : r \in Runs} :
        text \notin {Absent, Torn} => AssertNoCredentialLikeExamples(text)

\* Provenance is never torn and never wrong about the commit it names: its
\* hash is that of the sanitised bundle of upstreamCommit, whichever runs
\* overlapped, failed or were killed while it was written.
ProvenanceTruthful ==
    provenance # Absent =>
        /\ provenance # Torn
        /\ provenance.upstreamCommit \in Publishable
        /\ ProvenanceMatchesArtifact(provenance, Sanitized(provenance.upstreamCommit))

Consistent ==
    /\ artifact # Absent
    /\ provenance # Absent
    /\ ProvenanceMatchesArtifact(provenance, artifact)

\* The two renames are not one step.  The published pair disagrees only when
\* some run stands, failed or died between its renames, or two runs
\* overlapped; runs that complete one at a time keep it consistent.
MismatchExplained ==
    \/ Consistent
    \/ artifact = Absent /\ provenance = Absent
    \/ owing # {}
    \/ solo # Runs

\* Whatever state earlier runs left, one run that succeeds with no other
\* beside it leaves a consistent pair, of the commit it was given.
SoloRunRepairs ==
    [][\A r \in solo :
         pc[r] = "cleanup" /\ pc'[r] = "succeeded" =>
            Consistent' /\ provenance'.upstreamCommit = pin[r]]_vars

\* What is left on disk belongs to a run that is still going, was killed or
\* reported failure: a run that reports success has removed its temporary
\* root and both of its temporary output files.
LeftoversExplained ==
    LET Excused == {r \in Runs : pc[r] \in Active \cup {"failed", "crashed"}}
    IN  /\ \A d \in TempRoots : temp[d] # Absent => \E r \in Excused : root[r] = d
        /\ \A r \in Runs : artifactTmp[r] # Absent \/ provenanceTmp[r] # Absent => r \in Excused

(* The inductive invariant **************************************************)

Publishing == {"openArtifact", "writeArtifact", "renameArtifact",
               "openProvenance", "writeProvenance", "renameProvenance"}
Window == {"openProvenance", "writeProvenance", "renameProvenance"}
Holding(r) == pc[r] \in Working \cup {"cleanup", "unwind"}
Certificate(p) == BuildProvenance(p, Sha256Hex(Sanitized(p)))

\* A run that holds a temporary root has it to itself, and bundled its own pin.
RootsIsolated ==
    /\ \A r \in Runs : Holding(r) => root[r] \in TempRoots /\ temp[root[r]] # Absent
    /\ \A r, s \in Runs : Holding(r) /\ Holding(s) /\ r # s => root[r] # root[s]
    /\ \A r \in Runs : pc[r] = "sanitize" =>
          Upstream[pin[r]].roots = 1 /\ temp[root[r]].bundle = Upstream[pin[r]].doc

\* What a run holds in memory or has written is what its pin is refreshed to.
RunsTruthful ==
    \A r \in Runs :
        /\ pc[r] \in Active => pin[r] \in Pins
        /\ content[r] # Absent => pin[r] \in Publishable /\ content[r] = Sanitized(pin[r])
        /\ pc[r] \in Publishing \cup {"cleanup"} => content[r] # Absent
        /\ pc[r] = "idle" => content[r] = Absent
        /\ artifactTmp[r] \in {Absent, Torn, content[r]}
        /\ pc[r] = "renameArtifact" => artifactTmp[r] = content[r]
        /\ provenanceTmp[r] \notin {Absent, Torn} =>
              content[r] # Absent /\ provenanceTmp[r] = Certificate(pin[r])
        /\ pc[r] = "renameProvenance" => provenanceTmp[r] = Certificate(pin[r])

\* Each published file is absent or a whole publication of some pin.
FilesWhole ==
    /\ artifact # Absent => \E p \in Publishable : artifact = Sanitized(p)
    /\ provenance # Absent => \E p \in Publishable : provenance = Certificate(p)

\* Who owes a provenance, and what a run that is alone knows of the files.
OwingExact ==
    \A r \in Runs :
        /\ pc[r] \in Window => r \in owing
        /\ r \in owing => /\ pc[r] \in Window \cup {"unwind", "failed", "crashed"}
                          /\ content[r] # Absent
SoloExact ==
    /\ \A r, s \in Runs : r # s /\ pc[r] \in Active /\ pc[s] \in Active => r \notin solo
    /\ \A r \in solo :
        /\ pc[r] \in Window \cup {"cleanup"} => artifact = content[r]
        /\ pc[r] = "cleanup" => provenance = Certificate(pin[r])

\* What a run has on disk, by where it is: no root before mkdtemp, and no
\* output file before it opens one or after it renamed it.
TracesExact ==
    \A r \in Runs :
        /\ pc[r] \in {"idle", "mkdtemp"} => root[r] = Absent
        /\ pc[r] \in {"idle", "cleanup", "succeeded"} \cup Window => artifactTmp[r] = Absent
        /\ pc[r] \in {"idle", "cleanup", "succeeded"} => provenanceTmp[r] = Absent

\* What together is preserved by every step, and implies the safety above.
IInv ==
    /\ TypeOK
    /\ RootsIsolated
    /\ RunsTruthful
    /\ FilesWhole
    /\ OwingExact
    /\ SoloExact
    /\ MismatchExplained

(* Liveness and refinement **************************************************)

\* A started run ends, however long the server or a child process stalls.
EveryRunEnds == \A r \in Runs : pc[r] \in Active ~> pc[r] \in Ended

\* The two files change as PublishedPair says they may.
Pair == INSTANCE PublishedPair WITH
    Publishers <- Runs, Commits <- Publishable, Released <- Sanitized,
    NoCommit <- NoPin,
    owed <- [r \in Runs |-> IF r \in owing THEN pin[r] ELSE NoPin]

ImplementsPublishedPair == Pair!Spec
=============================================================================
