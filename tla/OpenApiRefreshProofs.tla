------------------------ MODULE OpenApiRefreshProofs ------------------------
(* Theorems about OpenApiRefresh, and about the gate of OpenApiGate over it, *)
(* for any number of runs, pins and documents.                               *)
EXTENDS OpenApiGate, TLAPS

\* A sanitised document is a document, and provenance is not one.
LEMMA SanitizedIsDoc ==
    /\ \A p \in Pins : Upstream[p].doc \in Docs /\ Sanitized(p) \in Docs
    /\ \A d \in Docs : ScrubSecretLikeExamples(d) \in Docs
    /\ \A p \in Pins : Certificate(p) \in Provenances
    /\ Publishable \subseteq Pins
<1>1. \A d \in Docs : ScrubSecretLikeExamples(d) \in Docs
  BY DEF Docs, ScrubSecretLikeExamples
<1>2. \A p \in Pins : Upstream[p].doc \in Docs
  BY UpstreamAssumption
<1>3. \A p \in Pins : Certificate(p) \in Provenances
  BY <1>1, <1>2 DEF Certificate, BuildProvenance, Sha256Hex, Provenances, Hashes, Sanitized
<1>4. QED
  BY <1>1, <1>2, <1>3 DEF Sanitized, Publishable

\* The initial states satisfy the invariant.
LEMMA InitIInv == Init => IInv
<1> SUFFICES ASSUME Init PROVE IInv
  OBVIOUS
<1> USE SanitizedIsDoc, DistinctAssumption
<1>1. \/ artifact = Absent /\ provenance = Absent
      \/ \E p \in Publishable : artifact = Sanitized(p) /\ provenance = Certificate(p)
  BY DEF Init, Certificate
<1>2. TypeOK
  BY <1>1 DEF Init, TypeOK
<1>3. RootsIsolated
  BY DEF Init, RootsIsolated, Holding, Working
<1>4. RunsTruthful
  BY DEF Init, RunsTruthful, Active, Working, Publishing
<1>5. FilesWhole
  BY <1>1 DEF FilesWhole
<1>6. OwingExact /\ SoloExact
  BY DEF Init, OwingExact, SoloExact, Window, Active, Working
<1>7. MismatchExplained
  BY <1>1 DEF MismatchExplained, Consistent, ProvenanceMatchesArtifact,
              Certificate, BuildProvenance
<1>8. QED
  BY <1>2, <1>3, <1>4, <1>5, <1>6, <1>7 DEF IInv

\* A run that stops changes where it is, and nothing else.
StopsHere(r) ==
    /\ \/ pc[r] \in Working /\ pc' = [pc EXCEPT ![r] = "unwind"]
       \/ pc[r] \in Active \cup {"idle"} /\ pc' = [pc EXCEPT ![r] = "failed"]
       \/ pc[r] \in Active /\ pc' = [pc EXCEPT ![r] = "crashed"]
    /\ UNCHANGED <<pin, root, content, temp, artifactTmp, provenanceTmp,
                   artifact, provenance, owing, solo>>

Opens(r) == OpenArtifact(r) \/ OpenProvenance(r)
Writes(r) == WriteArtifact(r) \/ WriteProvenance(r)

\* The steps of a run, failures taken together.
LEMMA StepCases ==
    ASSUME NEW r \in Runs, Step(r)
    PROVE  \/ StartRun(r) \/ Mkdtemp(r)
           \/ FetchArchive(r) \/ ExtractArchive(r) \/ BundleOpenApi(r)
           \/ SanitizeBundle(r)
           \/ Opens(r) \/ Writes(r)
           \/ RenameArtifact(r) \/ RenameProvenance(r)
           \/ RemoveTempRoot(r)
           \/ StopsHere(r)
BY DEF Step, LocalStep, Opens, Writes, StopsHere, RejectPin, TimeOut, Refuse, Throw,
       ThrowOutsideTry, Crash, Unwind, Active, Working

\* Every step keeps every variable in its set.
LEMMA TypeStep == ASSUME IInv, NEW r \in Runs, Step(r) PROVE TypeOK'
<1> USE SanitizedIsDoc, DistinctAssumption DEF IInv, TypeOK, Active, Working, Ended
<1>1. CASE StartRun(r) \/ Mkdtemp(r)
  BY <1>1 DEF StartRun, Others, Mkdtemp, TempRootContents, EmptyRoot
<1>2. CASE FetchArchive(r)
  <2>1. root[r] \in TempRoots /\ temp[root[r]] \in TempRootContents /\ pin[r] \in Pins
    BY <1>2 DEF FetchArchive, RootsIsolated, Holding, RunsTruthful
  <2>2. [temp[root[r]] EXCEPT !.archive = pin[r]] \in TempRootContents
    BY <2>1 DEF TempRootContents
  <2>3. temp' = [temp EXCEPT ![root[r]] = [temp[root[r]] EXCEPT !.archive = pin[r]]]
    BY <1>2, <2>1 DEF FetchArchive
  <2>4. QED
    BY <1>2, <2>1, <2>2, <2>3 DEF FetchArchive
<1>3. CASE ExtractArchive(r)
  <2> DEFINE got == temp[root[r]].archive
  <2>1. root[r] \in TempRoots /\ temp[root[r]] \in TempRootContents
    BY <1>3 DEF ExtractArchive, RootsIsolated, Holding
  <2>2. [temp[root[r]] EXCEPT !.extracted = got] \in TempRootContents
    BY <2>1 DEF TempRootContents
  <2>3. temp' = [temp EXCEPT ![root[r]] = [temp[root[r]] EXCEPT !.extracted = got]]
    BY <1>3, <2>1 DEF ExtractArchive
  <2>4. QED
    BY <1>3, <2>1, <2>2, <2>3 DEF ExtractArchive
<1>4. CASE BundleOpenApi(r)
  <2> DEFINE doc == Upstream[pin[r]].doc
  <2>1. /\ root[r] \in TempRoots /\ temp[root[r]] \in TempRootContents
        /\ doc \in Docs
    BY <1>4 DEF BundleOpenApi, RootsIsolated, Holding, RunsTruthful
  <2>2. [temp[root[r]] EXCEPT !.bundle = doc] \in TempRootContents
    BY <2>1 DEF TempRootContents
  <2>3. temp' = [temp EXCEPT ![root[r]] = [temp[root[r]] EXCEPT !.bundle = doc]]
    BY <1>4, <2>1 DEF BundleOpenApi
  <2>4. QED
    BY <1>4, <2>1, <2>2, <2>3 DEF BundleOpenApi
<1>5. CASE SanitizeBundle(r)
  <2>1. ScrubSecretLikeExamples(temp[root[r]].bundle) \in Docs
    BY <1>5 DEF SanitizeBundle, RootsIsolated, RunsTruthful
  <2>2. QED
    BY <1>5, <2>1 DEF SanitizeBundle
<1>6. CASE Opens(r)
  BY <1>6 DEF Opens, OpenArtifact, OpenProvenance, CreateTempOutputPath
<1>7. CASE Writes(r)
  <2>1. content[r] \in Docs /\ Certificate(pin[r]) \in Provenances
    BY <1>7 DEF Writes, WriteArtifact, WriteProvenance, RunsTruthful, Publishing
  <2>2. BuildProvenance(pin[r], Sha256Hex(content[r])) = Certificate(pin[r])
    BY <1>7 DEF Writes, WriteArtifact, WriteProvenance, RunsTruthful,
                Publishing, Certificate
  <2>3. QED
    BY <1>7, <2>1, <2>2 DEF Writes, WriteArtifact, WriteProvenance, CreateTempOutputPath
<1>8. CASE RenameArtifact(r)
  BY <1>8 DEF RenameArtifact, CreateTempOutputPath, RunsTruthful
<1>9. CASE RenameProvenance(r)
  <2>1. provenanceTmp[r] = Certificate(pin[r]) /\ pin[r] \in Pins
    BY <1>9 DEF RenameProvenance, RunsTruthful
  <2>2. QED
    BY <1>9, <2>1 DEF RenameProvenance, CreateTempOutputPath
<1>10. CASE RemoveTempRoot(r) \/ StopsHere(r)
  BY <1>10 DEF RemoveTempRoot, StopsHere
<1>11. QED
  BY StepCases, <1>1, <1>2, <1>3, <1>4, <1>5, <1>6, <1>7, <1>8, <1>9, <1>10

\* A run keeps its temporary root to itself, and bundles its own pin.
LEMMA RootsStep == ASSUME IInv, NEW r \in Runs, Step(r) PROVE RootsIsolated'
<1> USE SanitizedIsDoc, DistinctAssumption DEF IInv, TypeOK, RootsIsolated, Holding,
       Active, Working, Ended
<1>1. CASE Mkdtemp(r)
  BY <1>1 DEF Mkdtemp, EmptyRoot
<1>2. CASE FetchArchive(r) \/ ExtractArchive(r)
  BY <1>2 DEF FetchArchive, ExtractArchive, TempRootContents
<1>3. CASE BundleOpenApi(r)
  <2>1. root[r] \in TempRoots /\ temp[root[r]] \in TempRootContents
    BY <1>3 DEF BundleOpenApi
  <2>2. temp'[root[r]] = [temp[root[r]] EXCEPT !.bundle = Upstream[pin[r]].doc]
    BY <1>3, <2>1 DEF BundleOpenApi
  <2>3. \A d \in TempRoots \ {root[r]} : temp'[d] = temp[d]
    BY <1>3, <2>1 DEF BundleOpenApi
  <2>4. /\ temp'[root[r]] # Absent
        /\ temp'[root[r]].bundle = Upstream[pin[r]].doc
    <3>1. Upstream[pin[r]].doc \in Docs
      BY <1>3 DEF BundleOpenApi, RunsTruthful
    <3>2. temp'[root[r]] \in TempRootContents
      BY <2>1, <2>2, <3>1 DEF TempRootContents
    <3>3. QED
      BY <2>1, <2>2, <3>2 DEF TempRootContents
  <2>5. QED
    BY <1>3, <2>1, <2>2, <2>3, <2>4 DEF BundleOpenApi
<1>4. CASE SanitizeBundle(r) \/ RemoveTempRoot(r)
  BY <1>4 DEF SanitizeBundle, RemoveTempRoot
<1>5. CASE StartRun(r) \/ Opens(r) \/ Writes(r) \/ RenameArtifact(r) \/
           RenameProvenance(r) \/ StopsHere(r)
  BY <1>5 DEF StartRun, Others, Opens, OpenArtifact, OpenProvenance, Writes,
       WriteArtifact, WriteProvenance, RenameArtifact, RenameProvenance, StopsHere
<1>6. QED
  BY StepCases, <1>1, <1>2, <1>3, <1>4, <1>5

\* What a run holds and writes stays true to its pin.
LEMMA RunsStep == ASSUME IInv, NEW r \in Runs, Step(r) PROVE RunsTruthful'
<1> USE SanitizedIsDoc, DistinctAssumption DEF IInv, TypeOK, RunsTruthful,
       Publishing, Certificate,        Sanitized, Active,        Working, Ended
<1>1. CASE StartRun(r)
  BY <1>1 DEF StartRun, Others
<1>2. CASE SanitizeBundle(r)
  <2>1. /\ content'[r] = Sanitized(pin[r])
        /\ pin[r] \in Publishable
    BY <1>2 DEF SanitizeBundle, RootsIsolated, Sanitized, Publishable
  <2>2. \A s \in Runs \ {r} : content'[s] = content[s]
    BY <1>2 DEF SanitizeBundle
  <2>3. content[r] = Absent \/ content'[r] = content[r]
    BY <2>1
  <2>4. QED
    BY <1>2, <2>1, <2>2, <2>3 DEF SanitizeBundle
<1>3. CASE Opens(r)
  BY <1>3 DEF Opens, OpenArtifact, OpenProvenance, CreateTempOutputPath
<1>4. CASE Writes(r)
  BY <1>4 DEF Writes, WriteArtifact, WriteProvenance, CreateTempOutputPath,
       Certificate
<1>5. CASE RenameArtifact(r)
  BY <1>5 DEF RenameArtifact, CreateTempOutputPath
<1>6. CASE RenameProvenance(r)
  BY <1>6 DEF RenameProvenance, CreateTempOutputPath
<1>7. CASE Mkdtemp(r) \/ RemoveTempRoot(r)
  BY <1>7 DEF Mkdtemp, RemoveTempRoot
<1>8. CASE FetchArchive(r) \/ ExtractArchive(r) \/ BundleOpenApi(r)
  BY <1>8 DEF FetchArchive, ExtractArchive, BundleOpenApi
<1>9. CASE StopsHere(r)
  BY <1>9 DEF StopsHere
<1>10. QED
  BY StepCases, <1>1, <1>2, <1>3, <1>4, <1>5, <1>6, <1>7, <1>8, <1>9

\* Only a rename changes a published file, and it moves a whole one.
LEMMA FilesStep == ASSUME IInv, NEW r \in Runs, Step(r) PROVE FilesWhole'
<1> USE SanitizedIsDoc, DistinctAssumption DEF IInv, FilesWhole, Certificate,
       Sanitized
<1>1. CASE RenameArtifact(r)
  BY <1>1 DEF RenameArtifact, RunsTruthful, CreateTempOutputPath
<1>2. CASE RenameProvenance(r)
  <2>1. pin[r] \in Publishable
    BY <1>2 DEF RenameProvenance, RunsTruthful, Publishing
  <2>2. provenance' = Certificate(pin[r])
    BY <1>2 DEF RenameProvenance, RunsTruthful, CreateTempOutputPath
  <2>3. QED
    BY <1>2, <2>1, <2>2 DEF RenameProvenance
<1>3. CASE StartRun(r) \/ Mkdtemp(r) \/ FetchArchive(r) \/ ExtractArchive(r) \/
           BundleOpenApi(r) \/ SanitizeBundle(r) \/ Opens(r) \/ Writes(r) \/
           RemoveTempRoot(r) \/ StopsHere(r)
  BY <1>3 DEF StartRun, Others, Mkdtemp, FetchArchive, ExtractArchive,
       BundleOpenApi, SanitizeBundle, Opens, OpenArtifact, OpenProvenance, Writes,
       WriteArtifact, WriteProvenance, RemoveTempRoot, StopsHere
<1>4. QED
  BY StepCases, <1>1, <1>2, <1>3

\* Exactly the runs past their first rename owe a provenance.
LEMMA OwingStep == ASSUME IInv, NEW r \in Runs, Step(r) PROVE OwingExact'
<1> USE DistinctAssumption DEF IInv, TypeOK, OwingExact, Window, Active, Working,
       Ended
<1>1. CASE SanitizeBundle(r)
  BY <1>1, SanitizedIsDoc DEF SanitizeBundle, RootsIsolated, RunsTruthful
<1>2. CASE RenameArtifact(r)
  BY <1>2 DEF RenameArtifact, RunsTruthful, Publishing
<1>3. CASE StartRun(r) \/ Mkdtemp(r) \/ FetchArchive(r) \/ ExtractArchive(r) \/
           BundleOpenApi(r) \/ Opens(r) \/ Writes(r) \/ RenameProvenance(r) \/
           RemoveTempRoot(r) \/ StopsHere(r)
  BY <1>3 DEF StartRun, Others, Mkdtemp, FetchArchive, ExtractArchive,
       BundleOpenApi, Opens, OpenArtifact, OpenProvenance, Writes, WriteArtifact,
       WriteProvenance, RenameProvenance, RemoveTempRoot, StopsHere
<1>4. QED
  BY StepCases, <1>1, <1>2, <1>3

\* A run that is alone knows both files.
LEMMA SoloStep == ASSUME IInv, NEW r \in Runs, Step(r) PROVE SoloExact'
<1> USE DistinctAssumption DEF IInv, TypeOK, SoloExact, Window, Active, Working,
       Ended
<1>1. CASE StartRun(r)
  BY <1>1 DEF StartRun, Others
<1>2. CASE SanitizeBundle(r)
  BY <1>2 DEF SanitizeBundle
<1>3. CASE RenameArtifact(r)
  BY <1>3 DEF RenameArtifact, RunsTruthful, CreateTempOutputPath
<1>4. CASE RenameProvenance(r)
  BY <1>4 DEF RenameProvenance, RunsTruthful, CreateTempOutputPath
<1>5. CASE Mkdtemp(r) \/ FetchArchive(r) \/ ExtractArchive(r) \/ BundleOpenApi(r) \/
           Opens(r) \/ Writes(r) \/ RemoveTempRoot(r) \/ StopsHere(r)
  BY <1>5 DEF Mkdtemp, FetchArchive, ExtractArchive, BundleOpenApi, Opens,
       OpenArtifact, OpenProvenance, Writes, WriteArtifact, WriteProvenance,
       RemoveTempRoot, StopsHere
<1>6. QED
  BY StepCases, <1>1, <1>2, <1>3, <1>4, <1>5

\* A pair that disagrees keeps its explanation.
LEMMA MismatchStep == ASSUME IInv, NEW r \in Runs, Step(r) PROVE MismatchExplained'
<1> USE DistinctAssumption DEF IInv, TypeOK, MismatchExplained, Consistent
<1>1. CASE StartRun(r)
  BY <1>1 DEF StartRun, Others
<1>2. CASE RenameArtifact(r)
  BY <1>2 DEF RenameArtifact
<1>3. CASE RenameProvenance(r)
  <2>1. CASE solo # Runs
    BY <1>3, <2>1 DEF RenameProvenance
  <2>2. CASE solo = Runs
    <3>1. /\ artifact = content[r] /\ content[r] # Absent
          /\ content[r] = Sanitized(pin[r]) /\ pin[r] \in Pins
      BY <1>3, <2>2, SanitizedIsDoc
         DEF RenameProvenance, SoloExact, Window, RunsTruthful, Publishing
    <3>2. provenance' = Certificate(pin[r])
      BY <1>3 DEF RenameProvenance, RunsTruthful, CreateTempOutputPath
    <3>3. provenance' # Absent /\ provenance'.generatedArtifactSha256 = Sha256Hex(artifact)
      BY <3>1, <3>2, SanitizedIsDoc DEF Certificate, BuildProvenance
    <3>4. QED
      BY <1>3, <3>1, <3>3 DEF RenameProvenance, ProvenanceMatchesArtifact
  <2>3. QED
    BY <2>1, <2>2
<1>4. CASE Mkdtemp(r) \/ FetchArchive(r) \/ ExtractArchive(r) \/ BundleOpenApi(r) \/
           SanitizeBundle(r) \/ Opens(r) \/ Writes(r) \/ RemoveTempRoot(r) \/
           StopsHere(r)
  BY <1>4 DEF Mkdtemp, FetchArchive, ExtractArchive, BundleOpenApi, SanitizeBundle,
       Opens, OpenArtifact, OpenProvenance, Writes, WriteArtifact, WriteProvenance,
       RemoveTempRoot, StopsHere, ProvenanceMatchesArtifact
<1>5. QED
  BY StepCases, <1>1, <1>2, <1>3, <1>4

\* IInv is inductive.
LEMMA StepIInv == IInv /\ [Next]_vars => IInv'
<1> SUFFICES ASSUME IInv, [Next]_vars PROVE IInv'
  OBVIOUS
<1>1. CASE Next
  <2>1. PICK r \in Runs : Step(r)
    BY <1>1 DEF Next
  <2>2. QED
    BY <2>1, TypeStep, RootsStep, RunsStep, FilesStep, OwingStep, SoloStep, MismatchStep
       DEF IInv
<1>2. CASE UNCHANGED vars
  BY <1>2 DEF vars, IInv, TypeOK, RootsIsolated, Holding, RunsTruthful, FilesWhole,
              Certificate, Sanitized, OwingExact, SoloExact, MismatchExplained,
              Consistent, ProvenanceMatchesArtifact
<1>3. QED
  BY <1>1, <1>2

LEMMA AlwaysIInv == Spec => []IInv
<1>1. Init => IInv
  BY InitIInv
<1>2. IInv /\ [Next]_vars => IInv'
  BY StepIInv
<1>3. QED
  BY <1>1, <1>2, PTL DEF Spec

\* A run has on disk what its place in the command says.
LEMMA TracesStep ==
    ASSUME IInv, TracesExact, NEW r \in Runs, Step(r) PROVE TracesExact'
<1> USE DistinctAssumption DEF IInv, TypeOK, TracesExact, Window, Active, Working,
       Ended, CreateTempOutputPath
<1>1. CASE Opens(r) \/ Writes(r)
  BY <1>1 DEF Opens, OpenArtifact, OpenProvenance, Writes, WriteArtifact,
       WriteProvenance
<1>2. CASE RenameArtifact(r) \/ RenameProvenance(r)
  BY <1>2 DEF RenameArtifact, RenameProvenance
<1>3. CASE StartRun(r) \/ Mkdtemp(r) \/ FetchArchive(r) \/ ExtractArchive(r) \/
           BundleOpenApi(r) \/ SanitizeBundle(r) \/ RemoveTempRoot(r) \/ StopsHere(r)
  BY <1>3 DEF StartRun, Others, Mkdtemp, FetchArchive, ExtractArchive, BundleOpenApi,
       SanitizeBundle, RemoveTempRoot, StopsHere
<1>4. QED
  BY StepCases, <1>1, <1>2, <1>3

\* Every temporary root there is belongs to a run that has not succeeded.
Excused(r) == pc[r] \in Active \cup {"failed", "crashed"}
RootsExcused ==
    \A d \in TempRoots : temp[d] # Absent => \E r \in Runs : Excused(r) /\ root[r] = d

LEMMA RootsExcusedStep ==
    ASSUME IInv, TracesExact, RootsExcused, NEW r \in Runs, Step(r) PROVE RootsExcused'
<1> USE DistinctAssumption DEF IInv, TypeOK, RootsExcused, Excused, Active, Working, Ended
<1>1. CASE Mkdtemp(r)
  <2> SUFFICES ASSUME NEW d \in TempRoots, temp'[d] # Absent
               PROVE  \E s \in Runs : Excused(s)' /\ root'[s] = d
    OBVIOUS
  <2>1. CASE d = root'[r]
    BY <1>1, <2>1 DEF Mkdtemp
  <2>2. CASE d # root'[r]
    <3>1. PICK s \in Runs : Excused(s) /\ root[s] = d
      BY <1>1, <2>2 DEF Mkdtemp
    <3>2. s # r
      BY <1>1, <3>1 DEF Mkdtemp, TracesExact
    <3>3. QED
      BY <1>1, <3>1, <3>2 DEF Mkdtemp
  <2>3. QED
    BY <2>1, <2>2
<1>2. CASE FetchArchive(r) \/ ExtractArchive(r) \/ BundleOpenApi(r)
  <2>1. \A d \in TempRoots : temp'[d] # Absent => temp[d] # Absent
    BY <1>2 DEF FetchArchive, ExtractArchive, BundleOpenApi
  <2>2. UNCHANGED root /\ \A s \in Runs : Excused(s) => Excused(s)'
    BY <1>2 DEF FetchArchive, ExtractArchive, BundleOpenApi
  <2>3. QED
    BY <2>1, <2>2
<1>3. CASE RemoveTempRoot(r)
  <2>1. \A d \in TempRoots : temp'[d] # Absent => temp[d] # Absent /\ d # root[r]
    BY <1>3 DEF RemoveTempRoot
  <2>2. UNCHANGED root /\ \A s \in Runs \ {r} : Excused(s) => Excused(s)'
    BY <1>3 DEF RemoveTempRoot
  <2>3. QED
    BY <2>1, <2>2
<1>4. CASE StartRun(r) \/ SanitizeBundle(r) \/ Opens(r) \/ Writes(r) \/
           RenameArtifact(r) \/ RenameProvenance(r) \/ StopsHere(r)
  <2>1. UNCHANGED <<temp, root>>
    BY <1>4 DEF StartRun, SanitizeBundle, Opens, OpenArtifact, OpenProvenance, Writes,
         WriteArtifact, WriteProvenance, RenameArtifact, RenameProvenance, StopsHere
  <2>2. \A s \in Runs : Excused(s) => Excused(s)'
    BY <1>4 DEF StartRun, SanitizeBundle, Opens, OpenArtifact, OpenProvenance, Writes,
         WriteArtifact, WriteProvenance, RenameArtifact, RenameProvenance, StopsHere
  <2>3. QED
    BY <2>1, <2>2
<1>5. QED
  BY StepCases, <1>1, <1>2, <1>3, <1>4

\* Every variable keeps to its set: in particular no published file is ever
\* torn, since Torn is neither a document nor provenance.
THEOREM TypeSafety == Spec => []TypeOK
<1>1. IInv => TypeOK
  BY DEF IInv
<1>2. QED
  BY AlwaysIInv, <1>1, PTL

\* No text the credential rules detect is ever written under the repository,
\* whatever the upstream documents hold and however runs overlap or die.
THEOREM CredentialSafety == Spec => []NoCredentialOnDisk
<1>1. IInv => NoCredentialOnDisk
  <2> SUFFICES ASSUME IInv PROVE NoCredentialOnDisk
    OBVIOUS
  <2>1. artifact # Absent => AssertNoCredentialLikeExamples(artifact)
    BY DEF IInv, FilesWhole, Publishable
  <2>2. \A r \in Runs : artifactTmp[r] \notin {Absent, Torn} =>
            AssertNoCredentialLikeExamples(artifactTmp[r])
    BY DEF IInv, RunsTruthful, Publishable
  <2>3. QED
    BY <2>1, <2>2 DEF NoCredentialOnDisk
<1>2. QED
  BY AlwaysIInv, <1>1, PTL

\* Provenance always names a commit whose sanitised bundle has the hash it
\* records: it is never certified from another run's bytes.
THEOREM ProvenanceSafety == Spec => []ProvenanceTruthful
<1>1. IInv => ProvenanceTruthful
  <2> SUFFICES ASSUME IInv, provenance # Absent PROVE ProvenanceTruthful
    BY DEF ProvenanceTruthful
  <2>1. PICK p \in Publishable : provenance = Certificate(p)
    BY DEF IInv, FilesWhole
  <2>2. /\ provenance.upstreamCommit = p
        /\ provenance.generatedArtifactSha256 = Sha256Hex(Sanitized(p))
    BY <2>1 DEF Certificate, BuildProvenance
  <2>3. provenance # Torn
    BY <2>1, SanitizedIsDoc, DistinctAssumption
  <2>4. QED
    BY <2>2, <2>3 DEF ProvenanceTruthful, ProvenanceMatchesArtifact
<1>2. QED
  BY AlwaysIInv, <1>1, PTL

\* The published pair disagrees only after a run stopped between its renames
\* or two runs overlapped.
THEOREM MismatchSafety == Spec => []MismatchExplained
<1>1. IInv => MismatchExplained
  BY DEF IInv
<1>2. QED
  BY AlwaysIInv, <1>1, PTL

\* A run that succeeds alone leaves a consistent pair of its own commit,
\* whatever earlier failures, crashes or overlaps left behind.
THEOREM RepairTheorem == Spec => SoloRunRepairs
<1> DEFINE Repaired(r) == pc[r] = "cleanup" /\ pc'[r] = "succeeded" =>
                             Consistent' /\ provenance'.upstreamCommit = pin[r]
<1>1. IInv /\ IInv' /\ [Next]_vars => [\A r \in solo : Repaired(r)]_vars
  <2> SUFFICES ASSUME IInv, Next, NEW r \in solo, pc[r] = "cleanup", pc'[r] = "succeeded"
               PROVE  Consistent' /\ provenance'.upstreamCommit = pin[r]
    BY DEF vars
  <2>1. /\ artifact = content[r] /\ provenance = Certificate(pin[r])
        /\ content[r] = Sanitized(pin[r]) /\ pin[r] \in Pins /\ content[r] # Absent
    BY SanitizedIsDoc DEF IInv, TypeOK, SoloExact, RunsTruthful
  <2>2. /\ provenance.generatedArtifactSha256 = Sha256Hex(artifact)
        /\ provenance.upstreamCommit = pin[r]
        /\ provenance # Absent /\ artifact # Absent
    BY <2>1, SanitizedIsDoc, DistinctAssumption DEF Certificate, BuildProvenance
  <2>3. UNCHANGED <<artifact, provenance>>
    <3>1. PICK s \in Runs : Step(s)
      BY DEF Next
    <3>2. r \in Runs
      BY DEF IInv, TypeOK
    <3>3. CASE RenameArtifact(s) \/ RenameProvenance(s)
      BY <3>2, <3>3 DEF RenameArtifact, RenameProvenance, IInv, TypeOK
    <3>4. CASE ~(RenameArtifact(s) \/ RenameProvenance(s))
      BY <3>1, <3>4, StepCases
         DEF StartRun, Mkdtemp, FetchArchive, ExtractArchive, BundleOpenApi, SanitizeBundle,
             Opens, OpenArtifact, OpenProvenance, Writes, WriteArtifact, WriteProvenance,
             RemoveTempRoot, StopsHere
    <3>5. QED
      BY <3>3, <3>4
  <2>4. QED
    BY <2>2, <2>3 DEF Consistent, ProvenanceMatchesArtifact
<1>2. QED
  BY AlwaysIInv, <1>1, PTL DEF Spec, SoloRunRepairs

\* What a refresh leaves on disk is excused by a run that is going, failed or
\* was killed: one that reports success has removed its temporary root and
\* both temporary outputs.
THEOREM LeftoversSafety == Spec => []LeftoversExplained
<1> DEFINE Traces == IInv /\ TracesExact /\ RootsExcused
<1>1. Init => TracesExact /\ RootsExcused
  BY DEF Init, TracesExact, RootsExcused, Window
<1>2. Traces /\ [Next]_vars => Traces'
  <2> SUFFICES ASSUME Traces, [Next]_vars PROVE Traces'
    OBVIOUS
  <2>1. CASE Next
    <3>1. PICK r \in Runs : Step(r)
      BY <2>1 DEF Next
    <3>2. IInv'
      BY <2>1, StepIInv
    <3>3. QED
      BY <3>1, <3>2, TracesStep, RootsExcusedStep
  <2>2. CASE UNCHANGED vars
    <3>1. IInv'
      BY <2>2, StepIInv
    <3>2. QED
      BY <2>2, <3>1 DEF vars, TracesExact, RootsExcused, Excused
  <2>3. QED
    BY <2>1, <2>2
<1>3. Traces => LeftoversExplained
  BY DEF IInv, TypeOK, TracesExact, RootsExcused, Excused, LeftoversExplained, Ended
<1>4. QED
  BY InitIInv, <1>1, <1>2, <1>3, PTL DEF Spec

\* The refresh implements PublishedPair: each file changes as a whole, and
\* provenance only to what the run that replaced the artefact still owes.
THEOREM Refinement == Spec => ImplementsPublishedPair
<1> DEFINE owedNow == [r \in Runs |-> IF r \in owing THEN pin[r] ELSE NoPin]
<1>1. Init => Pair!Init
  BY DEF Init, Pair!Init, Certificate
<1>2. IInv /\ [Next]_vars => [Pair!Next]_(Pair!vars)
  <2> SUFFICES ASSUME IInv, [Next]_vars PROVE Pair!Next \/ UNCHANGED Pair!vars
    OBVIOUS
  <2> USE DistinctAssumption, SanitizedIsDoc
  <2>1. CASE UNCHANGED vars
    BY <2>1 DEF vars, Pair!vars
  <2>2. ASSUME NEW r \in Runs, RenameArtifact(r) PROVE Pair!Publish(r)
    <3>1. /\ pin[r] \in Publishable /\ content[r] = Sanitized(pin[r])
          /\ artifactTmp[r] = content[r]
      BY <2>2 DEF RenameArtifact, IInv, RunsTruthful, Publishing
    <3>2. r \notin owing
      BY <2>2 DEF RenameArtifact, IInv, OwingExact, Window
    <3>3. /\ artifact' = Sanitized(pin[r])
          /\ owing' = owing \cup {r}
          /\ UNCHANGED <<pin, provenance>>
      BY <2>2, <3>1 DEF RenameArtifact, CreateTempOutputPath
    <3>4. owedNow' = [owedNow EXCEPT ![r] = pin[r]]
      BY <3>3
    <3>5. QED
      BY <3>1, <3>2, <3>3, <3>4 DEF Pair!Publish
  <2>3. ASSUME NEW r \in Runs, RenameProvenance(r) PROVE Pair!Certify(r)
    <3>1. r \in owing /\ pin[r] \in Pins /\ provenanceTmp[r] = Certificate(pin[r])
      BY <2>3 DEF RenameProvenance, IInv, RunsTruthful, OwingExact, Window, Publishing
    <3>2. /\ provenance' = Certificate(pin[r])
          /\ owing' = owing \ {r}
          /\ UNCHANGED <<pin, artifact>>
      BY <2>3, <3>1 DEF RenameProvenance, CreateTempOutputPath
    <3>3. owedNow' = [owedNow EXCEPT ![r] = NoPin]
      BY <3>2
    <3>4. owedNow[r] = pin[r] /\ pin[r] # NoPin
      BY <3>1
    <3>5. QED
      BY <3>2, <3>3, <3>4 DEF Pair!Certify
  <2>4. ASSUME NEW r \in Runs, StartRun(r) PROVE UNCHANGED Pair!vars
    <3>1. r \notin owing
      BY <2>4 DEF StartRun, IInv, OwingExact, Window
    <3>2. /\ \A s \in Runs \ {r} : pin'[s] = pin[s]
          /\ UNCHANGED <<owing, artifact, provenance>>
      BY <2>4 DEF StartRun, IInv, TypeOK
    <3>3. owedNow' = owedNow
      BY <3>1, <3>2
    <3>4. QED
      BY <3>2, <3>3 DEF Pair!vars
  <2>5. ASSUME NEW r \in Runs, Step(r),
               ~(StartRun(r) \/ RenameArtifact(r) \/ RenameProvenance(r))
        PROVE  UNCHANGED Pair!vars
    <3>1. UNCHANGED <<pin, owing, artifact, provenance>>
      BY <2>5, StepCases
         DEF Mkdtemp, FetchArchive, ExtractArchive, BundleOpenApi, SanitizeBundle,
             Opens, OpenArtifact, OpenProvenance, Writes, WriteArtifact, WriteProvenance,
             RemoveTempRoot, StopsHere
    <3>2. QED
      BY <3>1 DEF Pair!vars
  <2>6. QED
    BY <2>1, <2>2, <2>3, <2>4, <2>5 DEF Next, Pair!Next
<1>3. QED
  BY AlwaysIInv, <1>1, <1>2, PTL DEF Spec, ImplementsPublishedPair, Pair!Spec

(* The gate *****************************************************************)

\* What the gate has read was whole; what it judged is what it accepted.
GateInv ==
    /\ IInv
    /\ gate = "judging" =>
          /\ \E p \in Publishable : seen = Certificate(p)
          /\ moved \/ seen = provenance
    /\ GateAcceptsOnlyTheNamedCommit

LEMMA GateInitInv == GateInit => GateInv
  BY InitIInv DEF GateInit, GateInv, GateAcceptsOnlyTheNamedCommit

LEMMA GateStepInv == GateInv /\ [GateNext]_<<vars, gateVars>> => GateInv'
<1> SUFFICES ASSUME GateInv, [GateNext]_<<vars, gateVars>> PROVE GateInv'
  OBVIOUS
<1> USE DEF GateInv, GateAcceptsOnlyTheNamedCommit, Certificate, Sanitized
<1>1. IInv'
  <2>1. [Next]_vars
    BY DEF GateNext, ReadProvenance, JudgePair, RefreshStep, gateVars
  <2>2. QED
    BY <2>1, StepIInv
<1>2. CASE ReadProvenance
  BY <1>1, <1>2 DEF ReadProvenance, IInv, FilesWhole, vars
<1>3. CASE JudgePair
  <2>1. CASE gate' = "accepted"
    <3>1. /\ artifact # Absent /\ ProvenanceMatchesArtifact(seen, artifact)
          /\ judged' = artifact /\ seen' = seen
      BY <1>3, <2>1 DEF JudgePair
    <3>2. PICK p \in Publishable : seen = Certificate(p)
      BY <1>3 DEF JudgePair
    <3>3. seen.upstreamCommit = p /\ seen.generatedArtifactSha256 = Sha256Hex(Sanitized(p))
      BY <3>2 DEF BuildProvenance
    <3>4. artifact = Sanitized(p)
      BY <3>1, <3>3 DEF ProvenanceMatchesArtifact, Sha256Hex
    <3>5. QED
      BY <1>1, <2>1, <3>1, <3>3, <3>4
  <2>2. CASE gate' # "accepted"
    <3>1. gate' # "judging"
      BY <1>3 DEF JudgePair
    <3>2. QED
      BY <1>1, <2>2, <3>1
  <2>3. QED
    BY <2>1, <2>2
<1>4. CASE RefreshStep
  <2>1. UNCHANGED <<gate, seen, judged>>
    BY <1>4 DEF RefreshStep
  <2>2. gate = "judging" => moved' \/ seen = provenance'
    BY <1>4 DEF RefreshStep
  <2>3. QED
    BY <1>1, <2>1, <2>2
<1>5. CASE UNCHANGED <<vars, gateVars>>
  BY <1>1, <1>5 DEF vars, gateVars
<1>6. QED
  BY <1>2, <1>3, <1>4, <1>5 DEF GateNext

LEMMA AlwaysGateInv == GateSpec => []GateInv
<1>1. QED
  BY GateInitInv, GateStepInv, PTL DEF GateSpec

\* The gate accepts only the sanitised bundle of the commit named by the
\* provenance it read, however refreshes move the files between its reads.
THEOREM GateSoundness == GateSpec => []GateAcceptsOnlyTheNamedCommit
<1>1. GateInv => GateAcceptsOnlyTheNamedCommit
  BY DEF GateInv
<1>2. QED
  BY AlwaysGateInv, <1>1, PTL

\* The gate rejects only after an interrupted or overlapping refresh, or a
\* file replaced between its two reads.
THEOREM GateRejection == GateSpec => GateRejectionExplained
<1> DEFINE Explained == gate = "judging" /\ gate' = "rejected" =>
                            owing # {} \/ solo # Runs \/ moved
<1>1. GateInv /\ [GateNext]_<<vars, gateVars>> => [Explained]_<<vars, gateVars>>
  <2> SUFFICES ASSUME GateInv, GateNext, gate = "judging", gate' = "rejected", ~moved
               PROVE  owing # {} \/ solo # Runs
    BY DEF gateVars
  <2>1. JudgePair
    BY DEF GateNext, ReadProvenance, RefreshStep
  <2>2. seen = provenance /\ provenance # Absent
    BY SanitizedIsDoc, DistinctAssumption DEF GateInv
  <2>3. artifact # Absent /\ ~ProvenanceMatchesArtifact(provenance, artifact)
    BY <2>1, <2>2 DEF JudgePair
  <2>4. MismatchExplained
    BY DEF GateInv, IInv
  <2>5. QED
    BY <2>2, <2>3, <2>4 DEF MismatchExplained, Consistent
<1>2. QED
  BY AlwaysGateInv, <1>1, PTL DEF GateSpec, GateRejectionExplained
=============================================================================
