---------------------------- MODULE OpenApiGate ----------------------------
(* The gate over the committed contract: it reads the provenance, then the  *)
(* artefact, and judges the pair with                                       *)
(* assertDigitalOceanOpenApiProvenanceMatchesArtifact.  The two reads are   *)
(* two awaits, and refreshes may run around and between them.               *)
EXTENDS OpenApiRefresh

VARIABLES
    gate,   \* where the gate is, or its verdict
    seen,   \* the provenance it read
    judged, \* the artefact it read
    moved   \* a published file was replaced between its two reads

gateVars == <<gate, seen, judged, moved>>

GateInit ==
    /\ Init
    /\ gate = "idle"
    /\ seen = Absent
    /\ judged = Absent
    /\ moved = FALSE

\* A missing file rejects the read, and with it the gate.
ReadProvenance ==
    /\ gate = "idle"
    /\ seen' = provenance
    /\ gate' = IF provenance = Absent THEN "missing" ELSE "judging"
    /\ UNCHANGED <<vars, judged, moved>>

\* Mutant: a provenance that parses is taken as proof.
JudgePresence ==
    /\ gate = "judging"
    /\ judged' = artifact
    /\ gate' = IF artifact = Absent THEN "missing" ELSE "accepted"
    /\ UNCHANGED <<vars, seen, moved>>

JudgePair ==
    /\ gate = "judging"
    /\ judged' = artifact
    /\ gate' = CASE artifact = Absent -> "missing"
                 [] artifact # Absent /\ ProvenanceMatchesArtifact(seen, artifact) -> "accepted"
                 [] OTHER -> "rejected"
    /\ UNCHANGED <<vars, seen, moved>>

RefreshStep ==
    /\ Next
    /\ moved' = (moved \/ (gate = "judging" /\
                           <<artifact, provenance>>' # <<artifact, provenance>>))
    /\ UNCHANGED <<gate, seen, judged>>

GateNext == ReadProvenance \/ JudgePair \/ RefreshStep

GateSpec == GateInit /\ [][GateNext]_<<vars, gateVars>>
GateFairSpec == GateSpec /\ Fairness

\* The gate never passes bytes that are not what the provenance it read says:
\* the sanitised bundle of the commit that provenance names, even when the
\* two files were replaced between its reads.
GateAcceptsOnlyTheNamedCommit ==
    gate = "accepted" =>
        /\ seen.upstreamCommit \in Publishable
        /\ judged = Sanitized(seen.upstreamCommit)

\* The gate fails only for a cause outside it: a refresh that stands or
\* stopped between its renames, refreshes that overlapped, or a file replaced
\* between its reads.  It cannot fail a quiet checkout.
GateRejectionExplained ==
    [][gate = "judging" /\ gate' = "rejected" =>
          owing # {} \/ solo # Runs \/ moved]_<<vars, gateVars>>
=============================================================================
