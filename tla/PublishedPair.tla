--------------------------- MODULE PublishedPair ---------------------------
(* What a refresh of the pinned DigitalOcean contract promises to a reader  *)
(* of the repository: two files, each replaced as a whole, where provenance *)
(* is only ever written by a publisher that has already put in place the    *)
(* artefact the provenance describes.  It does not promise that the two     *)
(* files agree at every moment: see MismatchExplained in OpenApiRefresh.    *)

CONSTANTS
    Publishers,     \* whoever may replace the two files
    Commits,        \* upstream commits whose document can be published
    Released(_),    \* the artefact published for a commit
    Certificate(_), \* the provenance published for a commit
    Absent,         \* a file that is not there
    NoCommit        \* a publisher that owes no provenance

VARIABLES
    artifact,       \* the artefact file
    provenance,     \* the provenance file
    owed            \* the commit each publisher has still to certify

vars == <<artifact, provenance, owed>>

Init ==
    /\ \/ artifact = Absent /\ provenance = Absent
       \/ \E c \in Commits : artifact = Released(c) /\ provenance = Certificate(c)
    /\ owed = [p \in Publishers |-> NoCommit]

\* A publisher replaces the artefact and now owes its provenance.
Publish(p) ==
    /\ owed[p] = NoCommit
    /\ \E c \in Commits :
        /\ artifact' = Released(c)
        /\ owed' = [owed EXCEPT ![p] = c]
    /\ UNCHANGED provenance

\* It replaces the provenance by the one it owes; never by another.
Certify(p) ==
    /\ owed[p] # NoCommit
    /\ provenance' = Certificate(owed[p])
    /\ owed' = [owed EXCEPT ![p] = NoCommit]
    /\ UNCHANGED artifact

Next == \E p \in Publishers : Publish(p) \/ Certify(p)

Spec == Init /\ [][Next]_vars
=============================================================================
