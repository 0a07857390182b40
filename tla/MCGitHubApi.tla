---------------------------- MODULE MCGitHubApi ----------------------------
(* A small instance of GitHubApi: stores to begin with.                     *)
EXTENDS GitHubApi

CONSTANTS acme, beta, repo, REPO

\* Two names that differ by case; logins are in lower case.
MCLower == [x \in {acme, beta, repo, REPO} |-> IF x = REPO THEN repo ELSE x]

Empty == [users |-> <<>>, organizations |-> {}, installations |-> {},
          repositories |-> {}, blobs |-> <<>>]

\* Bound: installations, blobs, users, or repositories whose names differ by
\* case, change with what they refer to.
OneConcern ==
    LET oneName == \A r \in tables.repositories : r.name = repo
    IN  \/ tables.blobs = <<>> /\ tables.users = <<>> /\ tables.installations = {}
        \/ oneName /\ tables.blobs = <<>> /\ tables.users = <<>>
        \/ oneName /\ tables.blobs = <<>> /\ tables.installations = {}
        \/ tables.installations = {} /\ tables.organizations = {} /\ tables.users = <<>>
           /\ tables.repositories \subseteq {[owner |-> acme, name |-> repo]}
           /\ \A b \in ToSet(tables.blobs) : b.of = [owner |-> acme, name |-> repo]

\* Bound: nothing follows two responses that a change came between or after.
FreshEnough == got.op = "none" \/ ~changed

MCStores == {Empty, [Empty EXCEPT !.repositories = {[owner |-> acme, name |-> repo]}]}
=============================================================================
