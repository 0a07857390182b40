--------------------------- MODULE MCInitialStore ---------------------------
(* Small initial states for InitialStore.                                   *)
EXTENDS InitialStore

CONSTANTS acme, beta, k1, k2

Installation(i, a) == [id |-> i, account |-> a, target |-> NoId]
Organization(i, l) == [id |-> i, login |-> l]
Repository(i, k) == [id |-> i, key |-> k]
Lists(S) == {<<>>} \cup {<<x>> : x \in S} \cup {<<x, y>> : x \in S, y \in S}

\* Ids a caller gives: the first that would be made, and the last two that are
\* exact.
MCGiven == {NoId, FirstInstallationId, MaxExact - 1, MaxExact}

Acme == Organization(1, acme)
Beta == Organization(2, beta)

\* Every list of up to two installations, beside organisations of their
\* accounts, of others, or named twice.
InstallationFixtures ==
    [malformed : {FALSE},
     installations : Lists({Installation(i, a) : i \in MCGiven, a \in {acme, beta}}),
     organizations : {<<Acme, Beta>>, <<Beta, Beta>>},
     repositories : {<<>>}, keyed : {<<>>}]

\* Every list of up to two repositories, accepted, refused or duplicated.
RepositoryFixtures ==
    [malformed : BOOLEAN,
     installations : {<<>>}, organizations : {<<Acme>>},
     repositories : Lists({Repository(i, k) : i \in {NoId, FirstRepositoryId + 1}, k \in {k1, k2}}),
     keyed : {<<<<k1>>, <<k1>>>>, <<<<k1>>, <<k1, k1>>>>}]

MCFixtures == InstallationFixtures \cup RepositoryFixtures
=============================================================================
