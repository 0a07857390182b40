------------------------- MODULE MCRelayPagination -------------------------
(* Small lists for RelayPagination.                                         *)
EXTENDS RelayPagination

CONSTANTS n1, n2, n3, n4

\* One list of each length; which rows they are makes no difference.
MCInitial == {<<>>, <<n1>>, <<n1, n2>>, <<n1, n2, n3>>, <<n1, n2, n3, n4>>}
=============================================================================
