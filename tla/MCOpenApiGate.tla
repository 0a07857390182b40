--------------------------- MODULE MCOpenApiGate ---------------------------
(* A small instance of OpenApiGate over OpenApiRefresh.                     *)
EXTENDS OpenApiGate

CONSTANTS p1, p2, p3, p4, p5, b1, b2

\* p1 needs scrubbing, p2 is clean; p3 and p4 hold what scrubbing does not
\* reach; the archive of p5 has no directory of the expected name.
MCUpstream == [p \in Pins |->
    CASE p = p1 -> [roots |-> 1, doc |-> [body |-> b1, secrets |-> {"webhookValue"}]]
      [] p = p2 -> [roots |-> 1, doc |-> [body |-> b2, secrets |-> {}]]
      [] p = p3 -> [roots |-> 1, doc |-> [body |-> b1, secrets |-> {"pemBlock", "pemHeader"}]]
      [] p = p4 -> [roots |-> 1, doc |-> [body |-> b1, secrets |-> {"webhookKey"}]]
      [] p = p5 -> [roots |-> 0, doc |-> [body |-> b2, secrets |-> {}]]]
=============================================================================
