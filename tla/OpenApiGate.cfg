CONSTANTS
    Runs = {r1, r2}
    Pins = {p1, p2, p3, p4, p5}
    BadPins = {main}
    TempRoots = {d1, d2}
    Bodies = {b1, b2}
    Upstream <- MCUpstream
    Absent = Absent
    Torn = Torn
    NoPin = NoPin
    p1 = p1
    p2 = p2
    p3 = p3
    p4 = p4
    p5 = p5
    b1 = b1
    b2 = b2
SPECIFICATION GateFairSpec
INVARIANTS TypeOK NoCredentialOnDisk ProvenanceTruthful MismatchExplained LeftoversExplained GateAcceptsOnlyTheNamedCommit
PROPERTIES SoloRunRepairs ImplementsPublishedPair EveryRunEnds GateRejectionExplained
CHECK_DEADLOCK FALSE
