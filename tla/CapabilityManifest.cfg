CONSTANTS
    Manifests <- MCManifests
    Drafts <- MCDrafts
    Methods = {"GET", "POST"}
    Paths <- MCPaths
    Default = Default
    Custom = {c1, c2}
    Absent = Absent
SPECIFICATION Spec
INVARIANTS RouteClassifiedOnce
PROPERTIES PayloadServedForGood
CHECK_DEADLOCK FALSE
