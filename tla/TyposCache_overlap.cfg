CONSTANTS
    Procs = {q1, q2}
    Tagged = {tagged}
    Dated = {}
    Garbled = {}
    Locals = {local}
    MaxTime = 3
    Malformed = {2}
    CleanAnytime = TRUE
    Same = Same
    Absent = Absent
SPECIFICATION Spec
INVARIANTS MalformedNeverInstalled MetadataFollowsCache
