CONSTANTS
    Procs = {q1}
    Tagged = {tagged}
    Dated = {}
    Garbled = {}
    Locals = {}
    MaxTime = 2
    Malformed = {}
    CleanAnytime = TRUE
    Same = Same
    Absent = Absent
SPECIFICATION Spec
PROPERTIES TrackedConfigOnlyWhenUnavailable
