CONSTANTS
    Procs = {q1, q2}
    Tagged = {tagged}
    Dated = {}
    Garbled = {}
    Locals = {}
    MaxTime = 3
    Malformed = {}
    CleanAnytime = FALSE
    Same = Same
    Absent = Absent
SPECIFICATION Spec
PROPERTIES CacheNeverRegresses
