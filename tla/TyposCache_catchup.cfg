CONSTANTS
    Procs = {q1}
    Tagged = {tagged}
    Dated = {dated}
    Garbled = {}
    Locals = {}
    MaxTime = 4
    Malformed = {3}
    CleanAnytime = FALSE
    Same = Same
    Absent = Absent
SPECIFICATION FairSpec
PROPERTIES CatchesUp
