CONSTANTS
    Procs = {q1}
    Tagged = {tagged}
    Dated = {dated, other}
    Garbled = {other}
    Locals = {local}
    MaxTime = 3
    Malformed = {2}
    CleanAnytime = TRUE
    Same = Same
    Absent = Absent
SPECIFICATION Spec
INVARIANTS TypeOK MetadataVouchesForCache
PROPERTIES ReportedConfigIsFresh
