SPECIFICATION LiveSpec
CONSTANTS
    None = None
    Calls = {c1, c2}
    s1 = s1  s2 = s2  s3 = s3
    Scripts = {s1, s2, s3}
    OneShot = {"password", "banner"}
    Functions <- MCFunctions
    Tables <- MCTables
    MaxCalls = 3
    MaxHup = 1
    MaxEdits = 1
CHECK_DEADLOCK FALSE
INVARIANTS
    CallsAreIsolated
PROPERTIES
    CallsReturn
