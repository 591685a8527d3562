\* A service call goes on over a reload: is there still one operation at a time?
SPECIFICATION Spec
CONSTANTS
    Slots = {s1, s2}
    NoSlot = NoSlot
    Callers = {s1, s2}
    ReadAttempts = 2
    UnloadMayFail = FALSE
    Flows = {f1}
    Choices = {{}, {"realtime"}}
    MaxReloads = 2
INVARIANTS
    OneOperationPerEntry
