\* Reloads, reauthentication and flows, with everything that can go wrong.
SPECIFICATION FairSpec
CONSTANTS
    Slots = {s1, s2}
    NoSlot = NoSlot
    Callers = {s1}
    ReadAttempts = 2
    UnloadMayFail = TRUE
    Flows = {f1, f2}
    Choices = {{"realtime"}, {"offline"}}
    MaxReloads = 2
INVARIANTS
    TypeOK
    UnloadedIsWindingDown
    RunsOnCurrentEntry
    LocalUnlessCalled
PROPERTIES
    ConfiguredOnce
    UnloadedWindsDown
    CredentialsTakeEffect
