\* Two refreshes and the battery loop, with reads that bring nothing.
SPECIFICATION FairSpec
CONSTANTS
    Refreshers = {r1, r2}
    Names = {"battery", "door_type", "verify_fail_time", "credentials"}
    RefreshOrder <- MCRefreshOrder
    PollOrder <- MCPollOrder
    Gating = {"battery", "door_type"}
    Unreadable = {"verify_fail_time"}
    MaxMisses = 3
INVARIANTS
    TypeOK
    OneReadAfterStop
PROPERTIES
    GivesUpAfterTwo
    RotationGetsOn
    FillEnds
    EverythingIsRead
