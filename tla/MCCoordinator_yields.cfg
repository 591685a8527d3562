\* Two concurrent calls: does the listen always give way?
SPECIFICATION Spec
CONSTANTS
    Calls = {c1, c2}
    Loop = loop
    Nobody = nobody
    Methods = {"lock", "unlock", "set", "read"}
    ReadAttempts = 2
    DisconnectMayHang = FALSE
    CallsMayBeCancelled = FALSE
SYMMETRY Symmetry
INVARIANTS
    ListenYields
