SPECIFICATION Spec
CONSTANTS
    Addresses = {a1}
    Requests = {r1, r2}
    None = None
    MaxAttempts = 2
    MaxEntries = 2
    Window = 1
    MaxSessions = 2
    MaxChanges = 1
INVARIANT
    SessionsEnded
