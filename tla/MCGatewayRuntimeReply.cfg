SPECIFICATION Spec
CONSTANTS
    running = running
    paused = paused
    valueError = valueError
    None = None
    Events = {e1}
    Processes = {p1, p2}
    Replies <- MCReplies
    Errors = {valueError}
    Conflict = valueError
    Bodies <- MCBodies
    MaxAttempts = 2
    MaxFaults = 2
INVARIANT OneReplyPerEvent
