SPECIFICATION Spec
CONSTANTS
    AcceptEvents = {e1}
    Sessions = {s1, s2}
    Indices = {1, 2}
    FirstIndices = {1}
    AgainIndices = {2}
    NoPlayer = NoPlayer
    MaxChats = 2
    MaxOdd = 1
SYMMETRY Symmetry
INVARIANTS ServiceExact NoGhost CrashOnlyLate ChatOrder OwnChatHeard
CHECK_DEADLOCK FALSE
