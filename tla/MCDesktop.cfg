SPECIFICATION MCSpec
CONSTANTS
    Copies = {"a", "b", "secret"}
    TargetsOf <- MCTargetsOf
    Wanted <- MCWanted
    Preferred <- MCPreferred
    Images = {"image"}
    Hints = {"hint"}
    Excluded = {"secret"}
    Refused = {"b"}
    Desktops = {"x11", "wayland", "keeper", "bridge"}
    Selections = {"clipboard"}
    ClearsAfter = TRUE
    MaxTurns = 3
    MaxRecalls = 2
    MaxWhims = 1
    Keys <- MCKeys
    Displays <- MCDisplays
    Chunks = 2
    MaxAsks = 3
    MaxStalls = 1
INVARIANTS SecondLook RestoresOnlyTheLast ClearIsFinal WholeOrNothing
PROPERTIES ClearSparesHeard Cleared Delivered
CHECK_DEADLOCK FALSE
