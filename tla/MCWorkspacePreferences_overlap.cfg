SPECIFICATION Spec
CONSTANTS
    theme = theme profile = profile t1 = t1 t2 = t2 s1 = s1 s2 = s2
    Tabs = {t1}
    Keys = {theme, profile}
    Mine <- Both
    Slots = {s1, s2}
    HoldsPreferences = TRUE
    MaxEdits = 3 MaxOpens = 1 MaxFocus = 1 MaxFaults = 1 MaxRestores = 0 MaxMoves = 6
PROPERTIES NoUnseenOverwrite
CHECK_DEADLOCK FALSE
