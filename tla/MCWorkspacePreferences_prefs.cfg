SPECIFICATION Spec
CONSTANTS
    theme = theme profile = profile t1 = t1 t2 = t2 s1 = s1 s2 = s2
    Tabs = {t1, t2}
    Keys = {theme, profile}
    Mine <- Apart
    Slots = {s1, s2}
    HoldsPreferences = TRUE
    MaxEdits = 2 MaxOpens = 3 MaxFocus = 1 MaxFaults = 1 MaxRestores = 1 MaxMoves = 4
SYMMETRY Symmetry
INVARIANTS TypeOK NoEditForgotten PendingIsShown
PROPERTIES NoUnseenOverwriteInTurn RestoreWins
CHECK_DEADLOCK FALSE
