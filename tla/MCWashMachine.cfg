CONSTANTS
    Gui = Gui
    Remotes = {demo}
    PerMinute = 2
    MaxMinutes = 4
    DryTime = 2
    Phases <- MCPhases
    RemoteMinutes = {3}
    RemotePhases = {9}
    RemoteStates = {0,1}
    LocalTimes = {1}
    ReserveTimes = {0,1}
    MaxInputs = 4
CHECK_DEADLOCK FALSE
SPECIFICATION FairSpec
INVARIANTS
    TypeOK
    
    LeftTimeBelowHour
    ReservationIsTimed
PROPERTIES
    WashEnds
    FreshStartIsWhole
    OnlyDrySpoilsProgram
