SPECIFICATION Spec
CONSTANTS
    Library <- MCLibrary
    Boot <- MCBoot
    Commands <- MCCommands
    Tasks = {1, 2, 3, 4, 5, 6, 7, 8}
    PipeCap = 2
CHECK_DEADLOCK FALSE
INVARIANTS
    OneCreator
    NothingLost
    TtyRestored
    TrueAfterWait
    NumbersDisjoint
PROPERTIES
    ProgramsEnd
    NotificationsActedOn
