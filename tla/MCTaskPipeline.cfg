SPECIFICATION HostSpec
CONSTANTS
    Task <- const_Task
    Plans <- const_Plans
    Patches <- const_Patches
INVARIANTS
    
    
    HostSeesTrue
PROPERTIES
    SettledStays
CHECK_DEADLOCK FALSE
