SPECIFICATION Spec
CONSTANTS
    Calls <- const_Calls
    Capacity = 2
    Changes = {"nothing", "version", "flags"}
    Timeout = 2
    HostSlack = 1
    LeaseSlack = 2
    Young = 2
    Horizon = 8
    MaxSwaps = 2
    Scope = {"f", "g"}
    Patches <- const_Patches
INVARIANTS
    
    FailsClosed
    LeftInOrder
CHECK_DEADLOCK FALSE
