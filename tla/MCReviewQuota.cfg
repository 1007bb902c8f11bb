SPECIFICATION Spec
CONSTANTS
    c1 = c1
    c2 = c2
    Plans <- const_Plans
    Contents = {c1, c2}
    Decisions <- const_Decisions
INVARIANTS
    QuotaHonoured

    
CHECK_DEADLOCK FALSE

