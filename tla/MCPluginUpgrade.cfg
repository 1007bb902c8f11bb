SPECIFICATION Spec
CONSTANTS
    Calls = {c1, c2}
    MaxMade = 2
    Files = {f1, f2}
    Plans <- const_Plans
INVARIANTS
    AdaptersKept
    StartsToldTrue
    WholeUnlessLocked
PROPERTIES
    QuietFiles
CHECK_DEADLOCK FALSE
