SPECIFICATION Spec
CONSTANTS
    Builds = {TRUE, FALSE}
    MaxTicks = 3
CHECK_DEADLOCK FALSE
INVARIANTS NeverZeroed NotUnderDebugger MainWaits
PROPERTIES DivertedOnlyInSetup EndedOnlyByRace ProcessEnds
