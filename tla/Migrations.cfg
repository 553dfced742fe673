SPECIFICATION Spec
CONSTANT MaxCrashes = 2
INVARIANTS UpgradesEveryVersion RetriedUntilDone
PROPERTY HarmlessWhenDone
CHECK_DEADLOCK FALSE
