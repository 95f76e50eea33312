\* Two targets, the tag pushed twice, each run repeated once.
SPECIFICATION FairSpec
CONSTANTS
    Target = {linux, macos}
    MaxRuns = 2
    MaxAttempts = 2
INVARIANTS TypeOK ShippedWasChecked PairsAgree
PROPERTIES UndraftIsWhole QueueDrains
CHECK_DEADLOCK FALSE
