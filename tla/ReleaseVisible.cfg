\* One push of the tag, run again after it was published.
SPECIFICATION Spec
CONSTANTS
    Target = {linux, macos}
    MaxRuns = 1
    MaxAttempts = 2
INVARIANTS HalfBuiltNeverVisible
CHECK_DEADLOCK FALSE
