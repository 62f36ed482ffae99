SPECIFICATION Spec
CONSTANTS
    MaxCalls = 3
    MaxResets = 2
INVARIANTS
    WorkingWhileExecuting
    ExitsOnlyWhenEnded
    RunsExactlyOnce
PROPERTIES
    CallsReturn
    CallSpec
