SPECIFICATION Spec
CONSTANTS
 Writers = {x}
 Faults = {"failed","lost","refused","crash"}
 None = None
 ResubscribeOn = TRUE
 MaxChanges = 3
 MaxFaults = 0
INVARIANTS StrayTagIsKnown
CHECK_DEADLOCK FALSE
