SPECIFICATION Spec
CONSTANTS
 Writers = {x}
 Faults = {"refused"}
 None = None
 ResubscribeOn = TRUE
 MaxChanges = 2
 MaxFaults = 1
INVARIANTS ChangeAlwaysDue
CHECK_DEADLOCK FALSE
