\* One container, and one restart of it.
SPECIFICATION Spec
CONSTANTS
    Containers = {x}
    ArticleOf <- TwoPushes
    Slots = 6
    Gap = 2
    MaxTime = 9
    MaxCrashes = 1
    MaxOverlaps = 0
INVARIANTS NeverRepeated
CHECK_DEADLOCK FALSE
