SPECIFICATION Spec
CONSTANTS
    None = None
    x = x
    y = y
INVARIANTS
    TypeOK
    PostsBounded
    TokenKept
    ConsentKept
    ChangeStaysDue
    OneAccountPerPerson
    CountsKept
    AlertsTold
    DevicesAsChosen
PROPERTIES
    PostsFinal
    
    CapturedOnce
    ReachFair
    AskedPolitely
    AudienceCurrent
    StoriesKept
SYMMETRY Symmetry
CHECK_DEADLOCK FALSE
