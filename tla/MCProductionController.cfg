SPECIFICATION FairSpec
CONSTANTS
    Ops = {"o1"}
    Capacity = 2
    MaxGen = 5
    CrashLimit = 3
INVARIANTS
    AtMostOneChild
    AbsenceIsTrue
    RetiredForGood
PROPERTIES
    BooksAreExact
    ActorSettles
CHECK_DEADLOCK FALSE
