SPECIFICATION FairSpec
CONSTANTS
    Callers = {"api1"}
    MaxWrites = 4
INVARIANTS KeepsGoodRules StaleIsNoticed
PROPERTY Converges
CHECK_DEADLOCK FALSE
