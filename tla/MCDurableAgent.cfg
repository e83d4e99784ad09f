SPECIFICATION Spec
CONSTANTS
    Confs <- MCConfs
    Openings <- MCOpenings
    Maxes = {1}
    Runs = 2
    MaxRounds = 3
INVARIANTS
    ConversationIsThread
    BudgetsHold
PROPERTIES
    OneWriter
    AnswerKept
CHECK_DEADLOCK FALSE
