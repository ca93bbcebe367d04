SPECIFICATION FairSpec
CONSTANTS
    Threads = {t1, t2, t3}
    MaxTickets = 3
    MaxIds = 3
INVARIANT TypeOK
INVARIANT OneSession
INVARIANT ShownHasOneAsker
INVARIANT AnswerIsForItsQuestion
PROPERTY FirstComeFirstServed
PROPERTY TakenAnswerIsDelivered
PROPERTY NobodyWaitsForever
CHECK_DEADLOCK FALSE
