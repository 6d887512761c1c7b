CONSTANTS
    t1 = t1  t2 = t2  t3 = t3  q1 = q1  q2 = q2
    Threads = {t1, t2, t3}
    Queues = {q1, q2}
    QueueOf <- MCQueueOf
    Habits = {"close", "unpolled"}
    MaxEvents = 2
SPECIFICATION Spec
CHECK_DEADLOCK FALSE
INVARIANTS ReadersCounted NoEventOverslept
PROPERTIES NobodyReadsMeanwhile ReadReturns EventsDispatched AllLearnOfClose
