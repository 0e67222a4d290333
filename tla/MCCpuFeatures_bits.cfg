SPECIFICATION Spec
CONSTANTS
    t1 = t1
    t2 = t2
    t3 = t3
    Thread <- MCThread
    Runner = t1
    Builds <- MCBuilds
INVARIANTS
    AnswerCoversAllBits
