CONSTANTS
    t1 = t1
    t2 = t2
    Tuples <- MCTuples
    Confs <- MCConfs
SPECIFICATION Spec
\* try_collect returns and the pipeline stops there
CHECK_DEADLOCK FALSE
PROPERTIES
    ImplementsQueryStream
