SPECIFICATION FairPipelineSpec
CONSTANTS
    Users = {u1, u2}
    Other = other
    Keys = {k1}
    MaxPending = 2
    MaxWrites = 3
    MaxFaults = 3
INVARIANTS PipelineIsQueueFront AnswersMatchPipeline IdleStreamIsNotNeeded
PROPERTIES ImplementsOrderedWrites WritesAreAnswered
CHECK_DEADLOCK FALSE
