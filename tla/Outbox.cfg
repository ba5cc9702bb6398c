\* Two runs share the queue during a deploy, one of them may die.
CONSTANTS
    m1 = m1
    m2 = m2
    Messages = {m1, m2}
    Workers = {w1, w2}
    Topics <- TwoTopics
    OldTopics <- OneTopic
    TopicOf <- MixedTopics
    Delays <- TwoDelays
    Limit = 1
    MaxTime = 2
    MaxCrashes = 1
    AttemptsCap = 2
SPECIFICATION FairSpec
INVARIANTS TypeOK RepeatsAreExcused
PROPERTIES ImplementsDelivery EveryMessageIsClosed
CHECK_DEADLOCK FALSE
