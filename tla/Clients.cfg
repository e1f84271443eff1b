SPECIFICATION ClientsSpec
CONSTANTS
    MaxFrames = 3
    MaxAnswers = 5
    Reader = {r1, r2}
    Capacity = 2
INVARIANTS AnswersFollowRequests NothingLostWithinCapacity
PROPERTIES CallsEnd RequestsAnswered StreamsAdvance
CHECK_DEADLOCK FALSE
