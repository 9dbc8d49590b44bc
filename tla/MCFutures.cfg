CONSTANTS
    Values = {v1, v2}
    NoValue = NoValue
    Size = 4
    Min = 2
    Racers = 4
    Stages = 4
    Workers = {w1, w2}
    Main = main
    Pill = pill
    a = a
    b = b
    c = c
    Tasks = {a, b, c}
    Roots = {a, b}
    Child <- MCChild
SPECIFICATION FuturesSpec
INVARIANTS
    NobodyFails DeliveredAsAsked ExactlyMinResults OneWinner ConsumersCalledOnce
    TasksRunOnce
PROPERTIES
    ImplementsOneShot CallbackIsCalled QuorumSuffices ChainCompletes JoinReturns
