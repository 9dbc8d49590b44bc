CONSTANTS
    Values = {v1, v2}
    NoValue = NoValue
    Size = 1
    Min = 1
    Racers = 1
    Stages = 1
    Workers = {w1, w2}
    Main = main
    Pill = pill
    a = a
    b = b
    c = c
    Tasks = {a, b, c}
    Roots = {a, b}
    Child <- MCChild
SPECIFICATION FuturesSpec
PROPERTY EverySubmittedTaskRuns
