CONSTANTS
    Threads = {t1, t2, t3}
    Nobody = Nobody
    MaxNodes = 3
    Recycling = FALSE
    Pointers = {p1, p2, p3}
    Objects = {o1, o2}
    NoObject = NoObject
    Mutexes = {m1, m2}
    NoMutex = NoMutex
    Names = {x, y}
    MaxGo = 5
    Callers = {"p", "q"}
    Types = {1, 2, 3}
    MaxThrows = 1
    CacheKeys = {"k1", "k2", "k3", "k4"}
    Capacity = 3
    K = 2
    HashKeys = {0, 1, 3, 4, 5}
    HashValues = {1, 2}
    DefaultSize = 2
    BucketSize = 1
    HashBits = 3
    BstKeys = {1, 2, 3, 4}
    AvlKeys = {1, 2, 3, 4, 5, 6}
    RbKeys = {1, 2, 3, 4, 5, 6, 7, 8}
    BtreeKeys = {1, 2, 3, 4, 5, 6, 7, 8, 9}
    T = 2
    SortValues = {1, 2, 3}
    MaxLength = 5
    Elements = {"e1", "e2"}
    MaxCells = 4
    Vertices = {v1, v2, v3}
    MaxEdges = 4
    Size0 = 4
    Towns = 4
    Costs = {1, 2}
    Towers = {n1, n2, n3, n4, n5}
    MaxLinks = 5
    NodeNames <- NamesOfNodes
    MaxTokens = 3
    ServerThreads = {s1}
    KeepAliveMax = 2
    Posters = {w1, r1}
    Writers = {w1}
    HttpClients = {c1}
    MaxBacklog = 2
    Expecteds = {x1, x2}
    Contents = {1, 2}
    Dead = Dead
    Husk = Husk
    Functions = {f1, f2, f3}
    Callables = {j1, j2, j3, j4}
    Small = {j1, j2}
    NoCallable = NoCallable
INIT StructuresInit
NEXT StructuresNext
SYMMETRY Interchangeable
INVARIANTS
    NodesOwned ObjectsOwned OwnedAsMeant SingletonsOutliveUsers
    KeysKept AlgorithmsAnswerRight
    HttpExchangesSafe NobodyStuck UnionMatchesFlag
PROPERTIES
    StackIsLifo GoRunsEverything
CHECK_DEADLOCK FALSE
