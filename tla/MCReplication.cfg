CONSTANTS
    N = 3
    Clients = {c1, c2}
    Writes <- Ascending
    Scenarios <- PeaceAndFaults
    NoRegister = NoRegister
    Waiting = Waiting
    Ack = Ack
    MaxContent = 3
    MaxPayload = 2
    MaxWrite = 2
    FormContents <- ContentsOfItems
    Boundaries <- BoundariesOfForms
    MaxItems = 3
    MaxFiles = 2
    Width = 4
    RangeEnds <- EndsOfRanges
    MaxRanges = 2
    MaxBytes = 3
    ParamKeys <- KeysOfParams
    MaxText = 3
    RedirectMax = 2
    Handled = {"ok", "none", "throws", "303", "307", "307 there", "303 https"}
INIT ReplicationInit
NEXT ReplicationNext
INVARIANTS
    ConfirmedStored ReadsAreAtomic ReplicasConverge BodiesArrive MessagesArrive RequestsInStep
PROPERTY NoRollback
