SPECIFICATION Spec
CONSTANTS N = 3  Clients = {c1}  Writes <- Descending  Scenarios <- Peace
          NoRegister = NoRegister  Waiting = Waiting  Ack = Ack
INVARIANT ReadsAreAtomic
