SPECIFICATION Spec
CONSTANTS N = 3  Clients = {c1}  Writes <- Ascending  Scenarios <- Partition
          NoRegister = NoRegister  Waiting = Waiting  Ack = Ack
INVARIANT MajorityHolds
