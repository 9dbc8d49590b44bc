------------------------------- MODULE Fibers -------------------------------
(***************************************************************************)
(* dsac::go and the fiber scheduler of one thread.  The first go() makes a *)
(* scheduler and returns when it has run out of fibers; a go() inside a    *)
(* fiber only adds one to its queue.  A fiber runs to the end of its       *)
(* routine, switches back, and its stack returns to the pool.  The switch  *)
(* of machine contexts is external: what is modelled is who runs.          *)
(***************************************************************************)
EXTENDS Naturals, Sequences, SequencesExt, FiniteSets

CONSTANT MaxGo  \* bound on the calls of go() that one scheduler serves

ASSUME FibersAssumption == MaxGo \in Nat

NoFiber == 0
NoStack == 0

VARIABLES
    scheduled,  \* whether kScheduler is set
    fibers,     \* fibers_: the queue, fibers numbered in the order of go()
    current,    \* current_fiber_
    stackOf,    \* of each fiber: fiber_stack_, NoStack when it is deleted
    pool,       \* stacks_ of the allocator
    mapped,     \* number of stacks that have been mapped
    submitted,  \* number of fibers this scheduler was given
    finished    \* the fibers whose routines have ended

fiberVars == <<scheduled, fibers, current, stackOf, pool, mapped, submitted, finished>>

FibersInit ==
    /\ scheduled = FALSE /\ fibers = <<>> /\ current = NoFiber
    /\ stackOf = [f \in 1..MaxGo |-> NoStack] /\ pool = <<>> /\ mapped = 0
    /\ submitted = 0 /\ finished = {}

\* fiber_stack::make(): another stack is mapped.
MapStack(stack) == stack = mapped + 1 /\ mapped' = mapped + 1

\* A defect: allocate() leaves the stack it hands out in the pool.
AllocateTwice(stack) ==
    IF pool = <<>> THEN MapStack(stack) /\ UNCHANGED pool
    ELSE stack = Last(pool) /\ UNCHANGED <<pool, mapped>>

\* fiber_stack_allocator::allocate(): the youngest pooled stack or a new one.
Allocate(stack) ==
    IF pool = <<>> THEN MapStack(stack) /\ UNCHANGED pool
    ELSE stack = Last(pool) /\ pool' = Front(pool) /\ UNCHANGED mapped

\* fiber::make(): fiber f owns the stack.
MakeFiber(f, stack) == stackOf' = [stackOf EXCEPT ![f] = stack]

\* submit(child_routine)
Submit ==
    /\ submitted < MaxGo /\ submitted' = submitted + 1
    /\ \E stack \in 1..MaxGo : Allocate(stack) /\ MakeFiber(submitted + 1, stack)
    /\ fibers' = Append(fibers, submitted + 1)

\* go() outside a fiber makes a scheduler and submits the entry routine.
GoEntry ==
    /\ ~scheduled /\ scheduled' = TRUE
    /\ Submit
    /\ UNCHANGED <<current, finished>>

\* go() inside a fiber.
GoChild ==
    /\ current # NoFiber
    /\ Submit
    /\ UNCHANGED <<scheduled, current, finished>>

\* The loop of submit(entry_routine) takes the next fiber and switches to it.
SwitchTo ==
    /\ scheduled /\ current = NoFiber /\ fibers # <<>>
    /\ current' = Head(fibers) /\ fibers' = Tail(fibers)
    /\ UNCHANGED <<scheduled, stackOf, pool, mapped, submitted, finished>>

\* dispatch_of(): the stack returns to the pool, the fiber is deleted.
DispatchOf(f) ==
    /\ pool' = Append(pool, stackOf[f])
    /\ stackOf' = [stackOf EXCEPT ![f] = NoStack]

\* The routine ends or throws and run() switches back to the scheduler.
Finish ==
    /\ current # NoFiber
    /\ finished' = finished \union {current} /\ current' = NoFiber
    /\ DispatchOf(current)
    /\ UNCHANGED <<scheduled, fibers, mapped, submitted>>

\* A defect: submit(entry_routine) runs one fiber only.
GoReturnsAtOnce ==
    /\ scheduled /\ current = NoFiber /\ finished # {}
    /\ scheduled' = FALSE /\ pool' = <<>> /\ mapped' = 0
    /\ submitted' = 0 /\ finished' = {}
    /\ UNCHANGED <<fibers, current, stackOf>>

\* The queue is empty: the entry go() returns and its scheduler is gone.
GoReturns ==
    /\ scheduled /\ current = NoFiber /\ fibers = <<>>
    /\ scheduled' = FALSE /\ pool' = <<>> /\ mapped' = 0
    /\ submitted' = 0 /\ finished' = {}
    /\ UNCHANGED <<fibers, current, stackOf>>

FibersNext == GoEntry \/ GoChild \/ SwitchTo \/ Finish \/ GoReturns

FibersSpec == FibersInit /\ [][FibersNext]_fiberVars

-----------------------------------------------------------------------------
Alive == {f \in 1..MaxGo : stackOf[f] # NoStack}

\* Every mapped stack is in one place: with one fiber, or once in the pool.
\* No fiber runs on a stack of another one, and no stack is lost.
StacksConserved ==
    /\ \A f, g \in Alive : stackOf[f] = stackOf[g] => f = g
    /\ \A f \in Alive : stackOf[f] \notin ToSet(pool)
    /\ scheduled => mapped = Cardinality(Alive) + Cardinality(ToSet(pool))

\* The entry go() returns only after every routine has run.
GoRunsEverything == [][scheduled /\ ~scheduled' => finished = 1..submitted]_fiberVars

=============================================================================
