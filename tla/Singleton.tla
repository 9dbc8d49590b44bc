---- MODULE Singleton ----
(* dsac::singleton (singleton.hpp): objects created on first use by any     *)
(* thread, under a lock per type, and destroyed at exit in the reverse      *)
(* order of their registration with TAtExit.  All types have the default    *)
(* priority.  Constructors may throw, and they and the destructors may ask  *)
(* for other singletons.                                                    *)
EXTENDS Integers, Sequences, FiniteSets

CONSTANTS Callers,   \* threads, none of them named "free" or "exit"
          Types,     \* positive numbers; an object may use singletons of larger types
          MaxThrows  \* bound: constructors that throw

ASSUME SingletonAssumption ==
    /\ Types \subseteq Nat \ {0} /\ IsFiniteSet(Types)
    /\ "free" \notin Callers /\ "exit" \notin Callers
    /\ MaxThrows \in Nat

VARIABLES published,  \* published[x]: ptr of type x is set
          lockOf,     \* the thread that holds the lock of type x, or "free"
          work,       \* the singletonBase() calls under way in each thread
          life,       \* life[x]: "none", "alive", "dead"
          users,      \* users[x]: the types whose objects x got in its constructor
          items,      \* TAtExit::Items_: the number of each registered type
          registered, \* Store_.size()
          finishing,  \* Finish() has started; the object it destroys, or 0
          throws,     \* constructors that have thrown so far
          deadUse     \* pairs: the destructor of the first got the dead second

singletonVars == <<published, lockOf, work, life, users, items, registered, finishing, throws, deadUse>>

NoType == 0
ExitThread == "exit"

SingletonInit ==
    /\ published = {} /\ lockOf = [x \in Types |-> "free"]
    /\ work = [t \in Callers \cup {ExitThread} |-> <<>>]
    /\ life = [x \in Types |-> "none"] /\ users = [x \in Types |-> {}]
    /\ items = [x \in {} |-> 0] /\ registered = 0
    /\ finishing = [started |-> FALSE, object |-> NoType] /\ throws = 0 /\ deadUse = {}

Inner(t) == work[t][Len(work[t])]
Outer(t) == SubSeq(work[t], 1, Len(work[t]) - 1)

\* What thread t is executing: the constructor of a type, the destructor that
\* Finish() calls, or nothing of a singleton.
Executing(t) == IF work[t] # <<>> THEN Inner(t).type
                ELSE IF t = ExitThread THEN finishing.object ELSE NoType
MayAsk(t) == /\ work[t] # <<>> => Inner(t).at = "construct"
             /\ t = ExitThread => finishing.object # NoType

\* singletonInt(): ptr is set.  A constructor that gets an object will use it
\* again in its destructor.
AskPublished(t, x) ==
    LET by == Executing(t) IN
    /\ MayAsk(t) /\ x > by /\ x \in published
    /\ users' = IF work[t] # <<>> /\ life[x] = "alive" THEN [users EXCEPT ![by] = @ \cup {x}] ELSE users
    /\ deadUse' = IF by # NoType /\ life[x] = "dead" THEN deadUse \cup {<<by, x>>} ELSE deadUse
    /\ UNCHANGED <<published, lockOf, work, life, items, registered, finishing, throws>>

\* ... or is not: singletonBase() waits for the lock.
AskNew(t, x) ==
    /\ MayAsk(t) /\ x > Executing(t) /\ x \notin published
    /\ t = ExitThread \/ ~finishing.started
    /\ work' = [work EXCEPT ![t] = Append(@, [type |-> x, at |-> "lock"])]
    /\ UNCHANGED <<published, lockOf, life, users, items, registered, finishing, throws, deadUse>>

Continue(t, at) == work' = [work EXCEPT ![t][Len(work[t])].at = at]

\* A defect: ptr is not loaded again under the lock.
LockRecursiveOnce(t) ==
    /\ work[t] # <<>> /\ Inner(t).at = "lock" /\ lockOf[Inner(t).type] = "free"
    /\ lockOf' = [lockOf EXCEPT ![Inner(t).type] = t]
    /\ Continue(t, "construct")
    /\ UNCHANGED <<published, life, users, items, registered, finishing, throws, deadUse>>

\* LockRecursive(), and the second load of ptr.
LockRecursive(t) ==
    /\ work[t] # <<>> /\ Inner(t).at = "lock" /\ lockOf[Inner(t).type] = "free"
    /\ lockOf' = [lockOf EXCEPT ![Inner(t).type] = t]
    /\ Continue(t, IF Inner(t).type \in published THEN "unlock" ELSE "construct")
    /\ UNCHANGED <<published, life, users, items, registered, finishing, throws, deadUse>>

\* The constructor throws: the lock is given up and the exception goes on to
\* the constructor that has asked, which handles it.
ConstructorThrows(t) ==
    /\ work[t] # <<>> /\ Inner(t).at = "construct" /\ throws < MaxThrows
    /\ throws' = throws + 1
    /\ lockOf' = [lockOf EXCEPT ![Inner(t).type] = "free"]
    /\ users' = [users EXCEPT ![Inner(t).type] = {}]
    /\ work' = [work EXCEPT ![t] = Outer(t)]
    /\ UNCHANGED <<published, life, items, registered, finishing, deadUse>>

\* The constructor returns.
ConstructorReturns(t) ==
    /\ work[t] # <<>> /\ Inner(t).at = "construct"
    /\ life' = [life EXCEPT ![Inner(t).type] = IF @ = "none" THEN "alive" ELSE "twice"]
    /\ Continue(t, "register")
    /\ UNCHANGED <<published, lockOf, users, items, registered, finishing, throws, deadUse>>

\* AtExit(): Register() of the destructor, under Lock_.
RegisterAtExit(t) ==
    /\ work[t] # <<>> /\ Inner(t).at = "register"
    /\ items' = [x \in DOMAIN items \cup {Inner(t).type} |->
                    IF x = Inner(t).type THEN registered ELSE items[x]]
    /\ registered' = registered + 1
    /\ Continue(t, "publish")
    /\ UNCHANGED <<published, lockOf, life, users, finishing, throws, deadUse>>

\* ptr.store(ret).
Publish(t) ==
    /\ work[t] # <<>> /\ Inner(t).at = "publish"
    /\ published' = published \cup {Inner(t).type}
    /\ Continue(t, "unlock")
    /\ UNCHANGED <<lockOf, life, users, items, registered, finishing, throws, deadUse>>

\* UnlockRecursive(), and the return to the constructor that has asked.
UnlockRecursive(t) ==
    LET x == Inner(t).type IN
    /\ work[t] # <<>> /\ Inner(t).at = "unlock"
    /\ lockOf' = [lockOf EXCEPT ![x] = "free"]
    /\ work' = [work EXCEPT ![t] = Outer(t)]
    /\ users' = IF Len(work[t]) > 1 THEN [users EXCEPT ![work[t][Len(work[t]) - 1].type] = @ \cup {x}]
                ELSE users
    /\ UNCHANGED <<published, life, items, registered, finishing, throws, deadUse>>

\* OnExit(), when the threads have come to rest.
BeginFinish ==
    /\ ~finishing.started /\ \A t \in Callers : work[t] = <<>>
    /\ finishing' = [finishing EXCEPT !.started = TRUE]
    /\ UNCHANGED <<published, lockOf, work, life, users, items, registered, throws, deadUse>>

\* A defect: the first registered is destroyed first.
PopItemFirst ==
    LET x == CHOOSE y \in DOMAIN items : \A z \in DOMAIN items : items[y] <= items[z] IN
    /\ finishing.started /\ finishing.object = NoType /\ DOMAIN items # {}
    /\ finishing' = [finishing EXCEPT !.object = x]
    /\ items' = [y \in DOMAIN items \ {x} |-> items[y]]
    /\ deadUse' = deadUse \cup {<<x, y>> : y \in {y \in users[x] : life[y] = "dead"}}
    /\ UNCHANGED <<published, lockOf, work, life, users, registered, throws>>

\* Finish() pops the top item and calls its destructor without the lock.  The
\* destructor may use what the constructor got.
PopItem ==
    LET x == CHOOSE y \in DOMAIN items : \A z \in DOMAIN items : items[z] <= items[y] IN
    /\ finishing.started /\ finishing.object = NoType /\ DOMAIN items # {}
    /\ finishing' = [finishing EXCEPT !.object = x]
    /\ items' = [y \in DOMAIN items \ {x} |-> items[y]]
    /\ deadUse' = deadUse \cup {<<x, y>> : y \in {y \in users[x] : life[y] = "dead"}}
    /\ UNCHANGED <<published, lockOf, work, life, users, registered, throws>>

\* The destructor returns.  ptr stays set.
DestructorReturns ==
    /\ finishing.object # NoType /\ work[ExitThread] = <<>>
    /\ life' = [life EXCEPT ![finishing.object] = IF @ = "alive" THEN "dead" ELSE "twice"]
    /\ finishing' = [finishing EXCEPT !.object = NoType]
    /\ UNCHANGED <<published, lockOf, work, users, items, registered, throws, deadUse>>

SingletonStep(t) ==
    \/ LockRecursive(t) \/ ConstructorThrows(t) \/ ConstructorReturns(t) \/ RegisterAtExit(t)
    \/ Publish(t) \/ UnlockRecursive(t)
    \/ \E x \in Types : AskNew(t, x) \/ AskPublished(t, x)

SingletonNext == \/ \E t \in Callers \cup {ExitThread} : SingletonStep(t)
                 \/ BeginFinish \/ PopItem \/ DestructorReturns

SingletonSpec == SingletonInit /\ [][SingletonNext]_singletonVars

\* An object is created and destroyed at most once however threads race for
\* it and constructors throw, ptr is set only when it exists, the objects
\* waiting for Finish() are the living ones, and what the constructor of a
\* singleton got from singleton() is still alive when its destructor runs
\* (singletonBase, TAtExit).
SingletonsOutliveUsers ==
    /\ \A x \in Types : life[x] # "twice"
    /\ \A x \in published : life[x] # "none"
    /\ \A x \in DOMAIN items : life[x] = "alive"
    /\ \A x \in Types : life[x] = "alive" =>
          \/ x \in DOMAIN items \/ finishing.object = x
          \/ \E t \in DOMAIN work : \E i \in DOMAIN work[t] : work[t][i] = [type |-> x, at |-> "register"]
    /\ \A use \in deadUse : use[2] \notin users[use[1]]

====
