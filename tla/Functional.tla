----------------------------- MODULE Functional -----------------------------
(***************************************************************************)
(* The functional utilities: expected, then unique_function.               *)
(*                                                                         *)
(* expected<T, E> (functional/expected.hpp): a union of a value and an     *)
(* error under the flag m_has_val.  A call is the sequence of its accesses *)
(* to the members: each of them may throw unless the traits by which the   *)
(* overload is chosen exclude it.  A T or E that fails to be made or       *)
(* assigned leaves its target and its source as they were; the swap of two *)
(* values or of two errors is left to T and E and does not fail.           *)
(***************************************************************************)
EXTENDS Sequences, FiniteSets, Naturals

CONSTANTS Expecteds,   \* objects of type expected
          Contents,  \* what a T or an E may hold
          Dead,      \* the member of the union is not alive
          Husk       \* what is left of an object that was moved from

ASSUME ExpectedAssumption == Contents # {} /\ Dead \notin Contents \cup {Husk}

VARIABLES held,      \* m_has_val, m_val and m_unexpect of every object
          traits,    \* the operations of T and E that cannot throw
          todo,      \* the accesses that the call under way still makes
          local,     \* its local variable
          meant,     \* what every object should hold between calls
          goal,      \* ... and after this call, if it returns
          misuse,    \* accesses that destroyed no object or overwrote one
          ghosts,    \* objects whose dead member was assigned to
          ended      \* std::terminate() was called

expectedVars == <<held, traits, todo, local, meant, goal, misuse, ghosts, ended>>

UnionMembers == {"val", "err"}

\* is_nothrow_copy_constructible<T>, is_nothrow_move_constructible<T> and <E>.
\* No overload depends on the others: copies of E and assignments may throw.
Traits == {"copyT", "moveT", "moveE"}

Value(v) == [has |-> TRUE, val |-> v, err |-> Dead]
Error(e) == [has |-> FALSE, val |-> Dead, err |-> e]

ExpectedInit ==
    /\ traits \in SUBSET Traits
    /\ held = [x \in Expecteds |-> Value(CHOOSE c \in Contents : TRUE)]
    /\ todo = <<>> /\ local = Dead
    /\ meant = held /\ goal = held
    /\ misuse = {} /\ ghosts = {} /\ ended = FALSE

-----------------------------------------------------------------------------
(* Accesses to members.                                                    *)

\* Where a content comes from.
CopyOf(x, m) == [how |-> "copy", who |-> x, member |-> m]
MoveOf(x, m) == [how |-> "move", who |-> x, member |-> m]
Given(c) == [how |-> "given", what |-> c]
Local == [how |-> "local"]

\* What an exception does: it leaves the function, possibly after a catch
\* block, or meets a noexcept.
Never == [may |-> FALSE, noexcept |-> FALSE, catch |-> <<>>]
Unless(trait, noexcept) == [may |-> trait \notin traits, noexcept |-> noexcept, catch |-> <<>>]
Try(trait, catch) == [may |-> trait \notin traits, noexcept |-> FALSE, catch |-> catch]

Save(source, risk) == [do |-> "save", from |-> source, risk |-> risk]
Kill(x, m) == [do |-> "kill", who |-> x, member |-> m, risk |-> Never]
Make(x, m, source, risk) == [do |-> "make", who |-> x, member |-> m, from |-> source, risk |-> risk]
Set(x, m, source, risk) == [do |-> "set", who |-> x, member |-> m, from |-> source, risk |-> risk]
Flag(x, b) == [do |-> "flag", who |-> x, has |-> b, risk |-> Never]

LiveMember(x) == IF held[x].has THEN "val" ELSE "err"

-----------------------------------------------------------------------------
(* The overloads, one sequence of accesses each.                           *)

\* assign_common(): noexcept if the assign() that calls it is.
AssignCommon(x, y, how, noexcept) ==
    LET Source(m) == IF how = "copy" THEN CopyOf(y, m) ELSE MoveOf(y, m) IN
    IF held[x].has /\ ~held[y].has
    THEN <<Kill(x, "val"),
           Make(x, "err", Source("err"), Unless(how \o "E", TRUE)), Flag(x, FALSE)>>
    ELSE <<Set(x, LiveMember(x), Source(LiveMember(x)),
               Unless(IF held[x].has THEN "assignT" ELSE "assignE", noexcept))>>

\* assign(const expected_operations_base&), three overloads
AssignCopy(x, y) ==
    IF held[x].has \/ ~held[y].has
    THEN AssignCommon(x, y, "copy", traits \cap {"copyT", "moveT"} # {})
    ELSE IF "copyT" \in traits
    THEN <<Kill(x, "err"), Make(x, "val", CopyOf(y, "val"), Never), Flag(x, TRUE)>>
    ELSE IF "moveT" \in traits
    THEN <<Save(CopyOf(y, "val"), Unless("copyT", TRUE)),
           Kill(x, "err"), Make(x, "val", Local, Never), Flag(x, TRUE)>>
    ELSE <<Save(MoveOf(x, "err"), Unless("moveE", FALSE)), Kill(x, "err"),
           Make(x, "val", CopyOf(y, "val"), Unless("copyT", TRUE)), Flag(x, TRUE)>>

\* assign(expected_operations_base&&), two overloads
AssignMove(x, y) ==
    IF held[x].has \/ ~held[y].has
    THEN AssignCommon(x, y, "move", "moveT" \in traits)
    ELSE IF "moveT" \in traits
    THEN <<Kill(x, "err"), Make(x, "val", MoveOf(y, "val"), Never), Flag(x, TRUE)>>
    ELSE <<Save(MoveOf(x, "err"), Unless("moveE", FALSE)), Kill(x, "err"),
           Make(x, "val", MoveOf(y, "val"), Unless("moveT", TRUE)), Flag(x, TRUE)>>

\* ~expected_storage_base(), and a constructor in the same place: it finds
\* the flag cleared (no_init).
Rebuild(x, m, source, risk) ==
    <<Kill(x, LiveMember(x)), Flag(x, FALSE), Make(x, m, source, risk), Flag(x, m = "val")>>

\* expected_copy_base, expected_move_base
ConstructCopy(x, y) ==
    Rebuild(x, LiveMember(y), CopyOf(y, LiveMember(y)), Unless(IF held[y].has THEN "copyT" ELSE "copyE", TRUE))
ConstructMove(x, y) ==
    Rebuild(x, LiveMember(y), MoveOf(y, LiveMember(y)), Unless(IF held[y].has THEN "moveT" ELSE "moveE", TRUE))

\* A defect: the error is not kept aside.
ReplaceErrorOutright(x, v) ==
    <<Kill(x, "err"), Make(x, "val", Given(v), Unless("copyT", FALSE)), Flag(x, TRUE)>>

\* The value comes in the place of the error, which is kept aside if that may fail.
ReplaceError(x, v) ==
    IF "copyT" \in traits
    THEN <<Kill(x, "err"), Make(x, "val", Given(v), Never), Flag(x, TRUE)>>
    ELSE <<Save(MoveOf(x, "err"), Unless("moveE", FALSE)), Kill(x, "err"),
           Make(x, "val", Given(v), Try("copyT", <<Set(x, "err", Local, Never)>>)), Flag(x, TRUE)>>

\* operator=(U&&)
AssignValue(x, v) ==
    IF held[x].has THEN <<Set(x, "val", Given(v), Unless("assignT", FALSE))>> ELSE ReplaceError(x, v)

EmplaceValue(x, v) ==
    IF held[x].has
    THEN <<Save(Given(v), Unless("copyT", FALSE)), Set(x, "val", Local, Unless("assignT", FALSE))>>
    ELSE ReplaceError(x, v)

\* operator=(unexpected<G>&&), which is noexcept
AssignError(x, e) ==
    IF held[x].has
    THEN <<Kill(x, "val"), Make(x, "err", Given(e), Never), Flag(x, FALSE)>>
    ELSE <<Set(x, "err", Given(e), Unless("assignE", TRUE))>>

\* swap_where_only_one_has_value_and_t_is_not_void(): x has one.  If T can be
\* moved, its value goes aside, and comes back if E throws; otherwise the error does.
SwapOne(x, y) ==
    IF "moveT" \in traits
    THEN <<Save(MoveOf(x, "val"), Never), Kill(x, "val"),
           Make(x, "err", MoveOf(y, "err"), Try("moveE", <<Set(x, "val", Local, Never)>>)), Kill(y, "err"),
           Make(y, "val", Local, Never), Flag(x, FALSE), Flag(y, TRUE)>>
    ELSE <<Save(MoveOf(y, "err"), Never), Kill(y, "err"),
           Make(y, "val", CopyOf(x, "val"), Try("copyT", <<Set(y, "err", Local, Never)>>)), Kill(x, "val"),
           Make(x, "err", Local, Never), Flag(x, FALSE), Flag(y, TRUE)>>

SwapHolders(x, y) ==
    IF held[x].has = held[y].has
    THEN LET m == LiveMember(x) IN
         <<Save(MoveOf(x, m), Never), Set(x, m, MoveOf(y, m), Never), Set(y, m, Local, Never)>>
    ELSE IF held[x].has THEN SwapOne(x, y) ELSE SwapOne(y, x)

\* x is made from what a mapping function of y returns: the function that was
\* passed gets the member that it is for, and the other one is copied.
Mapped(x, y, for, to, c, noexcept) ==
    <<IF LiveMember(y) = for THEN Save(Given(c), Never)
      ELSE Save(CopyOf(y, LiveMember(y)), Unless(IF held[y].has THEN "copyT" ELSE "copyE", noexcept))>>
    \o Rebuild(x, IF LiveMember(y) = for THEN to ELSE LiveMember(y), Local, Never)

\* The functions passed to and_then() and or_else() return an expected;
\* or_else() copies y with the copy constructor, which is noexcept in effect.
AndThen(x, y, to, c) == Mapped(x, y, "val", to, c, FALSE)
OrElse(x, y, to, c) == Mapped(x, y, "err", to, c, TRUE)
ExpectedMap(x, y, c) == Mapped(x, y, "val", "val", c, FALSE)
MapError(x, y, c) == Mapped(x, y, "err", "err", c, FALSE)

-----------------------------------------------------------------------------
(* Calls.  What they are for is stated apart from how they do it.          *)

MovedFrom(o) == IF o.has THEN [o EXCEPT !.val = Husk] ELSE [o EXCEPT !.err = Husk]

BeginCall(accesses, result) ==
    /\ todo' = accesses /\ goal' = result
    /\ local' = Dead
    /\ UNCHANGED <<held, traits, meant, misuse, ghosts, ended>>

CallOfTwo(x, y) ==
    \/ BeginCall(AssignCopy(x, y), [meant EXCEPT ![x] = meant[y]])
    \/ x # y /\ BeginCall(AssignMove(x, y), [meant EXCEPT ![x] = meant[y], ![y] = MovedFrom(@)])
    \/ x # y /\ BeginCall(ConstructCopy(x, y), [meant EXCEPT ![x] = meant[y]])
    \/ x # y /\ BeginCall(ConstructMove(x, y), [meant EXCEPT ![x] = meant[y], ![y] = MovedFrom(@)])
    \/ /\ x # y /\ traits \cap {"moveT", "moveE"} # {}
       /\ BeginCall(SwapHolders(x, y), [meant EXCEPT ![x] = meant[y], ![y] = meant[x]])

CallOfOne(x, c) ==
    \/ "moveE" \in traits /\ BeginCall(AssignValue(x, c), [meant EXCEPT ![x] = Value(c)])
    \/ "moveE" \in traits /\ BeginCall(AssignError(x, c), [meant EXCEPT ![x] = Error(c)])
    \/ BeginCall(EmplaceValue(x, c), [meant EXCEPT ![x] = Value(c)])

\* What a mapping makes of y.
Image(y, for, o) == IF LiveMember(y) = for THEN o ELSE meant[y]

CallMap(x, y, c) ==
    /\ x # y
    /\ \/ BeginCall(ExpectedMap(x, y, c), [meant EXCEPT ![x] = Image(y, "val", Value(c))])
       \/ BeginCall(MapError(x, y, c), [meant EXCEPT ![x] = Image(y, "err", Error(c))])
       \/ BeginCall(AndThen(x, y, "err", c), [meant EXCEPT ![x] = Image(y, "val", Error(c))])
       \/ BeginCall(OrElse(x, y, "val", c), [meant EXCEPT ![x] = Image(y, "err", Value(c))])

-----------------------------------------------------------------------------
(* The next access of the call.                                            *)

Content(source) ==
    CASE source.how = "given" -> source.what
      [] source.how = "local" -> local
      [] OTHER -> held[source.who][source.member]

\* A source that is moved from keeps an empty object.
AfterReading(source) ==
    IF source.how = "move" THEN [held EXCEPT ![source.who][source.member] = Husk] ELSE held

Access(a) ==
    \/ /\ a.do = "save"
       /\ local' = Content(a.from) /\ held' = AfterReading(a.from)
       /\ UNCHANGED <<misuse, ghosts>>
    \/ /\ a.do = "kill"
       /\ held' = [held EXCEPT ![a.who][a.member] = Dead]
       /\ misuse' = IF held[a.who][a.member] = Dead THEN misuse \cup {"destroyed twice"} ELSE misuse
       /\ UNCHANGED <<local, ghosts>>
    \/ /\ a.do = "make"
       /\ held' = [AfterReading(a.from) EXCEPT ![a.who][a.member] = Content(a.from)]
       /\ misuse' = IF \E m \in UnionMembers : held[a.who][m] # Dead
                    THEN misuse \cup {"overwritten"} ELSE misuse
       /\ UNCHANGED <<local, ghosts>>
    \/ /\ a.do = "set"
       /\ held' = [AfterReading(a.from) EXCEPT ![a.who][a.member] = Content(a.from)]
       /\ ghosts' = IF held[a.who][a.member] = Dead THEN ghosts \cup {a.who} ELSE ghosts
       /\ UNCHANGED <<local, misuse>>
    \/ /\ a.do = "flag"
       /\ held' = [held EXCEPT ![a.who].has = a.has]
       /\ UNCHANGED <<local, misuse, ghosts>>

\* The call goes on, and returns after its last access.
GoOn ==
    /\ todo # <<>>
    /\ Access(Head(todo))
    /\ todo' = Tail(todo)
    /\ meant' = IF Tail(todo) = <<>> THEN goal ELSE meant
    /\ UNCHANGED <<traits, goal, ended>>

Fail ==
    /\ todo # <<>> /\ Head(todo).risk.may
    /\ IF Head(todo).risk.noexcept
       THEN ended' = TRUE /\ UNCHANGED <<todo, goal>>
       ELSE todo' = Head(todo).risk.catch /\ goal' = meant /\ UNCHANGED ended
    /\ UNCHANGED <<held, traits, local, meant, misuse, ghosts>>

\* A ghost is not used any further: what its members do then is undefined.
ExpectedNext ==
    /\ ~ended
    /\ \/ GoOn
       \/ Fail
       \/ /\ todo = <<>> /\ ghosts = {}
          /\ \/ \E x, y \in Expecteds : CallOfTwo(x, y)
             \/ \E x \in Expecteds, c \in Contents : CallOfOne(x, c)
             \/ \E x, y \in Expecteds, c \in Contents : CallMap(x, y, c)

ExpectedSpec == ExpectedInit /\ [][ExpectedNext]_expectedVars

-----------------------------------------------------------------------------
\* Whatever throws, a call has done what it is for or nothing: the member
\* that m_has_val names is alive, the other is not, and no member has been
\* destroyed twice or overwritten.  The exception is a catch block that
\* brings the content of a destroyed member back by assignment; it cannot be
\* reached where T can be copied and T and E can be moved without an exception.
UnionMatchesFlag ==
    /\ misuse = {}
    /\ todo = <<>> /\ ~ended => \A x \in Expecteds : x \in ghosts \/ held[x] = meant[x]
    /\ {"copyT", "moveT", "moveE"} \subseteq traits => ghosts = {}

-----------------------------------------------------------------------------
(***************************************************************************)
(* fu2::unique_function (functional/function2.hpp), which carries tasks,   *)
(* callbacks and fiber routines: a callable is kept inside the function if *)
(* it is small, and on the heap otherwise; cmd_ of the vtable knows which. *)
(* Allocations and the move constructors of callables may throw.  A        *)
(* callable is followed through its moves, which make a new object and     *)
(* destroy the old one.                                                    *)
(***************************************************************************)

CONSTANTS Functions,   \* objects of type unique_function
          Callables,   \* what they may be given
          Small,       \* the callables that fit inside a function
          NoCallable

VARIABLES vtable,      \* cmd_ of every function, and the callable it is for
          where,       \* the function that holds a callable, or "heap", "new", "gone"
          blunders,    \* accesses to callables that are not there
          failed       \* functions whose operation has thrown

functionVars == <<vtable, where, blunders, failed>>

Empty == [cmd |-> "empty", box |-> NoCallable]

\* The local variable of swap() is a function too.
Cache == "cache"

ASSUME FunctionalAssumption ==
    NoCallable \notin Callables /\ Functions \cap {Cache, "heap", "new", "gone"} = {}

UniqueFunctionInit ==
    /\ vtable = [f \in Functions \cup {Cache} |-> Empty]
    /\ where = [c \in Callables |-> "new"]
    /\ blunders = {} /\ failed = {}

-----------------------------------------------------------------------------
(* Operators on the world w of functions and callables.                    *)

World == [vtable |-> vtable, where |-> where, blunders |-> blunders]

\* The vtable for a callable, as construct() chooses it.
TableFor(c) == [cmd |-> IF c \in Small THEN "inplace" ELSE "allocated", box |-> c]

\* retrieve(): the object that cmd_ will work on is there.
Retrieves(w, f) ==
    CASE w.vtable[f].cmd = "inplace" -> w.where[w.vtable[f].box] = f
      [] w.vtable[f].cmd = "allocated" -> w.where[w.vtable[f].box] = "heap"
      [] OTHER -> TRUE

Checked(w, f, blunder) ==
    IF Retrieves(w, f) THEN w ELSE [w EXCEPT !.blunders = @ \cup {blunder}]

set_empty(w, f) == [w EXCEPT !.vtable[f] = Empty]

\* op_weak_destroy leaves the vtable as it is.
weak_destroy(w, f) ==
    IF w.vtable[f].cmd = "empty" THEN w
    ELSE [Checked(w, f, "destroyed twice") EXCEPT !.where[w.vtable[f].box] = "gone"]

destroy(w, f) == set_empty(weak_destroy(w, f), f)

construct(w, f, c) ==
    [w EXCEPT !.vtable[f] = TableFor(c), !.where[c] = IF c \in Small THEN f ELSE "heap"]

\* A defect: the source keeps its vtable.
move_keeping(w, from, to) ==
    LET c == w.vtable[from].box IN
    CASE w.vtable[from].cmd = "empty" -> set_empty(w, to)
      [] w.vtable[from].cmd = "allocated" -> [w EXCEPT !.vtable[to] = TableFor(c)]
      [] w.vtable[from].cmd = "inplace" -> construct(Checked(w, from, "moved when dead"), to, c)

\* op_move takes a pointer over, or constructs a callable in its new place and
\* destroys the old one; then the source is empty.
move(w, from, to) ==
    LET c == w.vtable[from].box IN
    CASE w.vtable[from].cmd = "empty" -> set_empty(w, to)
      [] w.vtable[from].cmd = "allocated" ->
            set_empty([w EXCEPT !.vtable[to] = TableFor(c)], from)
      [] w.vtable[from].cmd = "inplace" ->
            set_empty(construct(Checked(w, from, "moved when dead"), to, c), from)

\* What a throw leaves behind.  The box may fail to be made before the vtable
\* is set, or the object after that.
construct_throws(w, f, c) == {w, [w EXCEPT !.vtable[f] = TableFor(c)]}

\* Only a callable inside the source is constructed again.
move_throws(w, from, to) ==
    IF w.vtable[from].cmd = "inplace"
    THEN {[w EXCEPT !.vtable[to] = TableFor(w.vtable[from].box)]} ELSE {}

-----------------------------------------------------------------------------
TurnsInto(w) ==
    /\ vtable' = w.vtable /\ where' = w.where /\ blunders' = w.blunders

Succeeds(w) == TurnsInto(w) /\ UNCHANGED failed
FailsIn(f, ws) == (\E w \in ws : TurnsInto(w)) /\ failed' = failed \cup {f}

\* operator=(T&&), assign(): the old callable is destroyed first.
AssignCallable(f, c) ==
    LET w == weak_destroy(World, f) IN
    /\ where[c] = "new"
    /\ Succeeds(construct(w, f, c)) \/ FailsIn(f, construct_throws(w, f, c))

\* ~erasure(), and a new function in the same place, made from a callable.
\* If its constructor throws there is no function; an empty one stands for it.
ConstructFromCallable(f, c) ==
    LET w == weak_destroy(World, f) IN
    /\ where[c] = "new"
    /\ Succeeds(construct(w, f, c)) \/ Succeeds(set_empty(w, f))

\* operator=(nullptr_t)
ClearFunction(f) == Succeeds(destroy(World, f))

\* operator=(erasure&&).  A function is not moved to itself: the code would
\* destroy the callable and move it then.
MoveAssignFunction(to, from) ==
    LET w == weak_destroy(World, to) IN
    /\ to # from
    /\ Succeeds(move(w, from, to)) \/ FailsIn(to, move_throws(w, from, to))

MoveConstructFunction(to, from) ==
    LET w == weak_destroy(World, to) IN
    /\ to # from
    /\ Succeeds(move(w, from, to)) \/ (move_throws(w, from, to) # {} /\ Succeeds(set_empty(w, to)))

\* Three moves through the local variable, which is destroyed in the end.  A
\* throw of the first move changes nothing.
SwapFunctions(f, g) ==
    LET first == move(World, g, Cache)
        second == move(weak_destroy(first, g), f, g)
        third == move(weak_destroy(second, f), Cache, f)
        unwound(ws) == {destroy(w, Cache) : w \in ws}
    IN
    /\ f # g
    /\ \/ Succeeds(destroy(third, Cache))
       \/ FailsIn(g, unwound(move_throws(first, f, g)))
       \/ FailsIn(f, unwound(move_throws(second, Cache, f)))

\* operator(): an empty function throws bad_function_call.
Invoke(f) ==
    /\ vtable[f].cmd # "empty"
    /\ Succeeds(Checked(World, f, "called when dead"))

\* A function whose operation has thrown is not used any further.
UniqueFunctionNext ==
    /\ failed = {}
    /\ \/ \E f \in Functions : ClearFunction(f) \/ Invoke(f)
       \/ \E f \in Functions, c \in Callables : AssignCallable(f, c) \/ ConstructFromCallable(f, c)
       \/ \E f, g \in Functions :
            MoveAssignFunction(f, g) \/ MoveConstructFunction(f, g) \/ SwapFunctions(f, g)

UniqueFunctionSpec == UniqueFunctionInit /\ [][UniqueFunctionNext]_functionVars

-----------------------------------------------------------------------------
\* Until an operation has thrown, a callable that has been taken over belongs
\* to one function, which knows where it is, until it is destroyed, once.  A
\* function whose operation has thrown may have the vtable of a callable that
\* it does not hold, and its destructor would destroy that one: nothing else
\* goes wrong through a throw (vtable::move, erasure::assign).
FunctionsOwnCallables ==
    /\ blunders = {}
    /\ \A f \in DOMAIN vtable \ failed : Retrieves(World, f)
    /\ \A c \in Callables : where[c] \notin {"new", "gone"} =>
           \E f \in DOMAIN vtable : vtable[f] = TableFor(c)
    /\ \A f, g \in DOMAIN vtable \ failed :
           f # g /\ vtable[f] # Empty => vtable[f].box # vtable[g].box

=============================================================================
