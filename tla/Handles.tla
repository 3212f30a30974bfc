-------------------------------- MODULE Handles --------------------------------
(***************************************************************************)
(* SharedMemoryHandle, WeakMemoryHandle and UniqueMemoryHandle (Memory.h)  *)
(* in the build without MEMORY_MULTITHREAD_SAFE, with the global map from  *)
(* addresses to reference counts.                                          *)
(*                                                                         *)
(* T is a struct with a SharedMemoryHandle<T> member, a node of a list: to *)
(* delete one runs the destructor of its member, which may delete another, *)
(* in the middle of whatever the outer handle was doing.  An operation is  *)
(* therefore a list of what is left to do, taken one step at a time.       *)
(*                                                                         *)
(* The member of an object goes by the object's address.  Addresses are    *)
(* used again once they are free.                                          *)
(***************************************************************************)
EXTENDS Integers, Sequences, FiniteSets

CONSTANTS
    Addresses, Null,
    Locals,      \* SharedMemoryHandle variables
    Temp,        \* the one a call makes for an argument or a result
    Uniques, Weaks

\* A variable, a member and a temporary are three things, and none is nullptr.
ASSUME HandlesAssumption ==
    /\ Locals \cap Addresses = {} /\ Temp \notin Locals \cup Addresses
    /\ Null \notin Locals \cup Addresses \cup {Temp}

VARIABLES
    Data,        \* of every shared handle
    RefMap, alive,
    unique, weak,  \* Data of the others
    todo,          \* what the call in progress has left to do
    fault          \* what it ran into

handleVars == <<Data, RefMap, alive, unique, weak, todo, fault>>

Shared == Locals \cup {Temp} \cup Addresses
Pointers == Addresses \cup {Null}

HandlesInit ==
    /\ Data = [h \in Shared |-> Null] /\ RefMap = [a \in {} |-> 0] /\ alive = {}
    /\ unique = [u \in Uniques |-> Null] /\ weak = [w \in Weaks |-> Null]
    /\ todo = <<>> /\ fault = "none"

-----------------------------------------------------------------------------
(* Counting, and the shared handle's IsValid and the weak one's.           *)
Counted(a) == a \in DOMAIN RefMap
SharedValid(h) == Data[h] # Null /\ Counted(Data[h])
WeakValidUncounted(w) == weak[w] # Null
WeakValid(w) == weak[w] # Null /\ Counted(weak[w]) /\ RefMap[weak[w]] > 0

WithCount(a, n) == [b \in DOMAIN RefMap \cup {a} |-> IF b = a THEN n ELSE RefMap[b]]
CountFrozen(a) == IF Counted(a) THEN RefMap ELSE WithCount(a, 1)
CountUp(a) == WithCount(a, IF Counted(a) THEN RefMap[a] + 1 ELSE 1)
Erased(a) == [b \in DOMAIN RefMap \ {a} |-> RefMap[b]]

(* What is left to do, outermost call last; the call itself at the end.    *)
Do(what, h, of) == [do |-> what, h |-> h, of |-> of]
Drop(h) == Do("drop", h, Null)            \* if (IsValid()) Release();
Release(h) == Do("release", h, Null)      \* ReleaseResourseChecked
Forget(h) == Do("forget", h, Null)        \* its last line, Data = nullptr
Acquire(h, from) == Do("acquire", h, from)     \* AcquireDataToHandle(from.Get())
AcquireRaw(h, a) == Do("acquireRaw", h, a)     \* AcquireDataToHandle(a)

\* harz_delete: ~T, Deallocate
Destroy(a, last) == <<Drop(a), Do("free", a, Null), last>>
Delete(u) == Do("delete", u, Null)        \* Unique's ReleaseResourseChecked
Take(u, a) == Do("take", u, a)            \* Unique's Data = a
Return(name, from) == Do("return", name, from)

Now(what) == todo # <<>> /\ fault = "none" /\ Head(todo).do = what
H == Head(todo).h
Then(steps) == todo' = steps \o Tail(todo)

Fault(kind) == fault' = kind /\ UNCHANGED <<Data, RefMap, alive, unique, weak, todo>>

DoDrop ==
    /\ Now("drop")
    /\ Then(IF SharedValid(H) THEN <<Release(H)>> ELSE <<>>)
    /\ UNCHANGED <<Data, RefMap, alive, unique, weak, fault>>

\* The count goes down; at 0 the address leaves the map before the object is
\* deleted, and only then is Data forgotten.
DoReleaseOther ==
    /\ Now("release") /\ SharedValid(H) /\ RefMap[Data[H]] > 1
    /\ RefMap' = WithCount(Data[H], RefMap[Data[H]] - 1)
    /\ Then(<<Forget(H)>>)
    /\ UNCHANGED <<Data, alive, unique, weak, fault>>

LastStepsLeaking(h) == <<Forget(h)>>
LastSteps(h) == Destroy(Data[h], Forget(h))

DoReleaseLast ==
    /\ Now("release") /\ SharedValid(H) /\ RefMap[Data[H]] <= 1
    /\ RefMap' = Erased(Data[H])
    /\ Then(LastSteps(H))
    /\ UNCHANGED <<Data, alive, unique, weak, fault>>

\* Nothing to release.  ASSERT(RefCounterToData != end()) for something else.
DoReleaseNothing ==
    /\ Now("release") /\ ~SharedValid(H)
    /\ IF Data[H] # Null THEN Fault("uncounted")
       ELSE Then(<<>>) /\ UNCHANGED <<Data, RefMap, alive, unique, weak, fault>>

DoForget ==
    /\ Now("forget")
    /\ Data' = [Data EXCEPT ![H] = Null] /\ Then(<<>>)
    /\ UNCHANGED <<RefMap, alive, unique, weak, fault>>

DoFree ==
    /\ Now("free")
    /\ IF H \in alive
       THEN /\ alive' = alive \ {H} /\ Data' = [Data EXCEPT ![H] = Null] /\ Then(<<>>)
            /\ UNCHANGED <<RefMap, unique, weak, fault>>
       ELSE Fault("freed twice")

\* Data = a, counted.
Hold(h, a) ==
    /\ IF a = Null \/ Data[h] = a THEN UNCHANGED <<Data, RefMap>>
       ELSE RefMap' = CountUp(a) /\ Data' = [Data EXCEPT ![h] = a]
    /\ Then(<<>>)
    /\ UNCHANGED <<alive, unique, weak, fault>>

\* The handle read may by now be in an object that is gone.
DoAcquire ==
    /\ Now("acquire")
    /\ IF Head(todo).of \in Addresses \ alive THEN Fault("dead source")
       ELSE Hold(H, Data[Head(todo).of])

DoAcquireRaw ==
    /\ Now("acquireRaw")
    /\ IF Head(todo).of \in Addresses \ alive THEN Fault("dead object")
       ELSE Hold(H, Head(todo).of)

DoDelete ==
    /\ Now("delete")
    /\ Then(IF unique[H] = Null THEN <<>> ELSE Destroy(unique[H], Take(H, Null)))
    /\ UNCHANGED <<Data, RefMap, alive, unique, weak, fault>>

DoTake ==
    /\ Now("take")
    /\ unique' = [unique EXCEPT ![H] = Head(todo).of] /\ Then(<<>>)
    /\ UNCHANGED <<Data, RefMap, alive, weak, fault>>

DoReturn ==
    /\ Now("return")
    /\ Then(<<>>)
    /\ UNCHANGED <<Data, RefMap, alive, unique, weak, fault>>

Proceed ==
    \/ DoDrop \/ DoReleaseOther \/ DoReleaseLast \/ DoReleaseNothing
    \/ DoForget \/ DoFree \/ DoAcquire \/ DoAcquireRaw \/ DoDelete \/ DoTake
    \/ DoReturn

-----------------------------------------------------------------------------
(* Calls.  The program uses its variables, and the members of the objects  *)
(* they hold.                                                              *)
Usable ==
    Locals \cup (({Data[l] : l \in Locals} \cup {unique[u] : u \in Uniques}) \ {Null})

AtRest == todo = <<>> /\ fault = "none"

Call(name, from, steps) ==
    /\ AtRest
    /\ todo' = Append(steps, Return(name, from))
    /\ UNCHANGED fault

MoveSteps(h, from) == <<Drop(h), Acquire(h, from), Release(from)>>

\* h = MakeSharedHandle<T>()
MakeShared(h, a) ==
    /\ a \notin alive
    /\ alive' = alive \cup {a} /\ RefMap' = CountUp(a)
    /\ Data' = [Data EXCEPT ![Temp] = a]
    /\ Call("make", Temp, MoveSteps(h, Temp))
    /\ UNCHANGED <<unique, weak>>

\* h = from
CopyAssign(h, from) ==
    /\ h # from
    /\ Call("copy", from, <<Drop(h), Acquire(h, from)>>)
    /\ UNCHANGED <<Data, RefMap, alive, unique, weak>>

\* h = std::move(from)
MoveAssign(h, from) ==
    /\ h # from
    /\ Call("move", from, MoveSteps(h, from))
    /\ UNCHANGED <<Data, RefMap, alive, unique, weak>>

\* h.Reset(from), from by value: the argument is a copy, and dropped.
ResetSharedByReference(h, from) ==
    /\ Call("reset", from, IF Data[h] = Data[from] THEN <<>> ELSE <<Drop(h), Acquire(h, from)>>)
    /\ UNCHANGED <<Data, RefMap, alive, unique, weak>>

ResetShared(h, from) ==
    /\ Data' = [Data EXCEPT ![Temp] = Data[from]]
    /\ RefMap' = IF Data[from] = Null THEN RefMap ELSE CountUp(Data[from])
    /\ Call("reset", from,
            IF Data[h] = Data[from] THEN <<Drop(Temp)>>
            ELSE <<Drop(h), Acquire(h, Temp), Drop(Temp)>>)
    /\ UNCHANGED <<alive, unique, weak>>

\* h.Reset(a), with a pointer that Get() of a handle returned.
ResetRaw(h, a, from) ==
    /\ Call("resetRaw", from, IF Data[h] = a THEN <<>> ELSE <<Drop(h), AcquireRaw(h, a)>>)
    /\ UNCHANGED <<Data, RefMap, alive, unique, weak>>

ReleaseShared(h) ==
    /\ Call("release", h, <<Release(h)>>)
    /\ UNCHANGED <<Data, RefMap, alive, unique, weak>>

\* w = h.GetWeak()
GetWeak(w, h) ==
    /\ AtRest
    /\ weak' = [weak EXCEPT ![w] = Data[h]]
    /\ UNCHANGED <<Data, RefMap, alive, unique, todo, fault>>

\* u = MakeUniqueHandle<T>(), and ResetNew
MakeUnique(u, a) ==
    /\ a \notin alive
    /\ alive' = alive \cup {a}
    /\ Call("makeUnique", u, <<Delete(u), Take(u, a)>>)
    /\ UNCHANGED <<Data, RefMap, unique, weak>>

\* u.Reset(std::move(from)): the argument has taken it from `from` before.
ResetUnique(u, from) ==
    /\ u # from /\ ~(unique[u] = Null /\ unique[from] = Null)
    /\ unique' = [unique EXCEPT ![from] = Null]
    /\ Call("resetUnique", from, <<Delete(u), Take(u, unique[from])>>)
    /\ UNCHANGED <<Data, RefMap, alive, weak>>

\* Of two empty ones it says "Resourse ownership violation".
ResetUniqueEmpty(u, from) ==
    /\ AtRest
    /\ u # from /\ unique[u] = Null /\ unique[from] = Null
    /\ Fault("ownership")

\* h = SharedMemoryHandle<T>(std::move(u))
ShareUniqueKeeping(h, u) ==
    /\ Data' = [Data EXCEPT ![Temp] = unique[u]]
    /\ RefMap' = IF unique[u] = Null THEN RefMap ELSE CountUp(unique[u])
    /\ Call("share", Temp, MoveSteps(h, Temp))
    /\ UNCHANGED <<alive, unique, weak>>

ShareUnique(h, u) ==
    /\ Data' = [Data EXCEPT ![Temp] = unique[u]]
    /\ RefMap' = IF unique[u] = Null THEN RefMap ELSE CountUp(unique[u])
    /\ unique' = [unique EXCEPT ![u] = Null]
    /\ Call("share", Temp, MoveSteps(h, Temp))
    /\ UNCHANGED <<alive, weak>>

HandlesNext ==
    \/ Proceed
    \/ \E h \in Usable :
        \/ \E a \in Addresses : MakeShared(h, a)
        \/ \E from \in Usable :
            \/ CopyAssign(h, from) \/ MoveAssign(h, from) \/ ResetShared(h, from)
            \/ ResetRaw(h, Data[from], from)
        \/ \E w \in Weaks : WeakValid(w) /\ ResetRaw(h, weak[w], Null)
        \/ ReleaseShared(h)
        \/ \E w \in Weaks : GetWeak(w, h)
        \/ \E u \in Uniques : ShareUnique(h, u)
    \/ \E u \in Uniques :
        \/ \E a \in Addresses : MakeUnique(u, a)
        \/ \E from \in Uniques : ResetUnique(u, from) \/ ResetUniqueEmpty(u, from)
    \/ fault # "none" /\ UNCHANGED handleVars

HandlesSpec == HandlesInit /\ [][HandlesNext]_handleVars

-----------------------------------------------------------------------------
\* Between calls a count is the number of handles that hold the object,
\* members of other objects included, and every handle's object is counted.
CountsExact ==
    AtRest => /\ \A a \in DOMAIN RefMap : RefMap[a] = Cardinality({h \in Shared : Data[h] = a})
              /\ \A h \in Shared : Data[h] # Null => Counted(Data[h])

\* Every object in memory is counted or has one unique owner, never both and
\* never neither; nothing that is owned is gone.
OwnedOnce ==
    AtRest =>
        /\ alive = DOMAIN RefMap \cup ({unique[u] : u \in Uniques} \ {Null})
        /\ \A u \in Uniques : ~Counted(unique[u])
        /\ \A u, v \in Uniques : u # v /\ unique[u] = unique[v] => unique[u] = Null

\* However destructors nest, no object is freed twice and no handle releases
\* what is not counted (the assertion of line 610).
ReleasedOnce == fault \notin {"uncounted", "freed twice"}

\* A weak handle is not valid any more when its object's destructor begins,
\* and stays invalid until the address is used again.
Dying == {todo[k].h : k \in {j \in DOMAIN todo : todo[j].do = "free"}}
WeakIsSafe == \A w \in Weaks : WeakValid(w) => weak[w] \in alive \ Dying

\* To assign what only the assigned handle keeps alive, h = h->next, reads a
\* member of an object just deleted, and h.Reset(h->next.Get()) holds one.
\* Nothing else goes wrong: not from a variable, and not from h.Reset(h->next).
SafeSources ==
    fault \in {"dead source", "dead object"} =>
        LET call == todo[Len(todo)] IN
        call.h \in {"copy", "move", "resetRaw"} /\ call.of \notin Locals
=============================================================================
