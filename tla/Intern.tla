------------------------------- MODULE Intern -------------------------------
(***************************************************************************)
(* The two process-wide intern pools of crates/addr/src/coins.rs.          *)
(*                                                                         *)
(* `parse_token` is public and may be called from any thread.  Each call   *)
(* interns a sequence of values, each in the pool of its type (`intern`    *)
(* for strings, `intern_bytes` for version prefixes): take the pool's      *)
(* mutex, look the value up, and on a miss leak a copy and insert it.  The *)
(* pools' OnceLock initialisation is the standard library's and is taken   *)
(* as done.                                                                *)
(*                                                                         *)
(* Box::leak and HashSet::insert are separate steps of the critical        *)
(* section, because a panic may fall between them: it then unwinds through *)
(* the guard, which releases the mutex and marks it poisoned.              *)
(***************************************************************************)
EXTENDS Naturals, Sequences

CONSTANTS
    Thread,          \* the threads that parse tokens
    Nobody,          \* the owner of a free mutex
    Pool,            \* the static pools
    Item,            \* the distinct values, each tagged with its pool: <<pool, value>>
    Plan,            \* what one parse interns: a set of non-empty sequences of items
    MaxParses,       \* bound: parses started by one thread
    MaxPanics        \* bound: panics inside a critical section, over all threads

ASSUME NobodyAssumption == Nobody \notin Thread
ASSUME ItemAssumption == \A i \in Item : i[1] \in Pool
ASSUME PlanAssumption == Plan \subseteq Seq(Item) \ {<< >>}
ASSUME BoundAssumption == MaxParses \in Nat /\ MaxPanics \in Nat

VARIABLES
    lock,            \* the owner of each pool's mutex
    poisoned,        \* whether the mutex is poisoned
    pool,            \* the allocation the pool holds for each item, 0 if none
    leaked,          \* how many times each item has been leaked: the process's memory
    lost,            \* of these, how many a panic kept out of the pool
    refs,            \* the <<item, allocation>> references handed to callers so far
    pc,              \* where each thread is inside intern()
    todo,            \* the items its parse still has to intern, the current one first
    fresh,           \* the allocation it has leaked and not yet inserted
    parses,          \* how many parses it has started
    panics           \* how many panics there have been

vars == <<lock, poisoned, pool, leaked, lost, refs, pc, todo, fresh, parses, panics>>

-----------------------------------------------------------------------------

Current(t) == Head(todo[t])
PoolOf(i)  == i[1]

Critical == {"lookup", "insert", "return"}

Transition(t, from, to) ==
    /\ pc[t] = from
    /\ pc' = [pc EXCEPT ![t] = to]

\* The guard is dropped and the reference returned; parse_token goes on to its
\* next value, or is done.
HandOut(t, alloc) ==
    /\ refs' = refs \cup {<<Current(t), alloc>>}
    /\ lock' = [lock EXCEPT ![PoolOf(Current(t))] = Nobody]
    /\ todo' = [todo EXCEPT ![t] = Tail(@)]
    /\ pc' = [pc EXCEPT ![t] = IF Tail(todo[t]) = << >> THEN "idle" ELSE "lock"]

-----------------------------------------------------------------------------

\* A call of parse_token that reaches its first intern.
BeginParse(t) ==
    /\ parses[t] < MaxParses
    /\ parses' = [parses EXCEPT ![t] = @ + 1]
    /\ \E plan \in Plan : todo' = [todo EXCEPT ![t] = plan]
    /\ Transition(t, "idle", "lock")
    /\ UNCHANGED <<lock, poisoned, pool, leaked, lost, refs, fresh, panics>>

\* Mutation: the look-up is made without waiting for the mutex.
LockUnheld(t) ==
    /\ Transition(t, "lock", "lookup")
    /\ UNCHANGED <<lock, poisoned, pool, leaked, lost, refs, todo, fresh, parses, panics>>

\* Mutation: a poisoned mutex is an error, as after a plain `lock().unwrap()`.
LockUnlessPoisoned(t) ==
    /\ Transition(t, "lock", "lookup")
    /\ ~poisoned[PoolOf(Current(t))]
    /\ lock[PoolOf(Current(t))] = Nobody
    /\ lock' = [lock EXCEPT ![PoolOf(Current(t))] = t]
    /\ UNCHANGED <<poisoned, pool, leaked, lost, refs, todo, fresh, parses, panics>>

\* pool.lock().unwrap_or_else(into_inner): a poisoned mutex is taken all the same.
Lock(t) ==
    /\ Transition(t, "lock", "lookup")
    /\ lock[PoolOf(Current(t))] = Nobody
    /\ lock' = [lock EXCEPT ![PoolOf(Current(t))] = t]
    /\ UNCHANGED <<poisoned, pool, leaked, lost, refs, todo, fresh, parses, panics>>

\* The early return on a hit.
Hit(t) ==
    /\ pc[t] = "lookup"
    /\ pool[Current(t)] # 0
    /\ HandOut(t, pool[Current(t)])
    /\ UNCHANGED <<poisoned, pool, leaked, lost, fresh, parses, panics>>

\* Mutation: the bare Box::leak of each call, which interning replaced.
LeakAlways(t) ==
    /\ Transition(t, "lookup", "insert")
    /\ leaked' = [leaked EXCEPT ![Current(t)] = @ + 1]
    /\ fresh' = [fresh EXCEPT ![t] = leaked[Current(t)] + 1]
    /\ UNCHANGED <<lock, poisoned, pool, lost, refs, todo, parses, panics>>

\* Box::leak on a miss: a new allocation, distinct from the earlier ones.
Leak(t) ==
    /\ Transition(t, "lookup", "insert")
    /\ pool[Current(t)] = 0
    /\ leaked' = [leaked EXCEPT ![Current(t)] = @ + 1]
    /\ fresh' = [fresh EXCEPT ![t] = leaked[Current(t)] + 1]
    /\ UNCHANGED <<lock, poisoned, pool, lost, refs, todo, parses, panics>>

\* Mutation: the new allocation is returned and never inserted.
InsertForgotten(t) ==
    /\ Transition(t, "insert", "return")
    /\ UNCHANGED <<lock, poisoned, pool, leaked, lost, refs, todo, fresh, parses, panics>>

\* HashSet::insert of the leaked reference.
Insert(t) ==
    /\ Transition(t, "insert", "return")
    /\ pool' = [pool EXCEPT ![Current(t)] = fresh[t]]
    /\ UNCHANGED <<lock, poisoned, leaked, lost, refs, todo, fresh, parses, panics>>

Return(t) ==
    /\ pc[t] = "return"
    /\ HandOut(t, fresh[t])
    /\ UNCHANGED <<poisoned, pool, leaked, lost, fresh, parses, panics>>

\* Mutation: the abandoned parse is not cleared.
PanicKeepsParse(t) ==
    /\ pc[t] \in {"lookup", "insert"}
    /\ panics < MaxPanics
    /\ panics' = panics + 1
    /\ poisoned' = [poisoned EXCEPT ![PoolOf(Current(t))] = TRUE]
    /\ lock' = [lock EXCEPT ![PoolOf(Current(t))] = Nobody]
    /\ lost' = [lost EXCEPT ![Current(t)] = @ + (IF pc[t] = "insert" THEN 1 ELSE 0)]
    /\ pc' = [pc EXCEPT ![t] = "idle"]
    /\ UNCHANGED <<pool, leaked, refs, todo, fresh, parses>>

\* A panic inside the critical section, before the insert took effect: the mutex is
\* poisoned and released, and the caller's parse is abandoned.
Panic(t) ==
    /\ pc[t] \in {"lookup", "insert"}
    /\ panics < MaxPanics
    /\ panics' = panics + 1
    /\ poisoned' = [poisoned EXCEPT ![PoolOf(Current(t))] = TRUE]
    /\ lock' = [lock EXCEPT ![PoolOf(Current(t))] = Nobody]
    /\ lost' = [lost EXCEPT ![Current(t)] = @ + (IF pc[t] = "insert" THEN 1 ELSE 0)]
    /\ pc' = [pc EXCEPT ![t] = "idle"]
    /\ todo' = [todo EXCEPT ![t] = << >>]
    /\ UNCHANGED <<pool, leaked, refs, fresh, parses>>

-----------------------------------------------------------------------------

Init ==
    /\ lock = [p \in Pool |-> Nobody]
    /\ poisoned = [p \in Pool |-> FALSE]
    /\ pool = [i \in Item |-> 0]
    /\ leaked = [i \in Item |-> 0]
    /\ lost = [i \in Item |-> 0]
    /\ refs = {}
    /\ pc = [t \in Thread |-> "idle"]
    /\ todo = [t \in Thread |-> << >>]
    /\ fresh = [t \in Thread |-> 0]
    /\ parses = [t \in Thread |-> 0]
    /\ panics = 0

\* The steps of a parse under way.
Step(t) == Lock(t) \/ Hit(t) \/ Leak(t) \/ Insert(t) \/ Return(t)

Next == \E t \in Thread : BeginParse(t) \/ Step(t) \/ Panic(t)

Spec == Init /\ [][Next]_vars

\* The scheduler keeps running every thread that can run.  Nothing obliges a caller
\* to start a parse, or a thread to panic.
FairSpec == Spec /\ \A t \in Thread : WF_vars(Step(t))

-----------------------------------------------------------------------------
(* Properties *)

\* Types; and a thread outside a parse has nothing left of the last one.
TypeOK ==
    /\ lock \in [Pool -> Thread \cup {Nobody}]
    /\ poisoned \in [Pool -> BOOLEAN]
    /\ pool \in [Item -> Nat]
    /\ leaked \in [Item -> Nat]
    /\ lost \in [Item -> Nat]
    /\ refs \subseteq Item \X Nat
    /\ pc \in [Thread -> Critical \cup {"idle", "lock"}]
    /\ todo \in [Thread -> Seq(Item)]
    /\ fresh \in [Thread -> Nat]
    /\ parses \in [Thread -> Nat]
    /\ panics \in Nat
    /\ \A t \in Thread : pc[t] = "idle" => todo[t] = << >>

\* Two callers that intern the same value, on whatever threads and however far apart,
\* hold the same allocation (`intern`: "reusing the allocation if this exact value has
\* been interned before").
Canonical == \A r, s \in refs : r[1] = s[1] => r[2] = s[2]

\* Memory is bounded by the number of DISTINCT values, not by the number of calls: a value
\* is leaked once, plus once for each panic that fell between its leak and its insert.
LeakBound == \A i \in Item : leaked[i] <= 1 + lost[i]

\* Every parse that was begun ends, whichever threads panicked before it: a poisoned
\* mutex is not a reason to refuse a parse, and a panicking thread does not keep it.
ParseEnds == \A t \in Thread : pc[t] # "idle" ~> pc[t] = "idle"

\* The pools implement the write-once table of InternSpec.
Abstract == INSTANCE InternSpec WITH table <- pool
ImplementsInternSpec == Abstract!Spec
=============================================================================
