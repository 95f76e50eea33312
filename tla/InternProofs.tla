---------------------------- MODULE InternProofs ----------------------------
(***************************************************************************)
(* For any threads, pools, values and bounds: interning is canonical, its  *)
(* memory is bounded by the distinct values, and it implements InternSpec. *)
(***************************************************************************)
EXTENDS Intern, TLAPS

(***************************************************************************)
(* A thread inside intern() has a value to intern.                         *)
(***************************************************************************)
Busy == \A t \in Thread : pc[t] # "idle" => todo[t] # << >>

(***************************************************************************)
(* A thread is in the critical section of a pool exactly when it owns the  *)
(* pool's mutex: two threads never are in the same one.                    *)
(***************************************************************************)
Owns(t, p) == pc[t] \in Critical /\ PoolOf(Current(t)) = p
MutexInv == \A t \in Thread, p \in Pool : Owns(t, p) <=> lock[p] = t

(***************************************************************************)
(* What the owner has established about its value at each step.            *)
(***************************************************************************)
SectionInv ==
    \A t \in Thread :
        /\ pc[t] = "insert" => pool[Current(t)] = 0 /\ fresh[t] # 0
        /\ pc[t] = "return" => pool[Current(t)] = fresh[t] /\ fresh[t] # 0

(***************************************************************************)
(* Every reference handed out is the pool's, so the pool cannot change.    *)
(***************************************************************************)
RefsInv == \A r \in refs : r[2] = pool[r[1]] /\ r[2] # 0

(***************************************************************************)
(* Every leak is accounted for: the one in the pool, those a panic lost,   *)
(* and the one a thread is about to insert.                                *)
(***************************************************************************)
Inserting(i) == \E t \in Thread : pc[t] = "insert" /\ Current(t) = i
LeakInv ==
    \A i \in Item :
        /\ pool[i] # 0 \/ Inserting(i) => leaked[i] = lost[i] + 1
        /\ ~(pool[i] # 0 \/ Inserting(i)) => leaked[i] = lost[i]

IInv == TypeOK /\ Busy /\ MutexInv /\ SectionInv /\ RefsInv /\ LeakInv

-----------------------------------------------------------------------------
(* The current value of a thread inside intern() is an item of some pool. *)
LEMMA CurrentItem ==
  ASSUME TypeOK, Busy, NEW t \in Thread, pc[t] # "idle"
  PROVE  Current(t) \in Item /\ PoolOf(Current(t)) \in Pool /\ Tail(todo[t]) \in Seq(Item)
<1>1. todo[t] \in Seq(Item) /\ todo[t] # << >>
  BY DEF TypeOK, Busy
<1>2. Head(todo[t]) \in Item /\ Tail(todo[t]) \in Seq(Item)
  BY <1>1
<1>3. QED
  BY <1>2, ItemAssumption DEF Current, PoolOf

(* A thread in a critical section owns the mutex of its value's pool, so no other
   thread is in the section of that pool, nor working on that value. *)
LEMMA Exclusive ==
  ASSUME TypeOK, Busy, MutexInv, NEW t \in Thread, NEW u \in Thread, u # t,
         pc[t] \in Critical, pc[u] \in Critical
  PROVE  PoolOf(Current(u)) # PoolOf(Current(t)) /\ Current(u) # Current(t)
<1>1. PoolOf(Current(t)) \in Pool
  BY CurrentItem DEF Critical
<1>2. lock[PoolOf(Current(t))] = t
  BY <1>1 DEF MutexInv, Owns
<1>3. PoolOf(Current(u)) # PoolOf(Current(t))
  BY <1>1, <1>2 DEF MutexInv, Owns
<1>4. QED
  BY <1>3

(* BeginParse: a thread outside the section takes up a plan. *)
LEMMA BeginParseStep ==
  ASSUME IInv, NEW t \in Thread, BeginParse(t)
  PROVE  IInv'
<1> USE DEF BeginParse, Transition
<1>1. PICK plan \in Plan : todo' = [todo EXCEPT ![t] = plan]
  OBVIOUS
<1>2. plan \in Seq(Item) /\ plan # << >>
  BY PlanAssumption
<1>3. TypeOK'
  <2>1. todo' \in [Thread -> Seq(Item)] /\ pc' \in [Thread -> Critical \cup {"idle", "lock"}]
    BY <1>1, <1>2 DEF IInv, TypeOK
  <2>2. \A u \in Thread : pc'[u] = "idle" => todo'[u] = << >>
    BY <1>1 DEF IInv, TypeOK
  <2>3. parses' \in [Thread -> Nat]
    BY DEF IInv, TypeOK
  <2>4. QED
    BY <2>1, <2>2, <2>3 DEF IInv, TypeOK
<1>4. Busy'
  BY <1>1, <1>2 DEF IInv, TypeOK, Busy
<1>5. MutexInv'
  <2>1. pc[t] \notin Critical /\ pc'[t] \notin Critical
    BY DEF IInv, TypeOK, Critical
  <2>2. \A u \in Thread \ {t} : pc'[u] = pc[u] /\ todo'[u] = todo[u]
    BY <1>1 DEF IInv, TypeOK
  <2>3. QED
    BY <2>1, <2>2 DEF IInv, MutexInv, Owns, Current
<1>6. SectionInv'
  BY <1>1 DEF IInv, TypeOK, SectionInv, Current
<1>7. RefsInv'
  BY DEF IInv, RefsInv
<1>8. LeakInv'
  <2>1. \A i \in Item : Inserting(i)' <=> Inserting(i)
    BY <1>1 DEF IInv, TypeOK, Inserting, Current
  <2>2. QED
    BY <2>1 DEF IInv, LeakInv
<1>9. QED
  BY <1>3, <1>4, <1>5, <1>6, <1>7, <1>8 DEF IInv

(* Lock: the mutex was free, so nobody was in the section it opens. *)
LEMMA LockStep ==
  ASSUME IInv, NEW t \in Thread, Lock(t)
  PROVE  IInv'
<1> USE DEF Lock, Transition
<1>1. Current(t) \in Item /\ PoolOf(Current(t)) \in Pool
  BY CurrentItem DEF IInv
<1>2. TypeOK'
  BY <1>1 DEF IInv, TypeOK, Critical
<1>3. Busy'
  BY DEF IInv, TypeOK, Busy
<1>4. MutexInv'
  <2>1. ASSUME NEW u \in Thread, NEW p \in Pool PROVE Owns(u, p)' <=> lock'[p] = u
    <3>1. CASE u = t
      BY <1>1, <3>1 DEF IInv, TypeOK, MutexInv, Owns, Current, Critical
    <3>2. CASE u # t
      <4>1. pc'[u] = pc[u] /\ todo'[u] = todo[u]
        BY <3>2 DEF IInv, TypeOK
      <4>2. lock'[p] = u <=> lock[p] = u
        BY <1>1, <3>2, NobodyAssumption DEF IInv, TypeOK
      <4>3. QED
        BY <4>1, <4>2 DEF IInv, MutexInv, Owns, Current
    <3>3. QED
      BY <3>1, <3>2
  <2>2. QED
    BY <2>1 DEF MutexInv
<1>5. SectionInv'
  BY DEF IInv, TypeOK, SectionInv, Current
<1>6. RefsInv'
  BY DEF IInv, RefsInv
<1>7. LeakInv'
  <2>1. \A i \in Item : Inserting(i)' <=> Inserting(i)
    BY DEF IInv, TypeOK, Inserting, Current
  <2>2. QED
    BY <2>1 DEF IInv, LeakInv
<1>8. QED
  BY <1>2, <1>3, <1>4, <1>5, <1>6, <1>7 DEF IInv

(* The owner leaves the section: what Hit, Return and Panic have in common. *)
LEMMA Release ==
  ASSUME TypeOK, Busy, MutexInv, NEW t \in Thread, pc[t] \in Critical,
         lock' = [lock EXCEPT ![PoolOf(Current(t))] = Nobody],
         pc'[t] \notin Critical,
         \A u \in Thread \ {t} : pc'[u] = pc[u] /\ todo'[u] = todo[u]
  PROVE  MutexInv'
<1>1. PoolOf(Current(t)) \in Pool
  BY CurrentItem DEF Critical
<1>2. lock[PoolOf(Current(t))] = t
  BY <1>1 DEF MutexInv, Owns
<1>3. ASSUME NEW u \in Thread, NEW p \in Pool PROVE Owns(u, p)' <=> lock'[p] = u
  <2>1. CASE u = t
    <3>1. lock'[p] # t
      <4>1. CASE p = PoolOf(Current(t))
        BY <1>1, <4>1, NobodyAssumption DEF TypeOK
      <4>2. CASE p # PoolOf(Current(t))
        <5>1. lock'[p] = lock[p]
          BY <4>2 DEF TypeOK
        <5>2. lock[p] # t
          BY <4>2 DEF MutexInv, Owns
        <5>3. QED
          BY <5>1, <5>2
      <4>3. QED
        BY <4>1, <4>2
    <3>2. QED
      BY <2>1, <3>1 DEF Owns
  <2>2. CASE u # t
    <3>1. lock'[p] = u <=> lock[p] = u
      BY <1>1, <1>2, <2>2, NobodyAssumption DEF TypeOK
    <3>2. QED
      BY <2>2, <3>1 DEF MutexInv, Owns, Current
  <2>3. QED
    BY <2>1, <2>2
<1>4. QED
  BY <1>3 DEF MutexInv

(* Handing out the pool's own allocation, which Hit and Return both do. *)
LEMMA HandOutStep ==
  ASSUME IInv, NEW t \in Thread, pc[t] \in {"lookup", "return"},
         pool[Current(t)] # 0, HandOut(t, pool[Current(t)]),
         UNCHANGED <<poisoned, pool, leaked, lost, fresh, parses, panics>>
  PROVE  IInv'
<1>1. Current(t) \in Item /\ PoolOf(Current(t)) \in Pool /\ Tail(todo[t]) \in Seq(Item)
  BY CurrentItem DEF IInv
<1>2. refs' = refs \cup {<<Current(t), pool[Current(t)]>>}
  BY DEF HandOut
<1>3. TypeOK'
  <2>1. lock' \in [Pool -> Thread \cup {Nobody}]
    BY DEF IInv, TypeOK, HandOut
  <2>2. refs' \subseteq Item \X Nat
    BY <1>1, <1>2 DEF IInv, TypeOK
  <2>3. todo' \in [Thread -> Seq(Item)]
    BY <1>1 DEF IInv, TypeOK, HandOut
  <2>4. pc' \in [Thread -> Critical \cup {"idle", "lock"}]
    BY DEF IInv, TypeOK, HandOut
  <2>5. \A u \in Thread : pc'[u] = "idle" => todo'[u] = << >>
    BY DEF IInv, TypeOK, HandOut
  <2>6. QED
    BY <2>1, <2>2, <2>3, <2>4, <2>5 DEF IInv, TypeOK
<1>4. Busy'
  <2>1. ASSUME NEW u \in Thread, pc'[u] # "idle" PROVE todo'[u] # << >>
    BY <2>1 DEF IInv, TypeOK, Busy, HandOut
  <2>2. QED
    BY <2>1 DEF Busy
<1>5. pc'[t] \in {"idle", "lock"}
  BY DEF IInv, TypeOK, HandOut
<1>6. \A u \in Thread \ {t} : pc'[u] = pc[u] /\ todo'[u] = todo[u]
  BY DEF IInv, TypeOK, HandOut
<1>7. MutexInv'
  <2>1. pc[t] \in Critical /\ pc'[t] \notin Critical
    BY <1>5 DEF Critical
  <2>2. lock' = [lock EXCEPT ![PoolOf(Current(t))] = Nobody]
    BY DEF HandOut
  <2>3. QED
    BY <1>6, <2>1, <2>2, Release DEF IInv
<1>8. SectionInv'
  <2>1. ASSUME NEW u \in Thread
        PROVE  /\ pc'[u] = "insert" => pool'[Current(u)'] = 0 /\ fresh'[u] # 0
               /\ pc'[u] = "return" => pool'[Current(u)'] = fresh'[u] /\ fresh'[u] # 0
    <3>1. CASE u = t
      BY <3>1, <1>5
    <3>2. CASE u # t
      BY <3>2, <1>6 DEF IInv, SectionInv, Current
    <3>3. QED
      BY <3>1, <3>2
  <2>2. QED
    BY <2>1 DEF SectionInv, Current
<1>9. RefsInv'
  <2>1. ASSUME NEW r \in refs' PROVE r[2] = pool[r[1]] /\ r[2] # 0
    BY <1>2, <2>1 DEF IInv, RefsInv
  <2>2. QED
    BY <2>1 DEF RefsInv
<1>10. LeakInv'
  <2>1. \A i \in Item : Inserting(i)' <=> Inserting(i)
    BY <1>5, <1>6 DEF Inserting, Current
  <2>2. QED
    BY <2>1 DEF IInv, LeakInv
<1>11. QED
  BY <1>3, <1>4, <1>7, <1>8, <1>9, <1>10 DEF IInv

(* Leak: only one thread works on a value, so the leak is its only pending one. *)
LEMMA LeakStep ==
  ASSUME IInv, NEW t \in Thread, Leak(t)
  PROVE  IInv'
<1> USE DEF Leak, Transition
<1>1. Current(t) \in Item /\ PoolOf(Current(t)) \in Pool
  BY CurrentItem DEF IInv
<1>2. TypeOK'
  BY <1>1, SMTT(30) DEF IInv, TypeOK, Critical
<1>3. Busy'
  BY DEF IInv, TypeOK, Busy
<1>4. MutexInv'
  <2>1. \A u \in Thread : pc'[u] \in Critical <=> pc[u] \in Critical
    BY DEF IInv, TypeOK, Critical
  <2>2. QED
    BY <2>1 DEF IInv, MutexInv, Owns, Current
<1>5. SectionInv'
  BY <1>1 DEF IInv, TypeOK, SectionInv, Current
<1>6. RefsInv'
  BY DEF IInv, RefsInv
<1>7. LeakInv'
  <2>1. ~Inserting(Current(t))
    BY Exclusive DEF IInv, Inserting, Critical
  <2>2. \A i \in Item \ {Current(t)} : Inserting(i)' <=> Inserting(i)
    BY DEF IInv, TypeOK, Inserting, Current
  <2>3. leaked'[Current(t)] = lost[Current(t)] + 1
    <3>1. leaked[Current(t)] = lost[Current(t)]
      BY <1>1, <2>1 DEF IInv, LeakInv
    <3>2. QED
      BY <1>1, <3>1 DEF IInv, TypeOK
  <2>4. ASSUME NEW i \in Item
        PROVE  /\ pool'[i] # 0 \/ Inserting(i)' => leaked'[i] = lost'[i] + 1
               /\ ~(pool'[i] # 0 \/ Inserting(i)') => leaked'[i] = lost'[i]
    <3>1. CASE i = Current(t)
      <4>1. Inserting(i)'
        BY <3>1 DEF IInv, TypeOK, Inserting, Current
      <4>2. QED
        BY <3>1, <4>1, <2>3
    <3>2. CASE i # Current(t)
      BY <3>2, <2>2 DEF IInv, TypeOK, LeakInv
    <3>3. QED
      BY <3>1, <3>2
  <2>5. QED
    BY <2>4 DEF LeakInv
<1>8. QED
  BY <1>2, <1>3, <1>4, <1>5, <1>6, <1>7 DEF IInv

(* Insert: the pool had nothing under the value, so no reference changes its meaning. *)
LEMMA InsertStep ==
  ASSUME IInv, NEW t \in Thread, Insert(t)
  PROVE  IInv'
<1> USE DEF Insert, Transition
<1>1. Current(t) \in Item /\ PoolOf(Current(t)) \in Pool
  BY CurrentItem DEF IInv
<1>2. pool[Current(t)] = 0 /\ fresh[t] # 0
  BY DEF IInv, SectionInv
<1>3. pool'[Current(t)] = fresh[t] /\ \A i \in Item \ {Current(t)} : pool'[i] = pool[i]
  BY <1>1 DEF IInv, TypeOK
<1>4. TypeOK'
  BY <1>1 DEF IInv, TypeOK, Critical
<1>5. Busy'
  BY DEF IInv, TypeOK, Busy
<1>6. pc'[t] = "return" /\ \A u \in Thread \ {t} : pc'[u] = pc[u]
  BY DEF IInv, TypeOK
<1>7. MutexInv'
  <2>1. \A u \in Thread : pc'[u] \in Critical <=> pc[u] \in Critical
    BY DEF IInv, TypeOK, Critical
  <2>2. QED
    BY <2>1 DEF IInv, MutexInv, Owns, Current
<1>8. SectionInv'
  <2>1. ASSUME NEW u \in Thread
        PROVE  /\ pc'[u] = "insert" => pool'[Current(u)'] = 0 /\ fresh'[u] # 0
               /\ pc'[u] = "return" => pool'[Current(u)'] = fresh'[u] /\ fresh'[u] # 0
    <3>1. Current(u)' = Current(u)
      BY DEF Current
    <3>2. CASE u = t
      BY <3>1, <3>2, <1>2, <1>3, <1>6
    <3>3. CASE u # t /\ pc[u] \in Critical
      <4>1. Current(u) \in Item /\ Current(u) # Current(t)
        BY <3>3, Exclusive, CurrentItem DEF IInv, Critical
      <4>2. QED
        BY <3>1, <3>3, <4>1, <1>3, <1>6 DEF IInv, SectionInv
    <3>4. CASE u # t /\ pc[u] \notin Critical
      BY <3>4, <1>6 DEF Critical
    <3>5. QED
      BY <3>2, <3>3, <3>4
  <2>2. QED
    BY <2>1 DEF SectionInv, Current
<1>9. RefsInv'
  <2>1. ASSUME NEW r \in refs PROVE r[2] = pool'[r[1]] /\ r[2] # 0
    <3>1. r[1] \in Item /\ r[2] = pool[r[1]] /\ r[2] # 0
      BY DEF IInv, TypeOK, RefsInv
    <3>2. r[1] # Current(t)
      BY <3>1, <1>2
    <3>3. QED
      BY <3>1, <3>2, <1>3
  <2>2. QED
    BY <2>1 DEF RefsInv
<1>10. LeakInv'
  <2>1. Inserting(Current(t))
    BY DEF Inserting
  <2>2. \A i \in Item \ {Current(t)} : Inserting(i)' <=> Inserting(i)
    BY DEF IInv, TypeOK, Inserting, Current
  <2>3. ASSUME NEW i \in Item
        PROVE  /\ pool'[i] # 0 \/ Inserting(i)' => leaked'[i] = lost'[i] + 1
               /\ ~(pool'[i] # 0 \/ Inserting(i)') => leaked'[i] = lost'[i]
    <3>1. CASE i = Current(t)
      BY <3>1, <1>2, <1>3, <2>1 DEF IInv, LeakInv
    <3>2. CASE i # Current(t)
      BY <3>2, <1>3, <2>2 DEF IInv, LeakInv
    <3>3. QED
      BY <3>1, <3>2
  <2>4. QED
    BY <2>3 DEF LeakInv
<1>11. QED
  BY <1>4, <1>5, <1>7, <1>8, <1>9, <1>10 DEF IInv

(* Panic: the mutex is released, and a leak the thread had pending becomes a lost one. *)
LEMMA PanicStep ==
  ASSUME IInv, NEW t \in Thread, Panic(t)
  PROVE  IInv'
<1> USE DEF Panic
<1>1. Current(t) \in Item /\ PoolOf(Current(t)) \in Pool
  BY CurrentItem DEF IInv
<1>2. pc[t] \in Critical
  BY DEF Critical
<1>3. pc'[t] = "idle" /\ \A u \in Thread \ {t} : pc'[u] = pc[u] /\ todo'[u] = todo[u]
  BY DEF IInv, TypeOK
<1>4. TypeOK'
  <2>1. lost' \in [Item -> Nat]
    BY <1>1 DEF IInv, TypeOK
  <2>2. lock' \in [Pool -> Thread \cup {Nobody}] /\ poisoned' \in [Pool -> BOOLEAN]
    BY <1>1 DEF IInv, TypeOK
  <2>3. pc' \in [Thread -> Critical \cup {"idle", "lock"}] /\ todo' \in [Thread -> Seq(Item)]
    BY DEF IInv, TypeOK
  <2>4. panics' \in Nat
    BY DEF IInv, TypeOK
  <2>5. QED
    BY <2>1, <2>2, <2>3, <2>4 DEF IInv, TypeOK
<1>5. Busy'
  BY <1>3 DEF IInv, Busy
<1>6. MutexInv'
  BY <1>2, <1>3, Release DEF IInv, Critical
<1>7. SectionInv'
  <2>1. ASSUME NEW u \in Thread
        PROVE  /\ pc'[u] = "insert" => pool'[Current(u)'] = 0 /\ fresh'[u] # 0
               /\ pc'[u] = "return" => pool'[Current(u)'] = fresh'[u] /\ fresh'[u] # 0
    <3>1. CASE u = t
      BY <3>1, <1>3
    <3>2. CASE u # t
      BY <3>2, <1>3 DEF IInv, SectionInv, Current
    <3>3. QED
      BY <3>1, <3>2
  <2>2. QED
    BY <2>1 DEF SectionInv, Current
<1>8. RefsInv'
  BY DEF IInv, RefsInv
<1>9. LeakInv'
  <2>1. ASSUME NEW i \in Item, i = Current(t) PROVE ~Inserting(i)'
    <3>1. ASSUME NEW u \in Thread, pc'[u] = "insert" PROVE Current(u)' # i
      <4>1. u # t /\ pc[u] = "insert" /\ Current(u)' = Current(u)
        BY <1>3, <3>1 DEF Current
      <4>2. QED
        BY <2>1, <4>1, <1>2, Exclusive DEF IInv, Critical
    <3>2. QED
      BY <3>1 DEF Inserting
  <2>2. Inserting(Current(t)) <=> pc[t] = "insert"
    BY <1>2, Exclusive DEF IInv, Inserting, Critical
  <2>3. \A i \in Item \ {Current(t)} : Inserting(i)' <=> Inserting(i)
    BY <1>3 DEF Inserting, Current
  <2>4. pc[t] = "insert" => pool[Current(t)] = 0
    BY DEF IInv, SectionInv
  <2>5. ASSUME NEW i \in Item
        PROVE  /\ pool'[i] # 0 \/ Inserting(i)' => leaked'[i] = lost'[i] + 1
               /\ ~(pool'[i] # 0 \/ Inserting(i)') => leaked'[i] = lost'[i]
    <3>1. CASE i = Current(t)
      <4>1. CASE pc[t] = "insert"
        <5>1. lost'[i] = lost[i] + 1
          BY <3>1, <4>1, <1>1 DEF IInv, TypeOK
        <5>2. leaked[i] = lost[i] + 1 /\ pool[i] = 0
          BY <3>1, <4>1, <2>2, <2>4 DEF IInv, LeakInv
        <5>3. QED
          BY <3>1, <2>1, <5>1, <5>2
      <4>2. CASE pc[t] = "lookup"
        <5>1. lost'[i] = lost[i]
          BY <3>1, <4>2, <1>1 DEF IInv, TypeOK
        <5>2. ~Inserting(i)
          BY <3>1, <4>2, <2>2
        <5>3. QED
          BY <3>1, <2>1, <5>1, <5>2 DEF IInv, LeakInv
      <4>3. QED
        BY <4>1, <4>2
    <3>2. CASE i # Current(t)
      BY <3>2, <2>3 DEF IInv, TypeOK, LeakInv
    <3>3. QED
      BY <3>1, <3>2
  <2>6. QED
    BY <2>5 DEF LeakInv
<1>10. QED
  BY <1>4, <1>5, <1>6, <1>7, <1>8, <1>9 DEF IInv

(* Return hands out the allocation just inserted, which is now the pool's. *)
LEMMA ReturnStep ==
  ASSUME IInv, NEW t \in Thread, Return(t)
  PROVE  pool[Current(t)] # 0 /\ HandOut(t, pool[Current(t)])
BY DEF Return, IInv, SectionInv

-----------------------------------------------------------------------------
(* The invariant is inductive. *)
LEMMA IInvInit == Init => IInv
<1> SUFFICES ASSUME Init PROVE IInv
  OBVIOUS
<1> USE DEF Init
<1>1. TypeOK
  BY DEF TypeOK
<1>2. Busy
  BY DEF Busy
<1>3. MutexInv
  BY NobodyAssumption DEF MutexInv, Owns, Critical
<1>4. SectionInv
  BY ZenonT(40) DEF SectionInv
<1>5. RefsInv
  BY DEF RefsInv
<1>6. LeakInv
  BY DEF LeakInv, Inserting
<1>7. QED
  BY <1>1, <1>2, <1>3, <1>4, <1>5, <1>6 DEF IInv

\* Every step keeps the invariant.
LEMMA IInvNext == IInv /\ [Next]_vars => IInv'
<1> SUFFICES ASSUME IInv, [Next]_vars PROVE IInv'
  OBVIOUS
<1>1. ASSUME NEW t \in Thread, BeginParse(t) PROVE IInv'
  BY <1>1, BeginParseStep
<1>2. ASSUME NEW t \in Thread, Lock(t) PROVE IInv'
  BY <1>2, LockStep
<1>3. ASSUME NEW t \in Thread, Hit(t) PROVE IInv'
  BY <1>3, HandOutStep DEF Hit
<1>4. ASSUME NEW t \in Thread, Leak(t) PROVE IInv'
  BY <1>4, LeakStep
<1>5. ASSUME NEW t \in Thread, Insert(t) PROVE IInv'
  BY <1>5, InsertStep
<1>6. ASSUME NEW t \in Thread, Return(t) PROVE IInv'
  BY <1>6, ReturnStep, HandOutStep DEF Return
<1>7. ASSUME NEW t \in Thread, Panic(t) PROVE IInv'
  BY <1>7, PanicStep
<1>8. ASSUME UNCHANGED vars PROVE IInv'
  BY <1>8 DEF vars, IInv, TypeOK, Busy, MutexInv, SectionInv, RefsInv, LeakInv, Owns, Inserting, Current
<1>9. QED
  BY <1>1, <1>2, <1>3, <1>4, <1>5, <1>6, <1>7, <1>8 DEF Next, Step

\* The invariant holds of every state.
LEMMA Invariance == Spec => []IInv
  BY IInvInit, IInvNext, PTL DEF Spec

-----------------------------------------------------------------------------
(* Every variable of the interning model keeps its type, for any threads, pools and plans. *)
THEOREM InternTypeCorrect == Spec => []TypeOK
<1>1. IInv => TypeOK
  BY DEF IInv
<1>2. QED
  BY Invariance, <1>1, PTL

(* Two callers that intern the same value hold the same allocation (`intern`): both
   references are the pool's, and the pool's entry is never overwritten. *)
THEOREM InternCanonical == Spec => []Canonical
<1>1. IInv => Canonical
  BY DEF IInv, RefsInv, Canonical
<1>2. QED
  BY Invariance, <1>1, PTL

(* A value is leaked once, and once more for each panic between its leak and its
   insert: memory is bounded by the distinct values, not by the calls. *)
THEOREM InternLeakBound == Spec => []LeakBound
<1>1. IInv => LeakBound
  <2>1. ASSUME IInv, NEW i \in Item PROVE leaked[i] <= 1 + lost[i]
    <3>1. leaked[i] = lost[i] \/ leaked[i] = lost[i] + 1
      BY <2>1 DEF IInv, LeakInv
    <3>2. lost[i] \in Nat
      BY <2>1 DEF IInv, TypeOK
    <3>3. QED
      BY <3>1, <3>2
  <2>2. QED
    BY <2>1 DEF LeakBound
<1>2. QED
  BY Invariance, <1>1, PTL

-----------------------------------------------------------------------------
(* Every step of the pools is a step of the write-once table, or a stutter. *)
LEMMA AbstractStep == IInv /\ [Next]_vars => [Abstract!Next]_(Abstract!vars)
<1> SUFFICES ASSUME IInv, [Next]_vars PROVE [Abstract!Next]_(Abstract!vars)
  OBVIOUS
<1> USE DEF Abstract!Next, Abstract!vars
<1>1. ASSUME NEW t \in Thread, BeginParse(t) PROVE UNCHANGED <<pool, refs>>
  BY <1>1 DEF BeginParse
<1>2. ASSUME NEW t \in Thread, Lock(t) PROVE UNCHANGED <<pool, refs>>
  BY <1>2 DEF Lock
<1>3. ASSUME NEW t \in Thread, Hit(t) PROVE Abstract!Give(Current(t)) /\ Current(t) \in Item
  <2>1. Current(t) \in Item
    BY <1>3, CurrentItem DEF Hit, IInv
  <2>2. QED
    BY <1>3, <2>1 DEF Hit, HandOut, Abstract!Give
<1>4. ASSUME NEW t \in Thread, Leak(t) PROVE UNCHANGED <<pool, refs>>
  BY <1>4 DEF Leak
<1>5. ASSUME NEW t \in Thread, Insert(t) PROVE Abstract!Define(Current(t)) /\ Current(t) \in Item
  <2>1. Current(t) \in Item
    BY <1>5, CurrentItem DEF Insert, Transition, IInv
  <2>2. pool[Current(t)] = 0 /\ fresh[t] # 0
    BY <1>5 DEF IInv, SectionInv, Insert, Transition
  <2>3. pool'[Current(t)] = fresh[t] /\ pool' = [pool EXCEPT ![Current(t)] = fresh[t]]
    BY <1>5, <2>1 DEF IInv, TypeOK, Insert
  <2>4. QED
    BY <1>5, <2>1, <2>2, <2>3 DEF Insert, Abstract!Define
<1>6. ASSUME NEW t \in Thread, Return(t) PROVE Abstract!Give(Current(t)) /\ Current(t) \in Item
  <2>1. Current(t) \in Item
    BY <1>6, CurrentItem DEF Return, IInv
  <2>2. QED
    BY <1>6, <2>1, ReturnStep DEF Return, HandOut, Abstract!Give
<1>7. ASSUME NEW t \in Thread, Panic(t) PROVE UNCHANGED <<pool, refs>>
  BY <1>7 DEF Panic
<1>8. ASSUME UNCHANGED vars PROVE UNCHANGED <<pool, refs>>
  BY <1>8 DEF vars
<1>9. QED
  BY <1>1, <1>2, <1>3, <1>4, <1>5, <1>6, <1>7, <1>8 DEF Next, Step

(* The pools implement InternSpec: a value gets one allocation, once and for ever, and
   everyone who asks for it is handed that one. *)
THEOREM InternRefines == Spec => ImplementsInternSpec
<1>1. Init => Abstract!Init
  BY DEF Init, Abstract!Init
<1>2. QED
  BY <1>1, Invariance, AbstractStep, PTL DEF Spec, ImplementsInternSpec, Abstract!Spec
=============================================================================
