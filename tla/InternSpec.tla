----------------------------- MODULE InternSpec -----------------------------
(***************************************************************************)
(* What interning promises (crates/addr/src/coins.rs, the doc of `intern`):*)
(* each distinct value is given one allocation, once and for ever, and     *)
(* everyone who asks for the value is handed that allocation.              *)
(***************************************************************************)
EXTENDS Naturals

CONSTANT Item        \* the distinct values ever interned

VARIABLES
    table,           \* the allocation each value has, 0 while it has none
    refs             \* the <<value, allocation>> references handed out so far

vars == <<table, refs>>

Init ==
    /\ table = [i \in Item |-> 0]
    /\ refs = {}

\* A value without an allocation is given one.
Define(i) ==
    /\ table[i] = 0
    /\ table'[i] # 0
    /\ table' = [table EXCEPT ![i] = table'[i]]
    /\ UNCHANGED refs

\* A caller is handed the allocation of a value that has one.
Give(i) ==
    /\ table[i] # 0
    /\ refs' = refs \cup {<<i, table[i]>>}
    /\ UNCHANGED table

Next == \E i \in Item : Define(i) \/ Give(i)

Spec == Init /\ [][Next]_vars
=============================================================================
