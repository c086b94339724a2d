------------------------------- MODULE KvSpec -------------------------------
(***************************************************************************)
(* What every engine promises (trait KvEngine, src/engine.rs), as the      *)
(* reference engine NaiveEngine states it in code (src/naive.rs): a map    *)
(* that each mutation changes at once.                                     *)
(***************************************************************************)
EXTENDS Messages

VARIABLES map,       \* the value of each key, NoValue when it is absent
          next_seq   \* the seqno of the last mutation

vars == <<next_seq, map>>

Init == map = [k \in Keys |-> NoValue] /\ next_seq = 0

Mutation(k, v) == next_seq' = next_seq + 1 /\ map' = [map EXCEPT ![k] = v]

insert(k, v) == Mutation(k, v)

delete(k) == Mutation(k, NoValue)

upsert(k, d) == Mutation(k, apply(d, map[k]))

Next == \E k \in Keys : \/ \E v \in Values : insert(k, v)
                        \/ delete(k)
                        \/ \E d \in Numbers : upsert(k, d)

Spec == Init /\ [][Next]_vars
=============================================================================
