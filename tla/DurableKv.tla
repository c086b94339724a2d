------------------------------ MODULE DurableKv -----------------------------
(***************************************************************************)
(* What the disk engine promises beyond KvSpec (src/disk.rs, the doc       *)
(* comments of DiskEngine and commit): a map in memory and a saved one, to *)
(* which reopening returns.  A storage error that interrupts a call        *)
(* poisons the engine: its map is unknown and can no longer be saved.      *)
(***************************************************************************)
EXTENDS Messages

CONSTANT Unknown   \* the map of a poisoned engine

VARIABLES map, next_seq, poisoned,
          saved,     \* generation and last seqno of what was saved
          saved_map

vars == <<next_seq, poisoned, saved, map, saved_map>>

(* An engine that has been created or opened.                              *)
Init ==
    /\ saved \in [generation : Nat, seq : Nat]
    /\ saved_map \in [Keys -> MaybeValues]
    /\ map = saved_map /\ next_seq = saved.seq /\ poisoned = FALSE

(* A poisoned engine still takes mutations, to no defined effect.          *)
Mutation(k, v) ==
    /\ next_seq' = next_seq + 1
    /\ UNCHANGED <<poisoned, saved>>
    /\ map' = IF poisoned THEN Unknown ELSE [map EXCEPT ![k] = v]
    /\ UNCHANGED saved_map

insert(k, v) == Mutation(k, v)

delete(k) == Mutation(k, NoValue)

upsert(k, d) == Mutation(k, IF poisoned THEN NoValue ELSE apply(d, map[k]))

Save ==
    /\ ~poisoned
    /\ saved' = [generation |-> saved.generation + 1, seq |-> next_seq]
    /\ saved_map' = map

Poison == poisoned' = TRUE /\ map' = Unknown

Commit == Save /\ UNCHANGED <<next_seq, poisoned, map>>

(* A commit that reports an error may or may not have saved the map.       *)
CommitFails == Poison /\ (Save \/ UNCHANGED <<saved, saved_map>>) /\ UNCHANGED next_seq

(* A mutation or a drain does not find a node that it needs.               *)
Interrupted == Poison /\ UNCHANGED <<next_seq, saved, saved_map>>

Reopen ==
    /\ next_seq' = saved.seq
    /\ poisoned' = FALSE
    /\ UNCHANGED saved
    /\ map' = saved_map
    /\ UNCHANGED saved_map

Next == \/ \E k \in Keys : \/ \E v \in Values : insert(k, v)
                           \/ delete(k)
                           \/ \E d \in Numbers : upsert(k, d)
        \/ Commit \/ CommitFails \/ Interrupted \/ Reopen

Spec == Init /\ [][Next]_vars
=============================================================================
