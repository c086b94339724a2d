----------------------------- MODULE BeTreeCheck ----------------------------
(***************************************************************************)
(* What makes the engine of module BeTree correct: the invariants of       *)
(* src/check.rs, the reads, and the map that the tree implements.          *)
(***************************************************************************)
EXTENDS BeTree, Reads

Reachable == Subtree(nodes, root)

(* The nodes from the root to a leaf that routing key k passes.            *)
PathOf(k) ==
    LET path[i \in DOMAIN nodes] ==
            <<i>> \o (IF AtEnd(nodes[i]) THEN <<>> ELSE path[Child(nodes[i], k)])
    IN path[root]

(* What node n holds, as messages or entries by key.                       *)
Held(n) == IF n.leaf THEN n.entries ELSE n.buffer

(* check_tree's bounds: a key is in the range of a node exactly when       *)
(* routing leads it there.  Pivots, too, must be in their node's range.    *)
KeysInRange ==
    \A i \in Reachable :
        /\ \A k \in DOMAIN Held(nodes[i]) : i \in Range(PathOf(k))
        /\ ~nodes[i].leaf => \A j \in DOMAIN nodes[i].pivots :
                                i \in Range(PathOf(nodes[i].pivots[j]))

(* check_tree's pivot checks.  A node that has just lost its last child    *)
(* waits to be unlinked and has neither children nor pivots.               *)
PivotsOrdered ==
    \A i \in Reachable : ~nodes[i].leaf =>
        LET n == nodes[i]
        IN /\ \A j \in 2 .. Len(n.pivots) : n.pivots[j - 1] < n.pivots[j]
           /\ Len(n.children) = Len(n.pivots) + 1 \/ n.children = <<>>

(* check_tree's newest_above: going down, what is held for a key gets      *)
(* older.                                                                  *)
NewerAbove ==
    \A k \in Keys :
        LET path == PathOf(k)
        IN \A i, j \in DOMAIN path :
              /\ i < j
              /\ k \in DOMAIN Held(nodes[path[i]]) /\ k \in DOMAIN Held(nodes[path[j]])
              => Held(nodes[path[j]])[k].seq < Held(nodes[path[i]])[k].seq

LeafDepths ==
    LET depths[i \in DOMAIN nodes] ==
            IF nodes[i].leaf THEN {1}
            ELSE {1 + d : d \in UNION {depths[c] : c \in Children(nodes[i])}}
    IN depths[root]

WithinCapacity ==
    \A i \in Reachable :
        LET n == nodes[i]
        IN /\ n.leaf => Count(n.entries) <= LeafCapacity
           /\ ~n.leaf => Len(n.children) <= Fanout /\ Count(n.buffer) <= BufferCapacity

NoEmptyLeaf == \A i \in Reachable \ {root} : nodes[i].leaf => nodes[i].entries # Empty

-----------------------------------------------------------------------------
(* I1, I2, I3 and I6 of check_invariants hold not only between calls, when *)
(* the code checks them, but after every iteration of a cascade: what a    *)
(* flush, split or removal relies on is there when it runs.  I3 is what    *)
(* the debug assertions of apply_to_leaf and coalesce_into are about.      *)
OrderedThroughout ==
    KeysInRange /\ PivotsOrdered /\ NewerAbove /\ Cardinality(LeafDepths) <= 1

(* I5 and I7: when a call returns nothing is over capacity and no emptied  *)
(* leaf or childless node is left behind, whatever the cascade had to do.  *)
FitsAtRest ==
    mode = "rest" => /\ WithinCapacity /\ NoEmptyLeaf
                     /\ \A i \in Reachable : nodes[i].leaf \/ nodes[i].children # <<>>

Contents == [k \in Keys |-> Get(nodes, root, k)]

Kv == INSTANCE KvSpec WITH map <- Contents

(* Each call does to the map what the reference engine's call would do.    *)
CallsMatch ==
    [][\A k \in Keys : /\ \A v \in Puts : insert(k, v) => Kv!insert(k, v)
                       /\ delete(k) => Kv!delete(k)
                       /\ \A d \in Deltas : upsert(k, d) => Kv!upsert(k, d)]_vars

(* The engine implements the reference map, call by call: a mutation takes *)
(* effect for get in the step in which it enters the root, and no flush,   *)
(* split, removal, root change, drain or commit after that changes what    *)
(* get returns for any key.                                                *)
ImplementsMap == Kv!Spec /\ CallsMatch

(* A scan of any range returns exactly the keys in it that get finds, with *)
(* the values get finds: folding upwards agrees with walking downwards.    *)
ScanAgrees ==
    mode = "rest" =>
        LET present == RestrictValues(Contents, LAMBDA v : v # NoValue)
        IN \A lo, hi \in Bounds(Keys) : Scan(nodes, root, lo, hi) = InRange(present, lo, hi)

(* drain leaves no message anywhere in the tree.                           *)
DrainEmpties ==
    [][mode = "drain" /\ mode' = "rest" =>
         \A i \in Subtree(nodes', root') : ~HasMessages(nodes'[i])]_vars

(* Every call returns: the cascade always comes to an end.                 *)
CallsReturn == mode # "rest" ~> mode = "rest"

(* Dirty nodes form a connected subtree at the root, so that the walk of a *)
(* commit, which follows dirty nodes only, reaches every one of them.      *)
DirtyConnected ==
    mode = "rest" =>
        \A i \in Reachable : \A c \in Children(nodes[i]) : nodes[c].dirty => nodes[i].dirty

(* The tree below id with the nodes in place of their ids.                 *)
Unfolded(ns, id) ==
    LET tree[i \in DOMAIN ns] ==
            IF ns[i].leaf THEN ns[i]
            ELSE [ns[i] EXCEPT !.children = [j \in DOMAIN @ |-> tree[@[j]]]]
    IN tree[id]

(* A fork is the same tree, dirty flags included, so a rollout on it does  *)
(* and costs what the engine would, numbers its messages on from the       *)
(* engine's and tells policies the same distance to the last commit; and   *)
(* it leaves leaked nodes behind.                                          *)
ForkFaithful ==
    mode = "rest" =>
        LET fork == fork_for_sim
        IN /\ Unfolded(fork.nodes, fork.root) = Unfolded(nodes, root)
           /\ fork.next_seq = next_seq /\ fork.ops_since_commit = ops_since_commit
           /\ Subtree(fork.nodes, fork.root) = DOMAIN fork.nodes
=============================================================================
