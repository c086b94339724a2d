------------------------------- MODULE BeTree -------------------------------
(***************************************************************************)
(* The in-memory engine (src/betree.rs): a mutation enters at the root,    *)
(* then restore_root_with flushes, splits and reclaims until the tree fits *)
(* its capacities again.  One step is one iteration of a loop of the code, *)
(* so that the tree can be looked at in the middle of a cascade.           *)
(***************************************************************************)
EXTENDS Nodes

CONSTANTS
    Puts,      \* the values that insert is called with
    Deltas,    \* the deltas that upsert is called with
    MaxOps,    \* bound: mutations in a behaviour
    UseDrain,  \* is drain() called?
    UseCommit  \* is simulate_commit() called?

ASSUME OpsAssumption == /\ Puts \subseteq Values /\ Deltas \subseteq Numbers
                        /\ MaxOps \in Nat
                        /\ UseDrain \in BOOLEAN /\ UseCommit \in BOOLEAN

VARIABLES
    nodes,            \* the arena
    root,             \* the id of the root
    next_seq,         \* the seqno of the last mutation
    ops_since_commit, \* what policies are told of the distance to a commit
    mode,             \* "rest" between calls; "op" or "drain" in a cascade
    flushing          \* flush_with's stack, <<>> when the root is a leaf

vars == <<nodes, root, next_seq, ops_since_commit, mode, flushing>>

Init ==
    /\ nodes = <<Leaf(Empty)>>
    /\ root = 1
    /\ next_seq = 0 /\ ops_since_commit = 0
    /\ mode = "rest" /\ flushing = <<>>

(* An iteration of restore_root_with begins on root r.                     *)
Restore(ns, r) ==
    /\ nodes' = ns
    /\ root' = r
    /\ flushing' = IF ns[r].leaf THEN <<>> ELSE <<r>>

(* restore_root_with ends, with the root collapse.                         *)
Finish(ns, r) ==
    /\ nodes' = ns
    /\ root' = Collapsed(ns, r)
    /\ mode' = "rest" /\ flushing' = <<>>

-----------------------------------------------------------------------------
(* The calls                                                               *)

apply_root(k, m) ==
    /\ Restore(apply_batch(nodes, root, [key \in {k} |-> m]), root)
    /\ mode' = "op"

Mutation(k, m) ==
    /\ mode = "rest"
    /\ next_seq < MaxOps
    /\ next_seq' = next_seq + 1
    /\ ops_since_commit' = ops_since_commit + 1
    /\ apply_root(k, m)

insert(k, v) == Mutation(k, Put(next_seq + 1, v))

delete(k) == Mutation(k, Delete(next_seq + 1))

upsert(k, d) == Mutation(k, Upsert(next_seq + 1, d))

drain ==
    /\ UseDrain
    /\ mode = "rest"
    /\ Restore(nodes, root)
    /\ mode' = "drain"
    /\ UNCHANGED <<next_seq, ops_since_commit>>

(* The nodes that a commit visits: from the root along dirty nodes only.   *)
DirtyWalk ==
    LET walk[i \in DOMAIN nodes] ==
            IF nodes[i].dirty THEN {i} \cup UNION {walk[c] : c \in Children(nodes[i])}
                              ELSE {}
    IN walk[root]

simulate_commit ==
    /\ UseCommit
    /\ mode = "rest"
    /\ nodes' = [i \in DOMAIN nodes |->
                    IF i \in DirtyWalk THEN [nodes[i] EXCEPT !.dirty = FALSE] ELSE nodes[i]]
    /\ ops_since_commit' = 0
    /\ UNCHANGED <<root, next_seq, mode, flushing>>

(* fork_for_sim visits the live nodes with a stack, the last child first.  *)
ForkOrder(ns, r) ==
    LET visit[i \in DOMAIN ns] ==
            <<i>> \o (IF ns[i].leaf THEN <<>>
                      ELSE FlattenSeq([j \in DOMAIN ns[i].children |->
                                          visit[Reverse(ns[i].children)[j]]]))
    IN visit[r]

(* The copy that the node ids of order make: a node's new id is its place. *)
Compacted(ns, order) ==
    LET place(id) == SelectInSeq(order, LAMBDA i : i = id)
        copy(n) == IF n.leaf THEN n
                   ELSE [n EXCEPT !.children = [j \in DOMAIN @ |-> place(@[j])]]
    IN [p \in DOMAIN order |-> copy(ns[order[p]])]

(* Faulty: the copies start out dirty, as new nodes do.                    *)
fork_dirty ==
    [nodes |-> [p \in DOMAIN ForkOrder(nodes, root) |->
                   [Compacted(nodes, ForkOrder(nodes, root))[p] EXCEPT !.dirty = TRUE]],
     root |-> 1, next_seq |-> next_seq, ops_since_commit |-> ops_since_commit]

(* A deep copy of the live tree, in an arena of its own, and the counters. *)
fork_for_sim ==
    [nodes |-> Compacted(nodes, ForkOrder(nodes, root)), root |-> 1,
     next_seq |-> next_seq, ops_since_commit |-> ops_since_commit]

-----------------------------------------------------------------------------
(* The cascade                                                             *)

threshold == IF mode = "drain" THEN 0 ELSE BufferCapacity

Flushing == mode # "rest" /\ flushing # <<>>

Top == Last(flushing)

TopOverflows == Flushing /\ Count(nodes[Top].buffer) > threshold

(* In drain mode, the children of the top node that still need flushing.   *)
Undrained ==
    {i \in DOMAIN nodes[Top].children :
        mode = "drain" /\ subtree_has_messages(nodes, nodes[Top].children[i])}

Descend ==
    /\ Flushing /\ ~TopOverflows
    /\ Undrained # {}
    /\ flushing' = Append(flushing,
                          nodes[Top].children[CHOOSE i \in Undrained :
                                                \A j \in Undrained : i <= j])
    /\ UNCHANGED <<nodes, root, next_seq, ops_since_commit, mode>>

TopDone == Flushing /\ ~TopOverflows /\ Undrained = {}

(* An iteration that delivers a batch.  A policy may choose any child that *)
(* messages wait for; drain always takes the greedy rule.                  *)
Deliver(i) ==
    /\ TopOverflows
    /\ Pending(nodes[Top], i) # {}
    /\ mode = "drain" => i = GreedyPick(nodes[Top])
    /\ LET child == nodes[Top].children[i]
           batch == Restrict(nodes[Top].buffer, Pending(nodes[Top], i))
           ns == apply_batch(extract(nodes, Top, i), child, batch)
           split == split_if_needed(ns, child)
       IN \/ /\ ~ns[child].leaf /\ Count(ns[child].buffer) > threshold
             /\ nodes' = ns
             /\ flushing' = Append(flushing, child)
          \/ /\ ns[child].leaf /\ ns[child].entries = Empty
             /\ nodes' = remove_child(ns, Top, child)
             /\ UNCHANGED flushing
          \/ /\ IF ns[child].leaf THEN ns[child].entries # Empty
                                  ELSE Count(ns[child].buffer) <= threshold
             /\ nodes' = integrate_splits(split.nodes, Top, split.promoted)
             /\ UNCHANGED flushing
    /\ UNCHANGED <<root, next_seq, ops_since_commit, mode>>

(* settle: has every child gone?                                           *)
TopRemoved == nodes[Top].children = <<>>

(* The top node is done and there is a parent below it on the stack.       *)
SettleChild ==
    /\ TopDone
    /\ Len(flushing) > 1
    /\ LET parent == Last(Front(flushing))
           split == split_if_needed(nodes, Top)
       IN \/ /\ TopRemoved
             /\ nodes' = remove_child(nodes, parent, Top)
          \/ /\ ~TopRemoved
             /\ nodes' = integrate_splits(split.nodes, parent, split.promoted)
    /\ flushing' = Front(flushing)
    /\ UNCHANGED <<root, next_seq, ops_since_commit, mode>>

(* Has the root, leaf or internal, nothing left to flush?                  *)
RootDone == mode # "rest" /\ (flushing = <<>> \/ (TopDone /\ Len(flushing) = 1))

RootRemoved == flushing # <<>> /\ TopRemoved

(* Every child of the root is gone: back to a single empty leaf.           *)
RestartEmpty ==
    /\ RootDone /\ RootRemoved
    /\ Finish(Append(nodes, Leaf(Empty)), Len(nodes) + 1)
    /\ UNCHANGED <<next_seq, ops_since_commit>>

RootSplit == split_if_needed(nodes, root)

(* The root splits: a new root above the pieces, which may split in turn.  *)
Grow ==
    /\ RootDone /\ ~RootRemoved
    /\ RootSplit.promoted # <<>>
    /\ LET promoted == RootSplit.promoted
           top == Internal([j \in DOMAIN promoted |-> promoted[j][1]],
                           <<root>> \o [j \in DOMAIN promoted |-> promoted[j][2]],
                           Empty)
       IN Restore(Append(RootSplit.nodes, top), Len(RootSplit.nodes) + 1)
    /\ UNCHANGED <<next_seq, ops_since_commit, mode>>

Return ==
    /\ RootDone /\ ~RootRemoved
    /\ RootSplit.promoted = <<>>
    /\ Finish(nodes, root)
    /\ UNCHANGED <<next_seq, ops_since_commit>>

Cascade ==
    \/ Descend
    \/ Flushing /\ \E i \in DOMAIN nodes[Top].children : Deliver(i)
    \/ SettleChild
    \/ RestartEmpty
    \/ Grow
    \/ Return

Next ==
    \/ \E k \in Keys : \/ \E v \in Puts : insert(k, v)
                       \/ delete(k)
                       \/ \E d \in Deltas : upsert(k, d)
    \/ drain
    \/ simulate_commit
    \/ Cascade

Spec == Init /\ [][Next]_vars

(* A call runs on the caller's thread until it returns: either the tree is *)
(* at rest again and again, or steps of a cascade go on for ever.  This is *)
(* WF_vars(Cascade) wherever a call that has not returned can take a step, *)
(* which the deadlock check of every run with UseDrain establishes.        *)
FairSpec == Spec /\ ([]<>(mode = "rest") \/ []<><<mode # "rest">>_vars)
=============================================================================
