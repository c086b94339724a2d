------------------------------- MODULE Nodes --------------------------------
(***************************************************************************)
(* The arena of tree nodes and the structural operations on it             *)
(* (src/node.rs and the helpers of src/betree.rs), as functions from arena *)
(* to arena.  A node id is its position in the arena, counted from 1.      *)
(* The dirty flags, a vector parallel to the arena in the code, are fields *)
(* of the nodes.                                                           *)
(***************************************************************************)
EXTENDS Messages, SequencesExt

CONSTANTS Fanout, BufferCapacity, LeafCapacity   \* Params: F, B, L

(* What with_policy asserts of its Params.                                 *)
ASSUME ParamsAssumption == /\ Fanout \in Nat /\ Fanout >= 2
                           /\ BufferCapacity \in Nat /\ BufferCapacity >= 1
                           /\ LeafCapacity \in Nat /\ LeafCapacity >= 1

Leaf(entries) == [leaf |-> TRUE, entries |-> entries, dirty |-> TRUE]

(* Faulty: a new internal node is taken for one that a commit has written. *)
InternalClean(pivots, children, buffer) ==
    [leaf |-> FALSE, pivots |-> pivots, children |-> children, buffer |-> buffer,
     dirty |-> FALSE]

Internal(pivots, children, buffer) ==
    [leaf |-> FALSE, pivots |-> pivots, children |-> children, buffer |-> buffer,
     dirty |-> TRUE]

Empty == [k \in {} |-> NoValue]

Count(f) == Cardinality(DOMAIN f)

(* The child that owns key: a key equal to a pivot goes to its right.      *)
route(pivots, key) == 1 + Cardinality({i \in DOMAIN pivots : pivots[i] <= key})

(* The keys that node n buffers for its i-th child.                        *)
Pending(n, i) == {k \in DOMAIN n.buffer : route(n.pivots, k) = i}

(* The sizes of the pieces that n items are halved into, none above cap.   *)
partition_sizes(n, cap) ==
    LET sizes[m \in 0 .. n] ==
            IF m <= cap THEN <<m>> ELSE sizes[m \div 2] \o sizes[m - (m \div 2)]
    IN sizes[n]

(* How many items the pieces before the j-th take.                         *)
Start(sizes, j) ==
    LET taken[i \in 0 .. (j - 1)] == IF i = 0 THEN 0 ELSE taken[i - 1] + sizes[i]
    IN taken[j - 1]

(* The first piece stays in place, each other one gets a new id and is     *)
(* promoted with the separator to its left.                                *)
Split(ns, id, pieces, separators) ==
    [nodes    |-> [ns EXCEPT ![id] = Head(pieces)] \o Tail(pieces),
     promoted |-> [j \in DOMAIN separators |-> <<separators[j], Len(ns) + j>>]]

(* The keys that the j-th piece of a leaf takes, in order.                 *)
Chunk(entries, sizes, j) ==
    LET before(k) == Cardinality({x \in DOMAIN entries : x < k})
    IN {k \in DOMAIN entries : Start(sizes, j) <= before(k) /\ before(k) < Start(sizes, j + 1)}

split_leaf(ns, id) ==
    LET entries == ns[id].entries
        sizes == partition_sizes(Count(entries), LeafCapacity)
    IN Split(ns, id,
             [j \in DOMAIN sizes |-> Leaf(Restrict(entries, Chunk(entries, sizes, j)))],
             [j \in 1 .. (Len(sizes) - 1) |-> Min(Chunk(entries, sizes, j + 1))])

(* The pivot between two pieces moves up and stays in neither.             *)
split_internal(ns, id) ==
    LET n == ns[id]
        sizes == partition_sizes(Len(n.children), Fanout)
        separators == [j \in 1 .. (Len(sizes) - 1) |-> n.pivots[Start(sizes, j + 1)]]
        piece(j) ==
            Internal(SubSeq(n.pivots, Start(sizes, j) + 1, Start(sizes, j + 1) - 1),
                     SubSeq(n.children, Start(sizes, j) + 1, Start(sizes, j + 1)),
                     Restrict(n.buffer, {k \in DOMAIN n.buffer : route(separators, k) = j}))
    IN Split(ns, id, [j \in DOMAIN sizes |-> piece(j)], separators)

(* Faulty: one entry or child too many is let pass.                        *)
OverfullLate(n) == IF n.leaf THEN Count(n.entries) > LeafCapacity + 1
                             ELSE Len(n.children) > Fanout + 1

Overfull(n) == IF n.leaf THEN Count(n.entries) > LeafCapacity
                         ELSE Len(n.children) > Fanout

split_if_needed(ns, id) ==
    IF ~Overfull(ns[id]) THEN [nodes |-> ns, promoted |-> <<>>]
    ELSE IF ns[id].leaf THEN split_leaf(ns, id) ELSE split_internal(ns, id)

(* A promoted piece goes to the right of its pivot.                        *)
Promote(n, p) ==
    LET pos == 1 + Cardinality({i \in DOMAIN n.pivots : n.pivots[i] < p[1]})
    IN [n EXCEPT !.pivots = InsertAt(@, pos, p[1]),
                 !.children = InsertAt(@, pos + 1, p[2]),
                 !.dirty = TRUE]

integrate_splits(ns, id, promoted) ==
    LET merged[j \in 0 .. Len(promoted)] ==
            IF j = 0 THEN ns[id] ELSE Promote(merged[j - 1], promoted[j])
    IN [ns EXCEPT ![id] = merged[Len(promoted)]]

(* Faulty: always drop the first pivot, wherever the child was.            *)
remove_child_first(ns, parent, child) ==
    LET at == SelectInSeq(ns[parent].children, LAMBDA c : c = child)
    IN [ns EXCEPT ![parent].children = RemoveAt(@, at),
                  ![parent].pivots = IF @ = <<>> THEN @ ELSE RemoveAt(@, 1),
                  ![parent].dirty = TRUE]

(* Unlink child and a pivot beside it: the left one if there is one.       *)
remove_child(ns, parent, child) ==
    LET at == SelectInSeq(ns[parent].children, LAMBDA c : c = child)
    IN [ns EXCEPT ![parent].children = RemoveAt(@, at),
                  ![parent].pivots = IF at > 1 THEN RemoveAt(@, at - 1)
                                     ELSE IF @ # <<>> THEN RemoveAt(@, 1) ELSE @,
                  ![parent].dirty = TRUE]

(* apply_batch, and apply_root for a batch of one.                         *)
apply_batch(ns, id, batch) ==
    LET n == ns[id]
    IN [ns EXCEPT ![id] =
            IF n.leaf
            THEN [n EXCEPT !.entries = apply_to_leaf(@, batch), !.dirty = TRUE]
            ELSE [n EXCEPT !.buffer = coalesce_into(@, batch), !.dirty = TRUE]]

(* Faulty: taking messages out of a buffer does not count as a change.     *)
extract_clean(ns, id, i) ==
    [ns EXCEPT ![id].buffer = Restrict(@, DOMAIN @ \ Pending(ns[id], i))]

(* The second half of pick_and_extract: what leaves the buffer of node id  *)
(* is exactly what it holds for child i.                                   *)
extract(ns, id, i) ==
    [ns EXCEPT ![id].buffer = Restrict(@, DOMAIN @ \ Pending(ns[id], i)),
               ![id].dirty = TRUE]

(* GreedyFullest::pick: the fullest child, the first one on ties.          *)
GreedyPick(n) ==
    LET count(i) == Cardinality(Pending(n, i))
    IN CHOOSE i \in DOMAIN n.children :
          /\ \A j \in DOMAIN n.children : count(j) <= count(i)
          /\ \A j \in 1 .. (i - 1) : count(j) < count(i)

Children(n) == IF n.leaf THEN {} ELSE Range(n.children)

(* The nodes of the tree below id, id included.                            *)
Subtree(ns, id) ==
    LET below[i \in DOMAIN ns] == {i} \cup UNION {below[c] : c \in Children(ns[i])}
    IN below[id]

HasMessages(n) == ~n.leaf /\ n.buffer # Empty

(* Faulty: look at the child's own buffer only.                            *)
buffer_has_messages(ns, id) == HasMessages(ns[id])

(* Faulty: any internal child is worth another visit.                      *)
is_internal(ns, id) == ~ns[id].leaf

subtree_has_messages(ns, id) == \E i \in Subtree(ns, id) : HasMessages(ns[i])

(* The root collapse: a root with one child and no messages gives way.     *)
Collapsed(ns, id) ==
    LET to[i \in DOMAIN ns] ==
            IF ~ns[i].leaf /\ Len(ns[i].children) = 1 /\ ~HasMessages(ns[i])
            THEN to[ns[i].children[1]] ELSE i
    IN to[id]
=============================================================================
