------------------------------ MODULE DiskTree ------------------------------
(***************************************************************************)
(* The tree of the disk engine (src/disk.rs): the operations of module     *)
(* Nodes over slots that are loaded from their records when they are       *)
(* needed and may be evicted again, with copy-on-write commits.            *)
(*                                                                         *)
(* The file is a sequence of node records, an offset the position of one;  *)
(* module DiskCommit says how records and superblock become durable.  Any  *)
(* set of nodes that enforce_budget may evict can go whenever it runs;     *)
(* module NodeCache says which it takes.  A load fails at will, and so     *)
(* does a commit, with the superblock written or not.                      *)
(***************************************************************************)
EXTENDS Reads

CONSTANTS
    Stored,        \* the files that may be opened: records and superblock
    Puts, Deltas,  \* what insert and upsert are called with
    MaxOps,        \* bound: seqnos
    MaxCommits,    \* bound: generations
    MaxFaults,     \* bound: storage errors that poison the engine
    UseDrain,      \* is drain() called?
    UseReads       \* are get, scan and the walks called?

ASSUME DiskAssumption == /\ Puts \subseteq Values /\ Deltas \subseteq Numbers
                         /\ MaxOps \in Nat /\ MaxCommits \in Nat /\ MaxFaults \in Nat
                         /\ UseDrain \in BOOLEAN /\ UseReads \in BOOLEAN

VARIABLES
    nodes,        \* the slots: a node when loaded, else OnDisk or Freed
    disk_offset,  \* the record of each slot, NoRecord before its first commit
    offsets,      \* the id of each record that a slot stands for
    root,         \* the id of the root
    next_seq,     \* the seqno of the last mutation
    poisoned,     \* did a storage error interrupt a mutation or a commit?
    records,      \* the file's data region
    sb,           \* the durable superblock
    mode,         \* "rest" between calls, else what is running
    flushing,     \* flush_with's stack
    left,         \* in a drain, the children of the top still to be probed
    walk,         \* a probe's or a walk's stack
    frames,       \* a scan's stack: nodes, each with the number of children done
    faults        \* how many storage errors have happened

slotVars == <<nodes, disk_offset, offsets>>
fileVars == <<records, sb, faults>>
callVars == <<mode, flushing, left, walk, frames>>
vars == <<slotVars, root, next_seq, poisoned, fileVars, callVars>>

OnDisk == [place |-> "OnDisk"]
Freed == [place |-> "Freed"]
NoRecord == 0
NoNode == 0

IsLoaded(n) == n \notin {OnDisk, Freed}

is_dirty(n) == IsLoaded(n) /\ n.dirty

Evicted(f, S) == [i \in DOMAIN f |-> IF i \in S THEN OnDisk ELSE f[i]]

Without(f, S) == Restrict(f, DOMAIN f \ S)

With(f, x, y) == [z \in DOMAIN f \cup {x} |-> IF z = x THEN y ELSE f[z]]

-----------------------------------------------------------------------------
(* Slots: operations on e, the record of nodes, disk_offset and offsets    *)

Engine == [nodes |-> nodes, disk_offset |-> disk_offset, offsets |-> offsets]

Becomes(e) ==
    nodes' = e.nodes /\ disk_offset' = e.disk_offset /\ offsets' = e.offsets

(* Faulty: a record gets a new slot each time a parent that names it is    *)
(* loaded.                                                                 *)
alloc_fresh(e, offset) ==
    [nodes |-> Append(e.nodes, OnDisk),
     disk_offset |-> Append(e.disk_offset, offset),
     offsets |-> With(e.offsets, offset, Len(e.nodes) + 1)]

(* The slot of the record at offset is reused if there is one.             *)
alloc_on_disk(e, offset) ==
    IF offset \in DOMAIN e.offsets /\ e.nodes[e.offsets[offset]] # Freed THEN e
    ELSE [nodes |-> Append(e.nodes, OnDisk),
          disk_offset |-> Append(e.disk_offset, offset),
          offsets |-> With(e.offsets, offset, Len(e.nodes) + 1)]

release_slot(e, id) ==
    [nodes |-> [e.nodes EXCEPT ![id] = Freed],
     disk_offset |-> [e.disk_offset EXCEPT ![id] = NoRecord],
     offsets |-> Without(e.offsets, {e.disk_offset[id]})]

(* ensure_loaded when the slot is OnDisk and its record reads well.        *)
Fetch(e, id) ==
    LET r == records[e.disk_offset[id]]
    IN IF r.leaf THEN [e EXCEPT !.nodes[id] = [Leaf(r.entries) EXCEPT !.dirty = FALSE]]
       ELSE LET f == FoldLeft(alloc_on_disk, e, r.children)
                n == Internal(r.pivots, [j \in DOMAIN r.children |-> f.offsets[r.children[j]]],
                              r.buffer)
            IN [f EXCEPT !.nodes[id] = [n EXCEPT !.dirty = FALSE]]

Evictable(e) == {i \in DOMAIN e.nodes : IsLoaded(e.nodes[i]) /\ ~e.nodes[i].dirty}

(* Faulty: any node that has a record may go.                              *)
enforce_dirty(e, pins, just_loaded) ==
    {[e EXCEPT !.nodes = Evicted(@, S)] :
        S \in SUBSET ({i \in DOMAIN e.nodes :
                          IsLoaded(e.nodes[i]) /\ e.disk_offset[i] # NoRecord}
                        \ (pins \cup {just_loaded}))}

(* Faulty: what the caller holds ids of may go as well.                    *)
enforce_unpinned(e, pins, just_loaded) ==
    {[e EXCEPT !.nodes = Evicted(@, S)] : S \in SUBSET (Evictable(e) \ {just_loaded})}

(* What enforce_budget may leave of e.                                     *)
enforce_budget(e, pins, just_loaded) ==
    {[e EXCEPT !.nodes = Evicted(@, S)] :
        S \in SUBSET (Evictable(e) \ (pins \cup {just_loaded}))}

(* What ensure_loaded may make of e when it succeeds.                      *)
ensure_loaded(e, id, pins) ==
    IF e.nodes[id] = OnDisk THEN enforce_budget(Fetch(e, id), pins, id) ELSE {e}

(* A load of id that fails leaves e as it was.                             *)
LoadFails(e, id) == e.nodes[id] = OnDisk /\ faults < MaxFaults

-----------------------------------------------------------------------------
(* The tree operations of module Nodes, over slots                         *)

Over(e, ns) == [nodes |-> ns, offsets |-> e.offsets,
                disk_offset |-> [i \in DOMAIN ns |-> IF i \in DOMAIN e.disk_offset
                                                     THEN e.disk_offset[i] ELSE NoRecord]]

(* split_if_needed on a child, and integrate_splits into its parent.       *)
SplitInto(e, parent, child) ==
    LET split == split_if_needed(e.nodes, child)
    IN Over(e, integrate_splits(split.nodes, parent, split.promoted))

(* Faulty: an unlinked child stays in the arena.                           *)
unlink_only(e, parent, child) == Over(e, remove_child(e.nodes, parent, child))

unlink(e, parent, child) ==
    release_slot(Over(e, remove_child(e.nodes, parent, child)), child)

(* The policy has chosen child i of node id: its messages leave the buffer. *)
pick_and_extract(e, id, i) == Over(e, extract(e.nodes, id, i))

Deliver1(e, id, batch) == Over(e, apply_batch(e.nodes, id, batch))

-----------------------------------------------------------------------------
(* The engine that open_on_with makes of a superblock.                     *)
Opened(s) == [nodes |-> <<OnDisk>>, disk_offset |-> <<s.root>>,
              offsets |-> [o \in {s.root} |-> 1]]

(* The file that create_on_with leaves.  Its engine is what opening that   *)
(* file and loading the root gives.                                        *)
Created == [records |-> <<[leaf |-> TRUE, entries |-> Empty]>>,
            sb |-> [generation |-> 0, root |-> 1, last_seq |-> 0, watermark |-> 1]]

Init ==
    /\ \E file \in Stored : records = file.records /\ sb = file.sb
    /\ nodes = Opened(sb).nodes
    /\ disk_offset = Opened(sb).disk_offset /\ offsets = Opened(sb).offsets
    /\ root = 1 /\ next_seq = sb.last_seq /\ poisoned = FALSE
    /\ mode = "rest" /\ flushing = <<>> /\ left = <<>> /\ walk = <<>> /\ frames = <<>>
    /\ faults = 0

Idle == flushing' = <<>> /\ left' = <<>> /\ walk' = <<>> /\ frames' = <<>>

(* Faulty: the error is returned and otherwise forgotten.                  *)
InterruptQuietly(e) ==
    /\ Becomes(e)
    /\ faults' = faults + 1
    /\ mode' = "rest" /\ Idle
    /\ UNCHANGED <<next_seq, poisoned, records, sb>>

(* A call ends with a storage error that leaves e.                         *)
Interrupt(e) ==
    /\ Becomes(e)
    /\ poisoned' = TRUE
    /\ faults' = faults + 1
    /\ mode' = "rest" /\ Idle
    /\ UNCHANGED <<next_seq, records, sb>>

(* An iteration of restore_root_with begins.                               *)
Restore(e, r, m) ==
    /\ Becomes(e)
    /\ root' = r
    /\ mode' = m
    /\ flushing' = IF e.nodes[r].leaf THEN <<>> ELSE <<r>>
    /\ left' = <<>> /\ walk' = <<>> /\ frames' = <<>>

-----------------------------------------------------------------------------
(* The calls.  When the root cannot be loaded, they return an error and    *)
(* change nothing.                                                         *)

Mutation(k, m) ==
    /\ mode = "rest"
    /\ next_seq < MaxOps
    /\ next_seq' = next_seq + 1
    /\ \E e \in ensure_loaded(Engine, root, {}) :
          Restore(Deliver1(e, root, [key \in {k} |-> m]), root, "op")
    /\ UNCHANGED <<poisoned, fileVars>>

insert(k, v) == Mutation(k, Put(next_seq + 1, v))

delete(k) == Mutation(k, Delete(next_seq + 1))

upsert(k, d) == Mutation(k, Upsert(next_seq + 1, d))

drain ==
    /\ UseDrain
    /\ mode = "rest"
    /\ \E e \in ensure_loaded(Engine, root, {}) : Restore(e, root, "drain")
    /\ UNCHANGED <<next_seq, poisoned, fileVars>>

(* The dirty nodes a commit writes, parents before their descendants.      *)
Dirty(ns, r) ==
    LET pre[i \in DOMAIN ns] ==
            IF ~is_dirty(ns[i]) THEN <<>>
            ELSE <<i>> \o (IF ns[i].leaf THEN <<>>
                           ELSE FlattenSeq([j \in DOMAIN ns[i].children |->
                                               pre[Reverse(ns[i].children)[j]]]))
    IN pre[r]

(* Faulty: parents are written before their children.                      *)
ParentsFirst(pre) == pre

ChildrenFirst(pre) == Reverse(pre)

node_payload(n, at) ==
    IF n.leaf THEN [leaf |-> TRUE, entries |-> n.entries]
    ELSE [leaf |-> FALSE, pivots |-> n.pivots, buffer |-> n.buffer,
          children |-> [j \in DOMAIN n.children |-> at[n.children[j]]]]

(* What commit_inner writes: records, superblock and each node's offset.   *)
Written ==
    LET order == ChildrenFirst(Dirty(nodes, root))
        at == [i \in DOMAIN nodes |->
                  IF i \in Range(order)
                  THEN Len(records) + SelectInSeq(order, LAMBDA x : x = i)
                  ELSE disk_offset[i]]
    IN [nodes |-> Range(order), offset |-> at,
        records |-> records \o [j \in DOMAIN order |-> node_payload(nodes[order[j]], at)],
        sb |-> [generation |-> sb.generation + 1, root |-> at[root], last_seq |-> next_seq,
                watermark |-> Len(records) + Len(order)]]

(* Faulty: a rewritten node keeps its old offset.                          *)
adopt_stale(w) ==
    [Engine EXCEPT !.nodes = [i \in DOMAIN nodes |->
        IF i \in w.nodes /\ disk_offset[i] # NoRecord THEN [nodes[i] EXCEPT !.dirty = FALSE]
        ELSE nodes[i]]]

(* The end of commit_inner.                                                *)
adopt(w) ==
    [nodes |-> [i \in DOMAIN nodes |-> IF i \in w.nodes THEN [nodes[i] EXCEPT !.dirty = FALSE]
                                                        ELSE nodes[i]],
     disk_offset |-> w.offset,
     offsets |-> [o \in (DOMAIN offsets \ {disk_offset[i] : i \in w.nodes})
                           \cup {w.offset[i] : i \in w.nodes} |->
                     IF o \in DOMAIN offsets THEN offsets[o]
                     ELSE CHOOSE i \in w.nodes : w.offset[i] = o]]

Commits == mode = "rest" /\ ~poisoned /\ sb.generation < MaxCommits

commit ==
    /\ Commits
    /\ records' = Written.records /\ sb' = Written.sb
    /\ \E e \in enforce_budget(adopt(Written), {}, NoNode) : Becomes(e)
    /\ UNCHANGED <<root, next_seq, poisoned, faults, callVars>>

(* A write or a sync fails; the superblock may be durable all the same.    *)
CommitFails ==
    /\ Commits
    /\ faults < MaxFaults
    /\ faults' = faults + 1
    /\ poisoned' = TRUE
    /\ \/ records' = Written.records /\ sb' = Written.sb
       \/ UNCHANGED <<records, sb>>
    /\ UNCHANGED <<slotVars, root, next_seq, callVars>>

(* The process ends at any point and the file is opened again.             *)
Reopen ==
    /\ Becomes(Opened(sb))
    /\ root' = 1
    /\ next_seq' = sb.last_seq
    /\ poisoned' = FALSE
    /\ records' = SubSeq(records, 1, sb.watermark)
    /\ mode' = "rest" /\ Idle
    /\ UNCHANGED <<sb, faults>>

-----------------------------------------------------------------------------
(* Reads: get, height, load_all and the live walks load a node, look at it *)
(* and go on to none, one or all of its children without coming back; scan *)
(* comes back to a node between its children and pins the way down.        *)

StartWalk ==
    /\ UseReads
    /\ mode = "rest"
    /\ mode' = "walk" /\ walk' = <<root>>
    /\ UNCHANGED <<slotVars, root, next_seq, poisoned, fileVars, flushing, left, frames>>

NextOf(n) == IF n.leaf THEN {<<>>}
             ELSE {<<>>, n.children} \cup {<<n.children[j]>> : j \in DOMAIN n.children}

Visit ==
    /\ mode = "walk"
    /\ \E e \in ensure_loaded(Engine, Last(walk), {}) :
          /\ Becomes(e)
          /\ \E next \in NextOf(e.nodes[Last(walk)]) :
                /\ walk' = Front(walk) \o next
                /\ mode' = IF walk' = <<>> THEN "rest" ELSE "walk"
    /\ UNCHANGED <<root, next_seq, poisoned, fileVars, flushing, left, frames>>

StartScan ==
    /\ UseReads
    /\ mode = "rest"
    /\ \E e \in ensure_loaded(Engine, root, {}) :
          /\ Becomes(e)
          /\ ~e.nodes[root].leaf
    /\ mode' = "scan" /\ frames' = <<<<root, 0>>>>
    /\ UNCHANGED <<root, next_seq, poisoned, fileVars, flushing, left, walk>>

Frames == {frames[j][1] : j \in DOMAIN frames}

(* The scan passes over a child outside its range, folds a leaf or enters  *)
(* an internal node; after the last child it leaves the node.              *)
ScanStep ==
    /\ mode = "scan"
    /\ LET id == Last(frames)[1]
           done == Last(frames)[2]
           frame == Front(frames) \o <<<<id, done + 1>>>>
       IN IF done < Len(nodes[id].children)
          THEN \/ frames' = frame /\ UNCHANGED <<slotVars, mode>>
               \/ LET child == nodes[id].children[done + 1]
                  IN \E e \in ensure_loaded(Engine, child, Frames) :
                        /\ Becomes(e)
                        /\ frames' = frame \o (IF e.nodes[child].leaf THEN <<>>
                                             ELSE <<<<child, 0>>>>)
                        /\ UNCHANGED mode
          ELSE /\ frames' = Front(frames)
               /\ mode' = IF frames' = <<>> THEN "rest" ELSE mode
               /\ UNCHANGED slotVars
    /\ UNCHANGED <<root, next_seq, poisoned, fileVars, flushing, left, walk>>

(* A load fails: the read returns the error and changes nothing.           *)
ReadFails ==
    /\ \/ mode = "walk" /\ nodes[Last(walk)] = OnDisk
       \/ /\ mode = "scan"
          /\ LET children == nodes[Last(frames)[1]].children
                 next == Last(frames)[2] + 1
             IN next <= Len(children) /\ nodes[children[next]] = OnDisk
    /\ mode' = "rest" /\ Idle
    /\ UNCHANGED <<slotVars, root, next_seq, poisoned, fileVars>>

-----------------------------------------------------------------------------
(* The cascade                                                             *)

threshold == IF mode = "drain" THEN 0 ELSE BufferCapacity

Flushing == mode \in {"op", "drain"} /\ flushing # <<>>

Top == Last(flushing)

TopOverflows == Flushing /\ Count(nodes[Top].buffer) > threshold

Probing == walk # <<>>

(* Faulty: any internal node counts as one with messages.                  *)
FoundInternal(n) == ~n.leaf

Found(n) == HasMessages(n)

ProbeDue ==
    /\ mode = "drain" /\ Flushing /\ ~TopOverflows
    /\ ~Probing /\ left = <<>>
    /\ nodes[Top].children # <<>>

(* The children of a drained node are probed one after the other ...       *)
BeginProbe ==
    /\ ProbeDue
    /\ left' = nodes[Top].children
    /\ walk' = <<Head(left')>>
    /\ UNCHANGED <<slotVars, root, next_seq, poisoned, fileVars, mode, flushing, frames>>

(* ... for a node with messages, to which the drain then descends.         *)
Probe ==
    /\ mode = "drain" /\ Probing
    /\ LET n == Last(walk)
       IN \/ /\ \E e \in ensure_loaded(Engine, n, Range(flushing) \cup {Head(left)}) :
                   LET below == Front(walk) \o (IF e.nodes[n].leaf THEN <<>>
                                                ELSE e.nodes[n].children)
                       others == Tail(left)
                   IN /\ Becomes(e)
                      /\ IF Found(e.nodes[n])
                         THEN /\ flushing' = Append(flushing, Head(left))
                              /\ left' = <<>> /\ walk' = <<>>
                         ELSE IF below # <<>>
                         THEN walk' = below /\ UNCHANGED <<flushing, left>>
                         ELSE IF others # <<>>
                         THEN left' = others /\ walk' = <<Head(others)>> /\ UNCHANGED flushing
                         ELSE walk' = <<>> /\ UNCHANGED <<flushing, left>>
             /\ UNCHANGED <<root, next_seq, poisoned, fileVars, mode, frames>>
          \/ /\ LoadFails(Engine, n)
             /\ Interrupt(Engine)
             /\ UNCHANGED root

(* A probed node keeps its last child in left until it is settled.         *)
TopDone ==
    /\ Flushing /\ ~TopOverflows /\ ~Probing
    /\ mode = "drain" => left # <<>> \/ nodes[Top].children = <<>>

(* A legal choice of the policy; a drain's is greedy.                      *)
Legal(i) ==
    /\ Pending(nodes[Top], i) # {}
    /\ mode = "drain" => i = GreedyPick(nodes[Top])

Deliver(i) ==
    /\ TopOverflows
    /\ Legal(i)
    /\ LET child == nodes[Top].children[i]
           batch == Restrict(nodes[Top].buffer, Pending(nodes[Top], i))
           extracted == pick_and_extract(Engine, Top, i)
       IN \/ /\ \E loaded \in ensure_loaded(extracted, child, Range(flushing)) :
                   LET e == Deliver1(loaded, child, batch)
                       n == e.nodes[child]
                   IN IF ~n.leaf /\ Count(n.buffer) > threshold
                      THEN Becomes(e) /\ flushing' = Append(flushing, child)
                      ELSE /\ Becomes(IF n.leaf /\ n.entries = Empty THEN unlink(e, Top, child)
                                      ELSE SplitInto(e, Top, child))
                           /\ UNCHANGED flushing
             /\ UNCHANGED <<root, next_seq, poisoned, fileVars, mode, left, walk, frames>>
          \/ /\ LoadFails(extracted, child)     \* the batch is lost
             /\ Interrupt(extracted)
             /\ UNCHANGED root

TopRemoved == nodes[Top].children = <<>>

SettleChild ==
    /\ TopDone
    /\ Len(flushing) > 1
    /\ LET parent == Last(Front(flushing))
       IN Becomes(IF TopRemoved THEN unlink(Engine, parent, Top)
                  ELSE SplitInto(Engine, parent, Top))
    /\ flushing' = Front(flushing)
    /\ left' = <<>>
    /\ UNCHANGED <<root, next_seq, poisoned, fileVars, mode, walk, frames>>

RootDone == mode \in {"op", "drain"} /\ (flushing = <<>> \/ (TopDone /\ Len(flushing) = 1))

RootRemoved == flushing # <<>> /\ TopRemoved

RestartEmpty ==
    /\ RootDone /\ RootRemoved
    /\ Becomes(release_slot(Over(Engine, Append(nodes, Leaf(Empty))), root))
    /\ root' = Len(nodes) + 1
    /\ mode' = "collapse" /\ Idle
    /\ UNCHANGED <<next_seq, poisoned, fileVars>>

RootSplit == split_if_needed(nodes, root)

Grow ==
    /\ RootDone /\ ~RootRemoved
    /\ RootSplit.promoted # <<>>
    /\ LET promoted == RootSplit.promoted
           top == Internal([j \in DOMAIN promoted |-> promoted[j][1]],
                           <<root>> \o [j \in DOMAIN promoted |-> promoted[j][2]],
                           Empty)
       IN Restore(Over(Engine, Append(RootSplit.nodes, top)), Len(RootSplit.nodes) + 1, mode)
    /\ UNCHANGED <<next_seq, poisoned, fileVars>>

Settled ==
    /\ RootDone /\ ~RootRemoved
    /\ RootSplit.promoted = <<>>
    /\ mode' = "collapse" /\ Idle
    /\ UNCHANGED <<slotVars, root, next_seq, poisoned, fileVars>>

Lone(n) == ~n.leaf /\ Len(n.children) = 1 /\ ~HasMessages(n)

(* The root gives way to its only child, which is loaded after that.       *)
Collapse ==
    /\ mode = "collapse"
    /\ Lone(nodes[root])
    /\ root' = nodes[root].children[1]
    /\ LET e == release_slot(Engine, root)
       IN \/ /\ \E loaded \in ensure_loaded(e, root', {}) : Becomes(loaded)
             /\ UNCHANGED <<next_seq, poisoned, fileVars, callVars>>
          \/ LoadFails(e, root') /\ Interrupt(e)

Return ==
    /\ mode = "collapse"
    /\ ~Lone(nodes[root])
    /\ mode' = "rest"
    /\ UNCHANGED <<slotVars, root, next_seq, poisoned, fileVars, flushing, left, walk, frames>>

Reading == Visit \/ ScanStep \/ ReadFails

Cascade ==
    \/ BeginProbe \/ Probe
    \/ Flushing /\ \E i \in DOMAIN nodes[Top].children : Deliver(i)
    \/ SettleChild \/ RestartEmpty \/ Grow \/ Settled \/ Collapse \/ Return

Next ==
    \/ \E k \in Keys : \/ \E v \in Puts : insert(k, v)
                       \/ delete(k)
                       \/ \E d \in Deltas : upsert(k, d)
    \/ drain \/ commit \/ CommitFails \/ Reopen
    \/ StartWalk \/ StartScan \/ Reading
    \/ Cascade

Spec == Init /\ [][Next]_vars

(* When Reading \/ Cascade is enabled, from the guards of its actions.      *)
GoesOn ==
    \/ mode = "walk" /\ walk # <<>>
    \/ mode = "scan" /\ frames # <<>>
    \/ mode = "drain" /\ Probing
    \/ ProbeDue
    \/ TopOverflows /\ \E i \in DOMAIN nodes[Top].children : Legal(i)
    \/ TopDone \/ RootDone
    \/ mode = "collapse"

(* The engine is called on one thread: a call that runs goes on.  This is  *)
(* weak fairness of Reading \/ Cascade without ENABLED: each step from a   *)
(* state with a running call is theirs, or the end of the process.         *)
FairSpec == Spec /\ ([]<>~GoesOn \/ []<><<mode # "rest">>_vars)
=============================================================================
