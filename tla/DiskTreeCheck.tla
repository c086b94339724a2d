---------------------------- MODULE DiskTreeCheck ---------------------------
(***************************************************************************)
(* What makes the disk engine's tree correct while its nodes come and go.  *)
(***************************************************************************)
EXTENDS DiskTree

CONSTANT Unknown   \* the contents of a poisoned engine

StoredLeaf(k, s) == [leaf |-> TRUE, entries |-> [x \in {k} |-> [seq |-> s, value |-> 1]]]

StoredInternal(ps, cs, b) == [leaf |-> FALSE, pivots |-> ps, buffer |-> b, children |-> cs]

(* A file of three levels with a message in the middle one: what is there  *)
(* after create, insert(1), insert(2), delete(1), insert(3) and commit     *)
(* when every capacity is as small as it can be.                           *)
ThreeLevels ==
    [records |-> Created.records \o
        <<StoredLeaf(1, 1), StoredInternal(<<>>, <<2>>, [x \in {1} |-> Delete(3)]),
          StoredLeaf(2, 2), StoredLeaf(3, 4), StoredInternal(<<3>>, <<4, 5>>, Empty),
          StoredInternal(<<2>>, <<3, 6>>, Empty)>>,
     sb |-> [generation |-> 1, root |-> 7, last_seq |-> 4, watermark |-> 7]]

(* The same with insert(2) and delete(3) before the commit, when the       *)
(* policy has served key 3 first.                                          *)
TwoLeaves ==
    [records |-> Created.records \o
        <<StoredLeaf(1, 1), StoredInternal(<<>>, <<2>>, [x \in {1} |-> Delete(3)]),
          StoredLeaf(2, 2), StoredInternal(<<>>, <<4>>, [x \in {2} |-> Put(5, 1)]),
          StoredInternal(<<2>>, <<3, 5>>, Empty)>>,
     sb |-> [generation |-> 1, root |-> 6, last_seq |-> 6, watermark |-> 6]]

Deep == {ThreeLevels}

FreshOrDeep == {Created, TwoLeaves}

Live == {i \in DOMAIN nodes : nodes[i] # Freed}

(* The tree of engine e as loads would show it, as one arena of the slots  *)
(* followed by the records: a record's children are the slots that stand   *)
(* for them and, where there is none, records.                             *)
View(e) ==
    LET at(o) == IF o \in DOMAIN e.offsets THEN e.offsets[o] ELSE Len(e.nodes) + o
        link(r) == IF r.leaf THEN r
                   ELSE [r EXCEPT !.children = [j \in DOMAIN @ |-> at(@[j])]]
        slot(i) == CASE e.nodes[i] = OnDisk -> link(records[e.disk_offset[i]])
                     [] e.nodes[i] = Freed -> Leaf(Empty)
                     [] OTHER -> e.nodes[i]
    IN [i \in 1 .. (Len(e.nodes) + Len(records)) |->
           IF i <= Len(e.nodes) THEN slot(i) ELSE link(records[i - Len(e.nodes)])]

Contents(e, r) == LET view == View(e) IN [k \in Keys |-> Get(view, r, k)]

-----------------------------------------------------------------------------
(* What every commit leaves, and what a file to be opened therefore is     *)

IsMap(f, T) == /\ f = [k \in DOMAIN f |-> f[k]]
               /\ DOMAIN f \subseteq Keys /\ IsFiniteSet(DOMAIN f)
               /\ \A k \in DOMAIN f : f[k] \in T

IsRecord(r) ==
    IF r.leaf THEN r = [leaf |-> TRUE, entries |-> r.entries] /\ IsMap(r.entries, Entries(Nat))
    ELSE /\ r = [leaf |-> FALSE, pivots |-> r.pivots, buffer |-> r.buffer,
                 children |-> r.children]
         /\ r.pivots \in Seq(Nat) /\ r.children \in Seq(Nat)
         /\ IsMap(r.buffer, MessagesOf(Nat))

(* Records name earlier ones, none of them twice, and the leaves below a   *)
(* record are all at the same depth.                                       *)
Leveled(rs, height) ==
    /\ rs \in Seq(Range(rs)) /\ \A o \in 1 .. Len(rs) : IsRecord(rs[o])
    /\ height \in [1 .. Len(rs) -> Nat]
    /\ \A o \in 1 .. Len(rs) : rs[o].leaf <=> height[o] = 0
    /\ \A o \in 1 .. Len(rs) : ~rs[o].leaf =>
          /\ Len(rs[o].children) = Len(rs[o].pivots) + 1
          /\ IsInjective(rs[o].children)
          /\ \A c \in Children(rs[o]) : c \in 1 .. (o - 1) /\ height[o] = height[c] + 1

(* The records below the one at offset form a tree: no two of one height   *)
(* have anything in common.                                                *)
Nested(rs, height, offset) ==
    \A a, b \in Subtree(rs, offset) :
        height[a] = height[b] /\ Subtree(rs, a) \cap Subtree(rs, b) # {} => a = b

Committed(file) ==
    /\ file.sb.root \in 1 .. Len(file.records)
    /\ file.sb.watermark = Len(file.records)
    /\ file.sb.last_seq \in Nat
    /\ \E height \in [1 .. Len(file.records) -> 0 .. Len(file.records)] :
          Leveled(file.records, height) /\ Nested(file.records, height, file.sb.root)

ASSUME StoredAssumption == \A file \in Stored : Committed(file)

-----------------------------------------------------------------------------
(* Every node that a running call still holds an id of, and uses without   *)
(* loading it again, is in memory: eviction during a load has passed over  *)
(* the flush stack and the frames of a scan, clean or not.                 *)
StackResident ==
    /\ \A i \in Range(flushing) : IsLoaded(nodes[i])
    /\ mode = "scan" => \A i \in Frames : IsLoaded(nodes[i])
    /\ mode \in {"op", "drain", "collapse"} => IsLoaded(nodes[root])

(* A clean node in memory is its record, children included, so evicting it *)
(* loses nothing and a commit may keep the record.                         *)
CleanIsRecord ==
    \A i \in DOMAIN nodes : IsLoaded(nodes[i]) /\ ~nodes[i].dirty =>
        disk_offset[i] # NoRecord /\ records[disk_offset[i]] = node_payload(nodes[i], disk_offset)

(* offsets leads from each record that stands for a slot to that slot and  *)
(* nowhere else: a reloaded parent finds the resident, possibly dirty copy *)
(* of each child, and never a freed slot or a node that has moved on.      *)
InterningExact ==
    /\ \A o \in DOMAIN offsets : offsets[o] \in Live /\ disk_offset[offsets[o]] = o
    /\ \A i \in Live : disk_offset[i] # NoRecord =>
          disk_offset[i] \in DOMAIN offsets /\ offsets[disk_offset[i]] = i

(* No slot is left behind: each one that is not freed is a node of the     *)
(* tree, so nothing dirty, which no eviction can remove, piles up.         *)
NoOrphans ==
    Live \subseteq Subtree(View(Engine), root)

(* ensure_loaded's validation never rejects a record that the engine has   *)
(* written: the arity fits and children lie below their parent.            *)
RecordsValid ==
    \A o \in DOMAIN records : ~records[o].leaf =>
        /\ Len(records[o].children) = Len(records[o].pivots) + 1
        /\ \A c \in Children(records[o]) : c \in 1 .. (o - 1)

(* A superblock reaches only records that were just written and records of *)
(* the tree before it: a commit never brings back one that had been        *)
(* replaced, which is what DiskCommit assumes of it.                       *)
CommitKeepsLive ==
    [][sb' # sb =>
         Subtree(records', sb'.root) \cap (1 .. sb.watermark)
             \subseteq Subtree(records, sb.root)]_vars

Kv == INSTANCE DurableKv WITH
    map       <- IF poisoned THEN Unknown ELSE Contents(Engine, root),
    saved     <- [generation |-> sb.generation, seq |-> sb.last_seq],
    saved_map <- Contents(Opened(sb), 1)

(* Each call does to the map what a call on the durable map would do.      *)
CallsMatch ==
    [][\A k \in Keys : /\ \A v \in Puts : insert(k, v) => Kv!insert(k, v)
                       /\ delete(k) => Kv!delete(k)
                       /\ \A d \in Deltas : upsert(k, d) => Kv!upsert(k, d)]_vars

(* Under loads, evictions, drains and commits that skip dirty nodes below  *)
(* clean ones, the tree is the reference map, call by call; a commit saves *)
(* exactly that map, an error leaves the saved one or the one being saved, *)
(* and reopening at any moment returns to it.                              *)
ImplementsDurableMap == Kv!Spec /\ CallsMatch

(* Every call returns, with a result or an error: cascades and the         *)
(* descents of a drain come to an end although nodes are loaded and        *)
(* evicted on the way, and a call never waits for a node that it has lost. *)
CallsReturn == mode # "rest" ~> mode = "rest"
=============================================================================
