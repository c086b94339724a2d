-------------------------- MODULE DiskTreeProofs ---------------------------
(***************************************************************************)
(* Theorems about the tree of the disk engine: through loads, evictions,   *)
(* splits, drains, commits and storage errors the slots form one tree, the *)
(* clean ones are their records, and what a superblock reaches is a tree   *)
(* of valid records.                                                       *)
(***************************************************************************)
EXTENDS DiskTreeCheck, NodesProofs

-----------------------------------------------------------------------------
(* Records                                                                 *)

AnyRecord == [leaf : {TRUE}, entries : Maps(Entries(Nat))]
               \cup [leaf : {FALSE}, pivots : Seq(Nat), buffer : Maps(MessagesOf(Nat)),
                     children : Seq(Nat)]

(* A record that is read well is of a type of its own.                     *)
LEMMA RecordTyped ==
    ASSUME NEW r, IsRecord(r)
    PROVE  /\ r \in AnyRecord /\ r.leaf \in BOOLEAN
           /\ r.leaf => r.entries \in Maps(Entries(Nat))
           /\ ~r.leaf => /\ r.pivots \in Seq(Nat) /\ r.children \in Seq(Nat)
                         /\ r.buffer \in Maps(MessagesOf(Nat))
<1>1. CASE r.leaf
  <2>1. r = [leaf |-> TRUE, entries |-> r.entries] /\ IsMap(r.entries, Entries(Nat))
    BY <1>1 DEF IsRecord
  <2>2. r.entries \in Maps(Entries(Nat))
    BY <2>1, MapFacts DEF IsMap
  <2> QED BY <1>1, <2>1, <2>2 DEF AnyRecord
<1>2. CASE ~r.leaf
  <2>1. /\ r = [leaf |-> FALSE, pivots |-> r.pivots, buffer |-> r.buffer, children |-> r.children]
        /\ r.pivots \in Seq(Nat) /\ r.children \in Seq(Nat) /\ IsMap(r.buffer, MessagesOf(Nat))
    BY <1>2 DEF IsRecord
  <2>2. r.buffer \in Maps(MessagesOf(Nat))
    BY <2>1, MapFacts DEF IsMap
  <2>3. \A p \in Seq(Nat), b \in Maps(MessagesOf(Nat)), c \in Seq(Nat) :
           [leaf |-> FALSE, pivots |-> p, buffer |-> b, children |-> c] \in AnyRecord
    BY DEF AnyRecord
  <2>4. r \in AnyRecord
    BY <2>1, <2>2, <2>3, Zenon
  <2>5. r.leaf = FALSE
    <3>1. \A p, b, c : [leaf |-> FALSE, pivots |-> p, buffer |-> b, children |-> c].leaf = FALSE
      OBVIOUS
    <3> QED BY <2>1, <3>1, ZenonT(30)
  <2> QED BY <2>1, <2>2, <2>4, <2>5, Zenon
<1> QED BY <1>1, <1>2

(* Children, by index.                                                     *)
LEMMA ChildrenOf ==
    ASSUME NEW n, n.leaf \in BOOLEAN, ~n.leaf => n.children \in Seq(Nat)
    PROVE  /\ n.leaf => Children(n) = {}
           /\ ~n.leaf => Children(n) = {n.children[j] : j \in 1 .. Len(n.children)}
           /\ Children(n) \subseteq Nat
<1>1. CASE n.leaf
  BY <1>1 DEF Children
<1>2. CASE ~n.leaf
  BY <1>2 DEF Children, Range
<1> QED BY <1>1, <1>2

(* What the records below one are.                                         *)
LEMMA RecordsBelow ==
    ASSUME NEW rs, NEW hr, Leveled(rs, hr)
    PROVE  /\ Len(rs) \in Nat /\ DOMAIN rs = 1 .. Len(rs)
           /\ \A o \in 1 .. Len(rs) :
                 /\ Children(rs[o]) \subseteq 1 .. Len(rs)
                 /\ \A c \in Children(rs[o]) : c < o /\ hr[o] = hr[c] + 1
                 /\ Subtree(rs, o) = {o} \cup UNION {Subtree(rs, c) : c \in Children(rs[o])}
<1>1. /\ Len(rs) \in Nat /\ DOMAIN rs = 1 .. Len(rs) /\ hr \in [1 .. Len(rs) -> Nat]
      /\ \A o \in 1 .. Len(rs) : IsRecord(rs[o])
  BY DEF Leveled
<1>2. ASSUME NEW o \in 1 .. Len(rs), NEW c \in Children(rs[o])
      PROVE  c \in 1 .. Len(rs) /\ c < o /\ hr[o] = hr[c] + 1
  <2>1. ~rs[o].leaf
    BY <1>2 DEF Children
  <2>2. c \in 1 .. (o - 1) /\ hr[o] = hr[c] + 1
    BY <2>1 DEF Leveled
  <2> QED BY <2>2, <1>1
<1> DEFINE rk == [o \in 1 .. Len(rs) |-> o]
<1>3. rk \in [DOMAIN rs -> Nat] /\ \A o \in DOMAIN rs : rk[o] <= Len(rs)
  BY <1>1
<1>4. \A o \in DOMAIN rs : \A c \in Children(rs[o]) : c \in DOMAIN rs /\ rk[c] < rk[o]
  BY <1>1, <1>2
<1> HIDE DEF rk
<1>5. \A o \in DOMAIN rs : Subtree(rs, o) = {o} \cup UNION {Subtree(rs, c) : c \in Children(rs[o])}
  BY <1>1, <1>3, <1>4, SubtreeMeets
<1> QED BY <1>1, <1>2, <1>5

(* They are earlier and lower, and what is below them is below it.         *)
LEMMA BelowRecord ==
    ASSUME NEW rs, NEW hr, Leveled(rs, hr), NEW o \in 1 .. Len(rs)
    PROVE  /\ o \in Subtree(rs, o) /\ Subtree(rs, o) \subseteq 1 .. Len(rs)
           /\ \A t \in Subtree(rs, o) : t # o => hr[t] < hr[o]
           /\ \A t \in Subtree(rs, o) : Subtree(rs, t) \subseteq Subtree(rs, o)
           /\ \A c \in Children(rs[o]) : Subtree(rs, c) \subseteq Subtree(rs, o)
           /\ \A t \in Subtree(rs, o) : t # o => \E c \in Children(rs[o]) : t \in Subtree(rs, c)
           /\ \A t \in Subtree(rs, o) : t # o => \E p \in Subtree(rs, o) : t \in Children(rs[p])
<1> DEFINE D == 1 .. Len(rs)
           Good(x) == /\ x \in Subtree(rs, x) /\ Subtree(rs, x) \subseteq D
                      /\ \A t \in Subtree(rs, x) : t # x => hr[t] < hr[x]
                      /\ \A t \in Subtree(rs, x) : Subtree(rs, t) \subseteq Subtree(rs, x)
                      /\ \A t \in Subtree(rs, x) : t # x => \E p \in Subtree(rs, x) : t \in Children(rs[p])
           G == {x \in D : Good(x)}
<1>1. /\ \A x \in D : /\ Children(rs[x]) \subseteq D
                      /\ \A c \in Children(rs[x]) : hr[x] = hr[c] + 1
                      /\ Subtree(rs, x) = {x} \cup UNION {Subtree(rs, c) : c \in Children(rs[x])}
      /\ hr \in [D -> Nat]
  BY RecordsBelow, SMT DEF Leveled
<1> HIDE DEF D
<1>2. ASSUME NEW x \in D, \A c \in D : hr[c] < hr[x] => c \in G PROVE x \in G
  <2>1. ASSUME NEW c \in Children(rs[x]) PROVE c \in D /\ hr[c] < hr[x] /\ Good(c)
    <3>1. c \in D /\ hr[x] = hr[c] + 1 /\ hr[c] \in Nat
      BY <1>1
    <3>2. hr[c] < hr[x]
      BY <3>1
    <3> QED BY <3>1, <3>2, <1>2
  <2>2. x \in Subtree(rs, x) /\ \A c \in Children(rs[x]) : Subtree(rs, c) \subseteq Subtree(rs, x)
    BY <1>1
  <2>3. ASSUME NEW t \in Subtree(rs, x), t # x
        PROVE  \E c \in Children(rs[x]) : t \in Subtree(rs, c)
    BY <1>1, <2>3
  <2>4. Subtree(rs, x) \subseteq D
    BY <2>1, <2>3
  <2>5. ASSUME NEW t \in Subtree(rs, x), t # x
        PROVE  /\ hr[t] < hr[x] /\ Subtree(rs, t) \subseteq Subtree(rs, x)
               /\ \E p \in Subtree(rs, x) : t \in Children(rs[p])
    <3>1. PICK c \in Children(rs[x]) : t \in Subtree(rs, c)
      BY <2>3, <2>5
    <3>2. Good(c) /\ hr[c] < hr[x] /\ c \in D /\ t \in D
      BY <2>1, <2>4
    <3>3. hr[t] \in Nat /\ hr[c] \in Nat /\ hr[x] \in Nat
      BY <3>2, <1>1
    <3>4. hr[t] < hr[x]
      BY <3>1, <3>2, <3>3
    <3>5. Subtree(rs, t) \subseteq Subtree(rs, x)
      BY <3>1, <3>2, <2>2
    <3>6. \E p \in Subtree(rs, x) : t \in Children(rs[p])
      <4>1. CASE t = c
        BY <4>1, <2>2
      <4>2. CASE t # c
        BY <4>2, <3>1, <3>2, <2>2
      <4> QED BY <4>1, <4>2
    <3> QED BY <3>4, <3>5, <3>6
  <2>6. Good(x)
    BY <2>2, <2>4, <2>5
  <2> QED BY <2>6
<1>3. \A x \in D : x \in G
  <2> HIDE DEF G
  <2> QED BY <1>1, <1>2, RankInduction
<1>4. Good(o) /\ o \in D
  BY <1>3 DEF D
<1>5. \A c \in Children(rs[o]) : Subtree(rs, c) \subseteq Subtree(rs, o)
  BY <1>1, <1>4
<1>6. \A t \in Subtree(rs, o) : t # o => \E c \in Children(rs[o]) : t \in Subtree(rs, c)
  BY <1>1, <1>4
<1> QED BY <1>4, <1>5, <1>6 DEF D

(* A part of a tree of records is one.                                     *)
LEMMA NestedBelow ==
    ASSUME NEW rs, NEW hr, Leveled(rs, hr), NEW o \in 1 .. Len(rs), Nested(rs, hr, o),
           NEW t \in Subtree(rs, o)
    PROVE  Nested(rs, hr, t)
<1>1. Subtree(rs, t) \subseteq Subtree(rs, o)
  BY BelowRecord
<1> QED BY <1>1, Zenon DEF Nested

(* More records at the end of a file change nothing below those it had.    *)
LEMMA RecordsStay ==
    ASSUME NEW rs, NEW hr, Leveled(rs, hr), NEW rs2, NEW hr2, Leveled(rs2, hr2),
           Len(rs) <= Len(rs2),
           \A o \in 1 .. Len(rs) : rs2[o] = rs[o] /\ hr2[o] = hr[o]
    PROVE  \A o \in 1 .. Len(rs) : /\ Subtree(rs2, o) = Subtree(rs, o)
                                   /\ Nested(rs, hr, o) <=> Nested(rs2, hr2, o)
<1> DEFINE D == 1 .. Len(rs)
           G == {x \in D : Subtree(rs2, x) = Subtree(rs, x)}
<1>0. Len(rs2) \in Nat
  BY RecordsBelow
<1>1. /\ hr \in [D -> Nat] /\ Len(rs) \in Nat
      /\ \A x \in D : /\ Children(rs[x]) \subseteq D
                      /\ \A c \in Children(rs[x]) : hr[x] = hr[c] + 1
                      /\ Subtree(rs, x) = {x} \cup UNION {Subtree(rs, c) : c \in Children(rs[x])}
  <2>1. hr \in [D -> Nat]
    BY DEF Leveled
  <2> QED BY <2>1, RecordsBelow
<1>2. \A x \in D : x \in 1 .. Len(rs2)
  BY <1>0, <1>1
<1>3. \A x \in D : Subtree(rs2, x) = {x} \cup UNION {Subtree(rs2, c) : c \in Children(rs2[x])}
  BY <1>2, RecordsBelow
<1>4. \A x \in D : Children(rs2[x]) = Children(rs[x])
  OBVIOUS
<1>5. \A x \in D : Subtree(rs, x) \subseteq D
  BY BelowRecord
<1>10. \A x \in D : hr2[x] = hr[x]
  OBVIOUS
<1> HIDE DEF D
<1>6. ASSUME NEW x \in D, \A c \in D : hr[c] < hr[x] => c \in G PROVE x \in G
  <2>1. ASSUME NEW c \in Children(rs[x]) PROVE Subtree(rs2, c) = Subtree(rs, c)
    <3>1. c \in D /\ hr[x] = hr[c] + 1 /\ hr[c] \in Nat
      BY <1>1
    <3>2. hr[c] < hr[x]
      BY <3>1
    <3> QED BY <3>1, <3>2, <1>6
  <2>2. {Subtree(rs2, c) : c \in Children(rs2[x])} = {Subtree(rs, c) : c \in Children(rs[x])}
    BY <2>1, <1>4
  <2> QED BY <2>2, <1>1, <1>3
<1>7. \A x \in D : x \in G
  <2> HIDE DEF G
  <2> QED BY <1>1, <1>6, RankInduction
<1>8. \A x \in D : Subtree(rs2, x) = Subtree(rs, x)
  BY <1>7
<1>9. ASSUME NEW o \in D PROVE Nested(rs, hr, o) <=> Nested(rs2, hr2, o)
  <2>1. \A a \in Subtree(rs, o) : a \in D /\ hr2[a] = hr[a] /\ Subtree(rs2, a) = Subtree(rs, a)
    BY <1>5, <1>8, <1>10
  <2> QED BY <2>1, <1>8, Zenon DEF Nested
<1> QED BY <1>8, <1>9 DEF D

-----------------------------------------------------------------------------
(* The slots                                                               *)

Slots == AnyNode \cup {OnDisk, Freed}

Alive(e) == {i \in 1 .. Len(e.nodes) : e.nodes[i] # Freed}

(* The slots of the children of a node, if they have any.                  *)
KidsOf(e, rs, i) ==
    IF e.nodes[i] = OnDisk
    THEN {e.offsets[c] : c \in Children(rs[e.disk_offset[i]]) \cap DOMAIN e.offsets}
    ELSE Children(e.nodes[i])

Clean(e, i) == e.nodes[i] = OnDisk \/ ~e.nodes[i].dirty

(* What the slots hold: X are the nodes that may have lost their children. *)
Held(e, rs, X) ==
    /\ e.nodes \in Seq(Slots) /\ e.disk_offset \in Seq(Nat)
    /\ Len(e.disk_offset) = Len(e.nodes)
    /\ \A i \in 1 .. Len(e.nodes) : e.disk_offset[i] \in 0 .. Len(rs)
    /\ \A i \in 1 .. Len(e.nodes) : e.nodes[i] = OnDisk => e.disk_offset[i] # NoRecord
    /\ \A i \in Alive(e) : IsLoaded(e.nodes[i]) =>
          /\ ~e.nodes[i].dirty => /\ e.disk_offset[i] # NoRecord
                                  /\ rs[e.disk_offset[i]] = node_payload(e.nodes[i], e.disk_offset)
          /\ ~e.nodes[i].leaf =>
                /\ IsInjective(e.nodes[i].children)
                /\ \/ Len(e.nodes[i].children) = Len(e.nodes[i].pivots) + 1
                   \/ /\ e.nodes[i].children = <<>> /\ e.nodes[i].pivots = <<>>
                      /\ e.nodes[i].dirty /\ i \in X

(* Records and slots stand for each other.                                 *)
Interned(e, rs) ==
    /\ DOMAIN e.offsets \subseteq 1 .. Len(rs)
    /\ \A o \in DOMAIN e.offsets : e.offsets[o] \in Alive(e) /\ e.disk_offset[e.offsets[o]] = o
    /\ \A i \in Alive(e) : e.disk_offset[i] # NoRecord =>
          e.disk_offset[i] \in DOMAIN e.offsets /\ e.offsets[e.disk_offset[i]] = i

(* A node on disk has been loaded before, and its children have slots, or  *)
(* nothing below it has.                                                   *)
Opaquely(e, rs, i) ==
    Subtree(rs, e.disk_offset[i]) \cap DOMAIN e.offsets \subseteq {e.disk_offset[i]}

Half(e, rs) ==
    \A i \in Alive(e) : e.nodes[i] = OnDisk =>
        Children(rs[e.disk_offset[i]]) \subseteq DOMAIN e.offsets \/ Opaquely(e, rs, i)

(* The slots in use form a tree below r, where par gives the parent and    *)
(* rk the height.                                                          *)
Rooted(e, rs, r, hr, rk, par) ==
    /\ r \in Alive(e)
    /\ \A x \in Alive(e) : rk[x] \in Nat /\ rk[x] <= rk[r]
    /\ \A x \in Alive(e) \ {r} : par[x] \in Alive(e) /\ rk[par[x]] = rk[x] + 1
    /\ \A i \in Alive(e) : KidsOf(e, rs, i) = {x \in Alive(e) \ {r} : par[x] = i}
    /\ \A i \in Alive(e) : IsLoaded(e.nodes[i]) => (e.nodes[i].leaf <=> rk[i] = 0)
    /\ \A i \in Alive(e) : e.disk_offset[i] # NoRecord => rk[i] = hr[e.disk_offset[i]]

(* Each node has records of its own, those below its record when it is     *)
(* clean, which it shares with its ancestors and with nobody else.         *)
Apart(e, rs, r, hr, rk, par, ft) ==
    /\ \A x \in Alive(e) : ft[x] \subseteq 1 .. Len(rs)
    /\ \A x \in Alive(e) \ {r} : ft[x] \subseteq ft[par[x]]
    /\ \A x \in Alive(e) : Clean(e, x) =>
          ft[x] = Subtree(rs, e.disk_offset[x]) /\ Nested(rs, hr, e.disk_offset[x])
    /\ \A x, y \in Alive(e) : rk[x] = rk[y] /\ ft[x] \cap ft[y] # {} => x = y

SaneBy(e, rs, hr, r, X, F, rk, par, ft) ==
    /\ Leveled(rs, hr) /\ Held(e, rs, X) /\ Interned(e, rs) /\ Half(e, rs)
    /\ Rooted(e, rs, r, hr, rk, par) /\ Apart(e, rs, r, hr, rk, par, ft)
    /\ ft[r] \subseteq F

(* F bounds the records of the whole tree.                                 *)
Sane(e, rs, hr, r, X, F) == \E rk, par, ft : SaneBy(e, rs, hr, r, X, F, rk, par, ft)

(* A node is neither of the marks that stand for one.                      *)
LEMMA SlotKinds ==
    /\ OnDisk # Freed
    /\ \A n \in AnyNode : /\ n # OnDisk /\ n # Freed /\ IsLoaded(n)
                          /\ n.leaf \in BOOLEAN /\ n.dirty \in BOOLEAN
                          /\ n.leaf => n \in LeafNode /\ n.entries \in Maps(Entries(Nat))
                          /\ ~n.leaf => /\ n \in InnerNode /\ n.pivots \in Seq(Nat)
                                        /\ n.children \in Seq(Nat)
                                        /\ n.buffer \in Maps(MessagesOf(Nat))
    /\ \A n \in Slots : IsLoaded(n) <=> n \in AnyNode
<1>1. OnDisk # Freed
  BY DEF OnDisk, Freed
<1>2. ASSUME NEW n \in AnyNode
      PROVE  /\ n.leaf \in BOOLEAN /\ n.dirty \in BOOLEAN
             /\ n.leaf => n \in LeafNode /\ n.entries \in Maps(Entries(Nat))
             /\ ~n.leaf => /\ n \in InnerNode /\ n.pivots \in Seq(Nat)
                           /\ n.children \in Seq(Nat)
                           /\ n.buffer \in Maps(MessagesOf(Nat))
  <2>1. CASE n \in LeafNode
    BY <2>1 DEF LeafNode
  <2>2. CASE n \in InnerNode
    BY <2>2 DEF InnerNode
  <2> QED BY <2>1, <2>2 DEF AnyNode
<1>3. ASSUME NEW n \in AnyNode PROVE n # OnDisk /\ n # Freed
  <2>1. "leaf" \in DOMAIN n
    BY DEF AnyNode, LeafNode, InnerNode
  <2>2. "leaf" \notin DOMAIN OnDisk /\ "leaf" \notin DOMAIN Freed
    BY DEF OnDisk, Freed
  <2> QED BY <2>1, <2>2
<1>4. \A n \in AnyNode : IsLoaded(n)
  BY <1>3 DEF IsLoaded
<1>5. \A n \in Slots : IsLoaded(n) <=> n \in AnyNode
  BY <1>3, <1>4 DEF IsLoaded, Slots
<1> QED BY <1>1, <1>2, <1>3, <1>4, <1>5

(* From a node up to a height that the tree has, along nodes that share a  *)
(* record of it.                                                           *)
LEMMA Climb ==
    ASSUME NEW e, NEW rs, NEW hr, NEW r, NEW X, NEW F, NEW rk, NEW par, NEW ft,
           SaneBy(e, rs, hr, r, X, F, rk, par, ft),
           NEW W, W \subseteq Alive(e), \A y \in W \ {r} : par[y] \in W,
           NEW x \in W, NEW o \in ft[x], NEW k \in Nat, rk[x] <= k, k <= rk[r]
    PROVE  \E a \in W : rk[a] = k /\ o \in ft[a]
<1> DEFINE L == Alive(e)
           At(n) == \E a \in W : rk[a] = rk[x] + n /\ o \in ft[a]
           S == {n \in Nat : rk[x] + n <= rk[r] => At(n)}
<1>1. /\ r \in L /\ \A y \in L : rk[y] \in Nat /\ rk[y] <= rk[r]
      /\ \A y \in L \ {r} : rk[par[y]] = rk[y] + 1 /\ ft[y] \subseteq ft[par[y]]
  BY DEF SaneBy, Rooted, Apart
<1> HIDE DEF L
<1>2. W \subseteq L
  BY DEF L
<1>3. 0 \in S
  <2>1. rk[x] = rk[x] + 0
    BY <1>1, <1>2
  <2>2. At(0)
    BY <2>1
  <2> QED BY <2>2
<1>4. ASSUME NEW n \in Nat, n \in S PROVE n + 1 \in S
  <2> SUFFICES ASSUME rk[x] + (n + 1) <= rk[r] PROVE At(n + 1)
    OBVIOUS
  <2>1. rk[x] \in Nat /\ rk[r] \in Nat
    BY <1>1, <1>2
  <2>2. rk[x] + n <= rk[r]
    BY <2>1
  <2>3. PICK a \in W : rk[a] = rk[x] + n /\ o \in ft[a]
    BY <2>2, <1>4
  <2>4. a # r
    BY <2>1, <2>3
  <2>5. par[a] \in W /\ rk[par[a]] = rk[x] + (n + 1) /\ o \in ft[par[a]]
    BY <2>1, <2>3, <2>4, <1>1, <1>2
  <2> QED BY <2>5
<1>5. \A n \in Nat : n \in S
  <2> HIDE DEF S
  <2> QED BY <1>3, <1>4, SetInduction
<1>6. k - rk[x] \in Nat /\ rk[x] + (k - rk[x]) = k
  BY <1>1, <1>2
<1>7. At(k - rk[x])
  BY <1>5, <1>6
<1> QED BY <1>6, <1>7

(* A root without children is alone.                                       *)
LEMMA Alone ==
    ASSUME NEW e, NEW rs, NEW hr, NEW r, NEW X, NEW F, NEW rk, NEW par, NEW ft,
           SaneBy(e, rs, hr, r, X, F, rk, par, ft), KidsOf(e, rs, r) = {}
    PROVE  Alive(e) = {r}
<1> DEFINE L == Alive(e)
           D == {rk[r] - rk[y] : y \in L \ {r}}
<1>1. /\ r \in L /\ \A y \in L : rk[y] \in Nat /\ rk[y] <= rk[r]
      /\ \A y \in L \ {r} : par[y] \in L /\ rk[par[y]] = rk[y] + 1
      /\ {y \in L \ {r} : par[y] = r} = {}
  BY DEF SaneBy, Rooted
<1> HIDE DEF L
<1> SUFFICES ASSUME L \ {r} # {} PROVE FALSE
  BY <1>1 DEF L
<1>2. D \subseteq Nat
  BY <1>1
<1>3. D # {}
  OBVIOUS
<1>4. PICK d \in D : \A y \in D : d <= y
  BY <1>2, <1>3, Least
<1>5. PICK y \in L \ {r} : d = rk[r] - rk[y]
  OBVIOUS
<1>6. par[y] \in L \ {r}
  BY <1>1
<1>7. rk[r] - rk[par[y]] \in D
  BY <1>6
<1>8. d <= rk[r] - rk[par[y]]
  BY <1>4, <1>7
<1>9. rk[par[y]] = rk[y] + 1 /\ rk[y] \in Nat /\ rk[r] \in Nat
  BY <1>1
<1> QED BY <1>5, <1>8, <1>9


(* What an operation that leaves the links between slots alone has to keep. *)
LEMMA SameTree ==
    ASSUME NEW e, NEW rs, NEW hr, NEW r, NEW X, NEW F, NEW rk, NEW par, NEW ft,
           SaneBy(e, rs, hr, r, X, F, rk, par, ft),
           NEW e2, NEW X2, Held(e2, rs, X2), Alive(e2) = Alive(e),
           e2.disk_offset = e.disk_offset, e2.offsets = e.offsets,
           \A i \in Alive(e) :
              /\ KidsOf(e2, rs, i) = KidsOf(e, rs, i)
              /\ IsLoaded(e2.nodes[i]) => (e2.nodes[i].leaf <=> rk[i] = 0)
              /\ Clean(e2, i) => Clean(e, i)
              /\ e2.nodes[i] = OnDisk => \/ e.nodes[i] = OnDisk
                                         \/ Children(rs[e.disk_offset[i]]) \subseteq DOMAIN e.offsets
    PROVE  SaneBy(e2, rs, hr, r, X2, F, rk, par, ft)
<1>1. /\ Leveled(rs, hr) /\ Interned(e, rs) /\ Half(e, rs)
      /\ Rooted(e, rs, r, hr, rk, par) /\ Apart(e, rs, r, hr, rk, par, ft) /\ ft[r] \subseteq F
  BY DEF SaneBy
<1>2. Interned(e2, rs)
  BY <1>1, Zenon DEF Interned
<1>3. Half(e2, rs)
  BY <1>1, Zenon DEF Half, Opaquely
<1>4. Rooted(e2, rs, r, hr, rk, par)
  BY <1>1, Zenon DEF Rooted
<1>5. Apart(e2, rs, r, hr, rk, par, ft)
  BY <1>1, Zenon DEF Apart
<1> QED BY <1>1, <1>2, <1>3, <1>4, <1>5, Zenon DEF SaneBy

(* What the slots of a sane engine are.                                    *)
LEMMA SlotFacts ==
    ASSUME NEW e, NEW rs, NEW hr, NEW r, NEW X, NEW F, NEW rk, NEW par, NEW ft,
           SaneBy(e, rs, hr, r, X, F, rk, par, ft)
    PROVE  /\ Len(e.nodes) \in Nat /\ DOMAIN e.nodes = 1 .. Len(e.nodes)
           /\ DOMAIN e.disk_offset = 1 .. Len(e.nodes)
           /\ Alive(e) \subseteq 1 .. Len(e.nodes) /\ r \in Alive(e)
           /\ \A i \in 1 .. Len(e.nodes) : e.nodes[i] \in Slots
           /\ \A i \in Alive(e) : e.nodes[i] # Freed /\ (e.nodes[i] = OnDisk \/ IsLoaded(e.nodes[i]))
           /\ \A i \in 1 .. Len(e.nodes) : IsLoaded(e.nodes[i]) => i \in Alive(e) /\ e.nodes[i] \in AnyNode
           /\ \A i \in Alive(e) : /\ KidsOf(e, rs, i) \subseteq Alive(e) \ {r}
                                  /\ \A c \in KidsOf(e, rs, i) : rk[c] \in Nat /\ rk[i] = rk[c] + 1
           /\ \A i \in Alive(e) : IsLoaded(e.nodes[i]) => KidsOf(e, rs, i) = Children(e.nodes[i])
<1>1. /\ e.nodes \in Seq(Slots) /\ e.disk_offset \in Seq(Nat) /\ Len(e.disk_offset) = Len(e.nodes)
  BY DEF SaneBy, Held
<1>2. /\ r \in Alive(e) /\ \A x \in Alive(e) : rk[x] \in Nat
      /\ \A x \in Alive(e) \ {r} : rk[par[x]] = rk[x] + 1
      /\ \A i \in Alive(e) : KidsOf(e, rs, i) = {x \in Alive(e) \ {r} : par[x] = i}
  BY DEF SaneBy, Rooted
<1>3. /\ Len(e.nodes) \in Nat /\ DOMAIN e.nodes = 1 .. Len(e.nodes)
      /\ DOMAIN e.disk_offset = 1 .. Len(e.nodes)
      /\ \A i \in 1 .. Len(e.nodes) : e.nodes[i] \in Slots
  BY <1>1
<1>4. /\ Alive(e) \subseteq 1 .. Len(e.nodes)
      /\ \A i \in Alive(e) : e.nodes[i] # Freed
  BY DEF Alive
<1>5. \A i \in Alive(e) : e.nodes[i] = OnDisk \/ IsLoaded(e.nodes[i])
  BY <1>4 DEF IsLoaded
<1>6. \A i \in 1 .. Len(e.nodes) : IsLoaded(e.nodes[i]) => i \in Alive(e) /\ e.nodes[i] \in AnyNode
  BY <1>3, SlotKinds DEF Alive, IsLoaded
<1>7. \A i \in Alive(e) : IsLoaded(e.nodes[i]) => KidsOf(e, rs, i) = Children(e.nodes[i])
  BY DEF IsLoaded, KidsOf
<1>8. \A i \in Alive(e) : /\ KidsOf(e, rs, i) \subseteq Alive(e) \ {r}
                          /\ \A c \in KidsOf(e, rs, i) : rk[c] \in Nat /\ rk[i] = rk[c] + 1
  BY <1>2
<1> QED BY <1>2, <1>3, <1>4, <1>5, <1>6, <1>7, <1>8

(* A node in memory is written to: nothing but what it holds changes.      *)
LEMMA Touched ==
    ASSUME NEW e, NEW rs, NEW hr, NEW r, NEW X, NEW F, NEW rk, NEW par, NEW ft,
           SaneBy(e, rs, hr, r, X, F, rk, par, ft),
           NEW i \in Alive(e), IsLoaded(e.nodes[i]),
           NEW m \in AnyNode, m.leaf <=> e.nodes[i].leaf, m.dirty,
           ~m.leaf => m.children = e.nodes[i].children /\ m.pivots = e.nodes[i].pivots,
           NEW e2, e2.nodes = [e.nodes EXCEPT ![i] = m],
           e2.disk_offset = e.disk_offset, e2.offsets = e.offsets
    PROVE  SaneBy(e2, rs, hr, r, X, F, rk, par, ft) /\ Alive(e2) = Alive(e)
<1>1. /\ DOMAIN e.nodes = 1 .. Len(e.nodes) /\ Len(e.nodes) \in Nat
      /\ Alive(e) \subseteq 1 .. Len(e.nodes)
      /\ \A j \in 1 .. Len(e.nodes) : e.nodes[j] \in Slots
      /\ e.nodes[i] \in AnyNode
  BY SlotFacts
<1>2. m \in Slots /\ m # OnDisk /\ m # Freed /\ IsLoaded(m)
  BY SlotKinds DEF Slots
<1>3. /\ e2.nodes \in Seq(Slots) /\ Len(e2.nodes) = Len(e.nodes)
      /\ e2.nodes[i] = m /\ \A j \in 1 .. Len(e.nodes) : j # i => e2.nodes[j] = e.nodes[j]
  <2>1. e.nodes \in Seq(Slots)
    BY DEF SaneBy, Held
  <2> QED BY <2>1, <1>1, <1>2
<1>4. Alive(e2) = Alive(e)
  BY <1>1, <1>2, <1>3 DEF Alive
<1>5. Held(e2, rs, X)
  <2>1. Held(e, rs, X)
    BY DEF SaneBy
  <2>2. ASSUME NEW j \in Alive(e2), IsLoaded(e2.nodes[j])
        PROVE  /\ ~e2.nodes[j].dirty =>
                     /\ e2.disk_offset[j] # NoRecord
                     /\ rs[e2.disk_offset[j]] = node_payload(e2.nodes[j], e2.disk_offset)
               /\ ~e2.nodes[j].leaf =>
                   /\ IsInjective(e2.nodes[j].children)
                   /\ \/ Len(e2.nodes[j].children) = Len(e2.nodes[j].pivots) + 1
                      \/ /\ e2.nodes[j].children = <<>> /\ e2.nodes[j].pivots = <<>>
                         /\ e2.nodes[j].dirty /\ j \in X
    <3>1. CASE j = i
      <4>1. ~m.leaf => /\ IsInjective(m.children)
                       /\ \/ Len(m.children) = Len(m.pivots) + 1
                          \/ m.children = <<>> /\ m.pivots = <<>> /\ i \in X
        BY <2>1 DEF Held
      <4> QED BY <3>1, <4>1, <1>3
    <3>2. CASE j # i
      <4>1. e2.nodes[j] = e.nodes[j] /\ j \in Alive(e)
        BY <3>2, <1>1, <1>3, <1>4
      <4> QED BY <4>1, <2>1, <2>2, ZenonT(30) DEF Held
    <3> QED BY <3>1, <3>2
  <2>3. \A j \in 1 .. Len(e2.nodes) : e2.nodes[j] = OnDisk => e2.disk_offset[j] # NoRecord
    <3>1. \A j \in 1 .. Len(e.nodes) : e.nodes[j] = OnDisk => e.disk_offset[j] # NoRecord
      BY <2>1, Zenon DEF Held
    <3> SUFFICES ASSUME NEW j \in 1 .. Len(e.nodes), e2.nodes[j] = OnDisk
                 PROVE  e.disk_offset[j] # NoRecord
      BY <1>3, Zenon
    <3>2. e2.nodes[j] = e.nodes[j]
      BY <1>2, <1>3, Zenon
    <3> QED BY <3>1, <3>2, Zenon
  <2>4. /\ e2.disk_offset \in Seq(Nat) /\ Len(e2.disk_offset) = Len(e2.nodes)
        /\ \A j \in 1 .. Len(e2.nodes) : e2.disk_offset[j] \in 0 .. Len(rs)
    BY <2>1, <1>3 DEF Held
  <2> QED BY <2>2, <2>3, <2>4, <1>3, Zenon DEF Held
<1>6. Children(m) = Children(e.nodes[i])
  BY DEF Children
<1>7. ASSUME NEW j \in Alive(e)
      PROVE  /\ KidsOf(e2, rs, j) = KidsOf(e, rs, j)
             /\ IsLoaded(e2.nodes[j]) => (e2.nodes[j].leaf <=> rk[j] = 0)
             /\ Clean(e2, j) => Clean(e, j)
             /\ e2.nodes[j] = OnDisk => e.nodes[j] = OnDisk
  <2>0. \A x \in Alive(e) : IsLoaded(e.nodes[x]) => (e.nodes[x].leaf <=> rk[x] = 0)
    BY DEF SaneBy, Rooted
  <2>1. CASE j = i
    <3>1. KidsOf(e2, rs, j) = Children(m) /\ KidsOf(e, rs, j) = Children(e.nodes[i])
      BY <2>1, <1>1, <1>2, <1>3, SlotKinds DEF KidsOf
    <3>2. ~Clean(e2, j) /\ e2.nodes[j] # OnDisk
      BY <2>1, <1>2, <1>3 DEF Clean
    <3> QED BY <3>1, <3>2, <2>0, <2>1, <1>3, <1>6
  <2>2. CASE j # i
    <3>1. e2.nodes[j] = e.nodes[j]
      BY <2>2, <1>1, <1>3
    <3>2. KidsOf(e2, rs, j) = KidsOf(e, rs, j)
      BY <3>1 DEF KidsOf
    <3>3. Clean(e2, j) <=> Clean(e, j)
      BY <3>1 DEF Clean
    <3> QED BY <3>1, <3>2, <3>3, <2>0
  <2> QED BY <2>1, <2>2
<1> QED BY <1>4, <1>5, <1>7, SameTree


(* The children of a node that is its record are the slots that stand for  *)
(* the record's children, all of which have one.                           *)
LEMMA RecordKids ==
    ASSUME NEW e, NEW rs, NEW hr, NEW r, NEW X, NEW F, NEW rk, NEW par, NEW ft,
           SaneBy(e, rs, hr, r, X, F, rk, par, ft),
           NEW n \in AnyNode, NEW o \in 1 .. Len(rs), rs[o] = node_payload(n, e.disk_offset),
           Children(n) \subseteq Alive(e)
    PROVE  /\ Children(rs[o]) \subseteq DOMAIN e.offsets
           /\ {e.offsets[c] : c \in Children(rs[o]) \cap DOMAIN e.offsets} = Children(n)
           /\ rs[o].leaf = n.leaf
<1>1. n.leaf \in BOOLEAN /\ (~n.leaf => n.children \in Seq(Nat))
  BY SlotKinds
<1>2. CASE n.leaf
  <2>1. rs[o].leaf = TRUE
    BY <1>2 DEF node_payload
  <2> QED BY <2>1, <1>2 DEF Children
<1>3. CASE ~n.leaf
  <2>1. /\ rs[o].leaf = FALSE
        /\ rs[o].children = [j \in DOMAIN n.children |-> e.disk_offset[n.children[j]]]
    BY <1>3 DEF node_payload
  <2>2. DOMAIN n.children = 1 .. Len(n.children)
    BY <1>1, <1>3
  <2>3. Children(n) = {n.children[j] : j \in DOMAIN n.children}
    BY <1>3 DEF Children, Range
  <2>4. Children(rs[o]) = {e.disk_offset[n.children[j]] : j \in DOMAIN n.children}
    BY <2>1 DEF Children, Range
  <2>5. Children(rs[o]) \subseteq 1 .. Len(rs)
    <3>1. Leveled(rs, hr)
      BY DEF SaneBy
    <3> QED BY <3>1, RecordsBelow
  <2>6. ASSUME NEW j \in DOMAIN n.children
        PROVE  /\ e.disk_offset[n.children[j]] \in DOMAIN e.offsets
               /\ e.offsets[e.disk_offset[n.children[j]]] = n.children[j]
    <3>1. n.children[j] \in Alive(e)
      BY <2>3
    <3>2. e.disk_offset[n.children[j]] \in 1 .. Len(rs)
      BY <2>4, <2>5
    <3>3. e.disk_offset[n.children[j]] # NoRecord
      BY <3>2 DEF NoRecord
    <3> QED BY <3>1, <3>3 DEF SaneBy, Interned
  <2>7. Children(rs[o]) \subseteq DOMAIN e.offsets
    BY <2>4, <2>6
  <2>8. {e.offsets[c] : c \in Children(rs[o]) \cap DOMAIN e.offsets}
          = {e.offsets[c] : c \in Children(rs[o])}
    BY <2>7
  <2>9. {e.offsets[c] : c \in Children(rs[o])} = Children(n)
    BY <2>3, <2>4, <2>6
  <2>10. n.leaf = FALSE
    BY <1>1, <1>3
  <2> QED BY <2>1, <2>7, <2>8, <2>9, <2>10, Zenon
<1> QED BY <1>1, <1>2, <1>3

(* A clean node in memory.                                                 *)
LEMMA CleanNode ==
    ASSUME NEW e, NEW rs, NEW hr, NEW r, NEW X, NEW F, NEW rk, NEW par, NEW ft,
           SaneBy(e, rs, hr, r, X, F, rk, par, ft),
           NEW i \in Alive(e), IsLoaded(e.nodes[i]), ~e.nodes[i].dirty
    PROVE  /\ e.disk_offset[i] \in 1 .. Len(rs)
           /\ rs[e.disk_offset[i]] = node_payload(e.nodes[i], e.disk_offset)
           /\ Children(rs[e.disk_offset[i]]) \subseteq DOMAIN e.offsets
           /\ {e.offsets[c] : c \in Children(rs[e.disk_offset[i]]) \cap DOMAIN e.offsets}
                = Children(e.nodes[i])
<1>1. /\ i \in 1 .. Len(e.nodes) /\ e.nodes[i] \in AnyNode
      /\ Children(e.nodes[i]) \subseteq Alive(e)
  BY SlotFacts
<1>2. /\ e.disk_offset[i] # NoRecord /\ e.disk_offset[i] \in 0 .. Len(rs)
      /\ rs[e.disk_offset[i]] = node_payload(e.nodes[i], e.disk_offset)
  BY <1>1 DEF SaneBy, Held
<1>3. e.disk_offset[i] \in 1 .. Len(rs)
  BY <1>2 DEF NoRecord
<1> QED BY <1>1, <1>2, <1>3, RecordKids

(* enforce_budget: clean nodes leave the memory.                           *)
LEMMA Evicts ==
    ASSUME NEW e, NEW rs, NEW hr, NEW r, NEW X, NEW F, NEW rk, NEW par, NEW ft,
           SaneBy(e, rs, hr, r, X, F, rk, par, ft), NEW S \in SUBSET Evictable(e),
           NEW e2, e2.nodes = Evicted(e.nodes, S),
           e2.disk_offset = e.disk_offset, e2.offsets = e.offsets
    PROVE  /\ SaneBy(e2, rs, hr, r, X, F, rk, par, ft) /\ Alive(e2) = Alive(e)
           /\ \A i \in Alive(e) \ S : e2.nodes[i] = e.nodes[i]
<1>1. /\ DOMAIN e.nodes = 1 .. Len(e.nodes) /\ Len(e.nodes) \in Nat
      /\ Alive(e) \subseteq 1 .. Len(e.nodes)
      /\ \A j \in 1 .. Len(e.nodes) : e.nodes[j] \in Slots
      /\ \A j \in 1 .. Len(e.nodes) : IsLoaded(e.nodes[j]) => j \in Alive(e)
  BY SlotFacts
<1>2. OnDisk \in Slots /\ OnDisk # Freed /\ ~IsLoaded(OnDisk)
  BY SlotKinds DEF Slots, IsLoaded
<1>3. /\ e2.nodes \in Seq(Slots) /\ Len(e2.nodes) = Len(e.nodes)
      /\ \A j \in 1 .. Len(e.nodes) : e2.nodes[j] = IF j \in S THEN OnDisk ELSE e.nodes[j]
  <2>1. e.nodes \in Seq(Slots)
    BY DEF SaneBy, Held
  <2>2. e2.nodes = [j \in 1 .. Len(e.nodes) |-> IF j \in S THEN OnDisk ELSE e.nodes[j]]
    BY <1>1 DEF Evicted
  <2> QED BY <2>1, <2>2, <1>1, <1>2
<1>4. \A j \in S : j \in Alive(e) /\ IsLoaded(e.nodes[j]) /\ ~e.nodes[j].dirty
  BY <1>1 DEF Evictable
<1>5. Alive(e2) = Alive(e)
  BY <1>1, <1>2, <1>3, <1>4 DEF Alive
<1>6. Held(e2, rs, X)
  <2>1. Held(e, rs, X)
    BY DEF SaneBy
  <2>2. ASSUME NEW j \in Alive(e2), IsLoaded(e2.nodes[j])
        PROVE  j \in Alive(e) /\ e2.nodes[j] = e.nodes[j]
    BY <2>2, <1>1, <1>2, <1>3, <1>5
  <2>3. \A j \in 1 .. Len(e2.nodes) : e2.nodes[j] = OnDisk => e2.disk_offset[j] # NoRecord
    BY <2>1, <1>1, <1>3, <1>4 DEF Held
  <2>4. /\ e2.disk_offset \in Seq(Nat) /\ Len(e2.disk_offset) = Len(e2.nodes)
        /\ \A j \in 1 .. Len(e2.nodes) : e2.disk_offset[j] \in 0 .. Len(rs)
    BY <2>1, <1>3 DEF Held
  <2>5. \A j \in Alive(e2) : IsLoaded(e2.nodes[j]) =>
           /\ ~e2.nodes[j].dirty => /\ e2.disk_offset[j] # NoRecord
                                   /\ rs[e2.disk_offset[j]] = node_payload(e2.nodes[j], e2.disk_offset)
           /\ ~e2.nodes[j].leaf =>
                /\ IsInjective(e2.nodes[j].children)
                /\ \/ Len(e2.nodes[j].children) = Len(e2.nodes[j].pivots) + 1
                   \/ /\ e2.nodes[j].children = <<>> /\ e2.nodes[j].pivots = <<>>
                      /\ e2.nodes[j].dirty /\ j \in X
    BY <2>1, <2>2, Zenon DEF Held
  <2> QED BY <2>3, <2>4, <2>5, <1>3, Zenon DEF Held
<1>7. ASSUME NEW j \in Alive(e)
      PROVE  /\ KidsOf(e2, rs, j) = KidsOf(e, rs, j)
             /\ IsLoaded(e2.nodes[j]) => (e2.nodes[j].leaf <=> rk[j] = 0)
             /\ Clean(e2, j) => Clean(e, j)
             /\ e2.nodes[j] = OnDisk => \/ e.nodes[j] = OnDisk
                                        \/ Children(rs[e.disk_offset[j]]) \subseteq DOMAIN e.offsets
  <2>0. \A x \in Alive(e) : IsLoaded(e.nodes[x]) => (e.nodes[x].leaf <=> rk[x] = 0)
    BY DEF SaneBy, Rooted
  <2>1. CASE j \in S
    <3>1. e2.nodes[j] = OnDisk /\ IsLoaded(e.nodes[j]) /\ ~e.nodes[j].dirty
      BY <2>1, <1>1, <1>3, <1>4
    <3>2. /\ Children(rs[e.disk_offset[j]]) \subseteq DOMAIN e.offsets
          /\ {e.offsets[c] : c \in Children(rs[e.disk_offset[j]]) \cap DOMAIN e.offsets}
                = Children(e.nodes[j])
      BY <3>1, CleanNode
    <3>3. KidsOf(e2, rs, j) = {e.offsets[c] : c \in Children(rs[e.disk_offset[j]]) \cap DOMAIN e.offsets}
      BY <3>1 DEF KidsOf
    <3>4. KidsOf(e, rs, j) = Children(e.nodes[j])
      BY <3>1, SlotFacts
    <3>5. Clean(e, j) /\ ~IsLoaded(e2.nodes[j])
      BY <3>1, <1>2 DEF Clean
    <3> QED BY <3>2, <3>3, <3>4, <3>5
  <2>2. CASE j \notin S
    <3>1. e2.nodes[j] = e.nodes[j]
      BY <2>2, <1>1, <1>3
    <3>2. KidsOf(e2, rs, j) = KidsOf(e, rs, j)
      BY <3>1 DEF KidsOf
    <3>3. Clean(e2, j) <=> Clean(e, j)
      BY <3>1 DEF Clean
    <3> QED BY <3>1, <3>2, <3>3, <2>0
  <2> QED BY <2>1, <2>2
<1>8. SaneBy(e2, rs, hr, r, X, F, rk, par, ft)
  BY <1>5, <1>6, <1>7, SameTree
<1> QED BY <1>1, <1>3, <1>5, <1>8

(* A node on disk comes back as its record says.                           *)
LEMMA Reloads ==
    ASSUME NEW e, NEW rs, NEW hr, NEW r, NEW X, NEW F, NEW rk, NEW par, NEW ft,
           SaneBy(e, rs, hr, r, X, F, rk, par, ft),
           NEW i \in Alive(e), e.nodes[i] = OnDisk,
           NEW n \in AnyNode, ~n.dirty, rs[e.disk_offset[i]] = node_payload(n, e.disk_offset),
           Children(n) \subseteq Alive(e),
           ~n.leaf => IsInjective(n.children) /\ Len(n.children) = Len(n.pivots) + 1,
           NEW e2, e2.nodes = [e.nodes EXCEPT ![i] = n],
           e2.disk_offset = e.disk_offset, e2.offsets = e.offsets
    PROVE  SaneBy(e2, rs, hr, r, X, F, rk, par, ft) /\ Alive(e2) = Alive(e)
<1>1. /\ DOMAIN e.nodes = 1 .. Len(e.nodes) /\ Len(e.nodes) \in Nat
      /\ Alive(e) \subseteq 1 .. Len(e.nodes)
      /\ \A j \in 1 .. Len(e.nodes) : e.nodes[j] \in Slots
  BY SlotFacts
<1>2. n \in Slots /\ n # OnDisk /\ n # Freed /\ IsLoaded(n)
  BY SlotKinds DEF Slots
<1>3. /\ e2.nodes \in Seq(Slots) /\ Len(e2.nodes) = Len(e.nodes)
      /\ e2.nodes[i] = n /\ \A j \in 1 .. Len(e.nodes) : j # i => e2.nodes[j] = e.nodes[j]
  <2>1. e.nodes \in Seq(Slots)
    BY DEF SaneBy, Held
  <2> QED BY <2>1, <1>1, <1>2
<1>4. Alive(e2) = Alive(e)
  BY <1>1, <1>2, <1>3 DEF Alive
<1>5. /\ Held(e, rs, X) /\ e.disk_offset[i] \in 1 .. Len(rs) /\ e.disk_offset[i] # NoRecord
  <2>1. Held(e, rs, X)
    BY DEF SaneBy
  <2>2. e.disk_offset[i] # NoRecord /\ e.disk_offset[i] \in 0 .. Len(rs)
    BY <2>1, <1>1 DEF Held
  <2> QED BY <2>1, <2>2 DEF NoRecord
<1>6. Held(e2, rs, X)
  <2>2. ASSUME NEW j \in Alive(e2), IsLoaded(e2.nodes[j])
        PROVE  /\ ~e2.nodes[j].dirty =>
                     /\ e2.disk_offset[j] # NoRecord
                     /\ rs[e2.disk_offset[j]] = node_payload(e2.nodes[j], e2.disk_offset)
               /\ ~e2.nodes[j].leaf =>
                   /\ IsInjective(e2.nodes[j].children)
                   /\ \/ Len(e2.nodes[j].children) = Len(e2.nodes[j].pivots) + 1
                      \/ /\ e2.nodes[j].children = <<>> /\ e2.nodes[j].pivots = <<>>
                         /\ e2.nodes[j].dirty /\ j \in X
    <3>1. CASE j = i
      BY <3>1, <1>3, <1>5
    <3>2. CASE j # i
      <4>1. e2.nodes[j] = e.nodes[j] /\ j \in Alive(e)
        BY <3>2, <1>1, <1>3, <1>4
      <4> QED BY <4>1, <1>5, <2>2, Zenon DEF Held
    <3> QED BY <3>1, <3>2
  <2>3. \A j \in 1 .. Len(e2.nodes) : e2.nodes[j] = OnDisk => e2.disk_offset[j] # NoRecord
    BY <1>2, <1>3, <1>5 DEF Held
  <2>4. /\ e2.disk_offset \in Seq(Nat) /\ Len(e2.disk_offset) = Len(e2.nodes)
        /\ \A j \in 1 .. Len(e2.nodes) : e2.disk_offset[j] \in 0 .. Len(rs)
    BY <1>3, <1>5 DEF Held
  <2> QED BY <2>2, <2>3, <2>4, <1>3, Zenon DEF Held
<1>7. ASSUME NEW j \in Alive(e)
      PROVE  /\ KidsOf(e2, rs, j) = KidsOf(e, rs, j)
             /\ IsLoaded(e2.nodes[j]) => (e2.nodes[j].leaf <=> rk[j] = 0)
             /\ Clean(e2, j) => Clean(e, j)
             /\ e2.nodes[j] = OnDisk => e.nodes[j] = OnDisk
  <2>0. /\ \A x \in Alive(e) : IsLoaded(e.nodes[x]) => (e.nodes[x].leaf <=> rk[x] = 0)
        /\ \A x \in Alive(e) : e.disk_offset[x] # NoRecord => rk[x] = hr[e.disk_offset[x]]
        /\ Leveled(rs, hr)
    BY DEF SaneBy, Rooted
  <2>1. CASE j = i
    <3>1. /\ {e.offsets[c] : c \in Children(rs[e.disk_offset[i]]) \cap DOMAIN e.offsets} = Children(n)
          /\ rs[e.disk_offset[i]].leaf = n.leaf
      BY <1>5, RecordKids
    <3>2. KidsOf(e2, rs, j) = Children(n)
      BY <2>1, <1>2, <1>3 DEF KidsOf
    <3>3. KidsOf(e, rs, j) = {e.offsets[c] : c \in Children(rs[e.disk_offset[i]]) \cap DOMAIN e.offsets}
      BY <2>1 DEF KidsOf
    <3>4. n.leaf <=> rk[j] = 0
      BY <2>0, <2>1, <3>1, <1>5 DEF Leveled
    <3>5. Clean(e, j) /\ e2.nodes[j] = n
      BY <2>1, <1>3 DEF Clean
    <3> QED BY <3>1, <3>2, <3>3, <3>4, <3>5, <1>2
  <2>2. CASE j # i
    <3>1. e2.nodes[j] = e.nodes[j]
      BY <2>2, <1>1, <1>3
    <3>2. KidsOf(e2, rs, j) = KidsOf(e, rs, j)
      BY <3>1 DEF KidsOf
    <3>3. Clean(e2, j) <=> Clean(e, j)
      BY <3>1 DEF Clean
    <3> QED BY <3>1, <3>2, <3>3, <2>0
  <2> QED BY <2>1, <2>2
<1> QED BY <1>4, <1>6, <1>7, SameTree, Zenon


(* What interning the children s of a record makes of e.                   *)
WithSlots(e, s) == FoldLeft(alloc_on_disk, e, s)

SlotBySlot(e, s, g) ==
    /\ g[0] = e /\ g[Len(s)] = WithSlots(e, s)
    /\ \A k \in Nat : k + 1 <= Len(s) => g[k + 1] = alloc_on_disk(g[k], s[k + 1])

(* The children of a record get their slots one after the other.           *)
LEMMA FoldStages ==
    ASSUME NEW e, NEW s \in Seq(Nat)
    PROVE  \E g : SlotBySlot(e, s, g)
<1> DEFINE Rest(f, S) == alloc_on_disk(f[S \ {Max(S)}], s[Max(S)])
           Meets(f, k) == \A S \in SUBSET (1 .. k) : f[S] = IF S = {} THEN e ELSE Rest(f, S)
           G(f) == [S \in SUBSET DOMAIN s |-> IF S = {} THEN e ELSE Rest(f, S)]
           fl == CHOOSE f : f = G(f)
           K == {k \in Nat : \E f : Meets(f, k)}
<1>0. Len(s) \in Nat /\ DOMAIN s = 1 .. Len(s)
  OBVIOUS
<1>1. 0 \in K
  <2>1. Meets([S \in SUBSET (1 .. 0) |-> e], 0)
    OBVIOUS
  <2> QED BY <2>1, Zenon
<1>2. ASSUME NEW k \in Nat, k \in K PROVE k + 1 \in K
  <2>1. PICK f : Meets(f, k)
    BY <1>2, Zenon
  <2> DEFINE g == [S \in SUBSET (1 .. k + 1) |->
                      IF k + 1 \in S THEN alloc_on_disk(f[S \ {k + 1}], s[k + 1]) ELSE f[S]]
  <2>2. ASSUME NEW S \in SUBSET (1 .. k) PROVE g[S] = f[S]
    <3>1. S \in SUBSET (1 .. k + 1) /\ k + 1 \notin S
      OBVIOUS
    <3> QED BY <3>1, Zenon
  <2>3. ASSUME NEW S \in SUBSET (1 .. k + 1), k + 1 \in S
        PROVE  g[S] = alloc_on_disk(f[S \ {k + 1}], s[k + 1])
    BY <2>3
  <2> HIDE DEF g
  <2>4. ASSUME NEW S \in SUBSET (1 .. k + 1) PROVE g[S] = IF S = {} THEN e ELSE Rest(g, S)
    <3>1. CASE k + 1 \in S
      <4>1. S # {} /\ k + 1 \in Nat
        BY <3>1
      <4>2. Max(S) \in S /\ Max(S) >= k + 1
        BY <4>1, <3>1, Greatest
      <4>3. Max(S) = k + 1
        <5>1. Max(S) \in 1 .. k + 1
          BY <4>2, Zenon
        <5> QED BY <5>1, <4>2
      <4>4. S \ {k + 1} \in SUBSET (1 .. k)
        OBVIOUS
      <4>5. g[S \ {k + 1}] = f[S \ {k + 1}]
        BY <4>4, <2>2, Zenon
      <4> QED BY <4>1, <4>3, <4>5, <3>1, <2>3, Zenon
    <3>2. CASE k + 1 \notin S
      <4>1. S \in SUBSET (1 .. k) /\ S \ {Max(S)} \in SUBSET (1 .. k)
        <5>1. \A x \in S : x \in 1 .. k
          BY <3>2
        <5> QED BY <5>1, Zenon
      <4>2. g[S] = f[S] /\ g[S \ {Max(S)}] = f[S \ {Max(S)}]
        BY <4>1, <2>2, Zenon
      <4>3. f[S] = IF S = {} THEN e ELSE Rest(f, S)
        BY <4>1, <2>1, Zenon
      <4> QED BY <4>2, <4>3, Zenon
    <3> QED BY <3>1, <3>2
  <2>5. Meets(g, k + 1)
    BY <2>4, Zenon
  <2>6. k + 1 \in Nat
    OBVIOUS
  <2> QED BY <2>5, <2>6, Zenon
<1>3. Len(s) \in K
  <2> HIDE DEF K
  <2> QED BY <1>0, <1>1, <1>2, SetInduction
<1>4. PICK f : Meets(f, Len(s))
  BY <1>3, Zenon
<1> DEFINE r == [S \in SUBSET DOMAIN s |-> f[S]]
<1>5. r = G(r)
  <2>1. ASSUME NEW S \in SUBSET DOMAIN s
        PROVE  f[S] = IF S = {} THEN e ELSE Rest(r, S)
    <3>1. S \in SUBSET (1 .. Len(s))
      BY <1>0
    <3>2. S \ {Max(S)} \in SUBSET DOMAIN s
      OBVIOUS
    <3>3. r[S \ {Max(S)}] = f[S \ {Max(S)}]
      BY <3>2, Zenon
    <3> QED BY <3>1, <3>3, <1>4, Zenon
  <2> QED BY <2>1, Zenon
<1>6. fl = G(fl)
  <2> HIDE DEF G, r
  <2> QED BY <1>5, Zenon
<1>7. ASSUME NEW S \in SUBSET (1 .. Len(s)) PROVE fl[S] = IF S = {} THEN e ELSE Rest(fl, S)
  <2>1. S \in SUBSET DOMAIN s
    BY <1>0
  <2> HIDE DEF fl
  <2> QED BY <2>1, <1>6, Zenon
<1>8. WithSlots(e, s) = fl[DOMAIN s]
  BY Zenon DEF WithSlots, FoldLeft, MapThenFoldSet
<1> HIDE DEF fl
<1> DEFINE h == [k \in Nat |-> fl[1 .. k]]
<1>9. h[0] = e
  <2>1. 1 .. 0 = {}
    OBVIOUS
  <2>2. fl[{}] = e
    BY <1>7
  <2> QED BY <2>1, <2>2
<1>10. ASSUME NEW k \in Nat, k + 1 <= Len(s)
       PROVE  h[k + 1] = alloc_on_disk(h[k], s[k + 1])
  <2>2. k + 1 \in 1 .. k + 1 /\ k + 1 \in Nat
    OBVIOUS
  <2>3. Max(1 .. k + 1) \in 1 .. k + 1 /\ Max(1 .. k + 1) >= k + 1
    BY <2>2, Greatest, Zenon
  <2>4. Max(1 .. k + 1) = k + 1
    BY <2>3
  <2>5. (1 .. k + 1) \ {k + 1} = 1 .. k
    OBVIOUS
  <2>6. 1 .. k + 1 \in SUBSET (1 .. Len(s))
    BY <1>0, <1>10
  <2>7. fl[1 .. k + 1] = alloc_on_disk(fl[1 .. k], s[k + 1])
    BY <2>2, <2>4, <2>5, <2>6, <1>7, Zenon
  <2>8. h[k] = fl[1 .. k] /\ h[k + 1] = fl[1 .. k + 1]
    BY <2>2
  <2> HIDE DEF h
  <2> QED BY <2>7, <2>8, Zenon
<1>11. h[Len(s)] = WithSlots(e, s)
  BY <1>0, <1>8
<1> HIDE DEF h
<1>12. SlotBySlot(e, s, h)
  BY <1>9, <1>10, <1>11, Zenon DEF SlotBySlot
<1> QED BY <1>12


IsEngine(e) == e = [nodes |-> e.nodes, disk_offset |-> e.disk_offset, offsets |-> e.offsets]

(* The first k of the records s have got new slots.                        *)
Stage(e, s, k, f) ==
    /\ IsEngine(f)
    /\ f.nodes \in Seq(Slots) /\ Len(f.nodes) = Len(e.nodes) + k
    /\ f.disk_offset \in Seq(Nat) /\ Len(f.disk_offset) = Len(e.nodes) + k
    /\ \A i \in 1 .. Len(e.nodes) : /\ f.nodes[i] = e.nodes[i]
                                    /\ f.disk_offset[i] = e.disk_offset[i]
    /\ \A j \in 1 .. k : /\ f.nodes[Len(e.nodes) + j] = OnDisk
                         /\ f.disk_offset[Len(e.nodes) + j] = s[j]
    /\ DOMAIN f.offsets = DOMAIN e.offsets \cup {s[j] : j \in 1 .. k}
    /\ \A o \in DOMAIN e.offsets : f.offsets[o] = e.offsets[o]
    /\ \A j \in 1 .. k : f.offsets[s[j]] = Len(e.nodes) + j

(* alloc_on_disk for a record without a slot.                              *)
LEMMA StageNext ==
    ASSUME NEW e, IsEngine(e), e.nodes \in Seq(Slots), e.disk_offset \in Seq(Nat),
           Len(e.disk_offset) = Len(e.nodes),
           NEW s \in Seq(Nat), IsInjective(s), \A j \in 1 .. Len(s) : s[j] \notin DOMAIN e.offsets,
           NEW k \in Nat, k + 1 <= Len(s), NEW f, Stage(e, s, k, f)
    PROVE  Stage(e, s, k + 1, alloc_on_disk(f, s[k + 1]))
<1> DEFINE N == Len(e.nodes)
           o == s[k + 1]
           g == alloc_on_disk(f, o)
<1>1. /\ N \in Nat /\ k + 1 \in 1 .. Len(s) /\ o \in Nat /\ DOMAIN s = 1 .. Len(s)
      /\ \A j \in 1 .. k : j \in 1 .. Len(s)
  BY SMT
<1>2. /\ f.nodes \in Seq(Slots) /\ Len(f.nodes) = N + k
      /\ f.disk_offset \in Seq(Nat) /\ Len(f.disk_offset) = N + k
      /\ \A i \in 1 .. N : f.nodes[i] = e.nodes[i] /\ f.disk_offset[i] = e.disk_offset[i]
      /\ \A j \in 1 .. k : f.nodes[N + j] = OnDisk /\ f.disk_offset[N + j] = s[j]
      /\ DOMAIN f.offsets = DOMAIN e.offsets \cup {s[j] : j \in 1 .. k}
      /\ \A x \in DOMAIN e.offsets : f.offsets[x] = e.offsets[x]
      /\ \A j \in 1 .. k : f.offsets[s[j]] = N + j
  BY DEF Stage
<1>3. \A j \in 1 .. k : s[j] # o
  BY <1>1 DEF IsInjective
<1>4. o \notin DOMAIN f.offsets
  BY <1>1, <1>2, <1>3
<1>5. /\ g.nodes = Append(f.nodes, OnDisk) /\ g.disk_offset = Append(f.disk_offset, o)
      /\ g.offsets = With(f.offsets, o, Len(f.nodes) + 1)
  BY <1>4 DEF alloc_on_disk
<1>17. IsEngine(g)
  BY <1>4 DEF alloc_on_disk, IsEngine
<1> HIDE DEF N, g
<1>6. OnDisk \in Slots
  BY DEF Slots
<1>7. /\ g.nodes \in Seq(Slots) /\ Len(g.nodes) = N + (k + 1)
      /\ \A i \in 1 .. (N + k) : g.nodes[i] = f.nodes[i]
      /\ g.nodes[N + (k + 1)] = OnDisk
  <2>1. /\ Append(f.nodes, OnDisk) \in Seq(Slots) /\ Len(Append(f.nodes, OnDisk)) = Len(f.nodes) + 1
        /\ \A i \in 1 .. Len(f.nodes) : Append(f.nodes, OnDisk)[i] = f.nodes[i]
        /\ Append(f.nodes, OnDisk)[Len(f.nodes) + 1] = OnDisk
    BY <1>2, <1>6, SMT
  <2>2. (N + k) + 1 = N + (k + 1)
    BY <1>1
  <2> QED BY <2>1, <2>2, <1>2, <1>5, Zenon
<1>8. /\ g.disk_offset \in Seq(Nat) /\ Len(g.disk_offset) = N + (k + 1)
      /\ \A i \in 1 .. (N + k) : g.disk_offset[i] = f.disk_offset[i]
      /\ g.disk_offset[N + (k + 1)] = o
  <2>1. /\ Append(f.disk_offset, o) \in Seq(Nat)
        /\ Len(Append(f.disk_offset, o)) = Len(f.disk_offset) + 1
        /\ \A i \in 1 .. Len(f.disk_offset) : Append(f.disk_offset, o)[i] = f.disk_offset[i]
        /\ Append(f.disk_offset, o)[Len(f.disk_offset) + 1] = o
    <3>1. f.disk_offset \in Seq(Nat) /\ o \in Nat
      BY <1>1, <1>2
    <3> HIDE DEF o
    <3> QED BY <3>1, SMT
  <2>2. (N + k) + 1 = N + (k + 1)
    BY <1>1
  <2> QED BY <2>1, <2>2, <1>2, <1>5, Zenon
<1>9. /\ DOMAIN g.offsets = DOMAIN f.offsets \cup {o} /\ g.offsets[o] = N + (k + 1)
      /\ \A x \in DOMAIN f.offsets : g.offsets[x] = f.offsets[x]
  <2>1. Len(f.nodes) + 1 = N + (k + 1)
    BY <1>1, <1>2
  <2>2. g.offsets = [z \in DOMAIN f.offsets \cup {o} |-> IF z = o THEN N + (k + 1) ELSE f.offsets[z]]
    BY <2>1, <1>5 DEF With
  <2> QED BY <2>2, <1>4
<1>10. \A i \in 1 .. N : g.nodes[i] = e.nodes[i] /\ g.disk_offset[i] = e.disk_offset[i]
  <2>1. \A i \in 1 .. N : i \in 1 .. (N + k)
    BY <1>1
  <2> QED BY <2>1, <1>2, <1>7, <1>8, Zenon
<1>11. \A j \in 1 .. (k + 1) : j \in 1 .. k \/ j = k + 1
  OBVIOUS
<1>12. \A j \in 1 .. k : N + j \in 1 .. (N + k)
  BY <1>1
<1>13. \A j \in 1 .. (k + 1) : g.nodes[N + j] = OnDisk /\ g.disk_offset[N + j] = s[j]
  BY <1>2, <1>7, <1>8, <1>11, <1>12, Zenon
<1>14. DOMAIN g.offsets = DOMAIN e.offsets \cup {s[j] : j \in 1 .. (k + 1)}
  <2>1. {s[j] : j \in 1 .. (k + 1)} = {s[j] : j \in 1 .. k} \cup {o}
    <3>1. \A j \in 1 .. k : j \in 1 .. (k + 1)
      OBVIOUS
    <3>2. k + 1 \in 1 .. (k + 1)
      OBVIOUS
    <3> QED BY <3>1, <3>2, <1>11, Zenon
  <2> QED BY <2>1, <1>2, <1>9
<1>15. \A j \in 1 .. (k + 1) : g.offsets[s[j]] = N + j
  <2>1. \A j \in 1 .. k : s[j] \in DOMAIN f.offsets
    BY <1>2
  <2> QED BY <2>1, <1>2, <1>9, <1>11
<1>16. \A x \in DOMAIN e.offsets : g.offsets[x] = e.offsets[x]
  BY <1>2, <1>9
<1> QED BY <1>7, <1>8, <1>10, <1>13, <1>14, <1>15, <1>16, <1>17 DEF Stage, N, g

(* Records that have no slots get one each.                                *)
LEMMA AllStages ==
    ASSUME NEW e, IsEngine(e), e.nodes \in Seq(Slots), e.disk_offset \in Seq(Nat),
           Len(e.disk_offset) = Len(e.nodes),
           NEW s \in Seq(Nat), IsInjective(s), \A j \in 1 .. Len(s) : s[j] \notin DOMAIN e.offsets
    PROVE  Stage(e, s, Len(s), WithSlots(e, s))
<1>0. PICK g : SlotBySlot(e, s, g)
  BY FoldStages
<1>1. /\ g[0] = e /\ g[Len(s)] = WithSlots(e, s)
      /\ \A k \in Nat : k + 1 <= Len(s) => g[k + 1] = alloc_on_disk(g[k], s[k + 1])
  BY <1>0 DEF SlotBySlot
<1> DEFINE S == {k \in Nat : k <= Len(s) => Stage(e, s, k, g[k])}
<1>2. 0 \in S
  <2>1. Stage(e, s, 0, e)
    BY DEF Stage
  <2> QED BY <2>1, <1>1
<1>3. ASSUME NEW k \in Nat, k \in S PROVE k + 1 \in S
  <2> SUFFICES ASSUME k + 1 <= Len(s) PROVE Stage(e, s, k + 1, g[k + 1])
    OBVIOUS
  <2>1. k <= Len(s)
    OBVIOUS
  <2>2. Stage(e, s, k, g[k])
    BY <2>1, <1>3
  <2>3. Stage(e, s, k + 1, alloc_on_disk(g[k], s[k + 1]))
    BY <2>2, StageNext
  <2> QED BY <2>3, <1>1
<1>4. \A k \in Nat : k \in S
  <2> HIDE DEF S
  <2> QED BY <1>2, <1>3, SetInduction
<1>5. Len(s) \in Nat
  OBVIOUS
<1> QED BY <1>1, <1>4, <1>5

(* Records that all have slots get none.                                   *)
LEMMA NoStages ==
    ASSUME NEW e, NEW rs, Interned(e, rs), NEW s \in Seq(Nat),
           \A j \in 1 .. Len(s) : s[j] \in DOMAIN e.offsets
    PROVE  WithSlots(e, s) = e
<1>0. PICK g : SlotBySlot(e, s, g)
  BY FoldStages
<1>1. /\ g[0] = e /\ g[Len(s)] = WithSlots(e, s)
      /\ \A k \in Nat : k + 1 <= Len(s) => g[k + 1] = alloc_on_disk(g[k], s[k + 1])
  BY <1>0 DEF SlotBySlot
<1> DEFINE S == {k \in Nat : k <= Len(s) => g[k] = e}
<1>2. 0 \in S
  BY <1>1
<1>3. ASSUME NEW k \in Nat, k \in S PROVE k + 1 \in S
  <2> SUFFICES ASSUME k + 1 <= Len(s) PROVE g[k + 1] = e
    OBVIOUS
  <2>1. g[k] = e /\ k + 1 \in 1 .. Len(s)
    BY <1>3
  <2>2. s[k + 1] \in DOMAIN e.offsets /\ e.nodes[e.offsets[s[k + 1]]] # Freed
    BY <2>1 DEF Interned, Alive
  <2>3. alloc_on_disk(e, s[k + 1]) = e
    BY <2>2 DEF alloc_on_disk
  <2> QED BY <2>1, <2>3, <1>1
<1>4. \A k \in Nat : k \in S
  <2> HIDE DEF S
  <2> QED BY <1>2, <1>3, SetInduction
<1>5. Len(s) \in Nat
  OBVIOUS
<1> QED BY <1>1, <1>4, <1>5

(* A record without a slot, child of one, lies below no other node that    *)
(* has not been loaded.                                                    *)
LEMMA OnePlace ==
    ASSUME NEW e, NEW rs, NEW hr, NEW r, NEW X, NEW F, NEW rk, NEW par, NEW ft,
           SaneBy(e, rs, hr, r, X, F, rk, par, ft),
           NEW id \in Alive(e), e.nodes[id] = OnDisk, NEW i \in Alive(e), e.nodes[i] = OnDisk,
           i # id, Opaquely(e, rs, i),
           NEW o \in Children(rs[e.disk_offset[id]]), o \notin DOMAIN e.offsets
    PROVE  o \notin Subtree(rs, e.disk_offset[i])
<1> SUFFICES ASSUME o \in Subtree(rs, e.disk_offset[i]) PROVE FALSE
  OBVIOUS
<1> DEFINE a == e.disk_offset[id]
           b == e.disk_offset[i]
<1>0. Leveled(rs, hr) /\ hr \in [1 .. Len(rs) -> Nat]
  BY DEF SaneBy, Leveled
<1>1. /\ a \in 1 .. Len(rs) /\ b \in 1 .. Len(rs) /\ a # NoRecord /\ b # NoRecord
  <2>1. \A x \in Alive(e) : e.nodes[x] = OnDisk =>
           e.disk_offset[x] # NoRecord /\ e.disk_offset[x] \in 0 .. Len(rs)
    BY DEF SaneBy, Held, Alive
  <2> QED BY <2>1 DEF NoRecord
<1>2. /\ rk[id] = hr[a] /\ rk[i] = hr[b] /\ b \in DOMAIN e.offsets
  <2>1. /\ \A x \in Alive(e) : e.disk_offset[x] # NoRecord => rk[x] = hr[e.disk_offset[x]]
        /\ \A x \in Alive(e) : e.disk_offset[x] # NoRecord => e.disk_offset[x] \in DOMAIN e.offsets
    BY DEF SaneBy, Rooted, Interned
  <2> QED BY <2>1, <1>1
<1>3. /\ ft[id] = Subtree(rs, a) /\ ft[i] = Subtree(rs, b)
      /\ \A x, y \in Alive(e) : rk[x] = rk[y] /\ ft[x] \cap ft[y] # {} => x = y
      /\ \A x \in Alive(e) \ {r} : ft[x] \subseteq ft[par[x]]
  BY DEF SaneBy, Apart, Clean
<1>4. /\ o \in 1 .. Len(rs) /\ hr[a] = hr[o] + 1 /\ o \in Subtree(rs, a)
  <2>1. o \in 1 .. Len(rs) /\ hr[a] = hr[o] + 1
    BY <1>0, <1>1, RecordsBelow, SMTT(30)
  <2>2. Subtree(rs, o) \subseteq Subtree(rs, a) /\ o \in Subtree(rs, o)
    BY <1>0, <1>1, <2>1, BelowRecord
  <2> QED BY <2>1, <2>2
<1>5. o # b => hr[o] < hr[b]
  BY <1>0, <1>1, BelowRecord
<1>6. hr[a] \in Nat /\ hr[b] \in Nat /\ hr[o] \in Nat
  BY <1>0, <1>1, <1>4
<1>7. CASE rk[i] < rk[id]
  BY <1>7, <1>2, <1>4, <1>5, <1>6
<1>8. CASE rk[i] = rk[id]
  BY <1>8, <1>3, <1>4
<1>9. CASE rk[i] > rk[id]
  <2> DEFINE k == rk[i] - 1
  <2>1. k \in Nat /\ rk[id] <= k /\ k + 1 = rk[i]
    BY <1>2, <1>6, <1>9
  <2>2. /\ r \in Alive(e) /\ \A x \in Alive(e) : rk[x] \in Nat /\ rk[x] <= rk[r]
        /\ \A x \in Alive(e) \ {r} : par[x] \in Alive(e) /\ rk[par[x]] = rk[x] + 1
        /\ \A x \in Alive(e) : KidsOf(e, rs, x) = {y \in Alive(e) \ {r} : par[y] = x}
    BY DEF SaneBy, Rooted
  <2>3. k <= rk[r]
    BY <2>1, <2>2
  <2> HIDE DEF k
  <2>4. PICK y \in Alive(e) : rk[y] = k /\ o \in ft[y]
    <3>1. \A y \in Alive(e) \ {r} : par[y] \in Alive(e)
      BY <2>2
    <3>2. o \in ft[id]
      BY <1>3, <1>4
    <3> QED BY <3>1, <3>2, <2>1, <2>3, Climb
  <2>5. y # r
    BY <2>1, <2>2, <2>4
  <2>6. par[y] \in Alive(e) /\ rk[par[y]] = rk[i] /\ o \in ft[par[y]] /\ o \in ft[i]
    BY <2>1, <2>2, <2>4, <2>5, <1>3
  <2>7. par[y] = i
    BY <2>6, <1>3
  <2>8. y \in KidsOf(e, rs, i)
    BY <2>2, <2>5, <2>7
  <2>9. PICK c \in Children(rs[b]) \cap DOMAIN e.offsets : y = e.offsets[c]
    BY <2>8 DEF KidsOf
  <2>10. c \in 1 .. Len(rs) /\ c < b /\ c \in Subtree(rs, b)
    <3>1. c \in 1 .. Len(rs) /\ c < b
      BY <1>0, <1>1, RecordsBelow
    <3>2. Subtree(rs, c) \subseteq Subtree(rs, b) /\ c \in Subtree(rs, c)
      BY <1>0, <1>1, <3>1, BelowRecord
    <3> QED BY <3>1, <3>2
  <2>11. c = b
    BY <2>9, <2>10 DEF Opaquely
  <2> QED BY <2>10, <2>11, <1>1
<1> QED BY <1>2, <1>6, <1>7, <1>8, <1>9


(* One up from q, and two that are one below the same.                     *)
LEMMA OneUp ==
    /\ \A p, q \in Nat : p = q + 1 => p - 1 = q /\ p - 1 \in Nat
    /\ \A p, x, y \in Nat : p = x + 1 /\ p = y + 1 => ~(x < y) /\ x = y
OBVIOUS

(* The numbers next to the first n - 1, and the M that follow N.           *)
LEMMA Neighbours ==
    /\ \A n \in Nat : \A i \in 1 .. (n - 1) : i \in 1 .. n /\ i + 1 \in 1 .. n
    /\ \A N, M \in Nat : \A x \in (N + 1) .. (N + M) : x - N \in 1 .. M /\ N + (x - N) = x
OBVIOUS

(* The children of a node that has not been loaded get slots, below it.    *)
LEMMA Exposes ==
    ASSUME NEW e, NEW rs, NEW hr, NEW r, NEW X, NEW F, NEW rk, NEW par, NEW ft,
           SaneBy(e, rs, hr, r, X, F, rk, par, ft),
           NEW id \in Alive(e), e.nodes[id] = OnDisk, Opaquely(e, rs, id),
           NEW s \in Seq(Nat), IsInjective(s),
           ~rs[e.disk_offset[id]].leaf, s = rs[e.disk_offset[id]].children,
           NEW f, Stage(e, s, Len(s), f)
    PROVE  Sane(f, rs, hr, r, X, F)
<1> DEFINE N == Len(e.nodes)
           M == Len(s)
           a == e.disk_offset[id]
           New == (N + 1) .. (N + M)
           L == Alive(e)
           rk2 == [x \in 1 .. (N + M) |-> IF x > N THEN rk[id] - 1 ELSE rk[x]]
           par2 == [x \in 1 .. (N + M) |-> IF x > N THEN id ELSE par[x]]
           ft2 == [x \in 1 .. (N + M) |-> IF x > N THEN Subtree(rs, s[x - N]) ELSE ft[x]]
<1>0. /\ Leveled(rs, hr) /\ hr \in [1 .. Len(rs) -> Nat] /\ Held(e, rs, X) /\ Interned(e, rs)
      /\ Half(e, rs) /\ Rooted(e, rs, r, hr, rk, par) /\ Apart(e, rs, r, hr, rk, par, ft)
      /\ ft[r] \subseteq F
  BY DEF SaneBy, Leveled
<1>20. \A o \in 1 .. Len(rs) : \A c \in Children(rs[o]) : c \in 1 .. Len(rs) /\ hr[o] = hr[c] + 1
  <2>1. Leveled(rs, hr)
    BY <1>0
  <2> HIDE <1>0
  <2> QED BY <2>1, RecordsBelow
<1>1. /\ N \in Nat /\ M \in Nat /\ DOMAIN s = 1 .. M /\ L \subseteq 1 .. N /\ r \in L /\ id \in L
      /\ \A i \in 1 .. N : e.nodes[i] \in Slots
      /\ \A i \in L : e.nodes[i] # Freed /\ (e.nodes[i] = OnDisk \/ IsLoaded(e.nodes[i]))
  BY SlotFacts
<1>2. /\ a \in 1 .. Len(rs) /\ a # NoRecord /\ rk[id] = hr[a]
  <2>1. a # NoRecord /\ a \in 0 .. Len(rs)
    BY <1>0, <1>1 DEF Held
  <2>2. a \in 1 .. Len(rs)
    BY <2>1 DEF NoRecord
  <2> QED BY <2>1, <2>2, <1>0 DEF Rooted
<1>3. /\ Children(rs[a]) = {s[j] : j \in 1 .. M}
      /\ \A j \in 1 .. M : /\ s[j] \in 1 .. Len(rs) /\ hr[a] = hr[s[j]] + 1 /\ hr[s[j]] \in Nat
                           /\ s[j] # NoRecord
                           /\ Subtree(rs, s[j]) \subseteq Subtree(rs, a) /\ s[j] \in Subtree(rs, s[j])
                           /\ Subtree(rs, s[j]) \subseteq 1 .. Len(rs)
                           /\ a \notin Subtree(rs, s[j])
  <2>1. Children(rs[a]) = {s[j] : j \in 1 .. M}
    BY <1>1 DEF Children, Range
  <2>2. ASSUME NEW c \in Children(rs[a])
        PROVE  c \in 1 .. Len(rs) /\ hr[a] = hr[c] + 1 /\ Subtree(rs, c) \subseteq Subtree(rs, a)
    <3>1. c \in 1 .. Len(rs) /\ hr[a] = hr[c] + 1
      BY <1>2, <1>20, Zenon
    <3> QED BY <3>1, <1>0, <1>2, BelowRecord
  <2>3. ASSUME NEW c \in Children(rs[a])
        PROVE  /\ c \in Subtree(rs, c) /\ Subtree(rs, c) \subseteq 1 .. Len(rs)
               /\ a \notin Subtree(rs, c) /\ hr[c] \in Nat /\ c # NoRecord
    <3>1. c \in 1 .. Len(rs) /\ hr[a] = hr[c] + 1
      BY <2>2
    <3>2. /\ c \in Subtree(rs, c) /\ Subtree(rs, c) \subseteq 1 .. Len(rs)
          /\ \A t \in Subtree(rs, c) : t # c => hr[t] < hr[c]
      BY <3>1, <1>0, BelowRecord
    <3>3. hr[c] \in Nat /\ hr[a] \in Nat
      BY <3>1, <1>0, <1>2
    <3>4. a \notin Subtree(rs, c)
      BY <3>1, <3>2, <3>3
    <3> QED BY <3>1, <3>2, <3>3, <3>4 DEF NoRecord
  <2>4. \A j \in 1 .. M : s[j] \in Children(rs[a])
    BY <2>1
  <2> QED BY <2>1, <2>2, <2>3, <2>4, Zenon
<1>4. \A o \in Subtree(rs, a) : o \in DOMAIN e.offsets => o = a
  BY DEF Opaquely
<1>5. \A j \in 1 .. M : s[j] \notin DOMAIN e.offsets
  BY <1>3, <1>4
<1>6. \A j, k \in 1 .. M : s[j] = s[k] => j = k
  BY <1>1 DEF IsInjective
<1>7. /\ f.nodes \in Seq(Slots) /\ Len(f.nodes) = N + M
      /\ f.disk_offset \in Seq(Nat) /\ Len(f.disk_offset) = N + M
      /\ \A i \in 1 .. N : f.nodes[i] = e.nodes[i] /\ f.disk_offset[i] = e.disk_offset[i]
      /\ \A j \in 1 .. M : f.nodes[N + j] = OnDisk /\ f.disk_offset[N + j] = s[j]
      /\ DOMAIN f.offsets = DOMAIN e.offsets \cup {s[j] : j \in 1 .. M}
      /\ \A x \in DOMAIN e.offsets : f.offsets[x] = e.offsets[x]
      /\ \A j \in 1 .. M : f.offsets[s[j]] = N + j
  BY Zenon DEF Stage
<1> HIDE DEF N, M, L
<1>8. /\ \A x \in 1 .. (N + M) : x \in 1 .. N \/ (x \in New /\ x - N \in 1 .. M /\ x = N + (x - N) /\ x > N)
      /\ \A x \in 1 .. N : x \in 1 .. (N + M) /\ ~(x > N) /\ x \notin New
      /\ \A j \in 1 .. M : N + j \in 1 .. (N + M) /\ N + j > N /\ (N + j) - N = j /\ N + j \in New
                           /\ N + j \notin 1 .. N
      /\ \A x \in New : x \in 1 .. (N + M) /\ x - N \in 1 .. M /\ x = N + (x - N) /\ x > N
  BY <1>1, SMT
<1>9. /\ \A x \in 1 .. N : rk2[x] = rk[x] /\ par2[x] = par[x] /\ ft2[x] = ft[x]
      /\ \A x \in New : /\ rk2[x] = rk[id] - 1 /\ par2[x] = id /\ ft2[x] = Subtree(rs, s[x - N])
                        /\ f.nodes[x] = OnDisk /\ f.disk_offset[x] = s[x - N]
  <2>1. \A x \in 1 .. N : rk2[x] = rk[x] /\ par2[x] = par[x] /\ ft2[x] = ft[x]
    BY <1>8
  <2>2. \A x \in New : rk2[x] = rk[id] - 1 /\ par2[x] = id /\ ft2[x] = Subtree(rs, s[x - N])
    BY <1>8
  <2>3. ASSUME NEW x \in New PROVE f.nodes[x] = OnDisk /\ f.disk_offset[x] = s[x - N]
    <3>1. x - N \in 1 .. M /\ x = N + (x - N)
      BY <1>8
    <3>2. f.nodes[N + (x - N)] = OnDisk /\ f.disk_offset[N + (x - N)] = s[x - N]
      BY <3>1, <1>7
    <3> QED BY <3>1, <3>2
  <2> QED BY <2>1, <2>2, <2>3
<1> HIDE DEF rk2, par2, ft2
<1>10. Alive(f) = L \cup New /\ OnDisk # Freed
  <2>1. L = {i \in 1 .. N : e.nodes[i] # Freed}
    BY DEF Alive, L, N
  <2>2. OnDisk # Freed
    BY SlotKinds, Zenon
  <2>3. Alive(f) = {i \in 1 .. (N + M) : f.nodes[i] # Freed}
    BY <1>7 DEF Alive
  <2>4. \A x : x \in Alive(f) <=> x \in L \/ x \in New
    <3> SUFFICES ASSUME NEW x PROVE x \in Alive(f) <=> x \in L \/ x \in New
      BY Zenon
    <3>1. CASE x \in 1 .. N
      BY <3>1, <2>1, <2>3, <1>7, <1>8
    <3>2. CASE x \in New
      BY <3>2, <2>2, <2>3, <1>8, <1>9
    <3>3. CASE x \notin 1 .. N /\ x \notin New
      BY <3>3, <2>1, <2>3, <1>8
    <3> QED BY <3>1, <3>2, <3>3
  <2> QED BY <2>2, <2>4
<1>11. \A x \in L : x \in 1 .. N /\ x \notin New
  BY <1>1, <1>8
<1> HIDE DEF New
<1>12. Held(f, rs, X)
  <2>1. \A i \in 1 .. (N + M) : f.disk_offset[i] \in 0 .. Len(rs)
    <3>1. \A i \in 1 .. N : e.disk_offset[i] \in 0 .. Len(rs)
      BY <1>0, Zenon DEF Held, N
    <3>2. \A j \in 1 .. M : s[j] \in 0 .. Len(rs)
      BY <1>3, SMTT(30)
    <3> SUFFICES ASSUME NEW i \in 1 .. (N + M) PROVE f.disk_offset[i] \in 0 .. Len(rs)
      OBVIOUS
    <3>3. CASE i \in 1 .. N
      BY <3>1, <3>3, <1>7
    <3>4. CASE i \in New
      <4>1. i - N \in 1 .. M /\ f.disk_offset[i] = s[i - N]
        BY <3>4, <1>8, <1>9
      <4> QED BY <4>1, <3>2
    <3> QED BY <3>3, <3>4, <1>8
  <2>2. \A i \in 1 .. (N + M) : f.nodes[i] = OnDisk => f.disk_offset[i] # NoRecord
    <3>1. \A i \in 1 .. N : e.nodes[i] = OnDisk => e.disk_offset[i] # NoRecord
      BY <1>0 DEF Held, N
    <3> SUFFICES ASSUME NEW i \in 1 .. (N + M), f.nodes[i] = OnDisk PROVE f.disk_offset[i] # NoRecord
      BY Zenon
    <3>3. CASE i \in 1 .. N
      BY <3>1, <3>3, <1>7, Zenon
    <3>4. CASE i \in New
      <4>1. i - N \in 1 .. M /\ f.disk_offset[i] = s[i - N]
        BY <3>4, <1>8, <1>9, Zenon
      <4> QED BY <4>1, <1>3
    <3> QED BY <3>3, <3>4, <1>8
  <2>3. ASSUME NEW i \in Alive(f), IsLoaded(f.nodes[i])
        PROVE  /\ i \in L /\ IsLoaded(e.nodes[i]) /\ f.nodes[i] = e.nodes[i]
               /\ f.disk_offset[i] = e.disk_offset[i]
    <3>1. i \notin New
      BY <2>3, <1>9 DEF IsLoaded
    <3> QED BY <3>1, <2>3, <1>7, <1>10, <1>11
  <2>4. ASSUME NEW i \in Alive(f), IsLoaded(f.nodes[i]), ~f.nodes[i].dirty
        PROVE  /\ f.disk_offset[i] # NoRecord
               /\ rs[f.disk_offset[i]] = node_payload(f.nodes[i], f.disk_offset)
    <3>1. /\ i \in Alive(e) /\ IsLoaded(e.nodes[i]) /\ f.nodes[i] = e.nodes[i]
          /\ f.disk_offset[i] = e.disk_offset[i] /\ ~e.nodes[i].dirty
      BY <2>3, <2>4 DEF L
    <3>2. /\ e.disk_offset[i] \in 1 .. Len(rs)
          /\ rs[e.disk_offset[i]] = node_payload(e.nodes[i], e.disk_offset)
      BY <3>1, CleanNode
    <3>3. /\ e.nodes[i] \in AnyNode
          /\ Children(e.nodes[i]) \subseteq Alive(e)
      <4>1. i \in 1 .. Len(e.nodes)
        BY <3>1, SlotFacts
      <4> QED BY <4>1, <3>1, SlotFacts
    <3>4. node_payload(e.nodes[i], f.disk_offset) = node_payload(e.nodes[i], e.disk_offset)
      <4>1. CASE e.nodes[i].leaf
        BY <4>1 DEF node_payload
      <4>2. CASE ~e.nodes[i].leaf
        <5> DEFINE cs == e.nodes[i].children
        <5>1. \A j \in DOMAIN cs : cs[j] \in Alive(e)
          BY <4>2, <3>3 DEF Children, Range
        <5>2. \A j \in DOMAIN cs : f.disk_offset[cs[j]] = e.disk_offset[cs[j]]
          BY <5>1, <1>7, <1>11, Zenon DEF L
        <5>3. [j \in DOMAIN cs |-> f.disk_offset[cs[j]]] = [j \in DOMAIN cs |-> e.disk_offset[cs[j]]]
          BY <5>2
        <5> QED BY <4>2, <5>3 DEF node_payload
      <4> QED BY <4>1, <4>2
    <3>5. f.disk_offset[i] # NoRecord
      BY <3>1, <3>2 DEF NoRecord
    <3> QED BY <3>1, <3>2, <3>4, <3>5
  <2>5. ASSUME NEW i \in Alive(f), IsLoaded(f.nodes[i]), ~f.nodes[i].leaf
        PROVE  /\ IsInjective(f.nodes[i].children)
               /\ \/ Len(f.nodes[i].children) = Len(f.nodes[i].pivots) + 1
                  \/ /\ f.nodes[i].children = <<>> /\ f.nodes[i].pivots = <<>>
                     /\ f.nodes[i].dirty /\ i \in X
    BY <2>3, <2>5, <1>0, Zenon DEF Held, L
  <2> QED BY <2>1, <2>2, <2>4, <2>5, <1>7, Zenon DEF Held
<1>13. Interned(f, rs)
  <2>1. DOMAIN f.offsets \subseteq 1 .. Len(rs)
    <3>1. DOMAIN e.offsets \subseteq 1 .. Len(rs)
      BY <1>0 DEF Interned
    <3>2. {s[j] : j \in 1 .. M} \subseteq 1 .. Len(rs)
      BY <1>3
    <3> QED BY <3>1, <3>2, <1>7, Zenon
  <2>2. ASSUME NEW o \in DOMAIN f.offsets
        PROVE  f.offsets[o] \in Alive(f) /\ f.disk_offset[f.offsets[o]] = o
    <3>1. CASE o \in DOMAIN e.offsets
      <4>1. e.offsets[o] \in L /\ e.disk_offset[e.offsets[o]] = o
        BY <3>1, <1>0 DEF Interned, L
      <4> QED BY <4>1, <3>1, <1>7, <1>10, <1>11
    <3>2. CASE o \notin DOMAIN e.offsets
      <4>1. PICK j \in 1 .. M : o = s[j]
        BY <3>2, <1>7, Zenon
      <4>2. f.offsets[o] = N + j /\ N + j \in New /\ f.disk_offset[N + j] = o
        BY <4>1, <1>7, <1>8
      <4> QED BY <4>2, <1>10
    <3> QED BY <3>1, <3>2, Zenon
  <2>3. ASSUME NEW i \in Alive(f), f.disk_offset[i] # NoRecord
        PROVE  f.disk_offset[i] \in DOMAIN f.offsets /\ f.offsets[f.disk_offset[i]] = i
    <3>1. CASE i \in L
      <4>1. f.disk_offset[i] = e.disk_offset[i]
        BY <3>1, <1>7, <1>11
      <4>2. e.disk_offset[i] \in DOMAIN e.offsets /\ e.offsets[e.disk_offset[i]] = i
        BY <3>1, <4>1, <2>3, <1>0 DEF Interned, L
      <4> QED BY <4>1, <4>2, <1>7, Zenon
    <3>2. CASE i \in New
      <4>1. i - N \in 1 .. M /\ i = N + (i - N) /\ f.disk_offset[i] = s[i - N]
        BY <3>2, <1>8, <1>9
      <4> QED BY <4>1, <1>7
    <3> QED BY <3>1, <3>2, <1>10
  <2> QED BY <2>1, <2>2, <2>3, Zenon DEF Interned
<1>14. \A i \in L : e.nodes[i] = OnDisk /\ i # id /\ Opaquely(e, rs, i) =>
          \A j \in 1 .. M : s[j] \notin Subtree(rs, e.disk_offset[i])
  <2> SUFFICES ASSUME NEW i \in L, e.nodes[i] = OnDisk, i # id, Opaquely(e, rs, i),
                      NEW j \in 1 .. M
               PROVE  s[j] \notin Subtree(rs, e.disk_offset[i])
    BY Zenon
  <2>1. i \in Alive(e) /\ s[j] \in Children(rs[e.disk_offset[id]]) /\ s[j] \notin DOMAIN e.offsets
    BY <1>3, <1>5 DEF L
  <2> QED BY <2>1, OnePlace
<1>15. Half(f, rs)
  <2> SUFFICES ASSUME NEW i \in Alive(f), f.nodes[i] = OnDisk
               PROVE  \/ Children(rs[f.disk_offset[i]]) \subseteq DOMAIN f.offsets
                      \/ Opaquely(f, rs, i)
    BY DEF Half
  <2>1. CASE i \in New
    <3> DEFINE c == s[i - N]
    <3>1. i - N \in 1 .. M /\ f.disk_offset[i] = c
      BY <2>1, <1>8, <1>9, Zenon
    <3>2. c \in 1 .. Len(rs) /\ Subtree(rs, c) \subseteq Subtree(rs, a) /\ a \notin Subtree(rs, c)
      BY <3>1, <1>3, Zenon
    <3>3. \A t \in Subtree(rs, c) : t # c => hr[t] < hr[c]
      BY <3>2, <1>0, BelowRecord
    <3>4. \A j \in 1 .. M : s[j] \in Subtree(rs, c) => s[j] = c
      <4> SUFFICES ASSUME NEW j \in 1 .. M, s[j] \in Subtree(rs, c), s[j] # c PROVE FALSE
        OBVIOUS
      <4>1. hr[s[j]] < hr[c] /\ hr[a] = hr[s[j]] + 1 /\ hr[a] = hr[c] + 1
            /\ hr[s[j]] \in Nat /\ hr[c] \in Nat
        BY <3>1, <3>3, <1>3, Zenon
      <4>2. hr[a] \in Nat
        BY <1>0, <1>2
      <4> HIDE DEF c
      <4> QED BY <4>1, <4>2, OneUp, Zenon
    <3>5. Opaquely(f, rs, i)
      <4>1. ASSUME NEW o \in Subtree(rs, c), o \in DOMAIN f.offsets PROVE o = c
        <5>1. CASE o \in DOMAIN e.offsets
          <6>1. o = a
            BY <5>1, <3>2, <1>4, Zenon
          <6> QED BY <6>1, <3>2, Zenon
        <5>2. CASE o \in {s[j] : j \in 1 .. M}
          BY <5>2, <3>4, Zenon
        <5> QED BY <4>1, <5>1, <5>2, <1>7, Zenon
      <4> QED BY <4>1, <3>1, Zenon DEF Opaquely
    <3> QED BY <3>5
  <2>2. CASE i = id
    <3>1. f.disk_offset[i] = a
      BY <2>2, <1>1, <1>7
    <3> QED BY <3>1, <1>3, <1>7, Zenon
  <2>3. CASE i \in L /\ i # id
    <3>1. e.nodes[i] = OnDisk /\ f.disk_offset[i] = e.disk_offset[i] /\ i \in Alive(e)
      BY <2>3, <1>7, <1>11, Zenon DEF L
    <3>2. CASE Children(rs[e.disk_offset[i]]) \subseteq DOMAIN e.offsets
      BY <3>1, <3>2, <1>7, Zenon
    <3>3. CASE Opaquely(e, rs, i)
      <4>1. \A j \in 1 .. M : s[j] \notin Subtree(rs, e.disk_offset[i])
        BY <3>1, <3>3, <2>3, <1>14
      <4> QED BY <4>1, <3>1, <3>3, <1>7, SMTT(30) DEF Opaquely
    <3> QED BY <3>1, <3>2, <3>3, <1>0, Zenon DEF Half
  <2> QED BY <2>1, <2>2, <2>3, <1>10
<1>16. KidsOf(e, rs, id) = {}
  <2>1. \A c \in Children(rs[a]) : c \notin DOMAIN e.offsets
    BY <1>3, <1>5
  <2> QED BY <2>1 DEF KidsOf
<1>17. Rooted(f, rs, r, hr, rk2, par2)
  <2>0. /\ r \in L
        /\ \A x \in L : rk[x] \in Nat /\ rk[x] <= rk[r]
        /\ \A x \in L \ {r} : par[x] \in L /\ rk[par[x]] = rk[x] + 1
        /\ \A i \in L : KidsOf(e, rs, i) = {x \in L \ {r} : par[x] = i}
        /\ \A i \in L : IsLoaded(e.nodes[i]) => (e.nodes[i].leaf <=> rk[i] = 0)
        /\ \A i \in L : e.disk_offset[i] # NoRecord => rk[i] = hr[e.disk_offset[i]]
    BY <1>0 DEF Rooted, L
  <2>1. \A j \in 1 .. M : rk[id] - 1 = hr[s[j]] /\ rk[id] - 1 \in Nat
    <3> SUFFICES ASSUME NEW j \in 1 .. M PROVE rk[id] - 1 = hr[s[j]] /\ rk[id] - 1 \in Nat
      OBVIOUS
    <3>1. rk[id] = hr[s[j]] + 1 /\ hr[s[j]] \in Nat /\ rk[id] \in Nat
      BY <2>0, <1>1, <1>2, <1>3, Zenon
    <3> QED BY <3>1, OneUp, Zenon
  <2>2. \A x \in Alive(f) : rk2[x] \in Nat /\ rk2[x] <= rk2[r]
    <3>1. rk2[r] = rk[r]
      BY <1>1, <1>9
    <3>2. \A x \in L : rk2[x] \in Nat /\ rk2[x] <= rk2[r]
      BY <3>1, <2>0, <1>9, <1>11
    <3>3. \A x \in New : rk2[x] \in Nat /\ rk2[x] <= rk2[r]
      <4> SUFFICES ASSUME NEW x \in New PROVE rk2[x] \in Nat /\ rk2[x] <= rk2[r]
        OBVIOUS
      <4>1. rk2[x] = rk[id] - 1 /\ rk[id] - 1 \in Nat /\ rk[id] \in Nat /\ rk[id] <= rk[r]
            /\ rk[r] \in Nat
        BY <2>0, <2>1, <1>1, <1>8, <1>9
      <4> QED BY <4>1, <3>1
    <3> QED BY <3>2, <3>3, <1>10
  <2>3. \A x \in Alive(f) \ {r} : par2[x] \in Alive(f) /\ rk2[par2[x]] = rk2[x] + 1
    <3>1. \A x \in L \ {r} : par2[x] \in Alive(f) /\ rk2[par2[x]] = rk2[x] + 1
      BY <2>0, <1>9, <1>10, <1>11
    <3>2. \A x \in New : par2[x] \in Alive(f) /\ rk2[par2[x]] = rk2[x] + 1
      <4> SUFFICES ASSUME NEW x \in New PROVE par2[x] \in Alive(f) /\ rk2[par2[x]] = rk2[x] + 1
        OBVIOUS
      <4>1. rk2[x] = rk[id] - 1 /\ par2[x] = id /\ rk2[id] = rk[id] /\ rk[id] \in Nat
        BY <2>0, <1>1, <1>9
      <4> QED BY <4>1, <1>1, <1>10
    <3> QED BY <3>1, <3>2, <1>10
  <2>4. ASSUME NEW i \in Alive(f)
        PROVE  KidsOf(f, rs, i) = {x \in Alive(f) \ {r} : par2[x] = i}
    <3>1. CASE i = id
      <4>1. f.nodes[i] = OnDisk /\ f.disk_offset[i] = a
        BY <3>1, <1>1, <1>7
      <4>2. KidsOf(f, rs, i) = {f.offsets[c] : c \in Children(rs[a]) \cap DOMAIN f.offsets}
        BY <4>1 DEF KidsOf
      <4>3. Children(rs[a]) \cap DOMAIN f.offsets = {s[j] : j \in 1 .. M}
        BY <1>3, <1>7, Zenon
      <4>4. {f.offsets[c] : c \in {s[j] : j \in 1 .. M}} = {f.offsets[s[j]] : j \in 1 .. M}
        BY Zenon
      <4>5. {f.offsets[s[j]] : j \in 1 .. M} = New
        <5>1. \A j \in 1 .. M : f.offsets[s[j]] = N + j /\ N + j \in New
          BY <1>7, <1>8, Zenon
        <5>2. ASSUME NEW x \in New PROVE \E j \in 1 .. M : x = f.offsets[s[j]]
          <6>1. x - N \in 1 .. M /\ x = N + (x - N)
            BY <1>8, Zenon
          <6> QED BY <6>1, <5>1, Zenon
        <5> QED BY <5>1, <5>2, SMTT(30)
      <4>6. {x \in Alive(f) \ {r} : par2[x] = i} = New
        <5>1. \A x \in L \ {r} : par2[x] # id
          BY <2>0, <1>1, <1>9, <1>11, <1>16, SMT
        <5>2. \A x \in New : par2[x] = id /\ x # r
          BY <1>1, <1>9, <1>11
        <5> QED BY <5>1, <5>2, <3>1, <1>10
      <4> QED BY <4>2, <4>3, <4>4, <4>5, <4>6, Zenon
    <3>2. CASE i \in L /\ i # id
      <4>1. f.nodes[i] = e.nodes[i] /\ f.disk_offset[i] = e.disk_offset[i]
        BY <3>2, <1>7, <1>11
      <4>2. KidsOf(f, rs, i) = KidsOf(e, rs, i)
        <5>1. CASE e.nodes[i] # OnDisk
          BY <4>1, <5>1 DEF KidsOf
        <5>2. CASE e.nodes[i] = OnDisk
          <6> DEFINE b == e.disk_offset[i]
          <6>1. \A j \in 1 .. M : s[j] \notin Children(rs[b])
            <7> SUFFICES ASSUME NEW j \in 1 .. M, s[j] \in Children(rs[b]) PROVE FALSE
              OBVIOUS
            <7>1. b \in 1 .. Len(rs) /\ b # NoRecord
              <8>1. b # NoRecord /\ b \in 0 .. Len(rs)
                BY <5>2, <3>2, <1>0, <1>11 DEF Held, N
              <8> QED BY <8>1 DEF NoRecord
            <7>2. hr[b] = hr[s[j]] + 1
              BY <7>1, <1>20, Zenon
            <7>3. rk[i] = rk[id]
              BY <7>1, <7>2, <3>2, <2>0, <1>2, <1>3, Zenon
            <7>4. s[j] \in Subtree(rs, b) /\ s[j] \in Subtree(rs, a)
              <8>1. Subtree(rs, s[j]) \subseteq Subtree(rs, b)
                BY <7>1, <1>0, BelowRecord
              <8> QED BY <8>1, <1>3
            <7>5. ft[i] = Subtree(rs, b) /\ ft[id] = Subtree(rs, a)
              BY <5>2, <3>2, <1>0, <1>1 DEF Apart, Clean, L
            <7>6. ft[i] \cap ft[id] # {}
              BY <7>4, <7>5
            <7> QED BY <7>3, <7>6, <3>2, <1>0, <1>1 DEF Apart, L
          <6>2. Children(rs[b]) \cap DOMAIN f.offsets = Children(rs[b]) \cap DOMAIN e.offsets
            BY <6>1, <1>7, SMTT(30)
          <6>3. {f.offsets[c] : c \in Children(rs[b]) \cap DOMAIN e.offsets}
                  = {e.offsets[c] : c \in Children(rs[b]) \cap DOMAIN e.offsets}
            BY <1>7
          <6> QED BY <4>1, <5>2, <6>2, <6>3 DEF KidsOf
        <5> QED BY <5>1, <5>2
      <4>3. {x \in Alive(f) \ {r} : par2[x] = i} = {x \in L \ {r} : par[x] = i}
        BY <3>2, <1>9, <1>10, <1>11
      <4> QED BY <4>2, <4>3, <3>2, <2>0
    <3>3. CASE i \in New
      <4>1. i - N \in 1 .. M /\ f.disk_offset[i] = s[i - N] /\ f.nodes[i] = OnDisk
        BY <3>3, <1>8, <1>9
      <4>2. \A c \in Children(rs[s[i - N]]) : c \notin DOMAIN f.offsets
        <5> SUFFICES ASSUME NEW c \in Children(rs[s[i - N]]), c \in DOMAIN f.offsets PROVE FALSE
          OBVIOUS
        <5>1. s[i - N] \in 1 .. Len(rs)
          BY <4>1, <1>3, Zenon
        <5>2. c \in 1 .. Len(rs) /\ hr[s[i - N]] = hr[c] + 1
          BY <5>1, <1>20, Zenon
        <5>3. Subtree(rs, c) \subseteq Subtree(rs, s[i - N]) /\ c \in Subtree(rs, c)
          BY <5>1, <5>2, <1>0, BelowRecord, Zenon
        <5>4. c \in Subtree(rs, a) /\ c # a
          BY <5>3, <4>1, <1>3, Zenon
        <5>5. c \notin DOMAIN e.offsets
          BY <5>4, <1>4
        <5>6. PICK j \in 1 .. M : c = s[j]
          BY <5>5, <1>7
        <5>7. /\ hr[a] = hr[c] + 1 /\ hr[a] = hr[s[i - N]] + 1
              /\ hr[c] \in Nat /\ hr[s[i - N]] \in Nat
          BY <5>6, <4>1, <1>3, Zenon
        <5> QED BY <5>2, <5>7
      <4>3. KidsOf(f, rs, i) = {}
        BY <4>1, <4>2 DEF KidsOf
      <4>4. \A x \in Alive(f) \ {r} : par2[x] # i
        BY <3>3, <2>0, <1>1, <1>9, <1>10, <1>11, SMTT(30)
      <4> QED BY <4>3, <4>4
    <3> QED BY <3>1, <3>2, <3>3, <1>10, Zenon
  <2>5. \A i \in Alive(f) : IsLoaded(f.nodes[i]) => (f.nodes[i].leaf <=> rk2[i] = 0)
    <3>1. \A i \in New : ~IsLoaded(f.nodes[i])
      BY <1>9 DEF IsLoaded
    <3>2. \A i \in L : f.nodes[i] = e.nodes[i] /\ rk2[i] = rk[i]
      BY <1>7, <1>9, <1>11, Zenon
    <3>3. \A i \in L : IsLoaded(f.nodes[i]) => (f.nodes[i].leaf <=> rk2[i] = 0)
      BY <3>2, <2>0, Zenon
    <3> QED BY <3>1, <3>3, <1>10, Zenon
  <2>6. \A i \in Alive(f) : f.disk_offset[i] # NoRecord => rk2[i] = hr[f.disk_offset[i]]
    <3>1. \A i \in New : rk2[i] = hr[f.disk_offset[i]]
      BY <2>1, <1>8, <1>9, SMT
    <3>2. \A i \in L : f.disk_offset[i] = e.disk_offset[i] /\ rk2[i] = rk[i]
      BY <1>7, <1>9, <1>11
    <3>3. \A i \in L : f.disk_offset[i] # NoRecord => rk2[i] = hr[f.disk_offset[i]]
      BY <3>2, <2>0, Zenon
    <3> QED BY <3>1, <3>3, <1>10
  <2>7. r \in Alive(f)
    BY <1>1, <1>10
  <2> QED BY <2>2, <2>3, <2>4, <2>5, <2>6, <2>7, Zenon DEF Rooted
<1>18. Apart(f, rs, r, hr, rk2, par2, ft2)
  <2>0. /\ \A x \in L : ft[x] \subseteq 1 .. Len(rs)
        /\ \A x \in L \ {r} : ft[x] \subseteq ft[par[x]]
        /\ \A x \in L : Clean(e, x) =>
              ft[x] = Subtree(rs, e.disk_offset[x]) /\ Nested(rs, hr, e.disk_offset[x])
        /\ \A x, y \in L : rk[x] = rk[y] /\ ft[x] \cap ft[y] # {} => x = y
        /\ \A x \in L \ {r} : par[x] \in L /\ rk[par[x]] = rk[x] + 1
        /\ \A x \in L : rk[x] \in Nat /\ rk[x] <= rk[r]
        /\ {x \in L \ {r} : par[x] = id} = {}
    <3>1. KidsOf(e, rs, id) = {x \in L \ {r} : par[x] = id}
      BY <1>0 DEF Rooted, L
    <3> QED BY <3>1, <1>0, <1>16 DEF Apart, Rooted, L
  <2>1. ft[id] = Subtree(rs, a) /\ Nested(rs, hr, a)
    BY <2>0, <1>1 DEF Clean
  <2>2. \A x \in Alive(f) : ft2[x] \subseteq 1 .. Len(rs)
    BY <2>0, <1>3, <1>8, <1>9, <1>10, <1>11, SMTT(30)
  <2>3. \A x \in Alive(f) \ {r} : ft2[x] \subseteq ft2[par2[x]]
    <3>1. \A x \in L \ {r} : ft2[x] \subseteq ft2[par2[x]]
      BY <2>0, <1>9, <1>11, Zenon
    <3>2. \A x \in New : ft2[x] \subseteq ft2[par2[x]]
      <4> SUFFICES ASSUME NEW x \in New PROVE ft2[x] \subseteq ft2[par2[x]]
        OBVIOUS
      <4>1. ft2[x] = Subtree(rs, s[x - N]) /\ par2[x] = id /\ ft2[id] = Subtree(rs, a)
            /\ x - N \in 1 .. M
        BY <2>1, <1>1, <1>8, <1>9
      <4>2. Subtree(rs, s[x - N]) \subseteq Subtree(rs, a)
        BY <4>1, <1>3, Zenon
      <4> QED BY <4>1, <4>2, Zenon
    <3> QED BY <3>1, <3>2, <1>10
  <2>4. ASSUME NEW x \in Alive(f), Clean(f, x)
        PROVE  ft2[x] = Subtree(rs, f.disk_offset[x]) /\ Nested(rs, hr, f.disk_offset[x])
    <3>1. CASE x \in L
      <4>1. f.nodes[x] = e.nodes[x] /\ f.disk_offset[x] = e.disk_offset[x] /\ ft2[x] = ft[x]
        BY <3>1, <1>7, <1>9, <1>11
      <4>2. Clean(e, x)
        BY <4>1, <2>4 DEF Clean
      <4> QED BY <4>1, <4>2, <3>1, <2>0
    <3>2. CASE x \in New
      <4>1. ft2[x] = Subtree(rs, s[x - N]) /\ x - N \in 1 .. M /\ f.disk_offset[x] = s[x - N]
        BY <3>2, <1>8, <1>9, Zenon
      <4>2. s[x - N] \in Subtree(rs, a)
        BY <4>1, <1>3
      <4>3. Nested(rs, hr, s[x - N])
        BY <4>2, <2>1, <1>0, <1>2, NestedBelow
      <4> QED BY <4>1, <4>3
    <3> QED BY <3>1, <3>2, <1>10
  <2>5. ASSUME NEW x \in New, NEW y \in L, rk2[x] = rk2[y], NEW o \in ft2[x], o \in ft2[y]
        PROVE  FALSE
    <3>1. rk[y] = rk[id] - 1 /\ o \in Subtree(rs, s[x - N]) /\ o \in ft[y] /\ x - N \in 1 .. M
      BY <2>5, <1>8, <1>9, <1>11
    <3>2. rk[id] \in Nat /\ rk[id] <= rk[r] /\ rk[y] \in Nat /\ rk[r] \in Nat
      BY <2>0, <1>1
    <3>3. y # r
      BY <3>1, <3>2
    <3>4. o \in ft[par[y]] /\ par[y] \in L /\ rk[par[y]] = rk[id]
      BY <3>1, <3>2, <3>3, <2>0, SMT
    <3>5. o \in ft[id]
      BY <3>1, <2>1, <1>3
    <3>6. par[y] = id
      BY <3>4, <3>5, <2>0, <1>1
    <3> QED BY <3>3, <3>6, <2>0
  <2>6. ASSUME NEW x \in New, NEW y \in New, NEW o \in ft2[x], o \in ft2[y] PROVE x = y
    <3>1. /\ o \in Subtree(rs, s[x - N]) /\ o \in Subtree(rs, s[y - N])
          /\ x - N \in 1 .. M /\ y - N \in 1 .. M /\ x = N + (x - N) /\ y = N + (y - N)
      BY <2>6, <1>8, <1>9
    <3>2. /\ s[x - N] \in Subtree(rs, a) /\ s[y - N] \in Subtree(rs, a)
          /\ hr[s[x - N]] = hr[s[y - N]]
      <4>1. /\ hr[a] = hr[s[x - N]] + 1 /\ hr[a] = hr[s[y - N]] + 1
            /\ hr[s[x - N]] \in Nat /\ hr[s[y - N]] \in Nat
        BY <3>1, <1>3
      <4>2. \A p, q \in Nat : hr[a] = p + 1 /\ hr[a] = q + 1 => p = q
        OBVIOUS
      <4>3. hr[s[x - N]] = hr[s[y - N]]
        BY <4>1, <4>2, Zenon
      <4> QED BY <4>3, <3>1, <1>3, Zenon
    <3>3. s[x - N] = s[y - N]
      BY <3>1, <3>2, <2>1, Zenon DEF Nested
    <3>4. x - N = y - N
      BY <3>1, <3>3, <1>6
    <3> QED BY <3>1, <3>4
  <2>7. ASSUME NEW x \in Alive(f), NEW y \in Alive(f), rk2[x] = rk2[y], ft2[x] \cap ft2[y] # {}
        PROVE  x = y
    <3>1. PICK o : o \in ft2[x] /\ o \in ft2[y]
      BY <2>7
    <3>2. CASE x \in L /\ y \in L
      <4>1. /\ rk2[x] = rk[x] /\ rk2[y] = rk[y] /\ ft2[x] = ft[x] /\ ft2[y] = ft[y]
        BY <3>2, <1>9, <1>11
      <4> QED BY <4>1, <3>2, <2>0, <2>7
    <3>3. CASE x \in New /\ y \in New
      BY <3>1, <3>3, <2>6
    <3>4. CASE x \in New /\ y \in L
      BY <3>1, <3>4, <2>5, <2>7
    <3>5. CASE x \in L /\ y \in New
      BY <3>1, <3>5, <2>5, <2>7
    <3> QED BY <3>2, <3>3, <3>4, <3>5, <1>10
  <2> QED BY <2>2, <2>3, <2>4, <2>7, Zenon DEF Apart
<1>19. ft2[r] \subseteq F
  BY <1>0, <1>1, <1>9
<1> QED BY <1>0, <1>12, <1>13, <1>15, <1>17, <1>18, <1>19, Zenon DEF Sane, SaneBy


CleanLeaf(x) == [Leaf(x) EXCEPT !.dirty = FALSE]

CleanInner(p, c, b) == [Internal(p, c, b) EXCEPT !.dirty = FALSE]

(* The nodes that records are read into.                                   *)
LEMMA CleanCopies ==
    /\ \A x \in Maps(Entries(Nat)) :
          /\ CleanLeaf(x) \in AnyNode /\ CleanLeaf(x).leaf = TRUE
          /\ CleanLeaf(x).entries = x /\ CleanLeaf(x).dirty = FALSE
    /\ \A p \in Seq(Nat), c \in Seq(Nat), b \in Maps(MessagesOf(Nat)) :
          /\ CleanInner(p, c, b) \in AnyNode /\ CleanInner(p, c, b).leaf = FALSE
          /\ CleanInner(p, c, b).pivots = p /\ CleanInner(p, c, b).children = c
          /\ CleanInner(p, c, b).buffer = b /\ CleanInner(p, c, b).dirty = FALSE
<1>1. ASSUME NEW n \in AnyNode
      PROVE  LET m == [n EXCEPT !.dirty = FALSE]
             IN /\ m \in AnyNode /\ m.leaf = n.leaf /\ m.dirty = FALSE
                /\ n.leaf => m.entries = n.entries
                /\ ~n.leaf => /\ m.pivots = n.pivots /\ m.children = n.children
                              /\ m.buffer = n.buffer
  <2>1. CASE n \in LeafNode
    BY <2>1 DEF AnyNode, LeafNode
  <2>2. CASE n \in InnerNode
    BY <2>2 DEF AnyNode, InnerNode
  <2> QED BY <2>1, <2>2 DEF AnyNode
<1>2. ASSUME NEW x \in Maps(Entries(Nat))
      PROVE  Leaf(x) \in AnyNode /\ Leaf(x).leaf = TRUE /\ Leaf(x).entries = x
  BY DEF Leaf, AnyNode, LeafNode
<1>3. ASSUME NEW p \in Seq(Nat), NEW c \in Seq(Nat), NEW b \in Maps(MessagesOf(Nat))
      PROVE  /\ Internal(p, c, b) \in AnyNode /\ Internal(p, c, b).leaf = FALSE
             /\ Internal(p, c, b).pivots = p /\ Internal(p, c, b).children = c
             /\ Internal(p, c, b).buffer = b
  BY DEF Internal, AnyNode, InnerNode
<1>4. \A x \in Maps(Entries(Nat)) :
          /\ CleanLeaf(x) \in AnyNode /\ CleanLeaf(x).leaf = TRUE
          /\ CleanLeaf(x).entries = x /\ CleanLeaf(x).dirty = FALSE
  BY <1>1, <1>2 DEF CleanLeaf
<1>5. \A p \in Seq(Nat), c \in Seq(Nat), b \in Maps(MessagesOf(Nat)) :
          /\ CleanInner(p, c, b) \in AnyNode /\ CleanInner(p, c, b).leaf = FALSE
          /\ CleanInner(p, c, b).pivots = p /\ CleanInner(p, c, b).children = c
          /\ CleanInner(p, c, b).buffer = b /\ CleanInner(p, c, b).dirty = FALSE
  <2> SUFFICES ASSUME NEW p \in Seq(Nat), NEW c \in Seq(Nat), NEW b \in Maps(MessagesOf(Nat))
               PROVE  /\ CleanInner(p, c, b) \in AnyNode /\ CleanInner(p, c, b).leaf = FALSE
                      /\ CleanInner(p, c, b).pivots = p /\ CleanInner(p, c, b).children = c
                      /\ CleanInner(p, c, b).buffer = b /\ CleanInner(p, c, b).dirty = FALSE
    BY Zenon
  <2> DEFINE n == Internal(p, c, b)
  <2>1. n \in AnyNode /\ n.leaf = FALSE /\ n.pivots = p /\ n.children = c /\ n.buffer = b
    BY DEF Internal, AnyNode, InnerNode
  <2>2. CleanInner(p, c, b) = [n EXCEPT !.dirty = FALSE]
    BY DEF CleanInner
  <2> HIDE DEF n
  <2> QED BY <1>1, <2>1, <2>2
<1> QED BY <1>4, <1>5

ReadFrom(e, id, rec) ==
    IF rec.leaf THEN [e EXCEPT !.nodes[id] = CleanLeaf(rec.entries)]
    ELSE [WithSlots(e, rec.children) EXCEPT
             !.nodes[id] = CleanInner(rec.pivots,
                                      [j \in DOMAIN rec.children |->
                                         WithSlots(e, rec.children).offsets[rec.children[j]]],
                                      rec.buffer)]

(* Fetch, without its fold.                                                *)
LEMMA FetchIs ==
    ASSUME NEW e, NEW id
    PROVE  Fetch(e, id) = ReadFrom(e, id, records[e.disk_offset[id]])
BY Zenon DEF Fetch, ReadFrom, CleanLeaf, CleanInner, WithSlots, FoldLeft, MapThenFoldSet

(* ensure_loaded: the node is read from its record, below which it finds   *)
(* the slots that are there, and makes the others.                         *)
LEMMA Fetches ==
    ASSUME NEW e, IsEngine(e), NEW hr, NEW r, NEW X, NEW F,
           Sane(e, records, hr, r, X, F), NEW id \in Alive(e), e.nodes[id] = OnDisk
    PROVE  /\ Sane(Fetch(e, id), records, hr, r, X, F) /\ IsEngine(Fetch(e, id))
           /\ Alive(e) \subseteq Alive(Fetch(e, id)) /\ IsLoaded(Fetch(e, id).nodes[id])
           /\ \A i \in Alive(e) \ {id} : Fetch(e, id).nodes[i] = e.nodes[i]
<1>0. PICK rk, par, ft : SaneBy(e, records, hr, r, X, F, rk, par, ft)
  BY DEF Sane
<1> DEFINE a == e.disk_offset[id]
           rec == records[a]
           f == Fetch(e, id)
<1>1. /\ Leveled(records, hr) /\ Held(e, records, X) /\ Interned(e, records) /\ Half(e, records)
  BY <1>0 DEF SaneBy
<1>2. /\ DOMAIN e.nodes = 1 .. Len(e.nodes) /\ id \in 1 .. Len(e.nodes)
      /\ Alive(e) \subseteq 1 .. Len(e.nodes)
  BY <1>0, SlotFacts
<1>3. a \in 1 .. Len(records)
  <2>1. a # NoRecord /\ a \in 0 .. Len(records)
    BY <1>1, <1>2 DEF Held
  <2> QED BY <2>1 DEF NoRecord
<1>4. IsRecord(rec) /\ (~rec.leaf => Len(rec.children) = Len(rec.pivots) + 1 /\ IsInjective(rec.children))
  BY <1>1, <1>3 DEF Leveled
<1>5. /\ rec.leaf \in BOOLEAN /\ (rec.leaf => rec.entries \in Maps(Entries(Nat)))
      /\ ~rec.leaf => /\ rec.pivots \in Seq(Nat) /\ rec.children \in Seq(Nat)
                      /\ rec.buffer \in Maps(MessagesOf(Nat))
  BY <1>4, RecordTyped
<1>6. CASE rec.leaf
  <2> DEFINE n == CleanLeaf(rec.entries)
  <2>1. f = [e EXCEPT !.nodes[id] = n]
    BY <1>6, FetchIs, Zenon DEF ReadFrom
  <2>2. n \in AnyNode /\ n.leaf = TRUE /\ n.dirty = FALSE /\ n.entries = rec.entries
    BY <1>5, <1>6, CleanCopies
  <2> HIDE DEF n
  <2>3. rec = node_payload(n, e.disk_offset)
    BY <2>2, <1>4, <1>6 DEF IsRecord, node_payload
  <2>4. /\ f.nodes = [e.nodes EXCEPT ![id] = n] /\ f.disk_offset = e.disk_offset
        /\ f.offsets = e.offsets /\ IsEngine(f)
    <3> HIDE DEF n
    <3> QED BY <2>1 DEF IsEngine
  <2>5. Children(n) \subseteq Alive(e)
    BY <2>2 DEF Children
  <2> HIDE DEF n, f
  <2>6. SaneBy(f, records, hr, r, X, F, rk, par, ft) /\ Alive(f) = Alive(e)
    BY <1>0, <2>2, <2>3, <2>4, <2>5, Reloads
  <2>7. f.nodes[id] = n /\ \A i \in Alive(e) \ {id} : f.nodes[i] = e.nodes[i]
    BY <1>2, <2>4
  <2>8. IsLoaded(n)
    BY <2>2, SlotKinds
  <2>9. Sane(f, records, hr, r, X, F)
    BY <2>6, Zenon DEF Sane
  <2> QED BY <2>4, <2>6, <2>7, <2>8, <2>9 DEF f
<1>7. CASE ~rec.leaf
  <2> DEFINE s == rec.children
             g == WithSlots(e, s)
             cs == [j \in DOMAIN s |-> g.offsets[s[j]]]
             n == CleanInner(rec.pivots, cs, rec.buffer)
  <2>1. f = [g EXCEPT !.nodes[id] = n]
    BY <1>7, FetchIs, Zenon DEF ReadFrom
  <2>2. s \in Seq(Nat) /\ IsInjective(s) /\ DOMAIN s = 1 .. Len(s)
    BY <1>4, <1>5, <1>7
  <2>3. Children(rec) = {s[j] : j \in 1 .. Len(s)}
    BY <1>7, <2>2 DEF Children, Range
  <2>4. /\ IsEngine(g) /\ Sane(g, records, hr, r, X, F) /\ Alive(e) \subseteq Alive(g)
        /\ \A i \in Alive(e) : g.nodes[i] = e.nodes[i] /\ g.disk_offset[i] = e.disk_offset[i]
        /\ \A j \in 1 .. Len(s) : s[j] \in DOMAIN g.offsets
    <3>1. CASE Children(rec) \subseteq DOMAIN e.offsets
      <4>1. \A j \in 1 .. Len(s) : s[j] \in DOMAIN e.offsets
        BY <2>3, <3>1
      <4> HIDE DEF s, a
      <4>2. g = e
        BY <4>1, <2>2, <1>1, NoStages
      <4> QED BY <4>1, <4>2
    <3>2. CASE ~(Children(rec) \subseteq DOMAIN e.offsets)
      <4>1. Opaquely(e, records, id)
        BY <3>2, <1>1 DEF Half
      <4>2. \A j \in 1 .. Len(s) : s[j] \notin DOMAIN e.offsets
        <5> SUFFICES ASSUME NEW c \in Children(rec), c \in DOMAIN e.offsets PROVE FALSE
          BY <2>3
        <5>1. c \in 1 .. Len(records) /\ c < a
          BY <1>1, <1>3, RecordsBelow
        <5>2. c \in Subtree(records, c)
          BY <5>1, <1>1, BelowRecord
        <5>3. Subtree(records, c) \subseteq Subtree(records, a)
          BY <1>1, <1>3, BelowRecord
        <5>4. c = a
          BY <4>1, <5>2, <5>3 DEF Opaquely
        <5> QED BY <5>1, <5>4, <1>3
      <4>3. e.nodes \in Seq(Slots) /\ e.disk_offset \in Seq(Nat) /\ Len(e.disk_offset) = Len(e.nodes)
        BY <1>1 DEF Held
      <4> HIDE DEF s
      <4>4. Stage(e, s, Len(s), g)
        BY <4>2, <4>3, <2>2, AllStages
      <4>5. ~records[e.disk_offset[id]].leaf /\ s = records[e.disk_offset[id]].children
        BY <1>7 DEF s
      <4> HIDE DEF g
      <4>6. Sane(g, records, hr, r, X, F)
        BY <4>1, <4>4, <4>5, <2>2, <1>0, Exposes
      <4>7. /\ IsEngine(g) /\ Len(g.nodes) = Len(e.nodes) + Len(s)
            /\ \A i \in 1 .. Len(e.nodes) : /\ g.nodes[i] = e.nodes[i]
                                            /\ g.disk_offset[i] = e.disk_offset[i]
            /\ \A j \in 1 .. Len(s) : s[j] \in DOMAIN g.offsets
        BY <4>4 DEF Stage
      <4>8. Len(e.nodes) \in Nat /\ Len(s) \in Nat
        BY <4>3, <2>2
      <4>9. \A i \in Alive(e) : i \in Alive(g)
        BY <4>7, <4>8 DEF Alive
      <4> QED BY <4>6, <4>7, <4>9, <1>2
    <3> QED BY <3>1, <3>2
  <2>5. PICK rk2, par2, ft2 : SaneBy(g, records, hr, r, X, F, rk2, par2, ft2)
    BY <2>4 DEF Sane
  <2>6. /\ g.nodes[id] = OnDisk /\ g.disk_offset[id] = a /\ id \in Alive(g)
    BY <2>4
  <2>7. Interned(g, records)
    BY <2>5 DEF SaneBy
  <2>8. \A j \in 1 .. Len(s) : g.offsets[s[j]] \in Alive(g) /\ g.disk_offset[g.offsets[s[j]]] = s[j]
    BY <2>4, <2>7, Zenon DEF Interned
  <2>9. Alive(g) \subseteq 1 .. Len(g.nodes) /\ Len(g.nodes) \in Nat /\ DOMAIN g.nodes = 1 .. Len(g.nodes)
    BY <2>5, SlotFacts
  <2> HIDE DEF g
  <2>10. /\ cs \in Seq(Nat) /\ Len(cs) = Len(s) /\ DOMAIN cs = DOMAIN s
         /\ \A j \in DOMAIN s : cs[j] = g.offsets[s[j]]
    <3>1. \A j \in 1 .. Len(s) : g.offsets[s[j]] \in Nat
      <4>1. \A x \in Alive(g) : x \in Nat
        BY <2>9
      <4> QED BY <4>1, <2>8, Zenon
    <3> HIDE DEF s
    <3>2. cs = [j \in 1 .. Len(s) |-> g.offsets[s[j]]] /\ Len(s) \in Nat
      BY <2>2, SMT
    <3> QED BY <3>1, <3>2, <2>2
  <2> HIDE DEF cs
  <2>11. n \in AnyNode /\ ~n.dirty /\ ~n.leaf /\ n.children = cs /\ n.pivots = rec.pivots /\ n.leaf = FALSE
         /\ n.buffer = rec.buffer
    BY <2>10, <1>5, <1>7, CleanCopies
  <2> HIDE DEF n
  <2>12. rec = node_payload(n, g.disk_offset)
    <3>1. [j \in DOMAIN cs |-> g.disk_offset[cs[j]]] = s
      <4>1. \A j \in DOMAIN s : g.disk_offset[cs[j]] = s[j]
        BY <2>2, <2>8, <2>10, Zenon
      <4>2. s = [j \in DOMAIN s |-> s[j]]
        <5> HIDE DEF s
        <5> QED BY <2>2, SMT
      <4> HIDE DEF s
      <4> QED BY <4>1, <4>2, <2>10
    <3>2. rec = [leaf |-> FALSE, pivots |-> rec.pivots, buffer |-> rec.buffer, children |-> s]
      BY <1>4, <1>7 DEF IsRecord
    <3>3. node_payload(n, g.disk_offset)
            = [leaf |-> FALSE, pivots |-> rec.pivots, buffer |-> rec.buffer,
               children |-> [j \in DOMAIN cs |-> g.disk_offset[cs[j]]]]
      BY <2>11 DEF node_payload
    <3> QED BY <3>1, <3>2, <3>3, Zenon
  <2>13. Children(n) \subseteq Alive(g)
    <3>1. \A j \in DOMAIN cs : cs[j] \in Alive(g)
      BY <2>2, <2>8, <2>10, Zenon
    <3> QED BY <3>1, <2>11, Zenon DEF Children, Range
  <2>14. IsInjective(n.children) /\ Len(n.children) = Len(n.pivots) + 1
    <3>1. Len(cs) = Len(rec.pivots) + 1
      BY <1>4, <1>7, <2>10
    <3>2. \A j, k \in DOMAIN cs : cs[j] = cs[k] => j = k
      <4> SUFFICES ASSUME NEW j \in DOMAIN s, NEW k \in DOMAIN s, cs[j] = cs[k] PROVE j = k
        BY <2>10
      <4>1. s[j] = s[k]
        <5>1. g.disk_offset[cs[j]] = s[j] /\ g.disk_offset[cs[k]] = s[k]
          BY <2>2, <2>8, <2>10, Zenon
        <5> QED BY <5>1, Zenon
      <4> QED BY <4>1, <2>2, Zenon DEF IsInjective
    <3> QED BY <3>1, <3>2, <2>11 DEF IsInjective
  <2>15. /\ f.nodes = [g.nodes EXCEPT ![id] = n] /\ f.disk_offset = g.disk_offset
         /\ f.offsets = g.offsets /\ IsEngine(f)
    <3>1. IsEngine(g)
      BY <2>4
    <3> HIDE DEF f
    <3> QED BY <2>1, <3>1 DEF IsEngine
  <2> HIDE DEF f
  <2>16. records[g.disk_offset[id]] = node_payload(n, g.disk_offset)
    BY <2>6, <2>12
  <2>17. SaneBy(f, records, hr, r, X, F, rk2, par2, ft2) /\ Alive(f) = Alive(g)
    BY <2>5, <2>6, <2>11, <2>13, <2>14, <2>15, <2>16, Reloads
  <2>18. f.nodes[id] = n /\ \A i \in Alive(e) \ {id} : f.nodes[i] = e.nodes[i]
    BY <2>4, <2>6, <2>9, <2>15
  <2>19. IsLoaded(n)
    BY <2>11, SlotKinds
  <2>20. Sane(f, records, hr, r, X, F)
    BY <2>17, Zenon DEF Sane
  <2> QED BY <2>4, <2>15, <2>17, <2>18, <2>19, <2>20 DEF f
<1> QED BY <1>5, <1>6, <1>7

(* What a call finds after ensure_loaded.                                  *)
LoadedFrom(e, hr, r, X, F, id, pins, e2) ==
    /\ Sane(e2, records, hr, r, X, F) /\ IsEngine(e2)
    /\ Alive(e) \subseteq Alive(e2) /\ IsLoaded(e2.nodes[id])
    /\ \A i \in pins \cup {id} : IsLoaded(e.nodes[i]) /\ i \in Alive(e) => e2.nodes[i] = e.nodes[i]

(* With the evictions that follow, which spare what the call has pinned.   *)
LEMMA Loads ==
    ASSUME NEW e, IsEngine(e), NEW hr, NEW r, NEW X, NEW F,
           Sane(e, records, hr, r, X, F), NEW id \in Alive(e), NEW pins,
           NEW e2 \in ensure_loaded(e, id, pins)
    PROVE  LoadedFrom(e, hr, r, X, F, id, pins, e2)
<1>1. CASE e.nodes[id] # OnDisk
  <2>1. e2 = e
    BY <1>1 DEF ensure_loaded
  <2>2. IsLoaded(e.nodes[id])
    BY <1>1 DEF IsLoaded, Alive
  <2> QED BY <2>1, <2>2, Zenon DEF LoadedFrom
<1>2. CASE e.nodes[id] = OnDisk
  <2> DEFINE f == Fetch(e, id)
  <2>1. /\ Sane(f, records, hr, r, X, F) /\ IsEngine(f)
        /\ Alive(e) \subseteq Alive(f) /\ IsLoaded(f.nodes[id])
        /\ \A i \in Alive(e) \ {id} : f.nodes[i] = e.nodes[i]
    BY <1>2, Fetches
  <2>2. e2 \in enforce_budget(f, pins, id)
    BY <1>2 DEF ensure_loaded
  <2> HIDE DEF f
  <2>3. PICK S \in SUBSET (Evictable(f) \ (pins \cup {id})) : e2 = [f EXCEPT !.nodes = Evicted(@, S)]
    BY <2>2 DEF enforce_budget
  <2>4. /\ e2.nodes = Evicted(f.nodes, S) /\ e2.disk_offset = f.disk_offset
        /\ e2.offsets = f.offsets /\ IsEngine(e2)
    BY <2>1, <2>3 DEF IsEngine
  <2>5. PICK rk, par, ft : SaneBy(f, records, hr, r, X, F, rk, par, ft)
    BY <2>1 DEF Sane
  <2>6. S \in SUBSET Evictable(f) /\ S \cap (pins \cup {id}) = {}
    BY <2>3
  <2>7. /\ SaneBy(e2, records, hr, r, X, F, rk, par, ft) /\ Alive(e2) = Alive(f)
        /\ \A i \in Alive(f) \ S : e2.nodes[i] = f.nodes[i]
    BY <2>4, <2>5, <2>6, Evicts
  <2>8. e2.nodes[id] = f.nodes[id]
    BY <2>1, <2>6, <2>7
  <2>9. ASSUME NEW i \in pins \cup {id}, IsLoaded(e.nodes[i]), i \in Alive(e)
        PROVE  e2.nodes[i] = e.nodes[i]
    <3>1. i # id
      BY <1>2, <2>9 DEF IsLoaded
    <3> QED BY <3>1, <2>1, <2>6, <2>7, <2>9
  <2>10. Sane(e2, records, hr, r, X, F)
    BY <2>7, Zenon DEF Sane
  <2> QED BY <2>1, <2>4, <2>7, <2>8, <2>9, <2>10 DEF LoadedFrom
<1> QED BY <1>1, <1>2


-----------------------------------------------------------------------------
(* Changes to the tree                                                     *)

(* A node in memory that has been changed is well formed.                  *)
WellFormed(n, i, X) ==
    /\ n \in AnyNode /\ n.dirty
    /\ ~n.leaf => /\ IsInjective(n.children)
                  /\ \/ Len(n.children) = Len(n.pivots) + 1
                     \/ n.children = <<>> /\ n.pivots = <<>> /\ i \in X

(* e becomes e2: the nodes T are new or changed, and of the others some    *)
(* may be freed.                                                           *)
SlotsKept(e, rs, e2, X, X2, T) ==
    /\ e2.nodes \in Seq(Slots) /\ e2.disk_offset \in Seq(Nat)
    /\ Len(e2.disk_offset) = Len(e2.nodes)
    /\ \A i \in 1 .. Len(e2.nodes) : e2.disk_offset[i] \in 0 .. Len(rs)
    /\ \A i \in Alive(e2) : e2.disk_offset[i] = IF i \in Alive(e) THEN e.disk_offset[i] ELSE NoRecord
    /\ DOMAIN e2.offsets = {o \in DOMAIN e.offsets : e.offsets[o] \in Alive(e2)}
    /\ \A o \in DOMAIN e2.offsets : e2.offsets[o] = e.offsets[o]
    /\ \A i \in Alive(e2) \ T : /\ i \in Alive(e) /\ e2.nodes[i] = e.nodes[i]
                                /\ KidsOf(e, rs, i) \subseteq Alive(e2)
                                /\ i \in X => i \in X2
    /\ \A i \in Alive(e2) \cap T : WellFormed(e2.nodes[i], i, X2)

LinksFit(e, rs, r, rk, par, e2, T, r2, rk2, par2) ==
    /\ r2 \in Alive(e2)
    /\ \A x \in Alive(e2) : rk2[x] \in Nat /\ rk2[x] <= rk2[r2]
    /\ \A x \in Alive(e2) : x \in Alive(e) => rk2[x] = rk[x]
    /\ \A x \in Alive(e2) \ {r2} : par2[x] \in Alive(e2) /\ rk2[par2[x]] = rk2[x] + 1
    /\ \A i \in Alive(e2) \ T : KidsOf(e, rs, i) = {x \in Alive(e2) \ {r2} : par2[x] = i}
    /\ \A i \in Alive(e2) \cap T :
          /\ Children(e2.nodes[i]) = {x \in Alive(e2) \ {r2} : par2[x] = i}
          /\ e2.nodes[i].leaf <=> rk2[i] = 0

RecordsFit(rs, e2, T, ft, r2, rk2, par2, ft2) ==
    /\ \A x \in Alive(e2) : ft2[x] \subseteq 1 .. Len(rs)
    /\ \A x \in Alive(e2) \ T : ft2[x] = ft[x]
    /\ \A x \in Alive(e2) \ {r2} : ft2[x] \subseteq ft2[par2[x]]
    /\ \A x, y \in Alive(e2) : rk2[x] = rk2[y] /\ ft2[x] \cap ft2[y] # {} => x = y

(* What such a change has to keep.                                         *)
LEMMA Regrafts ==
    ASSUME NEW e, NEW rs, NEW hr, NEW r, NEW X, NEW F, NEW rk, NEW par, NEW ft,
           SaneBy(e, rs, hr, r, X, F, rk, par, ft),
           NEW e2, NEW X2, NEW F2, NEW T, NEW r2, NEW rk2, NEW par2, NEW ft2,
           SlotsKept(e, rs, e2, X, X2, T), LinksFit(e, rs, r, rk, par, e2, T, r2, rk2, par2),
           RecordsFit(rs, e2, T, ft, r2, rk2, par2, ft2), ft2[r2] \subseteq F2
    PROVE  SaneBy(e2, rs, hr, r2, X2, F2, rk2, par2, ft2)
<1> DEFINE L == Alive(e)
           L2 == Alive(e2)
<1>1. /\ Leveled(rs, hr) /\ Held(e, rs, X) /\ Interned(e, rs) /\ Half(e, rs)
      /\ Rooted(e, rs, r, hr, rk, par) /\ Apart(e, rs, r, hr, rk, par, ft)
  BY DEF SaneBy
<1>2. /\ e2.nodes \in Seq(Slots) /\ e2.disk_offset \in Seq(Nat)
      /\ Len(e2.disk_offset) = Len(e2.nodes)
      /\ \A i \in 1 .. Len(e2.nodes) : e2.disk_offset[i] \in 0 .. Len(rs)
      /\ \A i \in L2 : e2.disk_offset[i] = IF i \in L THEN e.disk_offset[i] ELSE NoRecord
      /\ DOMAIN e2.offsets = {o \in DOMAIN e.offsets : e.offsets[o] \in L2}
      /\ \A o \in DOMAIN e2.offsets : e2.offsets[o] = e.offsets[o]
      /\ \A i \in L2 \ T : /\ i \in L /\ e2.nodes[i] = e.nodes[i] /\ KidsOf(e, rs, i) \subseteq L2
                           /\ i \in X => i \in X2
      /\ \A i \in L2 \cap T : WellFormed(e2.nodes[i], i, X2)
  BY DEF SlotsKept
<1>3. /\ r2 \in L2
      /\ \A x \in L2 : rk2[x] \in Nat /\ rk2[x] <= rk2[r2]
      /\ \A x \in L2 : x \in L => rk2[x] = rk[x]
      /\ \A x \in L2 \ {r2} : par2[x] \in L2 /\ rk2[par2[x]] = rk2[x] + 1
      /\ \A i \in L2 \ T : KidsOf(e, rs, i) = {x \in L2 \ {r2} : par2[x] = i}
      /\ \A i \in L2 \cap T : /\ Children(e2.nodes[i]) = {x \in L2 \ {r2} : par2[x] = i}
                              /\ e2.nodes[i].leaf <=> rk2[i] = 0
  BY DEF LinksFit
<1>4. /\ \A x \in L2 : ft2[x] \subseteq 1 .. Len(rs)
      /\ \A x \in L2 \ T : ft2[x] = ft[x]
      /\ \A x \in L2 \ {r2} : ft2[x] \subseteq ft2[par2[x]]
      /\ \A x, y \in L2 : rk2[x] = rk2[y] /\ ft2[x] \cap ft2[y] # {} => x = y
  BY DEF RecordsFit
<1>5. \A i \in L2 \cap T : /\ e2.nodes[i] \in AnyNode /\ e2.nodes[i].dirty /\ IsLoaded(e2.nodes[i])
                           /\ e2.nodes[i] # OnDisk
  BY <1>2, SlotKinds DEF WellFormed
<1>6. /\ L2 = {i \in 1 .. Len(e2.nodes) : e2.nodes[i] # Freed} /\ OnDisk # Freed
      /\ L \subseteq 1 .. Len(e.nodes)
  BY SlotKinds, SlotFacts DEF Alive
<1>7. \A i \in L2 \ T : e2.disk_offset[i] = e.disk_offset[i] /\ i \in L
  BY <1>2
<1> HIDE DEF L, L2
<1>8. Held(e2, rs, X2)
  <2>1. ASSUME NEW i \in 1 .. Len(e2.nodes), e2.nodes[i] = OnDisk PROVE e2.disk_offset[i] # NoRecord
    <3>1. i \in L2 \ T
      BY <2>1, <1>5, <1>6
    <3>2. e.nodes[i] = OnDisk /\ e2.disk_offset[i] = e.disk_offset[i] /\ i \in L
      BY <3>1, <2>1, <1>2, <1>7
    <3> QED BY <3>2, <1>1, <1>6 DEF Held
  <2>2. ASSUME NEW i \in Alive(e2), IsLoaded(e2.nodes[i]), ~e2.nodes[i].dirty
        PROVE  /\ e2.disk_offset[i] # NoRecord
               /\ rs[e2.disk_offset[i]] = node_payload(e2.nodes[i], e2.disk_offset)
    <3>1. i \in L2 \ T
      BY <2>2, <1>5 DEF L2
    <3>2. /\ i \in L /\ e2.nodes[i] = e.nodes[i] /\ e2.disk_offset[i] = e.disk_offset[i]
          /\ KidsOf(e, rs, i) \subseteq L2
      BY <3>1, <1>2, <1>7
    <3>3. /\ e.disk_offset[i] \in 1 .. Len(rs)
          /\ rs[e.disk_offset[i]] = node_payload(e.nodes[i], e.disk_offset)
      BY <3>2, <2>2, CleanNode DEF L
    <3>4. Children(e.nodes[i]) \subseteq L2 /\ Children(e.nodes[i]) \subseteq L
      <4>1. i \in Alive(e) /\ IsLoaded(e.nodes[i])
        BY <3>2, <2>2 DEF L
      <4>2. KidsOf(e, rs, i) = Children(e.nodes[i]) /\ KidsOf(e, rs, i) \subseteq Alive(e)
        BY <4>1, SlotFacts
      <4> QED BY <4>2, <3>2 DEF L
    <3>5. node_payload(e.nodes[i], e2.disk_offset) = node_payload(e.nodes[i], e.disk_offset)
      <4>1. CASE e.nodes[i].leaf
        BY <4>1 DEF node_payload
      <4>2. CASE ~e.nodes[i].leaf
        <5> DEFINE cs == e.nodes[i].children
        <5>1. \A j \in DOMAIN cs : cs[j] \in L /\ cs[j] \in L2
          BY <4>2, <3>4 DEF Children, Range
        <5>2. \A j \in DOMAIN cs : e2.disk_offset[cs[j]] = e.disk_offset[cs[j]]
          BY <5>1, <1>2
        <5>3. [j \in DOMAIN cs |-> e2.disk_offset[cs[j]]] = [j \in DOMAIN cs |-> e.disk_offset[cs[j]]]
          BY <5>2
        <5> QED BY <4>2, <5>3 DEF node_payload
      <4> QED BY <4>1, <4>2
    <3>6. e.disk_offset[i] # NoRecord
      BY <3>3 DEF NoRecord
    <3> QED BY <3>2, <3>3, <3>5, <3>6
  <2>3. ASSUME NEW i \in Alive(e2), IsLoaded(e2.nodes[i]), ~e2.nodes[i].leaf
        PROVE  /\ IsInjective(e2.nodes[i].children)
               /\ \/ Len(e2.nodes[i].children) = Len(e2.nodes[i].pivots) + 1
                  \/ /\ e2.nodes[i].children = <<>> /\ e2.nodes[i].pivots = <<>>
                     /\ e2.nodes[i].dirty /\ i \in X2
    <3>1. CASE i \in T
      BY <3>1, <2>3, <1>2, <1>5 DEF WellFormed, L2
    <3>2. CASE i \notin T
      <4>1. i \in Alive(e) /\ e2.nodes[i] = e.nodes[i] /\ (i \in X => i \in X2)
        BY <3>2, <1>2 DEF L, L2
      <4> QED BY <4>1, <2>3, <1>1, Zenon DEF Held
    <3> QED BY <3>1, <3>2
  <2> QED BY <2>1, <2>2, <2>3, <1>2, Zenon DEF Held
<1>9. Interned(e2, rs)
  <2>1. DOMAIN e2.offsets \subseteq 1 .. Len(rs)
    BY <1>1, <1>2 DEF Interned
  <2>2. ASSUME NEW o \in DOMAIN e2.offsets
        PROVE  e2.offsets[o] \in L2 /\ e2.disk_offset[e2.offsets[o]] = o
    <3>1. o \in DOMAIN e.offsets /\ e.offsets[o] \in L2 /\ e2.offsets[o] = e.offsets[o]
      BY <1>2
    <3>2. e.offsets[o] \in L /\ e.disk_offset[e.offsets[o]] = o
      BY <3>1, <1>1 DEF Interned, L
    <3> QED BY <3>1, <3>2, <1>2
  <2>3. ASSUME NEW i \in L2, e2.disk_offset[i] # NoRecord
        PROVE  e2.disk_offset[i] \in DOMAIN e2.offsets /\ e2.offsets[e2.disk_offset[i]] = i
    <3>1. i \in L /\ e2.disk_offset[i] = e.disk_offset[i]
      BY <2>3, <1>2
    <3>2. e.disk_offset[i] \in DOMAIN e.offsets /\ e.offsets[e.disk_offset[i]] = i
      BY <3>1, <2>3, <1>1 DEF Interned, L
    <3> QED BY <3>1, <3>2, <1>2
  <2> QED BY <2>1, <2>2, <2>3, Zenon DEF Interned, L2
<1>10. ASSUME NEW i \in L2, e2.nodes[i] = OnDisk
       PROVE  /\ i \in L2 \ T /\ i \in L /\ e.nodes[i] = OnDisk
              /\ e2.disk_offset[i] = e.disk_offset[i]
              /\ Children(rs[e.disk_offset[i]]) \cap DOMAIN e2.offsets
                    = Children(rs[e.disk_offset[i]]) \cap DOMAIN e.offsets
  <2>1. i \in L2 \ T
    BY <1>5, <1>10
  <2>2. i \in L /\ e.nodes[i] = OnDisk /\ e2.disk_offset[i] = e.disk_offset[i]
        /\ KidsOf(e, rs, i) \subseteq L2
    BY <2>1, <1>2, <1>7, <1>10
  <2>3. \A c \in Children(rs[e.disk_offset[i]]) \cap DOMAIN e.offsets : e.offsets[c] \in L2
    BY <2>2 DEF KidsOf
  <2> QED BY <2>1, <2>2, <2>3, <1>2
<1>11. Half(e2, rs)
  <2> SUFFICES ASSUME NEW i \in L2, e2.nodes[i] = OnDisk
               PROVE  \/ Children(rs[e2.disk_offset[i]]) \subseteq DOMAIN e2.offsets
                      \/ Opaquely(e2, rs, i)
    BY DEF Half, L2
  <2>1. /\ i \in Alive(e) /\ e.nodes[i] = OnDisk /\ e2.disk_offset[i] = e.disk_offset[i]
        /\ Children(rs[e.disk_offset[i]]) \cap DOMAIN e2.offsets
              = Children(rs[e.disk_offset[i]]) \cap DOMAIN e.offsets
    BY <1>10 DEF L
  <2>2. \/ Children(rs[e.disk_offset[i]]) \subseteq DOMAIN e.offsets
        \/ Opaquely(e, rs, i)
    BY <2>1, <1>1 DEF Half
  <2>3. DOMAIN e2.offsets \subseteq DOMAIN e.offsets
    BY <1>2
  <2> QED BY <2>1, <2>2, <2>3 DEF Opaquely
<1>12. Rooted(e2, rs, r2, hr, rk2, par2)
  <2>1. ASSUME NEW i \in L2 PROVE KidsOf(e2, rs, i) = {x \in L2 \ {r2} : par2[x] = i}
    <3>1. CASE i \in T
      <4>1. KidsOf(e2, rs, i) = Children(e2.nodes[i])
        BY <3>1, <1>5 DEF KidsOf
      <4> QED BY <4>1, <3>1, <1>3
    <3>2. CASE i \notin T /\ e2.nodes[i] # OnDisk
      <4>1. e2.nodes[i] = e.nodes[i]
        BY <3>2, <1>2
      <4>2. KidsOf(e2, rs, i) = KidsOf(e, rs, i)
        BY <3>2, <4>1 DEF KidsOf
      <4> QED BY <4>2, <3>2, <1>3
    <3>3. CASE i \notin T /\ e2.nodes[i] = OnDisk
      <4> DEFINE C == Children(rs[e.disk_offset[i]])
      <4>1. /\ e.nodes[i] = OnDisk /\ e2.disk_offset[i] = e.disk_offset[i]
            /\ C \cap DOMAIN e2.offsets = C \cap DOMAIN e.offsets
        BY <3>3, <1>10
      <4>2. KidsOf(e2, rs, i) = {e2.offsets[c] : c \in C \cap DOMAIN e.offsets}
        BY <3>3, <4>1 DEF KidsOf
      <4>3. KidsOf(e, rs, i) = {e.offsets[c] : c \in C \cap DOMAIN e.offsets}
        BY <4>1 DEF KidsOf
      <4>4. \A c \in C \cap DOMAIN e.offsets : e2.offsets[c] = e.offsets[c]
        BY <4>1, <1>2
      <4>5. KidsOf(e2, rs, i) = KidsOf(e, rs, i)
        BY <4>2, <4>3, <4>4
      <4> QED BY <4>5, <3>3, <1>3
    <3> QED BY <3>1, <3>2, <3>3
  <2>2. ASSUME NEW i \in L2, IsLoaded(e2.nodes[i]) PROVE e2.nodes[i].leaf <=> rk2[i] = 0
    <3>1. CASE i \in T
      BY <3>1, <1>3
    <3>2. CASE i \notin T
      <4>1. i \in Alive(e) /\ e2.nodes[i] = e.nodes[i] /\ rk2[i] = rk[i]
        BY <3>2, <1>2, <1>3 DEF L
      <4>2. e.nodes[i].leaf <=> rk[i] = 0
        BY <4>1, <2>2, <1>1 DEF Rooted
      <4> QED BY <4>1, <4>2
    <3> QED BY <3>1, <3>2
  <2>3. ASSUME NEW i \in L2, e2.disk_offset[i] # NoRecord PROVE rk2[i] = hr[e2.disk_offset[i]]
    <3>1. i \in Alive(e) /\ e2.disk_offset[i] = e.disk_offset[i] /\ rk2[i] = rk[i]
      BY <2>3, <1>2, <1>3 DEF L
    <3> QED BY <3>1, <2>3, <1>1 DEF Rooted
  <2> QED BY <2>1, <2>2, <2>3, <1>3, Zenon DEF Rooted, L2
<1>13. Apart(e2, rs, r2, hr, rk2, par2, ft2)
  <2>1. ASSUME NEW x \in L2, Clean(e2, x)
        PROVE  ft2[x] = Subtree(rs, e2.disk_offset[x]) /\ Nested(rs, hr, e2.disk_offset[x])
    <3>1. x \in L2 \ T
      BY <2>1, <1>5 DEF Clean
    <3>2. /\ x \in Alive(e) /\ e2.nodes[x] = e.nodes[x] /\ e2.disk_offset[x] = e.disk_offset[x]
          /\ ft2[x] = ft[x]
      BY <3>1, <1>2, <1>4, <1>7 DEF L
    <3>3. Clean(e, x)
      BY <3>2, <2>1 DEF Clean
    <3> QED BY <3>2, <3>3, <1>1 DEF Apart
  <2> QED BY <2>1, <1>4, Zenon DEF Apart, L2
<1> QED BY <1>1, <1>8, <1>9, <1>11, <1>12, <1>13, Zenon DEF SaneBy

(* e2 is e with node C cut into pieces, C and the nodes New, that share    *)
(* its children; P is their parent, C's own or, when C was the root, new.  *)
PiecesIn(e, e2, C, New) ==
    /\ \A q \in {C} \cup New : /\ WellFormed(e2.nodes[q], q, {})
                               /\ e2.nodes[q].leaf <=> e.nodes[C].leaf
                               /\ Children(e2.nodes[q]) \subseteq Children(e.nodes[C])
    /\ \A x \in Children(e.nodes[C]) : \E q \in {C} \cup New : x \in Children(e2.nodes[q])
    /\ \A q, z \in {C} \cup New : Children(e2.nodes[q]) \cap Children(e2.nodes[z]) # {} => q = z

SlotsAdded(e, e2, T) ==
    /\ e2.nodes \in Seq(Slots) /\ e2.disk_offset \in Seq(Nat)
    /\ Len(e2.disk_offset) = Len(e2.nodes) /\ e2.offsets = e.offsets
    /\ Alive(e2) = Alive(e) \cup T
    /\ \A i \in 1 .. Len(e2.nodes) :
          e2.disk_offset[i] = IF i \in 1 .. Len(e.nodes) THEN e.disk_offset[i] ELSE NoRecord
    /\ \A i \in T \ Alive(e) : i \notin 1 .. Len(e.nodes)
    /\ \A i \in Alive(e) \ T : e2.nodes[i] = e.nodes[i]

ParentFits(e, e2, C, New, P, r, r2) ==
    /\ WellFormed(e2.nodes[P], P, {}) /\ ~e2.nodes[P].leaf
    /\ \/ /\ P \in Alive(e) /\ IsLoaded(e.nodes[P]) /\ C \in Children(e.nodes[P])
          /\ Children(e2.nodes[P]) = Children(e.nodes[P]) \cup New /\ r2 = r
       \/ /\ C = r /\ P \notin Alive(e) \cup New
          /\ Children(e2.nodes[P]) = {C} \cup New /\ r2 = P

(* Cutting a node keeps the tree.                                          *)
LEMMA Divides ==
    ASSUME NEW e, NEW rs, NEW hr, NEW r, NEW X, NEW F, NEW rk, NEW par, NEW ft,
           SaneBy(e, rs, hr, r, X, F, rk, par, ft),
           NEW e2, NEW X2, NEW C \in Alive(e), IsLoaded(e.nodes[C]), NEW New, NEW P, NEW r2,
           New \cap Alive(e) = {}, SlotsAdded(e, e2, {C, P} \cup New),
           PiecesIn(e, e2, C, New), ParentFits(e, e2, C, New, P, r, r2), X \ {C, P} \subseteq X2
    PROVE  Sane(e2, rs, hr, r2, X2, F)
<1> DEFINE L == Alive(e)
           L2 == Alive(e2)
           Q == {C} \cup New
           T == {C, P} \cup New
           K == Children(e.nodes[C])
           kids(q) == Children(e2.nodes[q])
           owner(x) == CHOOSE q \in Q : x \in kids(q)
           rk2 == [x \in L2 |-> IF x \in New THEN rk[C] ELSE IF x = P THEN rk[C] + 1 ELSE rk[x]]
           par2 == [x \in L2 |-> IF x \in Q THEN P ELSE IF x \in K THEN owner(x) ELSE par[x]]
           ft2 == [x \in L2 |-> IF x \in Q THEN UNION {ft[k] : k \in kids(x)}
                                ELSE IF x \notin L THEN ft[C] ELSE ft[x]]
           old == P \in L
<1>1. /\ r \in L /\ \A x \in L : rk[x] \in Nat /\ rk[x] <= rk[r]
      /\ \A x \in L \ {r} : par[x] \in L /\ rk[par[x]] = rk[x] + 1
      /\ \A i \in L : KidsOf(e, rs, i) = {x \in L \ {r} : par[x] = i}
      /\ \A i \in L : IsLoaded(e.nodes[i]) => (e.nodes[i].leaf <=> rk[i] = 0)
  BY DEF SaneBy, Rooted
<1>2. /\ \A x \in L : ft[x] \subseteq 1 .. Len(rs)
      /\ \A x \in L \ {r} : ft[x] \subseteq ft[par[x]]
      /\ \A x, y \in L : rk[x] = rk[y] /\ ft[x] \cap ft[y] # {} => x = y
      /\ ft[r] \subseteq F
  BY DEF SaneBy, Apart
<1>3. /\ L2 = L \cup T /\ \A i \in L \ T : e2.nodes[i] = e.nodes[i]
      /\ e2.offsets = e.offsets
  BY DEF SlotsAdded
<1>4. /\ \A q \in Q : /\ WellFormed(e2.nodes[q], q, {}) /\ kids(q) \subseteq K
                      /\ e2.nodes[q].leaf <=> e.nodes[C].leaf
      /\ \A x \in K : \E q \in Q : x \in kids(q)
      /\ \A x, q, z : q \in Q /\ z \in Q /\ x \in kids(q) /\ x \in kids(z) => q = z
  BY DEF PiecesIn
<1>5. /\ K = {x \in L \ {r} : par[x] = C}
      /\ C \in L /\ New \cap L = {}
  BY <1>1, SlotFacts
<1>6. /\ old => /\ Children(e.nodes[P]) = {x \in L \ {r} : par[x] = P}
                /\ C \in Children(e.nodes[P])
                /\ kids(P) = Children(e.nodes[P]) \cup New /\ r2 = r
      /\ ~old => C = r /\ P \notin New /\ kids(P) = Q /\ r2 = P
      /\ WellFormed(e2.nodes[P], P, {}) /\ ~e2.nodes[P].leaf
  <2>1. ASSUME old, IsLoaded(e.nodes[P]) PROVE Children(e.nodes[P]) = {x \in L \ {r} : par[x] = P}
    BY <1>1, <2>1, SlotFacts
  <2> QED BY <2>1 DEF ParentFits
<1> HIDE DEF L, L2, K, kids
<1>7. old => par[C] = P /\ rk[P] = rk[C] + 1 /\ C # r
  BY <1>1, <1>5, <1>6
<1>8. P \notin Q /\ rk[C] \in Nat /\ P \notin K
  <2>1. CASE old
    BY <2>1, <1>1, <1>5, <1>7
  <2>2. CASE ~old
    BY <2>2, <1>1, <1>5, <1>6
  <2> QED BY <2>1, <2>2
<1>9. \A x \in K : x \in L /\ x # r /\ par[x] = C /\ x \notin Q /\ rk[C] = rk[x] + 1 /\ rk[x] \in Nat
  BY <1>1, <1>5
<1>10. \A x \in K : owner(x) \in Q /\ x \in kids(owner(x))
  BY <1>4
<1>11. \A x \in K, q \in Q : x \in kids(q) => owner(x) = q
  BY <1>4, <1>10
<1> HIDE DEF owner
<1>12. /\ \A x \in L2 : x \in Q => par2[x] = P
       /\ \A x \in L2 : x \in K => par2[x] = owner(x)
       /\ \A x \in L2 : x \notin Q /\ x \notin K => par2[x] = par[x]
  BY <1>9
<1>13. /\ \A x \in L2 : x \in Q => rk2[x] = rk[C]
       /\ \A x \in L2 : x = P => rk2[x] = rk[C] + 1
       /\ \A x \in L : rk2[x] = rk[x]
       /\ \A x \in L2 : x \notin Q /\ x # P => x \in L
  BY <1>3, <1>5, <1>7, <1>8
<1>14. /\ \A x \in L2 : x \in Q => ft2[x] = UNION {ft[k] : k \in kids(x)}
       /\ \A x \in L2 : x \notin Q /\ x \in L => ft2[x] = ft[x]
       /\ \A x \in L2 : x \notin L /\ x \notin Q => x = P /\ ft2[x] = ft[C]
  BY <1>3
<1>15. Q \subseteq L2 /\ P \in L2 /\ L \subseteq L2 /\ r2 \in L2
  BY <1>3, <1>1, <1>6
<1> HIDE DEF rk2, par2, ft2
<1>16. \A q \in Q : ft2[q] \subseteq ft[C]
  <2>1. \A k \in K : ft[k] \subseteq ft[C]
    BY <1>2, <1>9
  <2> QED BY <2>1, <1>4, <1>14, <1>15
<1>17. SlotsKept(e, rs, e2, X, X2, T)
  <2>1. \A i \in 1 .. Len(e2.nodes) : e2.disk_offset[i] \in 0 .. Len(rs)
    <3>1. \A i \in 1 .. Len(e.nodes) : e.disk_offset[i] \in 0 .. Len(rs)
      BY DEF SaneBy, Held
    <3>2. 0 \in 0 .. Len(rs)
      BY RecordsBelow DEF SaneBy
    <3> QED BY <3>1, <3>2 DEF SlotsAdded, NoRecord
  <2>2. \A i \in Alive(e2) : e2.disk_offset[i] = IF i \in Alive(e) THEN e.disk_offset[i] ELSE NoRecord
    <3>1. L \subseteq 1 .. Len(e.nodes) /\ L2 \subseteq 1 .. Len(e2.nodes)
      BY DEF Alive, L, L2
    <3>2. \A i \in L2 \ L : i \notin 1 .. Len(e.nodes)
      BY <1>3 DEF SlotsAdded, L
    <3> QED BY <3>1, <3>2 DEF SlotsAdded, L, L2
  <2>3. DOMAIN e2.offsets = {o \in DOMAIN e.offsets : e.offsets[o] \in Alive(e2)}
    <3>1. \A o \in DOMAIN e.offsets : e.offsets[o] \in L
      BY DEF SaneBy, Interned, L
    <3> QED BY <3>1, <1>3, <1>15 DEF L2
  <2>4. \A i \in L : KidsOf(e, rs, i) \subseteq L
    BY <1>1
  <2>5. \A i \in Alive(e2) \ T : /\ i \in Alive(e) /\ e2.nodes[i] = e.nodes[i]
                                 /\ KidsOf(e, rs, i) \subseteq Alive(e2)
                                 /\ i \in X => i \in X2
    BY <2>4, <1>3, <1>15 DEF L, L2
  <2>6. \A i \in T : WellFormed(e2.nodes[i], i, X2)
    <3>1. \A i : WellFormed(e2.nodes[i], i, {}) => WellFormed(e2.nodes[i], i, X2)
      BY DEF WellFormed
    <3> QED BY <3>1, <1>4, <1>6
  <2> QED BY <2>1, <2>2, <2>3, <2>5, <2>6, <1>3, Zenon DEF SlotsKept, SlotsAdded
<1>18. LinksFit(e, rs, r, rk, par, e2, T, r2, rk2, par2)
  <2>1. \A x \in L2 : rk2[x] \in Nat /\ rk2[x] <= rk2[r2]
    <3>1. CASE old
      <4>1. r2 = r /\ rk2[r2] = rk[r] /\ rk[C] <= rk[r] /\ rk[C] + 1 <= rk[r]
        BY <3>1, <1>1, <1>6, <1>7, <1>13, <1>5
      <4> QED BY <4>1, <1>13, <1>1, <1>8
    <3>2. CASE ~old
      <4>1. r2 = P /\ rk2[r2] = rk[r] + 1 /\ rk[C] = rk[r]
        BY <3>2, <1>6, <1>13, <1>15
      <4> QED BY <4>1, <1>13, <1>1, <1>8
    <3> QED BY <3>1, <3>2
  <2>2. ASSUME NEW x \in L2, x # r2 PROVE par2[x] \in L2 /\ rk2[par2[x]] = rk2[x] + 1
    <3>1. CASE x \in Q
      BY <3>1, <1>12, <1>13, <1>15
    <3>2. CASE x \in K
      <4>1. par2[x] = owner(x) /\ owner(x) \in Q
        BY <3>2, <1>10, <1>12
      <4>2. rk2[x] = rk[x] /\ rk2[owner(x)] = rk[C]
        BY <4>1, <3>2, <1>9, <1>13, <1>15
      <4> QED BY <4>1, <4>2, <3>2, <1>9, <1>15
    <3>3. CASE x \notin Q /\ x \notin K
      <4>1. par2[x] = par[x]
        BY <3>3, <1>12
      <4>2. x \in L /\ x # r
        BY <3>3, <2>2, <1>5, <1>6, <1>13
      <4>3. par[x] \in L /\ rk[par[x]] = rk[x] + 1
        BY <4>2, <1>1
      <4> QED BY <4>1, <4>2, <4>3, <1>13, <1>15
    <3> QED BY <3>1, <3>2, <3>3
  <2>3. ASSUME NEW i \in L2 \ T PROVE KidsOf(e, rs, i) = {x \in L2 \ {r2} : par2[x] = i}
    <3>1. i \in L /\ i # C /\ i # P /\ i \notin Q
      BY <1>3
    <3>2. KidsOf(e, rs, i) = {x \in L \ {r} : par[x] = i}
      BY <3>1, <1>1
    <3>3. ASSUME NEW x \in L \ {r}, par[x] = i PROVE x \in L2 \ {r2} /\ par2[x] = i
      <4>1. x \notin Q /\ x \notin K /\ x # r2
        <5>1. x # C
          BY <3>1, <3>3, <1>6, <1>7
        <5>2. x # r2
          BY <3>3, <1>6
        <5> QED BY <5>1, <5>2, <3>1, <3>3, <1>5, <1>9
      <4> QED BY <4>1, <3>3, <1>12, <1>15
    <3>4. ASSUME NEW x \in L2 \ {r2}, par2[x] = i PROVE x \in L \ {r} /\ par[x] = i
      <4>1. x \notin Q /\ x \notin K
        BY <3>1, <3>4, <1>10, <1>12
      <4> QED BY <4>1, <3>4, <1>5, <1>6, <1>12, <1>13
    <3> QED BY <3>2, <3>3, <3>4
  <2>4. ASSUME NEW q \in Q PROVE kids(q) = {x \in L2 \ {r2} : par2[x] = q}
    <3>1. ASSUME NEW x \in kids(q) PROVE x \in L2 \ {r2} /\ par2[x] = q
      <4>1. x \in K /\ owner(x) = q
        BY <1>4, <1>11
      <4>2. x \in L /\ x # r /\ x # P
        BY <4>1, <1>8, <1>9
      <4> QED BY <4>1, <4>2, <1>6, <1>12, <1>15
    <3>2. ASSUME NEW x \in L2 \ {r2}, par2[x] = q PROVE x \in kids(q)
      <4>1. x \notin Q
        BY <3>2, <1>8, <1>12
      <4>2. CASE x \in K
        BY <4>2, <3>2, <1>10, <1>12
      <4>3. CASE x \notin K
        <5>1. par[x] = q /\ x \in L /\ x # r
          BY <4>1, <4>3, <3>2, <1>5, <1>6, <1>12, <1>13
        <5> QED BY <5>1, <4>3, <1>1, <1>5
      <4> QED BY <4>2, <4>3
    <3> QED BY <3>1, <3>2
  <2>5. kids(P) = {x \in L2 \ {r2} : par2[x] = P}
    <3>1. CASE old
      <4>1. ASSUME NEW x \in kids(P) PROVE x \in L2 \ {r2} /\ par2[x] = P
        <5>1. CASE x \in New
          BY <5>1, <3>1, <1>1, <1>5, <1>6, <1>12, <1>15
        <5>2. CASE x \notin New
          <6>1. x \in L \ {r} /\ par[x] = P
            BY <5>2, <4>1, <3>1, <1>6
          <6>2. x \notin K
            BY <6>1, <1>8, <1>9
          <6> QED BY <6>1, <6>2, <3>1, <1>6, <1>12, <1>15
        <5> QED BY <5>1, <5>2
      <4>2. ASSUME NEW x \in L2 \ {r2}, par2[x] = P PROVE x \in kids(P)
        <5>1. CASE x \in Q
          BY <5>1, <3>1, <1>6
        <5>2. CASE x \notin Q
          <6>1. x \notin K
            BY <4>2, <1>8, <1>10, <1>12
          <6>2. x \in L
            BY <5>2, <3>1, <1>13
          <6>3. x \in L \ {r} /\ par[x] = P
            BY <6>1, <6>2, <5>2, <4>2, <3>1, <1>6, <1>12
          <6> QED BY <6>3, <3>1, <1>6
        <5> QED BY <5>1, <5>2
      <4> QED BY <4>1, <4>2
    <3>2. CASE ~old
      <4>1. r2 = P /\ kids(P) = Q
        BY <3>2, <1>6
      <4>2. ASSUME NEW x \in L2 \ {r2}, par2[x] = P PROVE x \in Q
        <5> SUFFICES ASSUME x \notin Q PROVE FALSE
          OBVIOUS
        <5>1. x \notin K
          BY <4>2, <1>8, <1>10, <1>12
        <5>2. x \in L \ {r} /\ par[x] = P
          BY <5>1, <4>1, <4>2, <3>2, <1>6, <1>12, <1>13
        <5> QED BY <5>2, <3>2, <1>1
      <4> QED BY <4>1, <4>2, <1>8, <1>12, <1>15
    <3> QED BY <3>1, <3>2
  <2>6. ASSUME NEW i \in T PROVE /\ kids(i) = {x \in L2 \ {r2} : par2[x] = i}
                                 /\ e2.nodes[i].leaf <=> rk2[i] = 0
    <3>1. CASE i = P
      BY <3>1, <2>5, <1>6, <1>8, <1>13, <1>15
    <3>2. CASE i \in Q
      <4>1. e.nodes[C].leaf <=> rk[C] = 0
        BY <1>1, <1>5
      <4> QED BY <3>2, <4>1, <2>4, <1>4, <1>13, <1>15
    <3> QED BY <3>1, <3>2
  <2>7. \A x \in L2 : x \in L => rk2[x] = rk[x]
    BY <1>13
  <2> QED BY <2>1, <2>2, <2>3, <2>6, <2>7, <1>15, Zenon DEF LinksFit, L, L2, kids
<1>19. RecordsFit(rs, e2, T, ft, r2, rk2, par2, ft2)
  <2>0. ft[C] \subseteq 1 .. Len(rs)
    BY <1>2, <1>5
  <2>1. \A x \in L2 : ft2[x] \subseteq 1 .. Len(rs)
    BY <2>0, <1>2, <1>14, <1>16
  <2>2. \A x \in L2 \ T : ft2[x] = ft[x]
    BY <1>3, <1>14
  <2>3. ASSUME NEW x \in L2 \ {r2} PROVE ft2[x] \subseteq ft2[par2[x]]
    <3>1. CASE x \in Q
      <4>1. ft[C] \subseteq ft2[P]
        <5>1. CASE old
          BY <5>1, <1>2, <1>5, <1>7, <1>8, <1>14, <1>15
        <5>2. CASE ~old
          BY <5>2, <1>8, <1>14, <1>15
        <5> QED BY <5>1, <5>2
      <4> QED BY <4>1, <3>1, <1>12, <1>16
    <3>2. CASE x \in K
      <4>1. par2[x] = owner(x) /\ owner(x) \in Q /\ x \in kids(owner(x)) /\ ft2[x] = ft[x]
        BY <3>2, <1>9, <1>10, <1>12, <1>14
      <4>2. ft2[owner(x)] = UNION {ft[k] : k \in kids(owner(x))}
        BY <4>1, <1>14, <1>15
      <4> QED BY <4>1, <4>2
    <3>3. CASE x \notin Q /\ x \notin K
      <4>1. x \in L \ {r} /\ par2[x] = par[x]
        BY <3>3, <2>3, <1>5, <1>6, <1>12, <1>13
      <4>2. par[x] \in L /\ ft[x] \subseteq ft[par[x]] /\ ft2[x] = ft[x]
        BY <4>1, <3>3, <1>1, <1>2, <1>14
      <4>3. par[x] \notin Q
        BY <4>1, <4>2, <3>3, <1>5
      <4> QED BY <4>1, <4>2, <4>3, <1>14, <1>15
    <3> QED BY <3>1, <3>2, <3>3
  <2>4. ASSUME NEW x \in L2, NEW y \in L2, rk2[x] = rk2[y], ft2[x] \cap ft2[y] # {} PROVE x = y
    <3>1. CASE x \in Q /\ y \in Q
      <4>1. PICK o : o \in ft2[x] /\ o \in ft2[y]
        BY <2>4
      <4>2. PICK k \in kids(x) : o \in ft[k]
        BY <4>1, <3>1, <1>14
      <4>3. PICK m \in kids(y) : o \in ft[m]
        BY <4>1, <3>1, <1>14
      <4>4. k \in K /\ m \in K
        BY <3>1, <1>4
      <4>5. rk[k] = rk[m] /\ k \in L /\ m \in L
        BY <4>4, <1>9
      <4>6. k = m
        BY <4>2, <4>3, <4>5, <1>2
      <4> QED BY <4>6, <3>1, <1>4
    <3>2. ASSUME NEW a \in L2, NEW b \in L2, a \in Q, b \notin Q, rk2[a] = rk2[b],
                 ft2[a] \cap ft2[b] # {}
          PROVE  FALSE
      <4>1. b # P
        BY <3>2, <1>8, <1>13
      <4>2. b \in L /\ ft2[b] = ft[b] /\ rk2[b] = rk[b] /\ rk[b] = rk[C]
        BY <4>1, <3>2, <1>13, <1>14
      <4>3. ft[C] \cap ft[b] # {}
        BY <4>2, <3>2, <1>16
      <4> QED BY <4>2, <4>3, <3>2, <1>2, <1>5
    <3>3. CASE x \notin Q /\ y \notin Q
      <4>1. CASE old
        <5>1. x \in L /\ y \in L
          BY <4>1, <3>3, <1>13
        <5> QED BY <5>1, <3>3, <2>4, <1>2, <1>13, <1>14
      <4>2. CASE ~old
        <5>1. \A z \in L : rk[z] < rk[C] + 1
          BY <4>2, <1>1, <1>6
        <5>2. CASE x = P
          BY <5>1, <5>2, <3>3, <2>4, <1>1, <1>8, <1>13, SMTT(20)
        <5>3. CASE y = P
          BY <5>1, <5>3, <3>3, <2>4, <1>1, <1>8, <1>13, SMTT(20)
        <5>4. CASE x # P /\ y # P
          BY <5>4, <3>3, <2>4, <1>2, <1>13, <1>14
        <5> QED BY <5>2, <5>3, <5>4
      <4> QED BY <4>1, <4>2
    <3> QED BY <3>1, <3>2, <3>3, <2>4
  <2> QED BY <2>1, <2>2, <2>3, <2>4, Zenon DEF RecordsFit, L2
<1>20. ft2[r2] \subseteq F
  <2>1. CASE old
    <3>1. r2 = r /\ r \in L /\ r \notin Q
      BY <2>1, <1>1, <1>5, <1>6, <1>7
    <3> QED BY <3>1, <1>2, <1>14, <1>15
  <2>2. CASE ~old
    BY <2>2, <1>2, <1>6, <1>8, <1>14, <1>15
  <2> QED BY <2>1, <2>2
<1>21. SaneBy(e2, rs, hr, r2, X2, F, rk2, par2, ft2)
  <2> HIDE DEF T
  <2> QED BY <1>17, <1>18, <1>19, <1>20, Regrafts
<1> QED BY <1>21, Zenon DEF Sane

(* e2 is e without node C, and with the nodes T new or changed.            *)
SlotsFreed(e, e2, C, T) ==
    /\ e2.nodes \in Seq(Slots) /\ e2.disk_offset \in Seq(Nat)
    /\ Len(e2.disk_offset) = Len(e2.nodes)
    /\ e2.offsets = Without(e.offsets, {e.disk_offset[C]})
    /\ Alive(e2) = (Alive(e) \cup T) \ {C}
    /\ \A i \in 1 .. Len(e2.nodes) :
          e2.disk_offset[i] = IF i \in 1 .. Len(e.nodes) /\ i # C THEN e.disk_offset[i]
                              ELSE NoRecord
    /\ \A i \in T \ Alive(e) : i \notin 1 .. Len(e.nodes)
    /\ \A i \in Alive(e) \ (T \cup {C}) : e2.nodes[i] = e.nodes[i]

(* release_slot keeps the other slots when nothing leads to the one freed. *)
LEMMA Frees ==
    ASSUME NEW e, NEW rs, NEW hr, NEW r, NEW X, NEW F, NEW rk, NEW par, NEW ft,
           SaneBy(e, rs, hr, r, X, F, rk, par, ft),
           NEW e2, NEW X2, NEW C \in Alive(e), NEW T, SlotsFreed(e, e2, C, T),
           \A i \in Alive(e) \ (T \cup {C}) : C \notin KidsOf(e, rs, i),
           \A i \in T : i # C => WellFormed(e2.nodes[i], i, X2), X \ (T \cup {C}) \subseteq X2
    PROVE  SlotsKept(e, rs, e2, X, X2, T)
<1> DEFINE L == Alive(e)
           L2 == Alive(e2)
<1>1. /\ e2.nodes \in Seq(Slots) /\ e2.disk_offset \in Seq(Nat)
      /\ Len(e2.disk_offset) = Len(e2.nodes)
      /\ e2.offsets = Without(e.offsets, {e.disk_offset[C]})
      /\ L2 = (L \cup T) \ {C}
      /\ \A i \in 1 .. Len(e2.nodes) :
            e2.disk_offset[i] = IF i \in 1 .. Len(e.nodes) /\ i # C THEN e.disk_offset[i]
                                ELSE NoRecord
      /\ \A i \in T \ L : i \notin 1 .. Len(e.nodes)
      /\ \A i \in L \ (T \cup {C}) : e2.nodes[i] = e.nodes[i]
  BY Zenon DEF SlotsFreed
<1>2. /\ DOMAIN e.offsets \subseteq 1 .. Len(rs)
      /\ \A o \in DOMAIN e.offsets : e.offsets[o] \in L /\ e.disk_offset[e.offsets[o]] = o
      /\ \A i \in L : e.disk_offset[i] # NoRecord =>
            e.disk_offset[i] \in DOMAIN e.offsets /\ e.offsets[e.disk_offset[i]] = i
  BY DEF SaneBy, Interned
<1>3. L \subseteq 1 .. Len(e.nodes) /\ L2 \subseteq 1 .. Len(e2.nodes)
  BY DEF Alive
<1>4. /\ Len(rs) \in Nat /\ \A i \in 1 .. Len(e.nodes) : e.disk_offset[i] \in 0 .. Len(rs)
      /\ \A i \in L : KidsOf(e, rs, i) \subseteq L
  <2>1. Len(rs) \in Nat
    BY RecordsBelow DEF SaneBy
  <2>2. \A i \in 1 .. Len(e.nodes) : e.disk_offset[i] \in 0 .. Len(rs)
    BY DEF SaneBy, Held
  <2> QED BY <2>1, <2>2, SlotFacts
<1>5. /\ DOMAIN e2.offsets = DOMAIN e.offsets \ {e.disk_offset[C]}
      /\ \A o \in DOMAIN e2.offsets : e2.offsets[o] = e.offsets[o]
  BY <1>1 DEF Without, Restrict
<1>6. \A o \in DOMAIN e.offsets : o = e.disk_offset[C] <=> e.offsets[o] = C
  <2>1. 0 \notin DOMAIN e.offsets
    BY <1>2
  <2>2. C \in L
    OBVIOUS
  <2> QED BY <2>1, <2>2, <1>2 DEF NoRecord
<1> HIDE DEF L, L2
<1>7. DOMAIN e2.offsets = {o \in DOMAIN e.offsets : e.offsets[o] \in L2}
  BY <1>1, <1>2, <1>5, <1>6
<1>8. \A i \in 1 .. Len(e2.nodes) : e2.disk_offset[i] \in 0 .. Len(rs)
  BY <1>1, <1>4, SMT DEF NoRecord
<1>9. \A i \in L2 : e2.disk_offset[i] = IF i \in L THEN e.disk_offset[i] ELSE NoRecord
  BY <1>1, <1>3
<1>10. \A i \in L2 \ T : /\ i \in L /\ e2.nodes[i] = e.nodes[i]
                         /\ KidsOf(e, rs, i) \subseteq L2 /\ (i \in X => i \in X2)
  BY <1>1, <1>4 DEF L
<1>11. \A i \in L2 \cap T : WellFormed(e2.nodes[i], i, X2)
  BY <1>1
<1> QED BY <1>1, <1>5, <1>7, <1>8, <1>9, <1>10, <1>11, Zenon DEF SlotsKept, L, L2

(* A node without children is unlinked from its parent.                    *)
LEMMA Unlinks ==
    ASSUME NEW e, NEW rs, NEW hr, NEW r, NEW X, NEW F, NEW rk, NEW par, NEW ft,
           SaneBy(e, rs, hr, r, X, F, rk, par, ft),
           NEW e2, NEW X2, NEW P \in Alive(e), IsLoaded(e.nodes[P]),
           NEW C \in Children(e.nodes[P]), KidsOf(e, rs, C) = {}, SlotsFreed(e, e2, C, {P}),
           WellFormed(e2.nodes[P], P, X2), ~e2.nodes[P].leaf,
           Children(e2.nodes[P]) = Children(e.nodes[P]) \ {C}, X \ {C, P} \subseteq X2
    PROVE  Sane(e2, rs, hr, r, X2, F)
<1> DEFINE L == Alive(e)
           L2 == Alive(e2)
<1>1. /\ r \in L /\ \A x \in L : rk[x] \in Nat /\ rk[x] <= rk[r]
      /\ \A x \in L \ {r} : par[x] \in L /\ rk[par[x]] = rk[x] + 1
      /\ \A i \in L : KidsOf(e, rs, i) = {x \in L \ {r} : par[x] = i}
      /\ \A i \in L : IsLoaded(e.nodes[i]) => (e.nodes[i].leaf <=> rk[i] = 0)
  BY DEF SaneBy, Rooted
<1>2. /\ \A x \in L : ft[x] \subseteq 1 .. Len(rs)
      /\ \A x \in L \ {r} : ft[x] \subseteq ft[par[x]]
      /\ \A x, y \in L : rk[x] = rk[y] /\ ft[x] \cap ft[y] # {} => x = y
      /\ ft[r] \subseteq F
  BY DEF SaneBy, Apart
<1>3. Children(e.nodes[P]) = {x \in L \ {r} : par[x] = P} /\ P \in L
  BY <1>1, SlotFacts
<1> HIDE DEF L
<1>4. C \in L /\ C # r /\ par[C] = P /\ rk[P] = rk[C] + 1 /\ C # P /\ rk[C] \in Nat
  BY <1>1, <1>3
<1>5. L2 = L \ {C}
  BY <1>3 DEF SlotsFreed, L
<1> HIDE DEF L2
<1>6. SlotsKept(e, rs, e2, X, X2, {P})
  <2>1. \A i \in Alive(e) \ ({P} \cup {C}) : C \notin KidsOf(e, rs, i)
    BY <1>1, <1>4 DEF L
  <2>2. C \in Alive(e) /\ X \ ({P} \cup {C}) \subseteq X2
    BY <1>4 DEF L
  <2>3. \A i \in {P} : i # C => WellFormed(e2.nodes[i], i, X2)
    OBVIOUS
  <2> QED BY <2>1, <2>2, <2>3, Frees
<1>7. \A x \in L : x # r => par[x] # C
  BY <1>1, <1>4
<1>8. \A x \in L2 \ {r} : par[x] \in L2 /\ rk[par[x]] = rk[x] + 1
  BY <1>1, <1>5, <1>7
<1>9. \A i \in L2 \ {P} : KidsOf(e, rs, i) = {x \in L2 \ {r} : par[x] = i}
  BY <1>1, <1>4, <1>5
<1>10. Children(e2.nodes[P]) = {x \in L2 \ {r} : par[x] = P}
  BY <1>3, <1>5
<1>11. LinksFit(e, rs, r, rk, par, e2, {P}, r, rk, par)
  <2>1. \A i \in L2 \cap {P} : /\ Children(e2.nodes[i]) = {x \in L2 \ {r} : par[x] = i}
                               /\ e2.nodes[i].leaf <=> rk[i] = 0
    BY <1>4, <1>10
  <2>2. r \in L2 /\ \A x \in L2 : rk[x] \in Nat /\ rk[x] <= rk[r]
    BY <1>1, <1>4, <1>5
  <2> QED BY <2>1, <2>2, <1>8, <1>9, Zenon DEF LinksFit, L2
<1>12. RecordsFit(rs, e2, {P}, ft, r, rk, par, ft)
  <2>1. \A x \in L2 : x \in L
    BY <1>5
  <2> QED BY <2>1, <1>2, Zenon DEF RecordsFit, L2
<1>13. SaneBy(e2, rs, hr, r, X2, F, rk, par, ft)
  BY <1>2, <1>6, <1>11, <1>12, Regrafts
<1> QED BY <1>13, Zenon DEF Sane

(* The root gives way to its only child.                                   *)
LEMMA Sheds ==
    ASSUME NEW e, NEW rs, NEW hr, NEW r, NEW X, NEW F, NEW rk, NEW par, NEW ft,
           SaneBy(e, rs, hr, r, X, F, rk, par, ft),
           NEW e2, NEW X2, NEW c, KidsOf(e, rs, r) = {c}, SlotsFreed(e, e2, r, {}),
           X \ {r} \subseteq X2
    PROVE  Sane(e2, rs, hr, c, X2, F)
<1> DEFINE L == Alive(e)
           L2 == Alive(e2)
<1>1. /\ r \in L /\ \A x \in L : rk[x] \in Nat /\ rk[x] <= rk[r]
      /\ \A x \in L \ {r} : par[x] \in L /\ rk[par[x]] = rk[x] + 1
      /\ \A i \in L : KidsOf(e, rs, i) = {x \in L \ {r} : par[x] = i}
  BY DEF SaneBy, Rooted
<1>2. /\ \A x \in L : ft[x] \subseteq 1 .. Len(rs)
      /\ \A x \in L \ {r} : ft[x] \subseteq ft[par[x]]
      /\ \A x, y \in L : rk[x] = rk[y] /\ ft[x] \cap ft[y] # {} => x = y
      /\ ft[r] \subseteq F
  BY DEF SaneBy, Apart
<1>3. L2 = L \ {r}
  BY DEF SlotsFreed
<1> HIDE DEF L, L2
<1>4. c \in L /\ c # r /\ par[c] = r /\ \A x \in L \ {r} : par[x] = r => x = c
  BY <1>1
<1>5. SlotsKept(e, rs, e2, X, X2, {})
  <2>1. \A i \in Alive(e) \ ({} \cup {r}) : r \notin KidsOf(e, rs, i)
    BY <1>1 DEF L
  <2>2. r \in Alive(e) /\ X \ ({} \cup {r}) \subseteq X2
    BY <1>1 DEF L
  <2> QED BY <2>1, <2>2, Frees
<1>6. \A x \in L2 : rk[x] \in Nat /\ rk[x] <= rk[c]
  <2>1. ASSUME NEW x \in L2 PROVE rk[x] <= rk[c]
    <3>1. rk[par[x]] = rk[x] + 1 /\ par[x] \in L /\ rk[par[x]] <= rk[r]
      BY <1>1, <1>3
    <3>2. rk[r] = rk[c] + 1
      BY <1>1, <1>4
    <3> QED BY <3>1, <3>2, <1>1, <1>3, <1>4
  <2> QED BY <2>1, <1>1, <1>3
<1>7. \A x \in L2 \ {c} : par[x] \in L2 /\ rk[par[x]] = rk[x] + 1
  BY <1>1, <1>3, <1>4
<1>8. \A i \in L2 : KidsOf(e, rs, i) = {x \in L2 \ {c} : par[x] = i}
  BY <1>1, <1>3, <1>4
<1>9. LinksFit(e, rs, r, rk, par, e2, {}, c, rk, par)
  <2>1. c \in L2
    BY <1>3, <1>4
  <2> QED BY <2>1, <1>6, <1>7, <1>8, Zenon DEF LinksFit, L2
<1>10. RecordsFit(rs, e2, {}, ft, c, rk, par, ft)
  <2>1. \A x \in L2 : x \in L /\ x # r
    BY <1>3
  <2> QED BY <2>1, <1>2, Zenon DEF RecordsFit, L2
<1>11. ft[c] \subseteq F
  <2>1. ft[c] \subseteq ft[par[c]]
    BY <1>2, <1>4
  <2> QED BY <2>1, <1>2, <1>4
<1>12. SaneBy(e2, rs, hr, c, X2, F, rk, par, ft)
  BY <1>5, <1>9, <1>10, <1>11, Regrafts
<1> QED BY <1>12, Zenon DEF Sane

(* A root that has lost its children gives way to an empty leaf.           *)
LEMMA Restarts ==
    ASSUME NEW e, NEW rs, NEW hr, NEW r, NEW X, NEW F, NEW rk, NEW par, NEW ft,
           SaneBy(e, rs, hr, r, X, F, rk, par, ft), KidsOf(e, rs, r) = {},
           NEW e2, NEW r2, r2 \notin Alive(e), SlotsFreed(e, e2, r, {r2}),
           WellFormed(e2.nodes[r2], r2, {}), e2.nodes[r2].leaf
    PROVE  Sane(e2, rs, hr, r2, {}, F)
<1>1. Alive(e) = {r}
  BY Alone
<1>2. Alive(e2) = {r2}
  BY <1>1 DEF SlotsFreed
<1> DEFINE rk2 == [x \in {r2} |-> 0]
           ft2 == [x \in {r2} |-> {}]
<1>3. rk2[r2] = 0 /\ ft2[r2] = {}
  OBVIOUS
<1> HIDE DEF rk2, ft2
<1>4. SlotsKept(e, rs, e2, X, {}, {r2})
  <2>0. \A i \in Alive(e) \ ({r2} \cup {r}) : r \notin KidsOf(e, rs, i)
    BY <1>1
  <2>1. SlotsKept(e, rs, e2, X \cap {r}, {}, {r2})
    <3>1. SaneBy(e, rs, hr, r, X \cap {r}, F, rk, par, ft)
      <4>1. Held(e, rs, X \cap {r})
        BY <1>1, Zenon DEF SaneBy, Held
      <4> QED BY <4>1, Zenon DEF SaneBy
    <3>2. r \in Alive(e) /\ (X \cap {r}) \ ({r2} \cup {r}) \subseteq {}
      BY <1>1
    <3>3. \A i \in {r2} : i # r => WellFormed(e2.nodes[i], i, {})
      OBVIOUS
    <3> QED BY <2>0, <3>1, <3>2, <3>3, Frees
  <2>2. \A i \in Alive(e2) \ {r2} : i \in X => i \in {}
    BY <1>2
  <2> QED BY <2>1, <2>2, Zenon DEF SlotsKept
<1>5. LinksFit(e, rs, r, rk, par, e2, {r2}, r2, rk2, par)
  <2>1. Children(e2.nodes[r2]) = {}
    BY DEF Children
  <2> QED BY <1>1, <1>2, <1>3, <2>1 DEF LinksFit
<1>6. RecordsFit(rs, e2, {r2}, ft, r2, rk2, par, ft2)
  BY <1>2, <1>3 DEF RecordsFit
<1>7. SaneBy(e2, rs, hr, r2, {}, F, rk2, par, ft2)
  BY <1>3, <1>4, <1>5, <1>6, Regrafts
<1> QED BY <1>7, Zenon DEF Sane

-----------------------------------------------------------------------------
(* The operations of module Nodes, without regard to the keys              *)

(* split_if_needed, when it splits.                                        *)
SplitsInto(ns, id, s, seps) ==
    CutsUp(ns[id], s, seps) /\ split_if_needed(ns, id) = Split(ns, id, s, seps)

LEMMA SplitsUp ==
    ASSUME NEW ns, NEW id, ns[id] \in AnyNode, Branches(ns[id]), Overfull(ns[id])
    PROVE  \E s, seps : SplitsInto(ns, id, s, seps)
<1> DEFINE n == ns[id]
<1>1. CASE n.leaf
  <2> DEFINE sizes == partition_sizes(Count(n.entries), LeafCapacity)
  <2>1. n \in LeafNode /\ Count(n.entries) > LeafCapacity
    BY <1>1, SlotKinds DEF Overfull
  <2>2. CutsUp(n, LeafPieces(n.entries, sizes), LeafSeparators(n.entries, sizes))
    BY <2>1, LeafCutsUp
  <2>3. split_if_needed(ns, id) =
          Split(ns, id, LeafPieces(n.entries, sizes), LeafSeparators(n.entries, sizes))
    BY <1>1 DEF split_if_needed, split_leaf, LeafPieces, LeafSeparators
  <2> QED BY <2>2, <2>3, Zenon DEF SplitsInto
<1>2. CASE ~n.leaf
  <2> DEFINE sizes == partition_sizes(Len(n.children), Fanout)
  <2>1. n \in InnerNode /\ Len(n.children) > Fanout
    BY <1>2, SlotKinds DEF Overfull
  <2>2. CutsUp(n, InnerPieces(n, sizes), InnerSeparators(n, sizes))
    BY <2>1, InnerCutsUp
  <2>3. split_if_needed(ns, id) = Split(ns, id, InnerPieces(n, sizes), InnerSeparators(n, sizes))
    BY <1>2, Zenon DEF split_if_needed, split_internal, InnerPieces, InnerSeparators, InnerPart
  <2> QED BY <2>2, <2>3, Zenon DEF SplitsInto
<1> QED BY <1>1, <1>2

(* What a split makes of the arena.                                        *)
SplitArena(ns, id, s, N, ns2) ==
    /\ ns2 \in Seq(Slots) /\ Len(ns2) = N + (Len(s) - 1)
    /\ \A i \in 1 .. N : ns2[i] = IF i = id THEN s[1] ELSE ns[i]
    /\ \A k \in 2 .. Len(s) : ns2[N + (k - 1)] = s[k]

LEMMA SplitSlots ==
    ASSUME NEW ns \in Seq(Slots), NEW id \in 1 .. Len(ns), NEW s \in Seq(AnyNode), Len(s) >= 2,
           NEW seps \in Seq(Nat), Len(seps) = Len(s) - 1
    PROVE  /\ SplitArena(ns, id, s, Len(ns), Split(ns, id, s, seps).nodes)
           /\ Len(Split(ns, id, s, seps).promoted) = Len(s) - 1
           /\ \A j \in 1 .. (Len(s) - 1) :
                 Split(ns, id, s, seps).promoted[j] = <<seps[j], Len(ns) + j>>
<1> DEFINE N == Len(ns)
           M == Len(s)
           a == [ns EXCEPT ![id] = Head(s)]
           b == Tail(s)
           ns2 == Split(ns, id, s, seps).nodes
<1>1. N \in Nat /\ M \in Nat /\ DOMAIN ns = 1 .. N /\ \A i \in 1 .. M : s[i] \in Slots
  BY DEF Slots
<1>2. a \in Seq(Slots) /\ Len(a) = N /\ \A i \in 1 .. N : a[i] = IF i = id THEN s[1] ELSE ns[i]
  <2>1. Head(s) = s[1] /\ s[1] \in Slots
    BY <1>1
  <2> QED BY <2>1, <1>1
<1>3. b \in Seq(Slots) /\ Len(b) = M - 1 /\ \A k \in 1 .. (M - 1) : b[k] = s[k + 1]
  <2>1. s \in Seq(Slots)
    BY DEF Slots
  <2> QED BY <2>1, <1>1
<1>4. ns2 = a \o b
  BY DEF Split
<1>5. Split(ns, id, s, seps).promoted = [j \in DOMAIN seps |-> <<seps[j], Len(ns) + j>>]
  BY DEF Split
<1> HIDE DEF a, b, ns2
<1>6. /\ ns2 \in Seq(Slots) /\ Len(ns2) = N + (M - 1)
      /\ \A i \in 1 .. (N + (M - 1)) : ns2[i] = IF i <= N THEN a[i] ELSE b[i - N]
  <2>1. /\ a \o b \in Seq(Slots) /\ Len(a \o b) = Len(a) + Len(b)
        /\ \A i \in 1 .. Len(a) + Len(b) : (a \o b)[i] = IF i <= Len(a) THEN a[i] ELSE b[i - Len(a)]
    <3>1. a \in Seq(Slots) /\ b \in Seq(Slots)
      BY <1>2, <1>3
    <3> QED BY <3>1, ConcatProperties, Zenon
  <2>2. Len(a) = N /\ Len(b) = M - 1
    BY <1>2, <1>3
  <2> QED BY <2>1, <2>2, <1>4
<1>7. \A i \in 1 .. N : ns2[i] = a[i]
  <2> SUFFICES ASSUME NEW i \in 1 .. N PROVE ns2[i] = a[i]
    BY Zenon
  <2>1. i \in 1 .. (N + (M - 1)) /\ i <= N
    BY <1>1
  <2> QED BY <2>1, <1>6, Zenon
<1>8. ASSUME NEW k \in 2 .. M PROVE ns2[N + (k - 1)] = s[k]
  <2>1. /\ N + (k - 1) \in 1 .. (N + (M - 1)) /\ ~(N + (k - 1) <= N)
        /\ (N + (k - 1)) - N = k - 1 /\ k - 1 \in 1 .. (M - 1) /\ (k - 1) + 1 = k
    BY <1>1
  <2>2. ns2[N + (k - 1)] = b[k - 1]
    BY <2>1, <1>6
  <2>3. b[k - 1] = s[(k - 1) + 1]
    BY <2>1, <1>3
  <2> QED BY <2>1, <2>2, <2>3
<1>9. DOMAIN seps = 1 .. (M - 1)
  OBVIOUS
<1> QED BY <1>1, <1>2, <1>5, <1>6, <1>7, <1>8, <1>9 DEF SplitArena, ns2

-----------------------------------------------------------------------------
(* The operations on slots                                                 *)

(* The operations leave the slots of other nodes alone.                    *)
LEMMA OverIs ==
    ASSUME NEW e, IsEngine(e), e.nodes \in Seq(Slots), e.disk_offset \in Seq(Nat),
           Len(e.disk_offset) = Len(e.nodes), NEW ns \in Seq(Slots), Len(ns) >= Len(e.nodes)
    PROVE  /\ Over(e, ns).nodes = ns /\ Over(e, ns).offsets = e.offsets
           /\ Over(e, ns).disk_offset \in Seq(Nat) /\ Len(Over(e, ns).disk_offset) = Len(ns)
           /\ \A i \in 1 .. Len(ns) :
                 Over(e, ns).disk_offset[i] = IF i \in 1 .. Len(e.nodes) THEN e.disk_offset[i]
                                              ELSE NoRecord
           /\ IsEngine(Over(e, ns))
           /\ Len(ns) = Len(e.nodes) => Over(e, ns).disk_offset = e.disk_offset
<1> DEFINE d == [i \in DOMAIN ns |-> IF i \in DOMAIN e.disk_offset THEN e.disk_offset[i] ELSE NoRecord]
<1>1. Over(e, ns).nodes = ns /\ Over(e, ns).offsets = e.offsets /\ Over(e, ns).disk_offset = d
  BY DEF Over
<1>2. IsEngine(Over(e, ns))
  BY DEF Over, IsEngine
<1>3. /\ Len(ns) \in Nat /\ DOMAIN ns = 1 .. Len(ns) /\ DOMAIN e.disk_offset = 1 .. Len(e.nodes)
      /\ \A i \in 1 .. Len(e.nodes) : e.disk_offset[i] \in Nat
  BY SMT
<1>4. d \in [1 .. Len(ns) -> Nat]
  BY <1>3 DEF NoRecord
<1>5. d \in Seq(Nat) /\ Len(d) = Len(ns)
  <2> HIDE DEF d
  <2> QED BY <1>3, <1>4, SMTT(20)
<1>6. \A i \in 1 .. Len(ns) : d[i] = IF i \in 1 .. Len(e.nodes) THEN e.disk_offset[i] ELSE NoRecord
  BY <1>3
<1>7. ASSUME Len(ns) = Len(e.nodes) PROVE d = e.disk_offset
  <2>1. \A i \in 1 .. Len(ns) : d[i] = e.disk_offset[i]
    BY <1>6, <1>7
  <2> HIDE DEF d
  <2> QED BY <2>1, <1>5, <1>7, SeqEqual
<1> QED BY <1>1, <1>2, <1>5, <1>6, <1>7

(* Fewer nodes may be without children when none of the others is.         *)
LEMMA Excuses ==
    ASSUME NEW e, NEW rs, NEW hr, NEW r, NEW X, NEW F, NEW X2, Sane(e, rs, hr, r, X, F),
           \A i \in Alive(e) \cap X : IsLoaded(e.nodes[i]) /\ ~e.nodes[i].leaf =>
              i \in X2 \/ e.nodes[i].children # <<>>
    PROVE  Sane(e, rs, hr, r, X2, F)
<1>1. PICK rk, par, ft : SaneBy(e, rs, hr, r, X, F, rk, par, ft)
  BY DEF Sane
<1>2. Held(e, rs, X)
  BY <1>1 DEF SaneBy
<1>3. ASSUME NEW i \in Alive(e), IsLoaded(e.nodes[i]), ~e.nodes[i].leaf
      PROVE  /\ IsInjective(e.nodes[i].children)
             /\ \/ Len(e.nodes[i].children) = Len(e.nodes[i].pivots) + 1
                \/ /\ e.nodes[i].children = <<>> /\ e.nodes[i].pivots = <<>>
                   /\ e.nodes[i].dirty /\ i \in X2
  BY <1>2, <1>3, Zenon DEF Held
<1>4. Held(e, rs, X2)
  BY <1>2, <1>3, Zenon DEF Held
<1>5. SaneBy(e, rs, hr, r, X2, F, rk, par, ft)
  BY <1>1, <1>4, Zenon DEF SaneBy
<1> QED BY <1>5, Zenon DEF Sane

(* What a sane engine holds, for the calls.                                *)
LEMMA SaneFacts ==
    ASSUME NEW e, NEW rs, NEW hr, NEW r, NEW X, NEW F, Sane(e, rs, hr, r, X, F)
    PROVE  /\ e.nodes \in Seq(Slots) /\ e.disk_offset \in Seq(Nat)
           /\ Len(e.disk_offset) = Len(e.nodes) /\ Len(e.nodes) \in Nat
           /\ DOMAIN e.nodes = 1 .. Len(e.nodes) /\ Alive(e) \subseteq 1 .. Len(e.nodes)
           /\ r \in Alive(e)
           /\ \A i \in Alive(e) : e.nodes[i] = OnDisk \/ IsLoaded(e.nodes[i])
           /\ \A i \in 1 .. Len(e.nodes) : IsLoaded(e.nodes[i]) => i \in Alive(e) /\ e.nodes[i] \in AnyNode
           /\ \A i \in Alive(e) : IsLoaded(e.nodes[i]) =>
                 /\ Children(e.nodes[i]) \subseteq Alive(e) \ {r, i}
                 /\ ~e.nodes[i].leaf =>
                       /\ e.nodes[i] \in InnerNode
                       /\ e.nodes[i].children # <<>> => Branches(e.nodes[i])
<1>1. PICK rk, par, ft : SaneBy(e, rs, hr, r, X, F, rk, par, ft)
  BY DEF Sane
<1>2. Held(e, rs, X)
  BY <1>1 DEF SaneBy
<1>3. ASSUME NEW i \in Alive(e), IsLoaded(e.nodes[i])
      PROVE  Children(e.nodes[i]) \subseteq Alive(e) \ {r, i}
  <2>1. /\ KidsOf(e, rs, i) = Children(e.nodes[i])
        /\ KidsOf(e, rs, i) \subseteq Alive(e) \ {r}
        /\ \A c \in KidsOf(e, rs, i) : rk[c] \in Nat /\ rk[i] = rk[c] + 1
    BY <1>1, <1>3, SlotFacts
  <2>2. i \notin KidsOf(e, rs, i)
    BY <2>1
  <2> QED BY <2>1, <2>2
<1>4. ASSUME NEW i \in Alive(e), IsLoaded(e.nodes[i]), ~e.nodes[i].leaf
      PROVE  e.nodes[i] \in InnerNode /\ (e.nodes[i].children # <<>> => Branches(e.nodes[i]))
  <2>1. e.nodes[i] \in AnyNode
    BY <1>1, <1>4, SlotFacts
  <2>2. e.nodes[i] \in InnerNode
    BY <2>1, <1>4, SlotKinds
  <2>3. /\ IsInjective(e.nodes[i].children)
        /\ \/ Len(e.nodes[i].children) = Len(e.nodes[i].pivots) + 1
           \/ e.nodes[i].children = <<>>
    BY <1>2, <1>4, Zenon DEF Held
  <2> QED BY <2>2, <2>3 DEF Branches
<1>5. /\ Len(e.nodes) \in Nat /\ DOMAIN e.nodes = 1 .. Len(e.nodes)
      /\ Alive(e) \subseteq 1 .. Len(e.nodes) /\ r \in Alive(e)
      /\ \A i \in Alive(e) : e.nodes[i] # Freed /\ (e.nodes[i] = OnDisk \/ IsLoaded(e.nodes[i]))
      /\ \A i \in 1 .. Len(e.nodes) : IsLoaded(e.nodes[i]) => i \in Alive(e) /\ e.nodes[i] \in AnyNode
  BY <1>1, SlotFacts
<1>6. e.nodes \in Seq(Slots) /\ e.disk_offset \in Seq(Nat) /\ Len(e.disk_offset) = Len(e.nodes)
  BY <1>2 DEF Held
<1> QED BY <1>3, <1>4, <1>5, <1>6

(* e2 is e but for P, an internal node with the children it had, and for   *)
(* its child C.                                                            *)
StillThere(e, e2, P, C) ==
    /\ IsEngine(e2)
    /\ \A i \in Alive(e) \ {C} : i \in Alive(e2) /\ (i # P => e2.nodes[i] = e.nodes[i])
    /\ IsLoaded(e2.nodes[P]) /\ ~e2.nodes[P].leaf

(* Who is alive when one slot is overwritten.                              *)
LEMMA AliveAfter ==
    ASSUME NEW e, NEW e2, NEW T, Len(e.nodes) \in Nat, Len(e2.nodes) \in Nat,
           Len(e2.nodes) >= Len(e.nodes),
           \A i \in 1 .. Len(e.nodes) : i \notin T => e2.nodes[i] = e.nodes[i],
           \A i \in 1 .. Len(e2.nodes) : i \notin 1 .. Len(e.nodes) => i \in T,
           T \subseteq 1 .. Len(e2.nodes), \A i \in T : e2.nodes[i] # Freed
    PROVE  Alive(e2) = Alive(e) \cup T
<1>1. ASSUME NEW i \in Alive(e2) PROVE i \in Alive(e) \cup T
  BY DEF Alive
<1>2. ASSUME NEW i \in Alive(e) PROVE i \in Alive(e2)
  <2>1. i \in 1 .. Len(e2.nodes) /\ i \in 1 .. Len(e.nodes) /\ e.nodes[i] # Freed
    BY DEF Alive
  <2> QED BY <2>1 DEF Alive
<1>3. ASSUME NEW i \in T PROVE i \in Alive(e2)
  BY DEF Alive
<1> QED BY <1>1, <1>2, <1>3

(* The pieces of a node, in its place and in the new slots.                *)
LEMMA PiecesPlaced ==
    ASSUME NEW e, NEW e2, NEW N \in Nat, NEW C \in 1 .. N, NEW s, NEW seps,
           SplitsInto(e.nodes, C, s, seps), e2.nodes[C] = s[1],
           \A k \in 2 .. Len(s) : e2.nodes[N + (k - 1)] = s[k]
    PROVE  /\ PiecesIn(e, e2, C, (N + 1) .. (N + (Len(s) - 1)))
           /\ \A i \in {C} \cup ((N + 1) .. (N + (Len(s) - 1))) : e2.nodes[i] \in AnyNode
<1> DEFINE New == (N + 1) .. (N + (Len(s) - 1))
<1>2. /\ Len(s) \in Nat /\ Len(s) >= 2 /\ s \in Seq(AnyNode)
      /\ \A j \in 1 .. Len(s) : IsPiece(s[j], e.nodes[C])
      /\ \A x \in Children(e.nodes[C]) : \E j \in 1 .. Len(s) : x \in Children(s[j])
      /\ \A j, k \in 1 .. Len(s) : Children(s[j]) \cap Children(s[k]) # {} => j = k
  BY DEF SplitsInto, CutsUp
<1>3. ASSUME NEW q \in New PROVE (q - N) + 1 \in 2 .. Len(s) /\ e2.nodes[q] = s[(q - N) + 1]
  <2>1. (q - N) + 1 \in 2 .. Len(s) /\ N + (((q - N) + 1) - 1) = q
    <3>1. N \in Nat /\ Len(s) \in Nat
      BY <1>2
    <3> QED BY <3>1
  <2>2. e2.nodes[N + (((q - N) + 1) - 1)] = s[(q - N) + 1]
    BY <2>1
  <2> QED BY <2>1, <2>2
<1> DEFINE ix(q) == IF q = C THEN 1 ELSE (q - N) + 1
<1>4. ASSUME NEW q \in {C} \cup New
       PROVE  ix(q) \in 1 .. Len(s) /\ e2.nodes[q] = s[ix(q)]
  <2>1. C \notin New
    OBVIOUS
  <2> QED BY <2>1, <1>2, <1>3
<1>5. \A q, z \in {C} \cup New : ix(q) = ix(z) => q = z
  <2>1. \A q \in New : (q - N) + 1 # 1
    OBVIOUS
  <2> QED BY <2>1
<1>6. ASSUME NEW j \in 1 .. Len(s) PROVE \E q \in {C} \cup New : ix(q) = j
  <2>1. CASE j = 1
    BY <2>1
  <2>2. CASE j # 1
    <3>1. N + (j - 1) \in New /\ (N + (j - 1) - N) + 1 = j
      BY <2>2, <1>2
    <3>2. N + (j - 1) # C
      BY <3>1
    <3>3. ix(N + (j - 1)) = j
      <4> DEFINE q == N + (j - 1)
      <4>1. q # C /\ (q - N) + 1 = j
        BY <3>1, <3>2
      <4> HIDE DEF q
      <4>2. ix(q) = j
        BY <4>1
      <4> QED BY <4>2 DEF q
    <3> HIDE DEF ix, New
    <3> QED BY <3>1, <3>3
  <2> QED BY <2>1, <2>2
<1> HIDE DEF ix
<1>7. PiecesIn(e, e2, C, New)
  <2>1. ASSUME NEW q \in {C} \cup New
        PROVE  /\ WellFormed(e2.nodes[q], q, {})
               /\ e2.nodes[q].leaf <=> e.nodes[C].leaf
               /\ Children(e2.nodes[q]) \subseteq Children(e.nodes[C])
    <3>1. ix(q) \in 1 .. Len(s) /\ e2.nodes[q] = s[ix(q)]
      BY <1>4
    <3>2. IsPiece(e2.nodes[q], e.nodes[C]) /\ e2.nodes[q] \in AnyNode
      BY <3>1, <1>2
    <3> QED BY <3>2 DEF IsPiece, WellFormed
  <2>2. ASSUME NEW x \in Children(e.nodes[C]) PROVE \E q \in {C} \cup New : x \in Children(e2.nodes[q])
    <3>1. PICK j \in 1 .. Len(s) : x \in Children(s[j])
      BY <1>2
    <3>2. PICK q \in {C} \cup New : ix(q) = j
      BY <1>6
    <3> QED BY <3>1, <3>2, <1>4
  <2>3. ASSUME NEW x, NEW q, NEW z, q \in {C} \cup New, z \in {C} \cup New,
               x \in Children(e2.nodes[q]), x \in Children(e2.nodes[z])
        PROVE  q = z
    <3>1. /\ ix(q) \in 1 .. Len(s) /\ e2.nodes[q] = s[ix(q)]
          /\ ix(z) \in 1 .. Len(s) /\ e2.nodes[z] = s[ix(z)]
      BY <2>3, <1>4
    <3>2. Children(s[ix(q)]) \cap Children(s[ix(z)]) # {}
      BY <3>1, <2>3
    <3>3. ix(q) = ix(z)
      BY <3>1, <3>2, <1>2
    <3> QED BY <3>3, <2>3, <1>5
  <2> HIDE DEF New
  <2>4. \A q, z \in {C} \cup New : Children(e2.nodes[q]) \cap Children(e2.nodes[z]) # {} => q = z
    BY <2>3
  <2> QED BY <2>1, <2>2, <2>4, Zenon DEF PiecesIn
<1>8. \A i \in {C} \cup New : e2.nodes[i] \in AnyNode
  <2> SUFFICES ASSUME NEW i \in {C} \cup New PROVE e2.nodes[i] \in AnyNode
    OBVIOUS
  <2>1. ix(i) \in 1 .. Len(s) /\ e2.nodes[i] = s[ix(i)]
    BY <1>4
  <2> QED BY <2>1, <1>2
<1> QED BY <1>7, <1>8

(* split_if_needed and integrate_splits.                                   *)
LEMMA SplitIntoKeeps ==
    ASSUME NEW e, IsEngine(e), NEW rs, NEW hr, NEW r, NEW X, NEW F, NEW X2,
           Sane(e, rs, hr, r, X, F), NEW P \in Alive(e), IsLoaded(e.nodes[P]),
           NEW C \in Children(e.nodes[P]), IsLoaded(e.nodes[C]), ~Barren(e.nodes[C]),
           X \ {C, P} \subseteq X2
    PROVE  Sane(SplitInto(e, P, C), rs, hr, r, X2, F) /\ StillThere(e, SplitInto(e, P, C), P, C)
<1> DEFINE N == Len(e.nodes)
           e2 == SplitInto(e, P, C)
<1>1. /\ e.nodes \in Seq(Slots) /\ e.disk_offset \in Seq(Nat)
      /\ Len(e.disk_offset) = N /\ N \in Nat
      /\ DOMAIN e.nodes = 1 .. N /\ Alive(e) \subseteq 1 .. N
      /\ \A i \in 1 .. N : IsLoaded(e.nodes[i]) => i \in Alive(e) /\ e.nodes[i] \in AnyNode
      /\ \A i \in Alive(e) : IsLoaded(e.nodes[i]) =>
            /\ Children(e.nodes[i]) \subseteq Alive(e) \ {r, i}
            /\ ~e.nodes[i].leaf =>
                  /\ e.nodes[i] \in InnerNode
                  /\ e.nodes[i].children # <<>> => Branches(e.nodes[i])
  BY SaneFacts
<1>2. ~e.nodes[P].leaf /\ e.nodes[P].children # <<>>
  <2>1. ~e.nodes[P].leaf
    BY DEF Children
  <2>2. Children(e.nodes[P]) = Range(e.nodes[P].children)
    BY <2>1 DEF Children
  <2>3. Range(<<>>) = {}
    BY DEF Range
  <2> QED BY <2>1, <2>2, <2>3
<1>3. e.nodes[P] \in InnerNode /\ Branches(e.nodes[P]) /\ C \in Alive(e) /\ C # P /\ C # r
  BY <1>1, <1>2
<1>4. e.nodes[C] \in AnyNode /\ Branches(e.nodes[C])
  <2>1. e.nodes[C] \in AnyNode
    BY <1>1, <1>3
  <2>2. ~e.nodes[C].leaf => e.nodes[C].children # <<>>
    BY DEF Barren
  <2> QED BY <2>1, <2>2, <1>1, <1>3 DEF Branches
<1>5. P \in 1 .. N /\ C \in 1 .. N
  BY <1>1, <1>3
<1> HIDE DEF N
<1>6. CASE ~Overfull(e.nodes[C])
  <2>1. split_if_needed(e.nodes, C) = [nodes |-> e.nodes, promoted |-> <<>>]
    BY <1>6 DEF split_if_needed
  <2>2. Len(<<>>) = 0
    OBVIOUS
  <2>3. PICK f : MergedAs(e.nodes, P, <<>>, 0, f)
    BY <2>2, MergeLoop
  <2>4. integrate_splits(e.nodes, P, <<>>) = [e.nodes EXCEPT ![P] = e.nodes[P]]
    BY <2>3 DEF MergedAs
  <2>5. [e.nodes EXCEPT ![P] = e.nodes[P]] = e.nodes
    BY <1>1
  <2>6. e2 = Over(e, e.nodes)
    BY <2>1, <2>4, <2>5 DEF SplitInto
  <2>7. Len(e.nodes) >= Len(e.nodes)
    BY <1>1 DEF N
  <2>8. e2.nodes = e.nodes /\ e2.offsets = e.offsets /\ e2.disk_offset = e.disk_offset /\ IsEngine(e2)
    BY <1>1, <2>6, <2>7, OverIs DEF N
  <2> HIDE DEF e2
  <2>9. e2 = e
    BY <2>8, Zenon DEF IsEngine
  <2>10. Sane(e, rs, hr, r, X2, F)
    <3>1. \A i \in Alive(e) \cap X : IsLoaded(e.nodes[i]) /\ ~e.nodes[i].leaf =>
             i \in X2 \/ e.nodes[i].children # <<>>
      BY <1>2 DEF Barren
    <3> QED BY <3>1, Excuses
  <2>11. StillThere(e, e, P, C)
    BY <1>2 DEF StillThere
  <2> QED BY <2>9, <2>10, <2>11 DEF e2
<1>7. CASE Overfull(e.nodes[C])
  <2>1. PICK s, seps : SplitsInto(e.nodes, C, s, seps)
    BY <1>4, <1>7, SplitsUp
  <2>2. /\ Len(s) \in Nat /\ Len(s) >= 2 /\ s \in Seq(AnyNode)
        /\ seps \in Seq(Nat) /\ Len(seps) = Len(s) - 1
        /\ \A j \in 1 .. Len(s) : IsPiece(s[j], e.nodes[C])
        /\ \A x \in Children(e.nodes[C]) : \E j \in 1 .. Len(s) : x \in Children(s[j])
        /\ \A j, k \in 1 .. Len(s) : Children(s[j]) \cap Children(s[k]) # {} => j = k
    BY <2>1 DEF SplitsInto, CutsUp
  <2> DEFINE sp == split_if_needed(e.nodes, C)
             M == Len(s) - 1
             New == (N + 1) .. (N + M)
  <2>3. /\ SplitArena(e.nodes, C, s, N, sp.nodes) /\ Len(sp.promoted) = M
        /\ \A j \in 1 .. M : sp.promoted[j] = <<seps[j], N + j>>
    <3>1. sp = Split(e.nodes, C, s, seps)
      BY <2>1 DEF SplitsInto
    <3> HIDE DEF sp
    <3>2. C \in 1 .. Len(e.nodes)
      BY <1>5 DEF N
    <3>3. /\ SplitArena(e.nodes, C, s, Len(e.nodes), Split(e.nodes, C, s, seps).nodes)
          /\ Len(Split(e.nodes, C, s, seps).promoted) = Len(s) - 1
          /\ \A j \in 1 .. (Len(s) - 1) :
                Split(e.nodes, C, s, seps).promoted[j] = <<seps[j], Len(e.nodes) + j>>
      <4>1. e.nodes \in Seq(Slots) /\ s \in Seq(AnyNode) /\ Len(s) >= 2 /\ seps \in Seq(Nat)
            /\ Len(seps) = Len(s) - 1
        BY <1>1, <2>2
      <4> QED BY <4>1, <3>2, SplitSlots, Zenon
    <3> QED BY <3>1, <3>3, Zenon DEF N
  <2>4. /\ sp.nodes \in Seq(Slots) /\ Len(sp.nodes) = N + M
        /\ \A i \in 1 .. N : sp.nodes[i] = IF i = C THEN s[1] ELSE e.nodes[i]
        /\ \A k \in 2 .. Len(s) : sp.nodes[N + (k - 1)] = s[k]
    BY <2>3 DEF SplitArena
  <2>5. sp.nodes[P] = e.nodes[P] /\ M \in Nat /\ M >= 1
    BY <2>2, <2>4, <1>3, <1>5
  <2>6. e2 = Over(e, integrate_splits(sp.nodes, P, sp.promoted))
    BY DEF SplitInto
  <2> HIDE DEF sp
  <2>7. PICK m \in InnerNode :
           /\ Branches(m) /\ m.dirty /\ Children(m) = Children(e.nodes[P]) \cup New
           /\ integrate_splits(sp.nodes, P, sp.promoted) = [sp.nodes EXCEPT ![P] = m]
    <3>1. Children(sp.nodes[P]) \subseteq 1 .. N
      BY <2>5, <1>1
    <3>2. sp.nodes[P] \in InnerNode /\ Branches(sp.nodes[P]) /\ M \in Nat /\ M >= 1 /\ N \in Nat
      BY <2>2, <2>5, <1>1, <1>3
    <3>3. Len(sp.promoted) = M /\ seps \in Seq(Nat) /\ Len(seps) = M
      BY <2>2, <2>3
    <3> HIDE DEF M
    <3>4. \A j \in 1 .. M : sp.promoted[j] = <<seps[j], N + j>>
      BY <2>3
    <3>5. Promotes(sp.promoted, seps, N, M)
      BY <3>3, <3>4 DEF Promotes
    <3>6. Gains(sp.nodes, P, (N + 1) .. (N + M), integrate_splits(sp.nodes, P, sp.promoted))
      BY <3>1, <3>2, <3>5, MergeAdds
    <3> QED BY <3>6, <2>5, Zenon DEF Gains
  <2> DEFINE ns2 == [sp.nodes EXCEPT ![P] = m]
  <2>8. m \in AnyNode /\ ~m.leaf
    BY DEF AnyNode, InnerNode
  <2>9. /\ ns2 \in Seq(Slots) /\ Len(ns2) = N + M /\ Len(ns2) >= Len(e.nodes)
        /\ \A i \in 1 .. N : ns2[i] = IF i = P THEN m ELSE IF i = C THEN s[1] ELSE e.nodes[i]
        /\ \A k \in 2 .. Len(s) : ns2[N + (k - 1)] = s[k]
    <3>1. m \in Slots /\ P \in 1 .. (N + M)
      BY <2>8, <2>5, <1>1, <1>5 DEF Slots
    <3>2. ns2 \in Seq(Slots) /\ Len(ns2) = N + M
      BY <3>1, <2>4
    <3>3. \A i \in 1 .. N : ns2[i] = IF i = P THEN m ELSE sp.nodes[i]
      BY <2>4, <2>5, <1>1, SMT
    <3>4. ASSUME NEW k \in 2 .. Len(s) PROVE ns2[N + (k - 1)] = s[k]
      <4>1. N + (k - 1) \in 1 .. (N + M) /\ N + (k - 1) # P
        BY <2>2, <1>1, <1>5
      <4>2. ns2[N + (k - 1)] = sp.nodes[N + (k - 1)]
        BY <4>1, <2>4
      <4> QED BY <4>2, <2>4
    <3> QED BY <3>2, <3>3, <3>4, <2>4, <2>5, <1>1 DEF N
  <2>10. /\ e2.nodes = ns2 /\ e2.offsets = e.offsets /\ e2.disk_offset \in Seq(Nat)
         /\ Len(e2.disk_offset) = Len(e2.nodes) /\ IsEngine(e2)
         /\ \A i \in 1 .. Len(e2.nodes) :
               e2.disk_offset[i] = IF i \in 1 .. N THEN e.disk_offset[i] ELSE NoRecord
    <3>1. e2 = Over(e, ns2)
      BY <2>6, <2>7
    <3> HIDE DEF ns2, e2
    <3>2. /\ Over(e, ns2).nodes = ns2 /\ Over(e, ns2).offsets = e.offsets
          /\ Over(e, ns2).disk_offset \in Seq(Nat) /\ Len(Over(e, ns2).disk_offset) = Len(ns2)
          /\ \A i \in 1 .. Len(ns2) :
                Over(e, ns2).disk_offset[i] = IF i \in 1 .. Len(e.nodes) THEN e.disk_offset[i]
                                              ELSE NoRecord
          /\ IsEngine(Over(e, ns2))
      <4>1. ns2 \in Seq(Slots) /\ Len(ns2) >= Len(e.nodes) /\ e.nodes \in Seq(Slots)
            /\ e.disk_offset \in Seq(Nat) /\ Len(e.disk_offset) = Len(e.nodes)
        BY <2>9, <1>1 DEF N
      <4> QED BY <4>1, OverIs
    <3> QED BY <3>1, <3>2, Zenon DEF N
  <2> HIDE DEF e2, ns2
  <2>11. Len(e2.nodes) = N + M
    BY <2>9, <2>10
  <2>12. /\ e2.nodes[P] = m /\ e2.nodes[C] = s[1]
         /\ \A i \in 1 .. N : i # P /\ i # C => e2.nodes[i] = e.nodes[i]
    BY <2>9, <2>10, <1>3, <1>5
  <2>17. PiecesIn(e, e2, C, New) /\ \A i \in {C} \cup New : e2.nodes[i] \in AnyNode
    <3>1. \A k \in 2 .. Len(s) : e2.nodes[N + (k - 1)] = s[k]
      BY <2>9, <2>10
    <3> QED BY <3>1, <2>1, <2>12, <1>1, <1>5, PiecesPlaced, ZenonT(30)
  <2>18. \A i \in {C, P} \cup New : IsLoaded(e2.nodes[i]) /\ e2.nodes[i] # Freed
    BY <2>8, <2>12, <2>17, SlotKinds
  <2>19. New \cap Alive(e) = {} /\ \A i \in New : i \notin 1 .. N
    BY <1>1
  <2>20. Alive(e2) = Alive(e) \cup ({C, P} \cup New)
    <3> DEFINE T == {C, P} \cup New
    <3>1. \A i \in 1 .. N : i \notin T => e2.nodes[i] = e.nodes[i]
      BY <2>12
    <3>2. \A i \in 1 .. (N + M) : i \notin 1 .. N => i \in T
      BY <1>1, <2>5
    <3>3. T \subseteq 1 .. (N + M)
      BY <1>1, <1>5, <2>5
    <3>4. N + M \in Nat /\ N + M >= N
      BY <1>1, <2>5
    <3> HIDE DEF T
    <3>5. \A i \in T : e2.nodes[i] # Freed
      BY <2>18 DEF T
    <3>6. Alive(e2) = Alive(e) \cup T
      <4>1. /\ Len(e.nodes) \in Nat /\ Len(e2.nodes) \in Nat /\ Len(e2.nodes) >= Len(e.nodes)
            /\ \A i \in 1 .. Len(e.nodes) : i \notin T => e2.nodes[i] = e.nodes[i]
            /\ \A i \in 1 .. Len(e2.nodes) : i \notin 1 .. Len(e.nodes) => i \in T
            /\ T \subseteq 1 .. Len(e2.nodes)
        <5> HIDE DEF M
        <5> QED BY <3>1, <3>2, <3>3, <3>4, <2>11, <1>1 DEF N
      <4> QED BY <4>1, <3>5, AliveAfter
    <3> QED BY <3>6 DEF T
  <2>21. SlotsAdded(e, e2, {C, P} \cup New)
    <3>1. e2.nodes \in Seq(Slots)
      BY <2>9, <2>10
    <3>2. \A i \in ({C, P} \cup New) \ Alive(e) : i \notin 1 .. Len(e.nodes)
      BY <2>19, <1>3 DEF N
    <3>3. \A i \in Alive(e) \ ({C, P} \cup New) : e2.nodes[i] = e.nodes[i]
      BY <2>12, <1>1
    <3> HIDE DEF New
    <3> QED BY <3>1, <3>2, <3>3, <2>10, <2>20, Zenon DEF SlotsAdded, N
  <2>22. ParentFits(e, e2, C, New, P, r, r)
    <3>1. WellFormed(e2.nodes[P], P, {}) /\ ~e2.nodes[P].leaf
      BY <2>7, <2>8, <2>12 DEF WellFormed, Branches
    <3>2. Children(e2.nodes[P]) = Children(e.nodes[P]) \cup New
      BY <2>7, <2>12
    <3> HIDE DEF New
    <3> QED BY <3>1, <3>2, Zenon DEF ParentFits
  <2>23. PICK rk, par, ft : SaneBy(e, rs, hr, r, X, F, rk, par, ft)
    BY DEF Sane
  <2>24. Sane(e2, rs, hr, r, X2, F)
    <3> HIDE DEF New
    <3> QED BY <2>17, <2>19, <2>21, <2>22, <2>23, <1>3, Divides
  <2>25. StillThere(e, e2, P, C)
    <3>1. \A i \in Alive(e) \ {C} : i \in Alive(e2) /\ (i # P => e2.nodes[i] = e.nodes[i])
      BY <2>12, <2>20, <1>1
    <3> QED BY <3>1, <2>8, <2>10, <2>12, <2>18 DEF StillThere
  <2> QED BY <2>24, <2>25 DEF e2
<1> QED BY <1>6, <1>7


(* remove_child, when the child is there once.                             *)
Loses(ns, P, C, ns2) ==
    \E m \in InnerNode :
        /\ m.dirty /\ Children(m) = Children(ns[P]) \ {C} /\ IsInjective(m.children)
        /\ Len(m.children) = Len(m.pivots) + 1 \/ (m.children = <<>> /\ m.pivots = <<>>)
        /\ ns2 = [ns EXCEPT ![P] = m]

LEMMA RemoveLoses ==
    ASSUME NEW ns \in Seq(Slots), NEW P \in 1 .. Len(ns), ns[P] \in InnerNode, Branches(ns[P]),
           NEW C \in Children(ns[P])
    PROVE  Loses(ns, P, C, remove_child(ns, P, C))
<1> DEFINE n == ns[P]
           s == n.children
           p == n.pivots
<1>1. /\ s \in Seq(Nat) /\ p \in Seq(Nat) /\ ~n.leaf /\ n.buffer \in Maps(MessagesOf(Nat))
      /\ Len(s) = Len(p) + 1 /\ IsInjective(s) /\ Len(p) \in Nat /\ n.leaf \in BOOLEAN
  <2>1. /\ s \in Seq(Nat) /\ p \in Seq(Nat) /\ ~n.leaf /\ n.buffer \in Maps(MessagesOf(Nat))
        /\ n.leaf \in BOOLEAN
    BY DEF InnerNode
  <2>2. Len(s) = Len(p) + 1 /\ IsInjective(s)
    BY <2>1 DEF Branches
  <2> QED BY <2>1, <2>2
<1>2. Children(n) = {s[i] : i \in 1 .. Len(s)}
  <2> HIDE DEF n
  <2> QED BY <1>1, ChildrenOf
<1>3. \A i, k \in 1 .. Len(s) : s[i] = s[k] => i = k
  BY <1>1, SMTT(30) DEF IsInjective
<1>4. PICK j \in 1 .. Len(s) : C = s[j]
  BY <1>2
<1> DEFINE at == SelectInSeq(s, LAMBDA c : c = C)
           m == Unlinked(n, j)
<1>5. at = j
  <2> DEFINE I == {i \in 1 .. Len(s) : s[i] = C}
  <2>1. at = IF I # {} THEN Min(I) ELSE 0
    BY DEF SelectInSeq
  <2>2. Min({j}) = j
    <3>1. \A x : x \in {j} /\ (\A y \in {j} : x <= y) <=> x = j
      BY <1>1
    <3> QED BY <3>1, Zenon DEF Min
  <2> HIDE DEF I
  <2>3. I = {j}
    BY <1>3, <1>4 DEF I
  <2> QED BY <2>1, <2>2, <2>3
<1>6. remove_child(ns, P, C) =
        [ns EXCEPT ![P].children = RemoveAt(@, at),
                   ![P].pivots = IF at > 1 THEN RemoveAt(@, at - 1)
                                 ELSE IF @ # <<>> THEN RemoveAt(@, 1) ELSE @,
                   ![P].dirty = TRUE]
  BY DEF remove_child
<1> HIDE DEF at
<1>7. remove_child(ns, P, C) =
        [ns EXCEPT ![P].children = RemoveAt(@, j),
                   ![P].pivots = PivotsWithout(@, j),
                   ![P].dirty = TRUE]
  BY <1>5, <1>6 DEF PivotsWithout
<1>8. remove_child(ns, P, C) = [ns EXCEPT ![P] = m]
  <2> HIDE DEF s
  <2> QED BY <1>7 DEF Unlinked, InnerNode
<1>9. m = [n EXCEPT !.children = RemoveAt(s, j), !.pivots = PivotsWithout(p, j), !.dirty = TRUE]
  BY DEF Unlinked
<1>10. /\ RemoveAt(s, j) \in Seq(Nat) /\ Len(RemoveAt(s, j)) = Len(s) - 1
       /\ \A i \in 1 .. (Len(s) - 1) : RemoveAt(s, j)[i] = IF i < j THEN s[i] ELSE s[i + 1]
  BY <1>1, RemoveAtFacts
<1>11. /\ PivotsWithout(p, j) \in Seq(Nat)
       /\ Len(p) > 0 => Len(PivotsWithout(p, j)) = Len(p) - 1
       /\ Len(p) = 0 => PivotsWithout(p, j) = <<>>
  <2>1. CASE Len(p) > 0
    <3>1. PivotsWithout(p, j) = RemoveAt(p, IF j > 1 THEN j - 1 ELSE 1)
      BY <2>1 DEF PivotsWithout
    <3>2. (IF j > 1 THEN j - 1 ELSE 1) \in 1 .. Len(p)
      BY <2>1, <1>1
    <3>3. \A i \in 1 .. Len(p) : RemoveAt(p, i) \in Seq(Nat) /\ Len(RemoveAt(p, i)) = Len(p) - 1
      BY <1>1, RemoveAtFacts
    <3>4. ~(Len(p) = 0)
      BY <2>1
    <3> QED BY <3>1, <3>2, <3>3, <3>4
  <2>2. CASE Len(p) = 0
    <3>1. p = <<>> /\ ~(j > 1) /\ ~(Len(p) > 0)
      BY <2>2, <1>1
    <3> QED BY <3>1, <1>1 DEF PivotsWithout
  <2> QED BY <2>1, <2>2, <1>1
<1> HIDE DEF m
<1>12. /\ m \in InnerNode /\ m.dirty /\ ~m.leaf
       /\ m.children = RemoveAt(s, j) /\ m.pivots = PivotsWithout(p, j)
  BY <1>1, <1>9, <1>10, <1>11 DEF InnerNode
<1> DEFINE c == m.children
<1>13. /\ c \in Seq(Nat) /\ Len(c) = Len(s) - 1
       /\ \A i \in 1 .. (Len(s) - 1) : c[i] = IF i < j THEN s[i] ELSE s[i + 1]
  BY <1>10, <1>12
<1> HIDE DEF c
<1>14. Children(m) = {c[i] : i \in 1 .. (Len(s) - 1)}
  <2>1. Children(m) = {c[i] : i \in 1 .. Len(c)}
    <3>1. m.leaf \in BOOLEAN
      BY <1>12 DEF InnerNode
    <3>2. m.children \in Seq(Nat) /\ ~m.leaf
      BY <1>12, <1>13, Zenon DEF c
    <3>3. Children(m) = {m.children[i] : i \in 1 .. Len(m.children)}
      BY <3>1, <3>2, ChildrenOf, SMT
    <3> QED BY <3>3, Zenon DEF c
  <2> QED BY <2>1, <1>13
<1>15. Children(m) = Children(n) \ {C}
  <2>1. ASSUME NEW i \in 1 .. (Len(s) - 1) PROVE c[i] \in Children(n) \ {C}
    <3>1. /\ i < j => i \in 1 .. Len(s) /\ i # j
          /\ ~(i < j) => i + 1 \in 1 .. Len(s) /\ i + 1 # j
      BY <1>1, SMTT(30)
    <3>2. CASE i < j
      <4>1. c[i] = s[i] /\ s[i] # s[j]
        BY <3>1, <3>2, <1>3, <1>13
      <4> QED BY <4>1, <3>1, <3>2, <1>2, <1>4
    <3>3. CASE ~(i < j)
      <4>1. c[i] = s[i + 1] /\ s[i + 1] # s[j]
        BY <3>1, <3>3, <1>3, <1>13
      <4> QED BY <4>1, <3>1, <3>3, <1>2, <1>4
    <3> QED BY <3>2, <3>3
  <2>2. ASSUME NEW x \in Children(n) \ {C} PROVE \E i \in 1 .. (Len(s) - 1) : x = c[i]
    <3>1. PICK k \in 1 .. Len(s) : x = s[k]
      BY <1>2
    <3>2. k # j
      BY <3>1, <1>4
    <3>3. CASE k < j
      <4>1. k \in 1 .. (Len(s) - 1)
        BY <3>3, <1>1
      <4> QED BY <4>1, <3>1, <3>3, <1>13
    <3>4. CASE k > j
      <4>1. k - 1 \in 1 .. (Len(s) - 1) /\ ~(k - 1 < j) /\ (k - 1) + 1 = k
        BY <3>4, <1>1
      <4>2. c[k - 1] = s[(k - 1) + 1]
        BY <4>1, <1>13
      <4>3. c[k - 1] = s[k]
        BY <4>1, <4>2
      <4> QED BY <4>1, <4>3, <3>1
    <3> QED BY <3>2, <3>3, <3>4, <1>1, SMT
  <2> QED BY <2>1, <2>2, <1>14
<1>16. IsInjective(c)
  <2> SUFFICES ASSUME NEW a \in 1 .. (Len(s) - 1), NEW b \in 1 .. (Len(s) - 1), c[a] = c[b]
               PROVE  a = b
    <3>1. DOMAIN c = 1 .. (Len(s) - 1)
      BY <1>13
    <3> QED BY <3>1 DEF IsInjective
  <2> DEFINE ix(i) == IF i < j THEN i ELSE i + 1
  <2>1. ix(a) \in 1 .. Len(s) /\ ix(b) \in 1 .. Len(s) /\ c[a] = s[ix(a)] /\ c[b] = s[ix(b)]
    <3>1. ASSUME NEW i \in 1 .. (Len(s) - 1) PROVE ix(i) \in 1 .. Len(s) /\ c[i] = s[ix(i)]
      <4>1. i \in 1 .. Len(s) /\ i + 1 \in 1 .. Len(s)
        <5>1. Len(s) \in Nat
          BY <1>1
        <5> QED BY <5>1, Neighbours, Zenon
      <4>2. ix(i) \in 1 .. Len(s)
        BY <4>1
      <4> QED BY <4>2, <1>13
    <3> QED BY <3>1
  <2>2. ix(a) = ix(b)
    <3> HIDE DEF ix
    <3> QED BY <2>1, <1>3
  <2> QED BY <2>2
<1>17. Len(c) = Len(m.pivots) + 1 \/ (c = <<>> /\ m.pivots = <<>>)
  <2>1. CASE Len(p) > 0
    <3>1. Len(m.pivots) = Len(p) - 1
      BY <2>1, <1>11, <1>12
    <3> QED BY <3>1, <2>1, <1>1, <1>13
  <2>2. CASE Len(p) = 0
    <3>1. Len(c) = 0
      BY <2>2, <1>1, <1>13
    <3>2. c = <<>>
      BY <3>1, <1>13
    <3> QED BY <3>2, <2>2, <1>11, <1>12
  <2> QED BY <2>1, <2>2, <1>1
<1> HIDE DEF n
<1>18. /\ m.dirty /\ Children(m) = Children(n) \ {C} /\ IsInjective(m.children)
       /\ Len(m.children) = Len(m.pivots) + 1 \/ (m.children = <<>> /\ m.pivots = <<>>)
  BY <1>12, <1>15, <1>16, <1>17 DEF c
<1> QED BY <1>8, <1>12, <1>18, Zenon DEF Loses, n


(* release_slot, after other slots have been added or changed.             *)
LEMMA Releases ==
    ASSUME NEW e, NEW e1, NEW T, SlotsAdded(e, e1, T), NEW C \in Alive(e),
           Len(e.nodes) \in Nat, Len(e.nodes) <= Len(e1.nodes)
    PROVE  /\ SlotsFreed(e, release_slot(e1, C), C, T) /\ IsEngine(release_slot(e1, C))
           /\ release_slot(e1, C).nodes = [e1.nodes EXCEPT ![C] = Freed]
<1> DEFINE e2 == release_slot(e1, C)
<1>1. /\ e1.nodes \in Seq(Slots) /\ e1.disk_offset \in Seq(Nat)
      /\ Len(e1.disk_offset) = Len(e1.nodes) /\ e1.offsets = e.offsets
      /\ Alive(e1) = Alive(e) \cup T
      /\ \A i \in 1 .. Len(e1.nodes) :
            e1.disk_offset[i] = IF i \in 1 .. Len(e.nodes) THEN e.disk_offset[i] ELSE NoRecord
      /\ \A i \in T \ Alive(e) : i \notin 1 .. Len(e.nodes)
      /\ \A i \in Alive(e) \ T : e1.nodes[i] = e.nodes[i]
  BY Zenon DEF SlotsAdded
<1>2. /\ e2.nodes = [e1.nodes EXCEPT ![C] = Freed]
      /\ e2.disk_offset = [e1.disk_offset EXCEPT ![C] = NoRecord]
      /\ e2.offsets = Without(e1.offsets, {e1.disk_offset[C]})
  BY DEF release_slot
<1>3. IsEngine(e2)
  BY DEF release_slot, IsEngine
<1> HIDE DEF e2
<1>4. C \in 1 .. Len(e.nodes) /\ C \in 1 .. Len(e1.nodes) /\ Len(e1.nodes) \in Nat
  <2>1. C \in 1 .. Len(e.nodes) /\ Len(e1.nodes) \in Nat
    BY <1>1 DEF Alive
  <2> QED BY <2>1
<1>5. /\ e2.nodes \in Seq(Slots) /\ Len(e2.nodes) = Len(e1.nodes)
      /\ \A i \in 1 .. Len(e1.nodes) : e2.nodes[i] = IF i = C THEN Freed ELSE e1.nodes[i]
  <2>1. Freed \in Slots
    BY DEF Slots
  <2> QED BY <2>1, <1>1, <1>2, <1>4
<1>6. /\ e2.disk_offset \in Seq(Nat) /\ Len(e2.disk_offset) = Len(e1.nodes)
      /\ \A i \in 1 .. Len(e1.nodes) :
            e2.disk_offset[i] = IF i = C THEN NoRecord ELSE e1.disk_offset[i]
  <2>1. NoRecord \in Nat
    BY DEF NoRecord
  <2> HIDE DEF NoRecord
  <2> QED BY <2>1, <1>1, <1>2, <1>4
<1>7. Alive(e2) = Alive(e1) \ {C}
  BY <1>4, <1>5 DEF Alive
<1>8. \A i \in Alive(e) \ (T \cup {C}) : e2.nodes[i] = e.nodes[i]
  <2>1. \A i \in Alive(e) : i \in 1 .. Len(e1.nodes)
    BY <1>1, <1>4 DEF Alive
  <2> QED BY <2>1, <1>1, <1>5
<1>9. e2.offsets = Without(e.offsets, {e.disk_offset[C]})
  BY <1>1, <1>2, <1>4
<1>10. \A i \in 1 .. Len(e2.nodes) :
          e2.disk_offset[i] = IF i \in 1 .. Len(e.nodes) /\ i # C THEN e.disk_offset[i] ELSE NoRecord
  BY <1>1, <1>5, <1>6
<1>11. Alive(e2) = (Alive(e) \cup T) \ {C}
  BY <1>1, <1>7
<1>12. SlotsFreed(e, e2, C, T)
  <2>1. Len(e2.disk_offset) = Len(e2.nodes)
    BY <1>5, <1>6
  <2> QED BY <2>1, <1>1, <1>5, <1>6, <1>8, <1>9, <1>10, <1>11, Zenon DEF SlotsFreed
<1> QED BY <1>2, <1>3, <1>12 DEF e2

(* remove_child and release_slot.                                          *)
LEMMA UnlinkKeeps ==
    ASSUME NEW e, IsEngine(e), NEW rs, NEW hr, NEW r, NEW X, NEW F, NEW X2,
           Sane(e, rs, hr, r, X, F), NEW P \in Alive(e), IsLoaded(e.nodes[P]),
           NEW C \in Children(e.nodes[P]), IsLoaded(e.nodes[C]), Children(e.nodes[C]) = {},
           X \ {C, P} \subseteq X2, P \in X2
    PROVE  Sane(unlink(e, P, C), rs, hr, r, X2, F) /\ StillThere(e, unlink(e, P, C), P, C)
<1> DEFINE N == Len(e.nodes)
           ns == remove_child(e.nodes, P, C)
           e1 == Over(e, ns)
           e2 == unlink(e, P, C)
<1>1. /\ e.nodes \in Seq(Slots) /\ e.disk_offset \in Seq(Nat)
      /\ Len(e.disk_offset) = N /\ N \in Nat
      /\ DOMAIN e.nodes = 1 .. N /\ Alive(e) \subseteq 1 .. N
      /\ \A i \in 1 .. N : IsLoaded(e.nodes[i]) => i \in Alive(e) /\ e.nodes[i] \in AnyNode
      /\ \A i \in Alive(e) : IsLoaded(e.nodes[i]) =>
            /\ Children(e.nodes[i]) \subseteq Alive(e) \ {r, i}
            /\ ~e.nodes[i].leaf =>
                  /\ e.nodes[i] \in InnerNode
                  /\ e.nodes[i].children # <<>> => Branches(e.nodes[i])
  BY SaneFacts
<1>2. ~e.nodes[P].leaf /\ e.nodes[P].children # <<>>
  <2>1. ~e.nodes[P].leaf
    BY DEF Children
  <2>2. Children(e.nodes[P]) = Range(e.nodes[P].children)
    BY <2>1 DEF Children
  <2>3. Range(<<>>) = {}
    BY DEF Range
  <2> QED BY <2>1, <2>2, <2>3
<1>3. e.nodes[P] \in InnerNode /\ Branches(e.nodes[P]) /\ C \in Alive(e) /\ C # P /\ C # r
  BY <1>1, <1>2
<1>4. P \in 1 .. N /\ C \in 1 .. N
  BY <1>1, <1>3
<1>5. Loses(e.nodes, P, C, ns)
  BY <1>1, <1>3, <1>4, RemoveLoses
<1> HIDE DEF ns
<1>6. PICK m \in InnerNode :
        /\ m.dirty /\ Children(m) = Children(e.nodes[P]) \ {C} /\ IsInjective(m.children)
        /\ Len(m.children) = Len(m.pivots) + 1 \/ (m.children = <<>> /\ m.pivots = <<>>)
        /\ ns = [e.nodes EXCEPT ![P] = m]
  BY <1>5, Zenon DEF Loses
<1>7. m \in AnyNode /\ ~m.leaf /\ m \in Slots
  BY DEF AnyNode, InnerNode, Slots
<1>8. /\ ns \in Seq(Slots) /\ Len(ns) = N
      /\ \A i \in 1 .. N : ns[i] = IF i = P THEN m ELSE e.nodes[i]
  BY <1>1, <1>4, <1>6, <1>7
<1>9. /\ e1.nodes = ns /\ e1.offsets = e.offsets /\ e1.disk_offset = e.disk_offset /\ IsEngine(e1)
  <2>1. Len(ns) = Len(e.nodes) /\ Len(ns) >= Len(e.nodes) /\ Len(e.disk_offset) = Len(e.nodes)
    BY <1>1, <1>8
  <2> QED BY <2>1, <1>1, <1>8, OverIs
<1>10. e2 = release_slot(e1, C)
  BY DEF unlink, ns
<1> HIDE DEF e1, e2
<1>11. IsLoaded(m) /\ m # Freed
  BY <1>7, SlotKinds
<1>12. Alive(e1) = Alive(e) \cup {P}
  BY <1>1, <1>4, <1>8, <1>9, <1>11 DEF Alive
<1>13. SlotsAdded(e, e1, {P})
  <2>1. \A i \in Alive(e) \ {P} : e1.nodes[i] = e.nodes[i]
    BY <1>1, <1>8, <1>9
  <2>2. \A i \in {P} \ Alive(e) : i \notin 1 .. Len(e.nodes)
    OBVIOUS
  <2>3. \A i \in 1 .. Len(e1.nodes) :
          e1.disk_offset[i] = IF i \in 1 .. Len(e.nodes) THEN e.disk_offset[i] ELSE NoRecord
    BY <1>8, <1>9
  <2>4. e1.nodes \in Seq(Slots) /\ e1.disk_offset \in Seq(Nat) /\ Len(e1.disk_offset) = Len(e1.nodes)
    BY <1>1, <1>8, <1>9
  <2> QED BY <2>1, <2>2, <2>3, <2>4, <1>9, <1>12, Zenon DEF SlotsAdded
<1>14. /\ SlotsFreed(e, e2, C, {P}) /\ IsEngine(e2) /\ e2.nodes = [ns EXCEPT ![C] = Freed]
  <2>1. Len(e.nodes) \in Nat /\ Len(e.nodes) <= Len(e1.nodes)
    BY <1>1, <1>8, <1>9
  <2>2. /\ SlotsFreed(e, release_slot(e1, C), C, {P}) /\ IsEngine(release_slot(e1, C))
        /\ release_slot(e1, C).nodes = [e1.nodes EXCEPT ![C] = Freed]
    BY <2>1, <1>3, <1>13, Releases
  <2> QED BY <2>2, <1>9, <1>10
<1>15. /\ e2.nodes[P] = m
       /\ \A i \in 1 .. N : i # P /\ i # C => e2.nodes[i] = e.nodes[i]
  BY <1>3, <1>4, <1>8, <1>14
<1>16. PICK rk, par, ft : SaneBy(e, rs, hr, r, X, F, rk, par, ft)
  BY DEF Sane
<1>17. KidsOf(e, rs, C) = {}
  BY <1>3, <1>16, SlotFacts
<1>18. WellFormed(e2.nodes[P], P, X2)
  BY <1>6, <1>7, <1>15 DEF WellFormed
<1>19. Sane(e2, rs, hr, r, X2, F)
  BY <1>6, <1>7, <1>14, <1>15, <1>16, <1>17, <1>18, Unlinks
<1>20. StillThere(e, e2, P, C)
  <2>1. Alive(e2) = (Alive(e) \cup {P}) \ {C}
    BY <1>14 DEF SlotsFreed
  <2>2. \A i \in Alive(e) \ {C} : i \in Alive(e2) /\ (i # P => e2.nodes[i] = e.nodes[i])
    BY <2>1, <1>1, <1>15
  <2> QED BY <2>2, <1>7, <1>11, <1>14, <1>15 DEF StillThere
<1> QED BY <1>19, <1>20 DEF e2


(* restore_root_with when the root has lost its last child: a new leaf     *)
(* takes its place.                                                        *)
LEMMA EmptyRoot ==
    ASSUME NEW e, IsEngine(e), NEW rs, NEW hr, NEW r, NEW X, NEW F, Sane(e, rs, hr, r, X, F),
           IsLoaded(e.nodes[r]), Children(e.nodes[r]) = {},
           NEW e2, e2 = release_slot(Over(e, Append(e.nodes, Leaf(Empty))), r)
    PROVE  /\ Sane(e2, rs, hr, Len(e.nodes) + 1, {}, F) /\ IsEngine(e2)
           /\ IsLoaded(e2.nodes[Len(e.nodes) + 1])
<1> DEFINE N == Len(e.nodes)
           ns == Append(e.nodes, Leaf(Empty))
           e1 == Over(e, ns)
<1>1. /\ e.nodes \in Seq(Slots) /\ e.disk_offset \in Seq(Nat)
      /\ Len(e.disk_offset) = N /\ N \in Nat /\ r \in Alive(e) /\ Alive(e) \subseteq 1 .. N
  BY SaneFacts
<1>2. Leaf(Empty) \in AnyNode /\ Leaf(Empty).leaf /\ Leaf(Empty).dirty
  <2>1. Empty \in Maps(Entries(Nat))
    BY EmptyMap
  <2> QED BY <2>1 DEF Leaf, AnyNode, LeafNode
<1>3. IsLoaded(Leaf(Empty)) /\ Leaf(Empty) # Freed /\ Leaf(Empty) \in Slots
  BY <1>2, SlotKinds DEF Slots
<1> HIDE DEF N
<1>4. ns \in Seq(Slots) /\ Len(ns) = N + 1 /\ ns[N + 1] = Leaf(Empty)
      /\ \A i \in 1 .. N : ns[i] = e.nodes[i]
  BY <1>1, <1>3 DEF N
<1> HIDE DEF ns
<1>5. /\ e1.nodes = ns /\ e1.offsets = e.offsets
      /\ e1.disk_offset \in Seq(Nat) /\ Len(e1.disk_offset) = Len(ns)
      /\ \A i \in 1 .. Len(ns) :
            e1.disk_offset[i] = IF i \in 1 .. Len(e.nodes) THEN e.disk_offset[i] ELSE NoRecord
  <2>1. Len(ns) >= Len(e.nodes) /\ Len(e.disk_offset) = Len(e.nodes)
    BY <1>1, <1>4 DEF N
  <2> QED BY <2>1, <1>1, <1>4, OverIs
<1>6. e2 = release_slot(e1, r)
  BY DEF ns
<1> HIDE DEF e1
<1>7. Alive(e1) = Alive(e) \cup {N + 1}
  <2>1. Len(e1.nodes) = N + 1 /\ N + 1 >= N /\ N + 1 \in Nat /\ N \in Nat
    BY <1>1, <1>4, <1>5
  <2>2. \A i \in {N + 1} : e1.nodes[i] # Freed
    BY <1>3, <1>4, <1>5
  <2>3. \A i \in 1 .. N : i \notin {N + 1} => e1.nodes[i] = e.nodes[i]
    BY <1>4, <1>5
  <2>4. \A i \in 1 .. (N + 1) : i \notin 1 .. N => i \in {N + 1}
    BY <1>1
  <2>5. {N + 1} \subseteq 1 .. (N + 1)
    BY <1>1
  <2>6. Len(e.nodes) = N
    BY DEF N
  <2> DEFINE T == {N + 1}
  <2> HIDE DEF T
  <2>7. /\ Len(e.nodes) \in Nat /\ Len(e1.nodes) \in Nat /\ Len(e1.nodes) >= Len(e.nodes)
        /\ \A i \in 1 .. Len(e.nodes) : i \notin T => e1.nodes[i] = e.nodes[i]
        /\ \A i \in 1 .. Len(e1.nodes) : i \notin 1 .. Len(e.nodes) => i \in T
        /\ T \subseteq 1 .. Len(e1.nodes) /\ \A i \in T : e1.nodes[i] # Freed
    BY <2>1, <2>2, <2>3, <2>4, <2>5, <2>6 DEF T
  <2>8. Alive(e1) = Alive(e) \cup T
    BY <2>7, AliveAfter
  <2> QED BY <2>8 DEF T
<1>8. SlotsAdded(e, e1, {N + 1})
  <2>1. \A i \in Alive(e) \ {N + 1} : e1.nodes[i] = e.nodes[i]
    BY <1>1, <1>4, <1>5
  <2>2. \A i \in {N + 1} \ Alive(e) : i \notin 1 .. Len(e.nodes)
    BY <1>1 DEF N
  <2>3. e1.nodes \in Seq(Slots) /\ Len(e1.disk_offset) = Len(e1.nodes)
    BY <1>4, <1>5
  <2> QED BY <2>1, <2>2, <2>3, <1>5, <1>7, Zenon DEF SlotsAdded
<1>9. SlotsFreed(e, e2, r, {N + 1}) /\ IsEngine(e2) /\ e2.nodes = [e1.nodes EXCEPT ![r] = Freed]
  <2>1. Len(e.nodes) \in Nat /\ Len(e.nodes) <= Len(e1.nodes)
    BY <1>1, <1>4, <1>5 DEF N
  <2>2. /\ SlotsFreed(e, release_slot(e1, r), r, {N + 1}) /\ IsEngine(release_slot(e1, r))
        /\ release_slot(e1, r).nodes = [e1.nodes EXCEPT ![r] = Freed]
    BY <2>1, <1>1, <1>8, Releases
  <2> QED BY <2>2, <1>6, Zenon
<1>10. e2.nodes[N + 1] = Leaf(Empty) /\ N + 1 \notin Alive(e)
  <2>1. N + 1 # r /\ N + 1 \in DOMAIN ns /\ N + 1 \notin Alive(e)
    BY <1>1, <1>4
  <2> QED BY <2>1, <1>4, <1>5, <1>9
<1>11. WellFormed(e2.nodes[N + 1], N + 1, {}) /\ e2.nodes[N + 1].leaf
  BY <1>2, <1>10 DEF WellFormed
<1>12. PICK rk, par, ft : SaneBy(e, rs, hr, r, X, F, rk, par, ft)
  BY DEF Sane
<1>13. KidsOf(e, rs, r) = {}
  BY <1>1, <1>12, SlotFacts
<1>14. Sane(e2, rs, hr, N + 1, {}, F)
  BY <1>9, <1>10, <1>11, <1>12, <1>13, Restarts
<1> QED BY <1>3, <1>9, <1>10, <1>14 DEF N

(* collapse: the root gives way to its only child.                         *)
LEMMA ShedRoot ==
    ASSUME NEW e, IsEngine(e), NEW rs, NEW hr, NEW r, NEW X, NEW F, Sane(e, rs, hr, r, X, F),
           IsLoaded(e.nodes[r]), ~e.nodes[r].leaf, Len(e.nodes[r].children) = 1,
           NEW X2, X \ {r} \subseteq X2, NEW e2, e2 = release_slot(e, r)
    PROVE  Sane(e2, rs, hr, e.nodes[r].children[1], X2, F) /\ IsEngine(e2)
<1> DEFINE c == e.nodes[r].children[1]
<1>1. /\ e.nodes \in Seq(Slots) /\ e.disk_offset \in Seq(Nat)
      /\ Len(e.disk_offset) = Len(e.nodes) /\ Len(e.nodes) \in Nat
      /\ r \in Alive(e) /\ Alive(e) \subseteq 1 .. Len(e.nodes)
  BY SaneFacts
<1>2. e.nodes[r] \in InnerNode
  BY <1>1, SaneFacts
<1>3. Children(e.nodes[r]) = {c}
  <2>1. e.nodes[r].leaf \in BOOLEAN /\ e.nodes[r].children \in Seq(Nat)
    BY <1>2 DEF InnerNode
  <2>2. Children(e.nodes[r]) = {e.nodes[r].children[j] : j \in 1 .. Len(e.nodes[r].children)}
    BY <2>1, ChildrenOf
  <2> QED BY <2>2
<1> HIDE DEF c
<1>4. SlotsAdded(e, e, {})
  <2>1. \A i \in 1 .. Len(e.nodes) :
          e.disk_offset[i] = IF i \in 1 .. Len(e.nodes) THEN e.disk_offset[i] ELSE NoRecord
    OBVIOUS
  <2> QED BY <2>1, <1>1 DEF SlotsAdded
<1>5. SlotsFreed(e, e2, r, {}) /\ IsEngine(e2)
  <2>1. Len(e.nodes) <= Len(e.nodes)
    BY <1>1
  <2> QED BY <2>1, <1>1, <1>4, Releases
<1>6. PICK rk, par, ft : SaneBy(e, rs, hr, r, X, F, rk, par, ft)
  BY DEF Sane
<1>7. KidsOf(e, rs, r) = {c}
  BY <1>1, <1>3, <1>6, SlotFacts
<1>8. Sane(e2, rs, hr, c, X2, F)
  BY <1>5, <1>6, <1>7, Sheds
<1> QED BY <1>5, <1>8 DEF c


(* A sequence with an element before it.                                   *)
LEMMA Prepended ==
    ASSUME NEW N \in Nat, NEW M \in Nat, NEW r \in 1 .. N,
           NEW b \in Seq(Nat), Len(b) = M, \A j \in 1 .. M : b[j] = N + j
    PROVE  /\ <<r>> \o b \in Seq(Nat) /\ Len(<<r>> \o b) = 1 + M
           /\ \A i \in 1 .. (1 + M) : (<<r>> \o b)[i] = IF i = 1 THEN r ELSE N + (i - 1)
<1> DEFINE a == <<r>>
           c == a \o b
<1>3. a \in Seq(Nat) /\ Len(a) = 1 /\ a[1] = r
  OBVIOUS
<1> HIDE DEF a
<1>4. /\ c \in Seq(Nat) /\ Len(c) = Len(a) + Len(b)
      /\ \A i \in 1 .. Len(a) + Len(b) : c[i] = IF i <= Len(a) THEN a[i] ELSE b[i - Len(a)]
  <2>1. a \in Seq(Nat) /\ b \in Seq(Nat)
    BY <1>3
  <2> QED BY <2>1, ConcatProperties, Zenon
<1> HIDE DEF c
<1>6. Len(c) = 1 + M /\ \A i \in 1 .. (1 + M) : c[i] = IF i = 1 THEN r ELSE N + (i - 1)
  <2>1. Len(c) = 1 + M
    BY <1>3, <1>4
  <2>2. ASSUME NEW i \in 1 .. (1 + M) PROVE c[i] = IF i = 1 THEN r ELSE N + (i - 1)
    <3>1. c[i] = IF i <= 1 THEN a[i] ELSE b[i - 1]
      BY <1>3, <1>4
    <3>2. CASE i = 1
      BY <3>1, <3>2, <1>3
    <3>3. CASE i # 1
      <4>1. ~(i <= 1) /\ i - 1 \in 1 .. M
        BY <3>3
      <4> QED BY <4>1, <3>1, <3>3
    <3> QED BY <3>2, <3>3
  <2> QED BY <2>1, <2>2
<1> QED BY <1>4, <1>6 DEF a, c

(* The node above the pieces of the old root.                              *)
OverPieces(p, c, r, N, M) ==
    /\ p \in Seq(Nat) /\ Len(p) = M /\ c \in Seq(Nat) /\ Len(c) = 1 + M
    /\ \A i \in 1 .. (1 + M) : c[i] = IF i = 1 THEN r ELSE N + (i - 1)

NewNode(n, S) == n \in InnerNode /\ Branches(n) /\ n.dirty /\ ~n.leaf /\ Children(n) = S

LEMMA TopNode ==
    ASSUME NEW N \in Nat, NEW M \in Nat, NEW r \in 1 .. N, NEW p, NEW c,
           OverPieces(p, c, r, N, M)
    PROVE  NewNode(Internal(p, c, Empty), {r} \cup ((N + 1) .. (N + M)))
<1> DEFINE top == Internal(p, c, Empty)
<1> USE DEF OverPieces
<1>7. Empty \in Maps(MessagesOf(Nat))
  BY EmptyMap
<1>8. top \in InnerNode /\ top.dirty /\ ~top.leaf /\ top.children = c /\ top.pivots = p
      /\ top.leaf \in BOOLEAN
  <2>1. \A x \in Maps(MessagesOf(Nat)) : \A y \in Seq(Nat) :
           /\ Internal(p, y, x) \in InnerNode /\ Internal(p, y, x).dirty /\ ~Internal(p, y, x).leaf
           /\ Internal(p, y, x).children = y /\ Internal(p, y, x).pivots = p
           /\ Internal(p, y, x).leaf \in BOOLEAN
    BY DEF Internal, InnerNode
  <2> QED BY <2>1, <1>7
<1> HIDE DEF top
<1>9. IsInjective(c)
  <2>1. DOMAIN c = 1 .. (1 + M)
    OBVIOUS
  <2> SUFFICES ASSUME NEW x \in 1 .. (1 + M), NEW y \in 1 .. (1 + M), c[x] = c[y] PROVE x = y
    BY <2>1 DEF IsInjective
  <2>2. c[x] = (IF x = 1 THEN r ELSE N + (x - 1)) /\ c[y] = (IF y = 1 THEN r ELSE N + (y - 1))
    OBVIOUS
  <2>5. \A z \in 1 .. (1 + M) : z # 1 => N + (z - 1) > N
    OBVIOUS
  <2>6. r <= N /\ r \in Int /\ N \in Int
    OBVIOUS
  <2>3. CASE x = 1
    <3>1. y # 1 => N + (y - 1) = r
      BY <2>2, <2>3, Zenon
    <3>2. y # 1 => r > N
      BY <3>1, <2>5
    <3> QED BY <3>2, <2>3, <2>6
  <2>4. CASE x # 1
    <3>1. y = 1 => N + (x - 1) = r
      BY <2>2, <2>4, Zenon
    <3>2. y = 1 => r > N
      BY <3>1, <2>4, <2>5
    <3>3. y # 1 => N + (x - 1) = N + (y - 1)
      BY <2>2, <2>4, Zenon
    <3>4. y # 1
      BY <3>2, <2>6
    <3>5. \A a, b \in 1 .. (1 + M) : N + (a - 1) = N + (b - 1) => a = b
      OBVIOUS
    <3> QED BY <3>3, <3>4, <3>5
  <2> QED BY <2>3, <2>4
<1>10. Branches(top)
  BY <1>8, <1>9 DEF Branches
<1>11. Children(top) = {c[i] : i \in 1 .. (1 + M)}
  <2>1. Children(top) = {c[i] : i \in 1 .. Len(c)}
    <3>1. top.leaf \in BOOLEAN /\ ~top.leaf /\ top.children \in Seq(Nat)
      BY <1>8
    <3>2. Children(top) = {top.children[j] : j \in 1 .. Len(top.children)}
      <4>1. Children(top) = Range(top.children)
        BY <3>1 DEF Children
      <4>2. DOMAIN top.children = 1 .. Len(top.children)
        BY <3>1
      <4> QED BY <4>1, <4>2, Zenon DEF Range
    <3> QED BY <3>2, <1>8
  <2> QED BY <2>1
<1>12. Children(top) = {r} \cup ((N + 1) .. (N + M))
  <2>1. ASSUME NEW i \in 1 .. (1 + M) PROVE c[i] \in {r} \cup ((N + 1) .. (N + M))
    OBVIOUS
  <2>2. ASSUME NEW x \in (N + 1) .. (N + M) PROVE x \in Children(top)
    <3>1. (x - N) + 1 \in 1 .. (1 + M) /\ (x - N) + 1 # 1 /\ N + (((x - N) + 1) - 1) = x
      OBVIOUS
    <3>2. c[(x - N) + 1] = x
      BY <3>1
    <3> QED BY <3>1, <3>2, <1>11
  <2>3. r \in Children(top)
    <3>1. 1 \in 1 .. (1 + M) /\ c[1] = r
      OBVIOUS
    <3> QED BY <3>1, <1>11
  <2> QED BY <2>1, <2>2, <2>3, <1>11
<1> QED BY <1>8, <1>10, <1>12 DEF NewNode, top

(* restore_root_with when the root has been split.                         *)
GrownRoot(e, r, sp, top, e2) ==
    /\ sp = split_if_needed(e.nodes, r) /\ sp.promoted # <<>>
    /\ top = Internal([j \in DOMAIN sp.promoted |-> sp.promoted[j][1]],
                      <<r>> \o [j \in DOMAIN sp.promoted |-> sp.promoted[j][2]], Empty)
    /\ e2 = Over(e, Append(sp.nodes, top))

LEMMA GrowRoot ==
    ASSUME NEW e, IsEngine(e), NEW rs, NEW hr, NEW r, NEW X, NEW F, Sane(e, rs, hr, r, X, F),
           IsLoaded(e.nodes[r]), ~Barren(e.nodes[r]), X \subseteq {r},
           NEW sp, NEW top, NEW e2, GrownRoot(e, r, sp, top, e2)
    PROVE  /\ Sane(e2, rs, hr, Len(sp.nodes) + 1, {}, F) /\ IsEngine(e2)
           /\ IsLoaded(e2.nodes[Len(sp.nodes) + 1]) /\ ~e2.nodes[Len(sp.nodes) + 1].leaf
<1> DEFINE N == Len(e.nodes)
<1>1. /\ e.nodes \in Seq(Slots) /\ e.disk_offset \in Seq(Nat)
      /\ Len(e.disk_offset) = N /\ N \in Nat /\ r \in Alive(e)
      /\ DOMAIN e.nodes = 1 .. N /\ Alive(e) \subseteq 1 .. N
      /\ \A i \in 1 .. N : IsLoaded(e.nodes[i]) => i \in Alive(e) /\ e.nodes[i] \in AnyNode
      /\ \A i \in Alive(e) : IsLoaded(e.nodes[i]) =>
            (~e.nodes[i].leaf => (e.nodes[i].children # <<>> => Branches(e.nodes[i])))
  BY SaneFacts
<1>2. e.nodes[r] \in AnyNode /\ Branches(e.nodes[r]) /\ r \in 1 .. N
  <2>1. r \in 1 .. N
    BY <1>1
  <2>2. e.nodes[r].leaf \/ e.nodes[r].children # <<>>
    BY DEF Barren
  <2> QED BY <2>1, <2>2, <1>1 DEF Branches
<1>3. Overfull(e.nodes[r])
  <2> SUFFICES ASSUME ~Overfull(e.nodes[r]) PROVE FALSE
    OBVIOUS
  <2> QED BY DEF split_if_needed, GrownRoot
<1>4. PICK s, seps : SplitsInto(e.nodes, r, s, seps)
  BY <1>2, <1>3, SplitsUp
<1>5. /\ Len(s) \in Nat /\ Len(s) >= 2 /\ s \in Seq(AnyNode)
      /\ seps \in Seq(Nat) /\ Len(seps) = Len(s) - 1
  BY <1>4 DEF SplitsInto, CutsUp
<1> DEFINE M == Len(s) - 1
           New == (N + 1) .. (N + M)
           R == N + M + 1
<1>6. sp = Split(e.nodes, r, s, seps)
  BY <1>4 DEF SplitsInto, GrownRoot
<1>7. SplitArena(e.nodes, r, s, N, sp.nodes)
  <2>1. r \in 1 .. Len(e.nodes)
    BY <1>2
  <2>2. SplitArena(e.nodes, r, s, Len(e.nodes), Split(e.nodes, r, s, seps).nodes)
    BY <2>1, <1>1, <1>5, SplitSlots
  <2> QED BY <2>2, <1>6
<1>8. M \in Nat /\ M >= 1 /\ DOMAIN seps = 1 .. M
  BY <1>5
<1>9. sp.promoted = [j \in 1 .. M |-> <<seps[j], N + j>>]
  <2> HIDE DEF M
  <2>1. sp.promoted = [j \in DOMAIN seps |-> <<seps[j], Len(e.nodes) + j>>]
    BY <1>6 DEF Split
  <2> QED BY <2>1, <1>8
<1> HIDE DEF N, M
<1>10. /\ sp.nodes \in Seq(Slots) /\ Len(sp.nodes) = N + M
       /\ \A i \in 1 .. N : sp.nodes[i] = IF i = r THEN s[1] ELSE e.nodes[i]
       /\ \A k \in 2 .. Len(s) : sp.nodes[N + (k - 1)] = s[k]
  BY <1>7 DEF SplitArena, M
<1>11. /\ top \in InnerNode /\ Branches(top) /\ top.dirty /\ ~top.leaf
       /\ Children(top) = {r} \cup New
  <2> DEFINE p == [j \in 1 .. M |-> seps[j]]
             b == [j \in 1 .. M |-> N + j]
  <2>1. DOMAIN sp.promoted = 1 .. M
    BY <1>9
  <2>2. [j \in DOMAIN sp.promoted |-> sp.promoted[j][1]] = p
    BY <2>1, <1>9
  <2>3. [j \in DOMAIN sp.promoted |-> sp.promoted[j][2]] = b
    BY <2>1, <1>9
  <2>4. top = Internal(p, <<r>> \o b, Empty)
    BY <2>2, <2>3 DEF GrownRoot
  <2>5. p \in [1 .. M -> Nat]
    BY <1>5, <1>8
  <2>6. b \in [1 .. M -> Nat] /\ \A j \in 1 .. M : b[j] = N + j
    BY <1>1
  <2> HIDE DEF p, b, New
  <2>7. p \in Seq(Nat) /\ Len(p) = M
    BY <2>5, <1>8, SMTT(20)
  <2>8. b \in Seq(Nat) /\ Len(b) = M
    BY <2>6, <1>8, SMTT(20)
  <2> DEFINE c == <<r>> \o b
  <2>9. N \in Nat /\ M \in Nat /\ r \in 1 .. N
    BY <1>1, <1>2, <1>8
  <2>10. /\ c \in Seq(Nat) /\ Len(c) = 1 + M
         /\ \A i \in 1 .. (1 + M) : c[i] = IF i = 1 THEN r ELSE N + (i - 1)
    <3>1. \A j \in 1 .. M : b[j] = N + j
      BY <2>6
    <3>2. /\ <<r>> \o b \in Seq(Nat) /\ Len(<<r>> \o b) = 1 + M
          /\ \A i \in 1 .. (1 + M) : (<<r>> \o b)[i] = IF i = 1 THEN r ELSE N + (i - 1)
      <4> HIDE DEF c
      <4> QED BY <3>1, <2>8, <2>9, Prepended
    <3> QED BY <3>2
  <2> HIDE DEF c
  <2>11. /\ top \in InnerNode /\ Branches(top) /\ top.dirty /\ ~top.leaf
        /\ Children(top) = {r} \cup ((N + 1) .. (N + M))
    <3>1. top = Internal(p, c, Empty)
      BY <2>4 DEF c
    <3>2. OverPieces(p, c, r, N, M)
      BY <2>7, <2>10 DEF OverPieces
    <3>3. NewNode(Internal(p, c, Empty), {r} \cup ((N + 1) .. (N + M)))
      BY <3>2, <2>9, TopNode
    <3> QED BY <3>1, <3>3, Zenon DEF NewNode
  <2> QED BY <2>11 DEF New
<1>12. top \in AnyNode /\ top \in Slots /\ IsLoaded(top) /\ top # Freed
  BY <1>11, SlotKinds DEF AnyNode, Slots
<1> DEFINE ns2 == Append(sp.nodes, top)
<1>13. /\ ns2 \in Seq(Slots) /\ Len(ns2) = R /\ ns2[R] = top
       /\ \A i \in 1 .. (N + M) : ns2[i] = sp.nodes[i]
  <2>1. N + M \in Nat
    BY <1>1, <1>8
  <2> QED BY <2>1, <1>10, <1>12
<1> HIDE DEF ns2
<1>14. /\ e2.nodes = ns2 /\ e2.offsets = e.offsets /\ e2.disk_offset \in Seq(Nat)
       /\ Len(e2.disk_offset) = Len(e2.nodes) /\ IsEngine(e2)
       /\ \A i \in 1 .. Len(e2.nodes) :
             e2.disk_offset[i] = IF i \in 1 .. Len(e.nodes) THEN e.disk_offset[i] ELSE NoRecord
  <2>1. Len(ns2) >= Len(e.nodes) /\ Len(e.disk_offset) = Len(e.nodes)
    BY <1>1, <1>8, <1>13 DEF N
  <2>2. e2 = Over(e, ns2)
    BY DEF ns2, GrownRoot
  <2>3. /\ Over(e, ns2).nodes = ns2 /\ Over(e, ns2).offsets = e.offsets
        /\ Over(e, ns2).disk_offset \in Seq(Nat) /\ Len(Over(e, ns2).disk_offset) = Len(ns2)
        /\ \A i \in 1 .. Len(ns2) :
              Over(e, ns2).disk_offset[i] = IF i \in 1 .. Len(e.nodes) THEN e.disk_offset[i]
                                            ELSE NoRecord
        /\ IsEngine(Over(e, ns2))
    BY <2>1, <1>1, <1>13, OverIs
  <2> QED BY <2>2, <2>3, Zenon
<1>15. /\ e2.nodes[R] = top /\ e2.nodes[r] = s[1]
       /\ \A i \in 1 .. N : i # r => e2.nodes[i] = e.nodes[i]
       /\ \A k \in 2 .. Len(s) : e2.nodes[N + (k - 1)] = s[k]
  <2>1. \A i \in 1 .. N : i \in 1 .. (N + M)
    BY <1>1, <1>8
  <2>2. \A k \in 2 .. Len(s) : N + (k - 1) \in 1 .. (N + M)
    BY <1>1, <1>5 DEF M
  <2> QED BY <2>1, <2>2, <1>2, <1>10, <1>13, <1>14
<1>16. PiecesIn(e, e2, r, New) /\ \A i \in {r} \cup New : e2.nodes[i] \in AnyNode
  <2>1. /\ PiecesIn(e, e2, r, (N + 1) .. (N + (Len(s) - 1)))
        /\ \A i \in {r} \cup ((N + 1) .. (N + (Len(s) - 1))) : e2.nodes[i] \in AnyNode
    <3> HIDE DEF New, R
    <3>1. N \in Nat /\ r \in 1 .. N /\ e2.nodes[r] = s[1]
      BY <1>1, <1>2, <1>15
    <3>2. \A k \in 2 .. Len(s) : e2.nodes[N + (k - 1)] = s[k]
      BY <1>15
    <3> QED BY <3>1, <3>2, <1>4, PiecesPlaced
  <2> QED BY <2>1 DEF M
<1>17. /\ New \cap Alive(e) = {} /\ R \notin Alive(e) \cup New /\ \A i \in New \cup {R} : i \notin 1 .. N
       /\ R \in Nat
  BY <1>1, <1>8
<1>18. Alive(e2) = Alive(e) \cup ({r, R} \cup New)
  <2> DEFINE T == {r, R} \cup New
  <2>1. \A i \in 1 .. N : i \notin T => e2.nodes[i] = e.nodes[i]
    BY <1>15
  <2>2. \A i \in 1 .. R : i \notin 1 .. N => i \in T
    BY <1>1, <1>8
  <2>3. T \subseteq 1 .. R
    BY <1>1, <1>2, <1>8
  <2>4. R \in Nat /\ R >= N
    BY <1>1, <1>8
  <2>5. Len(e2.nodes) = R
    BY <1>13, <1>14
  <2> HIDE DEF T, R
  <2>6. \A i \in T : e2.nodes[i] # Freed
    BY <1>12, <1>15, <1>16, SlotKinds DEF T
  <2>7. Alive(e2) = Alive(e) \cup T
    <3>1. /\ Len(e.nodes) \in Nat /\ Len(e2.nodes) \in Nat /\ Len(e2.nodes) >= Len(e.nodes)
          /\ \A i \in 1 .. Len(e.nodes) : i \notin T => e2.nodes[i] = e.nodes[i]
          /\ \A i \in 1 .. Len(e2.nodes) : i \notin 1 .. Len(e.nodes) => i \in T
          /\ T \subseteq 1 .. Len(e2.nodes)
      <4>1. Len(e.nodes) = N /\ N \in Nat
        BY <1>1 DEF N
      <4>2. Len(e2.nodes) \in Nat /\ Len(e2.nodes) >= Len(e.nodes)
        BY <2>4, <2>5, <4>1
      <4>3. /\ \A i \in 1 .. Len(e.nodes) : i \notin T => e2.nodes[i] = e.nodes[i]
            /\ T \subseteq 1 .. Len(e2.nodes)
        BY <2>1, <2>3, <2>5, <4>1, Zenon
      <4>4. \A i \in 1 .. Len(e2.nodes) : i \notin 1 .. Len(e.nodes) => i \in T
        BY <2>2, <2>5, <4>1, Zenon
      <4> QED BY <4>1, <4>2, <4>3, <4>4, Zenon
    <3> QED BY <3>1, <2>6, AliveAfter
  <2> QED BY <2>7 DEF T
<1>19. SlotsAdded(e, e2, {r, R} \cup New)
  <2>1. e2.nodes \in Seq(Slots)
    BY <1>13, <1>14
  <2>2. \A i \in ({r, R} \cup New) \ Alive(e) : i \notin 1 .. Len(e.nodes)
    BY <1>1, <1>17 DEF N
  <2>3. \A i \in Alive(e) \ ({r, R} \cup New) : e2.nodes[i] = e.nodes[i]
    BY <1>15, <1>1
  <2> HIDE DEF New, R
  <2> QED BY <2>1, <2>2, <2>3, <1>14, <1>18, Zenon DEF SlotsAdded
<1> HIDE DEF New
<1>20. ParentFits(e, e2, r, New, R, r, R)
  <2>1. WellFormed(e2.nodes[R], R, {}) /\ ~e2.nodes[R].leaf
    BY <1>11, <1>12, <1>15 DEF WellFormed, Branches
  <2> HIDE DEF R
  <2> QED BY <2>1, <1>11, <1>15, <1>17, Zenon DEF ParentFits
<1>21. PICK rk, par, ft : SaneBy(e, rs, hr, r, X, F, rk, par, ft)
  BY DEF Sane
<1> HIDE DEF R
<1>22. Sane(e2, rs, hr, R, {}, F)
  <2>1. X \ {r, R} \subseteq {} /\ IsLoaded(e.nodes[r]) /\ r \in Alive(e) /\ New \cap Alive(e) = {}
    BY <1>1, <1>17
  <2> QED BY <2>1, <1>1, <1>16, <1>17, <1>19, <1>20, <1>21, Divides
<1>23. Len(sp.nodes) + 1 = R
  BY <1>1, <1>8, <1>10 DEF R
<1> QED BY <1>11, <1>12, <1>14, <1>15, <1>22, <1>23, Zenon


(* apply_batch and extract, without regard to the keys.                    *)
LEMMA AppliedNode ==
    ASSUME NEW n \in AnyNode, NEW batch \in Maps(MessagesOf(Nat))
    PROVE  LET m == Applied(n, batch)
           IN /\ m \in AnyNode /\ m.dirty /\ (m.leaf <=> n.leaf)
              /\ ~m.leaf => m.children = n.children /\ m.pivots = n.pivots
<1> DEFINE m == Applied(n, batch)
<1>1. CASE n.leaf
  <2>1. n \in LeafNode
    BY <1>1, SlotKinds
  <2>2. NodeOk(n) /\ ~Barren(n)
    BY <2>1, <1>1 DEF NodeOk, Barren
  <2>3. NodeOk(m) /\ (m.leaf <=> n.leaf)
    BY <2>2, AppliedShape DEF AppliedTo
  <2>4. m \in AnyNode
    BY <2>3 DEF NodeOk, AnyNode
  <2>5. m = [n EXCEPT !.entries = apply_to_leaf(n.entries, batch), !.dirty = TRUE]
    BY <1>1 DEF Applied
  <2>6. m.dirty
    BY <2>1, <2>5 DEF LeafNode
  <2> HIDE DEF m
  <2>7. m.leaf
    BY <2>3, <1>1
  <2> QED BY <2>3, <2>4, <2>6, <2>7, <1>1 DEF m
<1>2. CASE ~n.leaf
  <2>1. n \in InnerNode
    BY <1>2, SlotKinds
  <2>2. n.buffer \in Maps(MessagesOf(Nat)) /\ n.pivots \in Seq(Nat) /\ n.children \in Seq(Nat)
    BY <2>1 DEF InnerNode
  <2> DEFINE z == Internal(<<>>, <<1>>, n.buffer)
             b == coalesce_into(n.buffer, batch)
  <2>3. /\ z \in InnerNode /\ ~z.leaf /\ z.pivots = <<>> /\ z.children = <<1>>
        /\ z.buffer = n.buffer
    BY <2>2 DEF Internal, InnerNode
  <2>4. Len(<<>>) = 0 /\ Len(<<1>>) = 1 /\ Sorted(<<>>) /\ <<1>> # <<>>
    BY DEF Sorted
  <2> HIDE DEF z
  <2>5. NodeOk(z) /\ ~Barren(z)
    BY <2>3, <2>4 DEF NodeOk, Barren
  <2>6. NodeOk(Applied(z, batch)) /\ ~Applied(z, batch).leaf
    BY <2>3, <2>5, AppliedShape DEF AppliedTo
  <2>7. Applied(z, batch) = [z EXCEPT !.buffer = b, !.dirty = TRUE]
    BY <2>3 DEF Applied
  <2>8. Applied(z, batch).buffer = b
    BY <2>3, <2>7 DEF InnerNode
  <2>9. Applied(z, batch) \in InnerNode
    BY <2>6, SlotKinds DEF NodeOk, AnyNode
  <2>10. b \in Maps(MessagesOf(Nat))
    BY <2>8, <2>9 DEF InnerNode
  <2>11. m = [n EXCEPT !.buffer = b, !.dirty = TRUE]
    BY <1>2 DEF Applied
  <2> HIDE DEF m, b
  <2>12. m \in InnerNode /\ m.dirty /\ ~m.leaf /\ m.children = n.children /\ m.pivots = n.pivots
    BY <2>1, <2>10, <2>11 DEF InnerNode
  <2> QED BY <2>12, <1>2 DEF m, AnyNode
<1> QED BY <1>1, <1>2

(* A change of one loaded node's contents.                                 *)
LEMMA ContentsChange ==
    ASSUME NEW e, IsEngine(e), NEW rs, NEW hr, NEW r, NEW X, NEW F, Sane(e, rs, hr, r, X, F),
           NEW i \in Alive(e), IsLoaded(e.nodes[i]),
           NEW m \in AnyNode, m.leaf <=> e.nodes[i].leaf, m.dirty,
           ~m.leaf => m.children = e.nodes[i].children /\ m.pivots = e.nodes[i].pivots
    PROVE  LET e2 == Over(e, [e.nodes EXCEPT ![i] = m])
           IN /\ Sane(e2, rs, hr, r, X, F) /\ IsEngine(e2) /\ Alive(e2) = Alive(e)
              /\ e2.nodes = [e.nodes EXCEPT ![i] = m]
              /\ \A j \in Alive(e) : e2.nodes[j] = IF j = i THEN m ELSE e.nodes[j]
<1> DEFINE ns == [e.nodes EXCEPT ![i] = m]
           e2 == Over(e, ns)
<1>1. /\ e.nodes \in Seq(Slots) /\ e.disk_offset \in Seq(Nat)
      /\ Len(e.disk_offset) = Len(e.nodes) /\ Len(e.nodes) \in Nat
      /\ Alive(e) \subseteq 1 .. Len(e.nodes)
  BY SaneFacts
<1>2. m \in Slots /\ i \in 1 .. Len(e.nodes)
  BY <1>1 DEF Slots
<1>3. ns \in Seq(Slots) /\ Len(ns) = Len(e.nodes) /\ Len(ns) >= Len(e.nodes)
      /\ \A j \in 1 .. Len(e.nodes) : ns[j] = IF j = i THEN m ELSE e.nodes[j]
  BY <1>1, <1>2
<1> HIDE DEF ns
<1>4. e2.nodes = ns /\ e2.offsets = e.offsets /\ e2.disk_offset = e.disk_offset /\ IsEngine(e2)
  BY <1>1, <1>3, OverIs
<1> HIDE DEF e2
<1>5. PICK rk, par, ft : SaneBy(e, rs, hr, r, X, F, rk, par, ft)
  BY DEF Sane
<1>6. SaneBy(e2, rs, hr, r, X, F, rk, par, ft) /\ Alive(e2) = Alive(e)
  <2>1. e2.nodes = [e.nodes EXCEPT ![i] = m]
    BY <1>4 DEF ns
  <2> QED BY <2>1, <1>4, <1>5, Touched
<1>7. Sane(e2, rs, hr, r, X, F)
  BY <1>6, Zenon DEF Sane
<1>8. \A j \in Alive(e) : e2.nodes[j] = IF j = i THEN m ELSE e.nodes[j]
  BY <1>1, <1>3, <1>4
<1> QED BY <1>4, <1>6, <1>7, <1>8 DEF e2, ns

(* apply_root and apply_batch.                                             *)
Changed(e, e2, i) ==
    /\ IsEngine(e2) /\ Alive(e2) = Alive(e)
    /\ \A j \in Alive(e) \ {i} : e2.nodes[j] = e.nodes[j]
    /\ IsLoaded(e2.nodes[i]) /\ (e2.nodes[i].leaf <=> e.nodes[i].leaf)
    /\ Children(e2.nodes[i]) = Children(e.nodes[i])
    /\ ~e.nodes[i].leaf => e2.nodes[i].children = e.nodes[i].children

LEMMA DeliverKeeps ==
    ASSUME NEW e, IsEngine(e), NEW rs, NEW hr, NEW r, NEW X, NEW F, Sane(e, rs, hr, r, X, F),
           NEW i \in Alive(e), IsLoaded(e.nodes[i]), NEW batch \in Maps(MessagesOf(Nat))
    PROVE  Sane(Deliver1(e, i, batch), rs, hr, r, X, F) /\ Changed(e, Deliver1(e, i, batch), i)
<1> DEFINE n == e.nodes[i]
           m == Applied(n, batch)
           e2 == Over(e, [e.nodes EXCEPT ![i] = m])
<1>1. n \in AnyNode
  BY SaneFacts
<1>2. /\ m \in AnyNode /\ m.dirty /\ (m.leaf <=> n.leaf)
      /\ ~m.leaf => m.children = n.children /\ m.pivots = n.pivots
  BY <1>1, AppliedNode
<1>3. Deliver1(e, i, batch) = e2
  BY DEF Deliver1, apply_batch, Applied
<1> HIDE DEF m
<1>4. /\ Sane(e2, rs, hr, r, X, F) /\ IsEngine(e2) /\ Alive(e2) = Alive(e)
      /\ \A j \in Alive(e) : e2.nodes[j] = IF j = i THEN m ELSE e.nodes[j]
  BY <1>2, ContentsChange
<1> HIDE DEF e2
<1>5. Changed(e, e2, i)
  <2>1. e2.nodes[i] = m /\ IsLoaded(m)
    BY <1>2, <1>4, SlotKinds
  <2>2. Children(m) = Children(n)
    BY <1>2 DEF Children
  <2> QED BY <2>1, <2>2, <1>2, <1>4 DEF Changed
<1> QED BY <1>3, <1>4, <1>5

(* pick_and_extract.                                                       *)
LEMMA ExtractKeeps ==
    ASSUME NEW e, IsEngine(e), NEW rs, NEW hr, NEW r, NEW X, NEW F, Sane(e, rs, hr, r, X, F),
           NEW i \in Alive(e), IsLoaded(e.nodes[i]), ~e.nodes[i].leaf, NEW j
    PROVE  /\ Sane(pick_and_extract(e, i, j), rs, hr, r, X, F)
           /\ Changed(e, pick_and_extract(e, i, j), i)
           /\ Restrict(e.nodes[i].buffer, Pending(e.nodes[i], j)) \in Maps(MessagesOf(Nat))
<1> DEFINE n == e.nodes[i]
           b == Restrict(n.buffer, DOMAIN n.buffer \ Pending(n, j))
           m == [n EXCEPT !.buffer = b, !.dirty = TRUE]
           e2 == Over(e, [e.nodes EXCEPT ![i] = m])
<1>1. n \in InnerNode /\ i \in 1 .. Len(e.nodes) /\ e.nodes \in Seq(Slots)
  BY SaneFacts
<1>2. n.buffer \in Maps(MessagesOf(Nat))
  BY <1>1 DEF InnerNode
<1>3. b \in Maps(MessagesOf(Nat)) /\ Restrict(n.buffer, Pending(n, j)) \in Maps(MessagesOf(Nat))
  <2>1. Pending(n, j) \subseteq DOMAIN n.buffer
    BY DEF Pending
  <2> QED BY <2>1, <1>2, MapPart
<1> HIDE DEF b
<1>4. m \in AnyNode /\ m.dirty /\ ~m.leaf /\ m.children = n.children /\ m.pivots = n.pivots
  BY <1>1, <1>3 DEF InnerNode, AnyNode
<1>5. pick_and_extract(e, i, j) = e2
  BY <1>1 DEF pick_and_extract, extract, b, InnerNode
<1> HIDE DEF m
<1>6. /\ Sane(e2, rs, hr, r, X, F) /\ IsEngine(e2) /\ Alive(e2) = Alive(e)
      /\ \A k \in Alive(e) : e2.nodes[k] = IF k = i THEN m ELSE e.nodes[k]
  BY <1>4, ContentsChange
<1> HIDE DEF e2
<1>7. Changed(e, e2, i)
  <2>1. e2.nodes[i] = m /\ IsLoaded(m)
    BY <1>4, <1>6, SlotKinds
  <2>2. Children(m) = Children(n)
    BY <1>4 DEF Children
  <2> QED BY <2>1, <2>2, <1>4, <1>6 DEF Changed
<1> QED BY <1>3, <1>5, <1>6, <1>7


-----------------------------------------------------------------------------
(* The order in which a commit writes                                      *)

(* What collect_dirty finds below the children of node i, and at i.        *)
DirtyBelow(ns, i, f) == [j \in DOMAIN ns[i].children |-> f[Reverse(ns[i].children)[j]]]

DirtyAt(ns, i, f) ==
    IF ~is_dirty(ns[i]) THEN <<>>
    ELSE <<i>> \o (IF ns[i].leaf THEN <<>> ELSE FlattenSeq(DirtyBelow(ns, i, f)))

(* Dirty nodes are higher than their children.                             *)
Layered(ns, rk, H) ==
    /\ rk \in [DOMAIN ns -> Nat] /\ \A i \in DOMAIN ns : rk[i] <= H
    /\ \A i \in DOMAIN ns : is_dirty(ns[i]) /\ ~ns[i].leaf =>
          /\ ns[i].children \in Seq(DOMAIN ns)
          /\ \A j \in 1 .. Len(ns[i].children) : rk[ns[i].children[j]] < rk[i]

LEMMA BelowIs ==
    ASSUME NEW ns, NEW rk, NEW H, Layered(ns, rk, H), NEW i \in DOMAIN ns,
           is_dirty(ns[i]), ~ns[i].leaf, NEW T, NEW f \in [DOMAIN ns -> Seq(T)]
    PROVE  /\ DirtyBelow(ns, i, f) \in Seq(Seq(T))
           /\ Len(DirtyBelow(ns, i, f)) = Len(ns[i].children)
           /\ \A j \in 1 .. Len(ns[i].children) :
                 \E k \in 1 .. Len(ns[i].children) : DirtyBelow(ns, i, f)[j] = f[ns[i].children[k]]
           /\ \A k \in 1 .. Len(ns[i].children) :
                 \E j \in 1 .. Len(ns[i].children) : DirtyBelow(ns, i, f)[j] = f[ns[i].children[k]]
<1> DEFINE s == ns[i].children
           t == Reverse(s)
           b == DirtyBelow(ns, i, f)
<1>1. s \in Seq(DOMAIN ns)
  BY DEF Layered
<1>2. /\ t \in Seq(DOMAIN ns) /\ Len(t) = Len(s)
      /\ \A j \in 1 .. Len(s) : /\ Len(s) - j + 1 \in 1 .. Len(s)
                                /\ t[j] = s[Len(s) - j + 1] /\ t[Len(s) - j + 1] = s[j]
  BY <1>1, Reversed
<1>3. b = [j \in 1 .. Len(s) |-> f[t[j]]]
  BY <1>1 DEF DirtyBelow
<1> HIDE DEF b, t, s
<1>4. \A j \in 1 .. Len(s) : t[j] \in DOMAIN ns
  BY <1>2
<1>5. b \in [1 .. Len(s) -> Seq(T)] /\ Len(s) \in Nat
  BY <1>1, <1>3, <1>4
<1>6. \A j \in 1 .. Len(s) : b[j] = f[t[j]]
  BY <1>3
<1>7. b \in Seq(Seq(T)) /\ Len(b) = Len(s)
  BY <1>5, SMTT(20)
<1>8. ASSUME NEW j \in 1 .. Len(s) PROVE \E k \in 1 .. Len(s) : b[j] = f[s[k]]
  <2>1. Len(s) - j + 1 \in 1 .. Len(s) /\ t[j] = s[Len(s) - j + 1]
    BY <1>2, Zenon
  <2>2. b[j] = f[s[Len(s) - j + 1]]
    BY <2>1, <1>6, Zenon
  <2> QED BY <2>1, <2>2, Zenon
<1>9. ASSUME NEW k \in 1 .. Len(s) PROVE \E j \in 1 .. Len(s) : b[j] = f[s[k]]
  <2>1. Len(s) - k + 1 \in 1 .. Len(s) /\ t[Len(s) - k + 1] = s[k]
    BY <1>2
  <2>2. b[Len(s) - k + 1] = f[s[k]]
    BY <2>1, <1>6
  <2> QED BY <2>1, <2>2
<1> QED BY <1>7, <1>8, <1>9 DEF b, s


(* Dirty meets its definition.                                             *)
LEMMA DirtyMeets ==
    ASSUME NEW ns, NEW rk, NEW H \in Nat, Layered(ns, rk, H)
    PROVE  \E f \in [DOMAIN ns -> Seq(DOMAIN ns)] :
              \A i \in DOMAIN ns : f[i] = DirtyAt(ns, i, f) /\ Dirty(ns, i) = f[i]
<1> DEFINE D == DOMAIN ns
           V == Seq(D)
           G(f) == [i \in D |-> DirtyAt(ns, i, f)]
<1>1. rk \in [D -> Nat] /\ \A i \in D : rk[i] <= H
  BY DEF Layered
<1>2. ASSUME NEW i \in D, NEW f \in [D -> V] PROVE DirtyAt(ns, i, f) \in V
  <2>1. CASE ~is_dirty(ns[i])
    BY <2>1 DEF DirtyAt
  <2>2. CASE is_dirty(ns[i]) /\ ns[i].leaf
    <3>1. DirtyAt(ns, i, f) = <<i>> \o <<>>
      BY <2>2 DEF DirtyAt
    <3> QED BY <3>1
  <2>3. CASE is_dirty(ns[i]) /\ ~ns[i].leaf
    <3>1. DirtyBelow(ns, i, f) \in Seq(V)
      BY <2>3, BelowIs
    <3>2. FlattenSeq(DirtyBelow(ns, i, f)) \in V
      BY <3>1, FlattenTyped
    <3>3. DirtyAt(ns, i, f) = <<i>> \o FlattenSeq(DirtyBelow(ns, i, f))
      BY <2>3 DEF DirtyAt
    <3>4. <<i>> \in V
      OBVIOUS
    <3> HIDE DEF D
    <3> QED BY <3>2, <3>3, <3>4
  <2> QED BY <2>1, <2>2, <2>3
<1>3. ASSUME NEW i \in D, NEW f, NEW g, \A c \in D : rk[c] < rk[i] => f[c] = g[c]
      PROVE  DirtyAt(ns, i, f) = DirtyAt(ns, i, g)
  <2>1. CASE ~is_dirty(ns[i]) \/ ns[i].leaf
    BY <2>1 DEF DirtyAt
  <2>2. CASE is_dirty(ns[i]) /\ ~ns[i].leaf
    <3> DEFINE s == ns[i].children
               t == Reverse(s)
    <3>1. s \in Seq(D) /\ \A j \in 1 .. Len(s) : rk[s[j]] < rk[i]
      BY <2>2 DEF Layered
    <3>2. /\ t \in Seq(D) /\ Len(t) = Len(s)
          /\ \A j \in 1 .. Len(s) : Len(s) - j + 1 \in 1 .. Len(s) /\ t[j] = s[Len(s) - j + 1]
      <4> HIDE DEF s, D
      <4> QED BY <3>1, Reversed
    <3>3. ASSUME NEW j \in 1 .. Len(s) PROVE f[t[j]] = g[t[j]]
      <4>1. Len(s) - j + 1 \in 1 .. Len(s) /\ t[j] = s[Len(s) - j + 1]
        BY <3>2
      <4>2. s[Len(s) - j + 1] \in D /\ rk[s[Len(s) - j + 1]] < rk[i]
        BY <4>1, <3>1
      <4> QED BY <4>1, <4>2, <1>3
    <3>4. DOMAIN s = 1 .. Len(s)
      BY <3>1
    <3>5. [j \in DOMAIN s |-> f[t[j]]] = [j \in DOMAIN s |-> g[t[j]]]
      BY <3>3, <3>4
    <3>6. DirtyBelow(ns, i, f) = DirtyBelow(ns, i, g)
      BY <3>5, Zenon DEF DirtyBelow
    <3> QED BY <3>6, <2>2 DEF DirtyAt
  <2> QED BY <2>1, <2>2
<1>4. PICK h \in [D -> V] : h = G(h)
  <2> DEFINE F == [x \in D \X [D -> V] |-> DirtyAt(ns, x[1], x[2])]
  <2>1. F \in [D \X [D -> V] -> V]
    <3>1. ASSUME NEW x \in D \X [D -> V] PROVE DirtyAt(ns, x[1], x[2]) \in V
      <4>1. x[1] \in D /\ x[2] \in [D -> V]
        OBVIOUS
      <4> HIDE DEF D, V
      <4> QED BY <4>1, <1>2, Zenon
    <3> HIDE DEF D, V
    <3> QED BY <3>1
  <2>2. ASSUME NEW i \in D, NEW f \in [D -> V]
        PROVE  F[<<i, f>>] = DirtyAt(ns, i, f)
    <3>1. <<i, f>> \in D \X [D -> V] /\ <<i, f>>[1] = i /\ <<i, f>>[2] = f
      OBVIOUS
    <3> QED BY <3>1, Zenon
  <2> HIDE DEF F
  <2>3. ASSUME NEW i \in D, NEW f \in [D -> V], NEW g \in [D -> V],
               \A c \in D : rk[c] < rk[i] => f[c] = g[c]
        PROVE  F[<<i, f>>] = F[<<i, g>>]
    <3>1. DirtyAt(ns, i, f) = DirtyAt(ns, i, g)
      BY <1>3, <2>3
    <3> QED BY <3>1, <2>2, Zenon
  <2>4. <<>> \in V
    OBVIOUS
  <2>5. PICK f \in [D -> V] : \A i \in D : f[i] = F[<<i, f>>]
    <3> HIDE DEF D, V
    <3>1. Local(D, rk, V, F)
      BY <2>3, Zenon DEF Local
    <3>2. Recursive(D, V, F)
      BY <1>1, <2>1, <2>4, <3>1, RankRecursion
    <3> QED BY <3>2, Zenon DEF Recursive
  <2>6. f = G(f)
    <3>1. \A i \in D : f[i] = DirtyAt(ns, i, f)
      BY <2>2, <2>5
    <3>2. f = [i \in D |-> f[i]]
      OBVIOUS
    <3> QED BY <3>1, <3>2, Zenon
  <2> QED BY <2>6, Zenon
<1> DEFINE pre == CHOOSE f : f = G(f)
<1>5. pre = G(pre)
  <2> HIDE DEF G
  <2> QED BY <1>4, Zenon
<1>6. \A i : Dirty(ns, i) = pre[i]
  BY Zenon DEF Dirty, DirtyAt, DirtyBelow
<1> HIDE DEF pre
<1>7. \A i \in D : pre[i] = DirtyAt(ns, i, pre)
  BY <1>5, Zenon
<1>8. \A i \in D : h[i] = DirtyAt(ns, i, h)
  BY <1>4, Zenon
<1> DEFINE E == {i \in D : pre[i] = h[i]}
<1>9. ASSUME NEW i \in D, \A c \in D : rk[c] < rk[i] => c \in E PROVE i \in E
  <2>1. \A c \in D : rk[c] < rk[i] => pre[c] = h[c]
    BY <1>9
  <2>2. DirtyAt(ns, i, pre) = DirtyAt(ns, i, h)
    <3> HIDE DEF D
    <3> QED BY <2>1, <1>3
  <2> QED BY <2>2, <1>7, <1>8
<1>10. \A i \in D : i \in E
  <2> HIDE DEF E, D
  <2> QED BY <1>1, <1>9, RankInduction
<1>11. \A i \in D : h[i] = DirtyAt(ns, i, h) /\ Dirty(ns, i) = h[i]
  BY <1>6, <1>8, <1>10
<1> QED BY <1>11, <1>4, Zenon


DirtyKids(ns) == [i \in DOMAIN ns |-> {c \in Children(ns[i]) : is_dirty(ns[c])}]

(* What D, the nodes found from r on, is.                                  *)
FoundFrom(ns, r, D) ==
    /\ D \in Seq(DOMAIN ns)
    /\ is_dirty(ns[r]) => r \in Range(D)
    /\ \A x \in Range(D) : is_dirty(ns[x]) /\ (x # r => \E p \in Range(D) : x \in Children(ns[p]))
    /\ Followed(DirtyKids(ns), D)

(* The dirty nodes that a commit finds from r on are below one another,    *)
(* and it finds each of their dirty children later.                        *)
LEMMA DirtyOrder ==
    ASSUME NEW ns, NEW rk, NEW H \in Nat, Layered(ns, rk, H), NEW r \in DOMAIN ns
    PROVE  FoundFrom(ns, r, Dirty(ns, r))
<1> DEFINE D == DOMAIN ns
           kids == DirtyKids(ns)
           G == {i \in D : FoundFrom(ns, i, Dirty(ns, i))}
<1>1. rk \in [D -> Nat]
  BY DEF Layered
<1>2. PICK f \in [D -> Seq(D)] : \A i \in D : f[i] = DirtyAt(ns, i, f) /\ Dirty(ns, i) = f[i]
  BY DirtyMeets
<1>3. ASSUME NEW i \in D, \A c \in D : rk[c] < rk[i] => c \in G PROVE i \in G
  <2>1. CASE ~is_dirty(ns[i])
    <3>1. Dirty(ns, i) = <<>>
      BY <2>1, <1>2 DEF DirtyAt
    <3>2. FoundFrom(ns, i, <<>>)
      BY <2>1 DEF FoundFrom, Followed, Range
    <3> QED BY <3>1, <3>2
  <2>2. CASE is_dirty(ns[i]) /\ ns[i].leaf
    <3>1. Dirty(ns, i) = <<i>>
      <4>1. Dirty(ns, i) = <<i>> \o <<>>
        BY <2>2, <1>2 DEF DirtyAt
      <4> QED BY <4>1
    <3>2. kids[i] = {}
      BY <2>2 DEF DirtyKids, Children
    <3>3. Followed(kids, <<i>>)
      BY <3>2 DEF Followed
    <3>4. FoundFrom(ns, i, <<i>>)
      BY <2>2, <3>3 DEF FoundFrom, Range
    <3> QED BY <3>1, <3>4
  <2>3. CASE is_dirty(ns[i]) /\ ~ns[i].leaf
    <3> DEFINE s == ns[i].children
               b == DirtyBelow(ns, i, f)
               fl == FlattenSeq(b)
    <3>1. s \in Seq(D) /\ \A j \in 1 .. Len(s) : s[j] \in D /\ rk[s[j]] < rk[i]
      <4>1. s \in Seq(D) /\ \A j \in 1 .. Len(s) : rk[s[j]] < rk[i]
        BY <2>3 DEF Layered
      <4> QED BY <4>1
    <3>2. \A j \in 1 .. Len(s) : FoundFrom(ns, s[j], f[s[j]])
      BY <3>1, <1>2, <1>3
    <3>3. Children(ns[i]) = {s[j] : j \in 1 .. Len(s)}
      BY <2>3, <3>1 DEF Children, Range
    <3>4. /\ b \in Seq(Seq(D)) /\ Len(b) = Len(s)
          /\ \A j \in 1 .. Len(s) : \E k \in 1 .. Len(s) : b[j] = f[s[k]]
          /\ \A k \in 1 .. Len(s) : \E j \in 1 .. Len(s) : b[j] = f[s[k]]
      BY <2>3, BelowIs
    <3>5. Dirty(ns, i) = <<i>> \o fl
      BY <2>3, <1>2 DEF DirtyAt
    <3> HIDE DEF b, s, D, kids
    <3>6. fl \in Seq(D) /\ Range(fl) = UNION {Range(b[n]) : n \in 1 .. Len(b)}
      BY <3>4, FlattenTyped, FlattenRange
    <3>7. Followed(kids, fl)
      <4>1. \A n \in 1 .. Len(b) : Followed(kids, b[n])
        <5>1. \A k \in 1 .. Len(s) : Followed(kids, f[s[k]])
          BY <3>2 DEF FoundFrom, kids
        <5> QED BY <5>1, <3>4
      <4> QED BY <4>1, <3>4, FlattenFollowed
    <3> HIDE DEF fl
    <3>8. \A k \in 1 .. Len(s) : Range(f[s[k]]) \subseteq Range(fl)
      BY <3>4, <3>6
    <3>9. \A x \in Range(fl) : \E k \in 1 .. Len(s) : x \in Range(f[s[k]])
      BY <3>4, <3>6
    <3>10. \A c \in kids[i] : c \in Range(fl)
      <4>1. ASSUME NEW c \in kids[i] PROVE c \in Range(fl)
        <5>1. c \in Children(ns[i]) /\ is_dirty(ns[c])
          BY DEF kids, DirtyKids, D
        <5>2. PICK k \in 1 .. Len(s) : c = s[k]
          BY <5>1, <3>3
        <5>3. c \in Range(f[s[k]])
          BY <5>1, <5>2, <3>2 DEF FoundFrom
        <5> QED BY <5>3, <3>8
      <4> QED BY <4>1
    <3>11. \A c \in kids[i] : \E k \in 1 .. Len(fl) : fl[k] = c
      <4>1. DOMAIN fl = 1 .. Len(fl)
        BY <3>6
      <4> QED BY <3>10, <4>1 DEF Range
    <3>12. Followed(kids, <<i>> \o fl)
      BY <3>6, <3>7, <3>11, FollowedFrom
    <3>13. <<i>> \in Seq(D) /\ Range(<<i>>) = {i}
      BY DEF Range
    <3>14. <<i>> \o fl \in Seq(D) /\ Range(<<i>> \o fl) = {i} \cup Range(fl)
      <4>1. Range(<<i>> \o fl) = Range(<<i>>) \cup Range(fl)
        BY <3>6, <3>13, ConcatRange, Zenon
      <4>2. <<i>> \in Seq(D) /\ fl \in Seq(D)
        BY <3>6, <3>13
      <4>3. <<i>> \o fl \in Seq(D)
        BY <4>2, ConcatProperties, Zenon
      <4> QED BY <4>1, <4>3, <3>13
    <3>15. ASSUME NEW x \in {i} \cup Range(fl), x # i
           PROVE  is_dirty(ns[x]) /\ \E p \in {i} \cup Range(fl) : x \in Children(ns[p])
      <4>1. PICK k \in 1 .. Len(s) : x \in Range(f[s[k]])
        BY <3>9, <3>15
      <4>2. /\ is_dirty(ns[x])
            /\ x # s[k] => \E p \in Range(f[s[k]]) : x \in Children(ns[p])
        BY <4>1, <3>2 DEF FoundFrom
      <4>3. CASE x = s[k]
        BY <4>2, <4>3, <3>3
      <4>4. CASE x # s[k]
        BY <4>2, <4>4, <3>8
      <4> QED BY <4>3, <4>4
    <3>16. FoundFrom(ns, i, <<i>> \o fl)
      BY <2>3, <3>12, <3>14, <3>15 DEF FoundFrom, D, kids
    <3> QED BY <3>5, <3>16
  <2> QED BY <2>1, <2>2, <2>3
<1>4. \A i \in D : i \in G
  <2> HIDE DEF G, D
  <2> QED BY <1>1, <1>3, RankInduction
<1> QED BY <1>4


(* s is an order in which the nodes to be rewritten can be written: they   *)
(* are dirty, children come first, and the way up to the root is among     *)
(* them.                                                                   *)
Ordered(e, r, par, s) ==
    /\ s \in Seq(Alive(e))
    /\ \A x \in Range(s) : IsLoaded(e.nodes[x]) /\ e.nodes[x].dirty
    /\ \A x \in Range(s) \ {r} : par[x] \in Range(s)
    /\ r \in Range(s) \/ Clean(e, r)
    /\ \A j \in 1 .. Len(s) : \A c \in Children(e.nodes[s[j]]) :
          Clean(e, c) \/ \E k \in 1 .. Len(s) : k < j /\ s[k] = c

LEMMA SeqWithin ==
    ASSUME NEW S, NEW T, NEW s \in Seq(S), \A i \in 1 .. Len(s) : s[i] \in T
    PROVE  s \in Seq(T)
<1>1. Len(s) \in Nat /\ s \in [1 .. Len(s) -> S]
  OBVIOUS
<1>2. s = [i \in 1 .. Len(s) |-> s[i]]
  BY <1>1
<1>3. s \in [1 .. Len(s) -> T]
  BY <1>2
<1> QED BY <1>1, <1>3, SMTT(20)

(* The order in which commit_inner writes is one.                          *)
LEMMA CommitOrder ==
    ASSUME NEW e, NEW rs, NEW hr, NEW r, NEW X, NEW F, NEW rk, NEW par, NEW ft,
           SaneBy(e, rs, hr, r, X, F, rk, par, ft)
    PROVE  Ordered(e, r, par, ChildrenFirst(Dirty(e.nodes, r)))
<1> DEFINE ns == e.nodes
           D == DOMAIN ns
           L == Alive(e)
           h == [i \in D |-> IF i \in L THEN rk[i] ELSE 0]
           d == Dirty(ns, r)
           s == Reverse(d)
<1>1. /\ D = 1 .. Len(ns) /\ L \subseteq D /\ r \in L
      /\ \A i \in L : ns[i] = OnDisk \/ IsLoaded(ns[i])
      /\ \A i \in D : ns[i] \in Slots
      /\ \A i \in D : IsLoaded(ns[i]) => i \in L /\ ns[i] \in AnyNode
      /\ \A i \in L : IsLoaded(ns[i]) => KidsOf(e, rs, i) = Children(ns[i])
      /\ \A i \in L : /\ KidsOf(e, rs, i) \subseteq L \ {r}
                      /\ \A c \in KidsOf(e, rs, i) : rk[c] \in Nat /\ rk[i] = rk[c] + 1
  BY SlotFacts
<1>2. /\ \A x \in L : rk[x] \in Nat /\ rk[x] <= rk[r]
      /\ \A i \in L : KidsOf(e, rs, i) = {x \in L \ {r} : par[x] = i}
  BY DEF SaneBy, Rooted
<1> HIDE DEF L
<1>3. Layered(ns, h, rk[r]) /\ rk[r] \in Nat
  <2>1. h \in [D -> Nat] /\ \A i \in D : h[i] <= rk[r]
    BY <1>1, <1>2
  <2>2. ASSUME NEW i \in D, is_dirty(ns[i]), ~ns[i].leaf
        PROVE  /\ ns[i].children \in Seq(D)
               /\ \A j \in 1 .. Len(ns[i].children) : h[ns[i].children[j]] < h[i]
    <3>1. i \in L /\ ns[i] \in AnyNode /\ IsLoaded(ns[i])
      BY <2>2, <1>1 DEF is_dirty
    <3>2. ns[i].children \in Seq(Nat)
      BY <3>1, <2>2, SlotKinds
    <3>3. \A j \in 1 .. Len(ns[i].children) : ns[i].children[j] \in Children(ns[i])
      BY <3>2, <2>2 DEF Children, Range
    <3>4. \A c \in Children(ns[i]) : c \in L /\ rk[c] \in Nat /\ rk[i] = rk[c] + 1
      BY <3>1, <1>1
    <3>5. \A j \in 1 .. Len(ns[i].children) :
             ns[i].children[j] \in D /\ h[ns[i].children[j]] < h[i]
      BY <3>1, <3>3, <3>4, <1>1
    <3>6. ns[i].children \in Seq(D)
      BY <3>2, <3>5, SeqWithin, Zenon
    <3> QED BY <3>5, <3>6
  <2> HIDE DEF h
  <2>3. Layered(ns, h, rk[r])
    BY <2>1, <2>2, Zenon DEF Layered
  <2> QED BY <2>3, <1>1, <1>2
<1> HIDE DEF h
<1>4. FoundFrom(ns, r, d)
  <2> HIDE DEF d
  <2>1. r \in D
    BY <1>1
  <2> QED BY <2>1, <1>3, DirtyOrder DEF d
<1> HIDE DEF d
<1>5. /\ d \in Seq(D) /\ Range(d) = {d[i] : i \in 1 .. Len(d)} /\ Len(d) \in Nat
      /\ is_dirty(ns[r]) => r \in Range(d)
      /\ \A x \in Range(d) : is_dirty(ns[x]) /\ (x # r => \E p \in Range(d) : x \in Children(ns[p]))
      /\ Followed(DirtyKids(ns), d)
  <2>1. d \in Seq(D)
    BY <1>4 DEF FoundFrom
  <2>2. Range(d) = {d[i] : i \in 1 .. Len(d)}
    BY <2>1 DEF Range
  <2> QED BY <2>1, <2>2, <1>4 DEF FoundFrom
<1>6. /\ s \in Seq(D) /\ Len(s) = Len(d)
      /\ \A i \in 1 .. Len(d) : /\ Len(d) - i + 1 \in 1 .. Len(d)
                                /\ s[i] = d[Len(d) - i + 1] /\ s[Len(d) - i + 1] = d[i]
      /\ {s[i] : i \in 1 .. Len(d)} = {d[i] : i \in 1 .. Len(d)}
  <2> HIDE DEF D
  <2> QED BY <1>5, Reversed
<1>7. Range(s) = Range(d)
  <2>1. DOMAIN s = 1 .. Len(d)
    BY <1>6
  <2>2. Range(s) = {s[i] : i \in 1 .. Len(d)}
    BY <2>1 DEF Range
  <2> QED BY <2>2, <1>5, <1>6
<1>8. \A x \in Range(d) : x \in D /\ x \in L /\ IsLoaded(ns[x]) /\ ns[x].dirty
  <2> TAKE x \in Range(d)
  <2>1. x \in D /\ is_dirty(ns[x])
    BY <1>5
  <2> QED BY <2>1, <1>1 DEF is_dirty
<1> HIDE DEF s
<1>9. s \in Seq(L)
  <2>1. \A i \in 1 .. Len(s) : s[i] \in Range(s)
    BY <1>6 DEF Range
  <2>2. \A i \in 1 .. Len(s) : s[i] \in L
    BY <2>1, <1>7, <1>8
  <2> QED BY <2>2, <1>6, SeqWithin
<1>10. ASSUME NEW x \in Range(s) \ {r} PROVE par[x] \in Range(s)
  <2>1. PICK p \in Range(d) : x \in Children(ns[p])
    BY <1>5, <1>7
  <2>2. p \in L /\ KidsOf(e, rs, p) = Children(ns[p])
    BY <1>1, <1>8
  <2>3. par[x] = p
    BY <2>1, <2>2, <1>2
  <2> QED BY <2>3, <1>7
<1>11. ASSUME NEW c \in L, ~Clean(e, c) PROVE is_dirty(ns[c])
  <2>1. IsLoaded(ns[c]) /\ ns[c].dirty \in BOOLEAN
    BY <1>1, <1>11, SlotKinds DEF Clean
  <2> QED BY <2>1, <1>11 DEF Clean, is_dirty
<1>12. r \in Range(s) \/ Clean(e, r)
  BY <1>1, <1>5, <1>7, <1>11
<1>13. ASSUME NEW j \in 1 .. Len(s), NEW c \in Children(ns[s[j]]), ~Clean(e, c)
       PROVE  \E k \in 1 .. Len(s) : k < j /\ s[k] = c
  <2> DEFINE N == Len(d)
             i == N - j + 1
  <2>1. j \in 1 .. N /\ N \in Nat
    BY <1>5, <1>6
  <2>2. i \in 1 .. N /\ s[j] = d[i]
    BY <2>1, <1>6
  <2>3. s[j] \in D /\ s[j] \in L /\ IsLoaded(ns[s[j]])
    <3>1. s[j] \in Range(s)
      BY <1>6 DEF Range
    <3> QED BY <3>1, <1>7, <1>8
  <2>4. c \in L
    BY <2>3, <1>1
  <2>5. c \in DirtyKids(ns)[d[i]]
    BY <2>2, <2>3, <2>4, <1>11, <1>13 DEF DirtyKids
  <2>6. PICK k \in 1 .. N : i < k /\ d[k] = c
    <3> HIDE DEF i
    <3> QED BY <2>2, <2>5, <1>5 DEF Followed
  <2>7. N - k + 1 \in 1 .. N /\ s[N - k + 1] = c /\ N - k + 1 < j
    BY <2>1, <2>6, <1>6
  <2> QED BY <2>7, <1>6
<1>14. Ordered(e, r, par, s)
  BY <1>7, <1>8, <1>9, <1>10, <1>12, <1>13 DEF Ordered, L
<1> QED BY <1>14 DEF s, d, ChildrenFirst


-----------------------------------------------------------------------------
(* What a commit writes                                                    *)

(* Where each node's record is when those of s have been written after rs. *)
PutAt(e, rs, s) ==
    [i \in DOMAIN e.nodes |-> IF i \in Range(s) THEN Len(rs) + SelectInSeq(s, LAMBDA x : x = i)
                              ELSE e.disk_offset[i]]

Placed(e, rs, s, at) ==
    /\ at \in [1 .. Len(e.nodes) -> Nat]
    /\ \A i \in (1 .. Len(e.nodes)) \ Range(s) : at[i] = e.disk_offset[i]
    /\ \A i \in Range(s) : \E j \in 1 .. Len(s) :
          at[i] = Len(rs) + j /\ s[j] = i /\ \A k \in 1 .. Len(s) : s[k] = i => j <= k

LEMMA PutAtPlaces ==
    ASSUME NEW e, e.nodes \in Seq(Slots), e.disk_offset \in Seq(Nat),
           Len(e.disk_offset) = Len(e.nodes), NEW rs, Len(rs) \in Nat, NEW s \in Seq(Alive(e))
    PROVE  Placed(e, rs, s, PutAt(e, rs, s))
<1> DEFINE N == Len(e.nodes)
           at == PutAt(e, rs, s)
           First(i) == SelectInSeq(s, LAMBDA x : x = i)
<1>1. N \in Nat /\ DOMAIN e.nodes = 1 .. N /\ \A i \in 1 .. N : e.disk_offset[i] \in Nat
  BY SMT
<1>2. ASSUME NEW i \in Range(s)
      PROVE  First(i) \in 1 .. Len(s) /\ s[First(i)] = i /\ \A k \in 1 .. Len(s) : s[k] = i => First(i) <= k
  <2> DEFINE I == {j \in 1 .. Len(s) : s[j] = i}
  <2>1. I \subseteq Nat /\ I # {}
    <3>1. PICK j \in DOMAIN s : s[j] = i
      BY DEF Range
    <3>2. j \in 1 .. Len(s)
      OBVIOUS
    <3> QED BY <3>1, <3>2
  <2>2. First(i) = Min(I)
    BY <2>1 DEF SelectInSeq
  <2>3. Min(I) \in I /\ \A y \in I : Min(I) <= y
    <3> HIDE DEF I
    <3>1. PICK x \in I : \A y \in I : x <= y
      BY <2>1, Least
    <3> QED BY <3>1 DEF Min
  <2> HIDE DEF First
  <2> QED BY <2>2, <2>3
<1> HIDE DEF First
<1>3. at = [i \in 1 .. N |-> IF i \in Range(s) THEN Len(rs) + First(i) ELSE e.disk_offset[i]]
  BY <1>1 DEF PutAt, First
<1> HIDE DEF at, N
<1>4. \A i \in Range(s) : Len(rs) + First(i) \in Nat
  BY <1>2
<1>5. at \in [1 .. N -> Nat]
  BY <1>1, <1>3, <1>4
<1>6. \A i \in (1 .. N) \ Range(s) : at[i] = e.disk_offset[i]
  BY <1>3
<1>7. ASSUME NEW i \in Range(s)
      PROVE  \E j \in 1 .. Len(s) :
                at[i] = Len(rs) + j /\ s[j] = i /\ \A k \in 1 .. Len(s) : s[k] = i => j <= k
  <2>1. i \in 1 .. N
    BY DEF Range, Alive, N
  <2>2. at[i] = Len(rs) + First(i)
    BY <2>1, <1>3
  <2> QED BY <2>2, <1>2
<1> QED BY <1>5, <1>6, <1>7, Zenon DEF Placed, at, N


(* rs2 is rs with the records of s, in that order, behind it.              *)
Extended(e, rs, s, at, rs2) ==
    /\ rs2 \in Seq(Range(rs2)) /\ Len(rs2) = Len(rs) + Len(s)
    /\ \A o \in 1 .. Len(rs) : rs2[o] = rs[o]
    /\ \A j \in 1 .. Len(s) : rs2[Len(rs) + j] = node_payload(e.nodes[s[j]], at)

LEMMA RecordsAdded ==
    ASSUME NEW e, NEW T, NEW rs \in Seq(T), NEW S, NEW s \in Seq(S), NEW at
    PROVE  Extended(e, rs, s, at, rs \o [j \in DOMAIN s |-> node_payload(e.nodes[s[j]], at)])
<1> DEFINE N == Len(rs)
           M == Len(s)
           t == [j \in 1 .. M |-> node_payload(e.nodes[s[j]], at)]
           U == Range(rs) \cup Range(t)
           rs2 == rs \o t
<1>1. N \in Nat /\ M \in Nat /\ DOMAIN s = 1 .. M /\ DOMAIN rs = 1 .. N
  OBVIOUS
<1>2. \A j \in 1 .. M : t[j] = node_payload(e.nodes[s[j]], at)
  OBVIOUS
<1>3. DOMAIN t = 1 .. M /\ t = [j \in 1 .. M |-> t[j]]
  OBVIOUS
<1> HIDE DEF t
<1>4. t \in [1 .. M -> U] /\ \A o \in 1 .. N : rs[o] \in U
  BY <1>1, <1>3 DEF Range
<1> HIDE DEF U
<1>5. t \in Seq(U) /\ Len(t) = M
  <2> HIDE DEF M
  <2> QED BY <1>1, <1>4, SMTT(20)
<1>6. rs \in Seq(U)
  BY <1>4, SeqWithin
<1>7. /\ rs2 \in Seq(U) /\ Len(rs2) = N + M
      /\ \A i \in 1 .. N + M : rs2[i] = IF i <= N THEN rs[i] ELSE t[i - N]
  <2>1. rs \in Seq(U) /\ t \in Seq(U)
    BY <1>5, <1>6
  <2>2. /\ rs2 \in Seq(U) /\ Len(rs2) = Len(rs) + Len(t)
        /\ \A i \in 1 .. Len(rs) + Len(t) : rs2[i] = IF i <= Len(rs) THEN rs[i] ELSE t[i - Len(rs)]
    BY <2>1, ConcatProperties, Zenon
  <2> QED BY <2>2, <1>5
<1> SUFFICES Extended(e, rs, s, at, rs2)
  BY <1>1 DEF t
<1> HIDE DEF rs2, N, M
<1>8. \A o \in 1 .. N : rs2[o] = rs[o]
  BY <1>1, <1>7
<1>9. ASSUME NEW j \in 1 .. M PROVE rs2[N + j] = node_payload(e.nodes[s[j]], at)
  <2>1. N + j \in 1 .. N + M /\ ~(N + j <= N) /\ (N + j) - N = j
    BY <1>1
  <2>2. rs2[N + j] = t[(N + j) - N]
    BY <2>1, <1>7
  <2> QED BY <2>1, <2>2, <1>2
<1>10. rs2 \in Seq(Range(rs2))
  <2>1. \A i \in 1 .. Len(rs2) : rs2[i] \in Range(rs2)
    BY <1>7, SMT DEF Range
  <2> QED BY <2>1, <1>7, SeqWithin
<1> QED BY <1>7, <1>8, <1>9, <1>10 DEF Extended, N, M

(* Where the nodes of a commit go: nodes apart stay apart, and the         *)
(* children of a node that is written are written before it or are their   *)
(* records.                                                                *)
Settles(e, rs, r, rk, par, s, at) ==
    /\ \A x \in Range(s) : /\ x \in Alive(e) /\ IsLoaded(e.nodes[x]) /\ e.nodes[x].dirty
                           /\ e.nodes[x] \in AnyNode
                           /\ at[x] \in (Len(rs) + 1) .. (Len(rs) + Len(s))
                           /\ s[at[x] - Len(rs)] = x
    /\ \A x \in Range(s) : \A k \in 1 .. Len(s) : s[k] = x => at[x] <= Len(rs) + k
    /\ \A x \in Alive(e) \ Range(s) : at[x] = e.disk_offset[x] /\ at[x] \in 0 .. Len(rs)
    /\ \A x, y \in Alive(e) : at[x] = at[y] /\ at[x] # NoRecord => x = y
    /\ \A j \in 1 .. Len(s) : \A c \in Children(e.nodes[s[j]]) :
          /\ c \in Alive(e) \ {r} /\ par[c] = s[j] /\ rk[s[j]] = rk[c] + 1 /\ rk[c] \in Nat
          /\ \/ c \in Range(s) /\ at[c] < Len(rs) + j
             \/ c \notin Range(s) /\ Clean(e, c) /\ at[c] \in 1 .. Len(rs)

LEMMA CommitSettles ==
    ASSUME NEW e, NEW rs, NEW hr, NEW r, NEW X, NEW F, NEW rk, NEW par, NEW ft,
           SaneBy(e, rs, hr, r, X, F, rk, par, ft),
           NEW s, Ordered(e, r, par, s), NEW at, Placed(e, rs, s, at)
    PROVE  Settles(e, rs, r, rk, par, s, at)
<1> DEFINE L == Alive(e)
           W == Range(s)
           N == Len(rs)
           M == Len(s)
<1>1. /\ L \subseteq 1 .. Len(e.nodes) /\ r \in L
      /\ \A i \in L : IsLoaded(e.nodes[i]) => e.nodes[i] \in AnyNode
      /\ \A i \in L : IsLoaded(e.nodes[i]) => KidsOf(e, rs, i) = Children(e.nodes[i])
      /\ \A i \in L : /\ KidsOf(e, rs, i) \subseteq L \ {r}
                      /\ \A c \in KidsOf(e, rs, i) : rk[c] \in Nat /\ rk[i] = rk[c] + 1
  BY SlotFacts
<1>2. \A i \in L : KidsOf(e, rs, i) = {x \in L \ {r} : par[x] = i}
  BY DEF SaneBy, Rooted
<1>3. N \in Nat /\ \A i \in L : e.disk_offset[i] \in 0 .. N
  <2>1. \A i \in 1 .. Len(e.nodes) : e.disk_offset[i] \in 0 .. N
    BY DEF SaneBy, Held
  <2>2. N \in Nat
    BY RecordsBelow DEF SaneBy
  <2> QED BY <2>1, <2>2, <1>1
<1>4. /\ s \in Seq(L) /\ M \in Nat /\ W = {s[j] : j \in 1 .. M}
      /\ \A x \in W : x \in L /\ IsLoaded(e.nodes[x]) /\ e.nodes[x].dirty
  <2>1. s \in Seq(L) /\ \A x \in W : IsLoaded(e.nodes[x]) /\ e.nodes[x].dirty
    BY DEF Ordered
  <2>2. W = {s[j] : j \in 1 .. M}
    BY <2>1 DEF Range
  <2> QED BY <2>1, <2>2
<1>5. \A j \in 1 .. M : s[j] \in W /\ s[j] \in L
  BY <1>4
<1>6. \A i \in W : \E j \in 1 .. M :
          at[i] = N + j /\ s[j] = i /\ \A k \in 1 .. M : s[k] = i => j <= k
  BY DEF Placed
<1>7. \A x \in L \ W : at[x] = e.disk_offset[x] /\ at[x] \in 0 .. N
  BY <1>1, <1>3 DEF Placed
<1>8. ASSUME NEW x \in W
      PROVE  /\ at[x] \in (N + 1) .. (N + M) /\ s[at[x] - N] = x
             /\ \A k \in 1 .. M : s[k] = x => at[x] <= N + k
  <2>1. PICK j \in 1 .. M : at[x] = N + j /\ s[j] = x /\ \A k \in 1 .. M : s[k] = x => j <= k
    BY <1>6
  <2>2. N + j \in (N + 1) .. (N + M) /\ (N + j) - N = j
    BY <1>3, <1>4
  <2>3. \A k \in 1 .. M : j <= k => N + j <= N + k
    BY <1>3, <1>4
  <2> QED BY <2>1, <2>2, <2>3
<1>9. Interned(e, rs)
  BY DEF SaneBy
<1> HIDE DEF L, W, N, M
<1>10. ASSUME NEW x \in L, NEW y \in L, at[x] = at[y], at[x] # NoRecord PROVE x = y
  <2>1. CASE x \in W /\ y \in W
    <3>1. s[at[x] - N] = x /\ s[at[y] - N] = y
      BY <2>1, <1>8
    <3> QED BY <3>1, <1>10
  <2>2. CASE x \in W /\ y \notin W
    <3>1. at[x] \in (N + 1) .. (N + M) /\ at[y] \in 0 .. N
      BY <2>2, <1>7, <1>8
    <3> QED BY <3>1, <1>3, <1>4, <1>10
  <2>3. CASE x \notin W /\ y \in W
    <3>1. at[y] \in (N + 1) .. (N + M) /\ at[x] \in 0 .. N
      BY <2>3, <1>7, <1>8
    <3> QED BY <3>1, <1>3, <1>4, <1>10
  <2>4. CASE x \notin W /\ y \notin W
    <3>1. e.disk_offset[x] = at[x] /\ e.disk_offset[y] = at[x]
      BY <2>4, <1>7, <1>10
    <3>2. e.offsets[at[x]] = x /\ e.offsets[at[x]] = y
      BY <3>1, <1>9, <1>10, Zenon DEF Interned, L
    <3> QED BY <3>2
  <2> QED BY <2>1, <2>2, <2>3, <2>4
<1>11. ASSUME NEW c \in L, Clean(e, c) PROVE e.disk_offset[c] \in 1 .. N
  <2>1. e.nodes[c] = OnDisk \/ IsLoaded(e.nodes[c])
    BY SlotFacts DEF L
  <2>2. e.disk_offset[c] # NoRecord
    <3>1. CASE e.nodes[c] = OnDisk
      <4>1. c \in 1 .. Len(e.nodes)
        BY <1>1
      <4> QED BY <3>1, <4>1 DEF SaneBy, Held
    <3>2. CASE IsLoaded(e.nodes[c])
      <4>1. e.nodes[c] # OnDisk
        BY <3>2 DEF IsLoaded
      <4>2. ~e.nodes[c].dirty
        BY <4>1, <1>11 DEF Clean
      <4> QED BY <3>2, <4>2 DEF SaneBy, Held, L
    <3> QED BY <2>1, <3>1, <3>2
  <2> QED BY <2>2, <1>3 DEF NoRecord
<1>12. ASSUME NEW j \in 1 .. M, NEW c \in Children(e.nodes[s[j]])
       PROVE  /\ c \in L \ {r} /\ par[c] = s[j] /\ rk[s[j]] = rk[c] + 1 /\ rk[c] \in Nat
              /\ \/ c \in W /\ at[c] < N + j
                 \/ c \notin W /\ Clean(e, c) /\ at[c] \in 1 .. N
  <2>1. s[j] \in L /\ KidsOf(e, rs, s[j]) = Children(e.nodes[s[j]])
    BY <1>1, <1>4, <1>5
  <2>6. c \in KidsOf(e, rs, s[j])
    BY <2>1
  <2>7. c \in L \ {r} /\ par[c] = s[j]
    BY <2>1, <2>6, <1>2
  <2>2. c \in L \ {r} /\ par[c] = s[j] /\ rk[s[j]] = rk[c] + 1 /\ rk[c] \in Nat
    BY <2>1, <2>6, <2>7, <1>1
  <2>3. Clean(e, c) \/ \E k \in 1 .. M : k < j /\ s[k] = c
    BY DEF Ordered, M
  <2>4. CASE \E k \in 1 .. M : k < j /\ s[k] = c
    <3>1. PICK k \in 1 .. M : k < j /\ s[k] = c
      BY <2>4
    <3>2. c \in W
      BY <3>1, <1>5
    <3>3. at[c] \in (N + 1) .. (N + M) /\ at[c] <= N + k
      BY <3>1, <3>2, <1>8
    <3>4. at[c] < N + j
      BY <3>1, <3>3, <1>3, <1>4
    <3> QED BY <3>2, <3>4, <2>2
  <2>5. CASE Clean(e, c)
    <3>1. c \notin W
      <4> SUFFICES ASSUME c \in W PROVE FALSE
        OBVIOUS
      <4>1. IsLoaded(e.nodes[c]) /\ e.nodes[c].dirty
        BY <1>4
      <4> QED BY <4>1, <2>5 DEF Clean, IsLoaded
    <3>2. at[c] = e.disk_offset[c] /\ at[c] \in 1 .. N
      BY <3>1, <2>2, <2>5, <1>7, <1>11
    <3> QED BY <3>1, <3>2, <2>2, <2>5
  <2> QED BY <2>3, <2>4, <2>5
<1>13. \A x \in W : e.nodes[x] \in AnyNode
  BY <1>1, <1>4
<1> QED BY <1>4, <1>7, <1>8, <1>10, <1>12, <1>13 DEF Settles, L, W, N, M


(* What the record of a node is.                                           *)
PayloadOf(n, at, p) ==
    /\ IsRecord(p) /\ p.leaf = n.leaf /\ Children(p) = {at[c] : c \in Children(n)}
    /\ ~n.leaf => /\ p.pivots = n.pivots /\ Len(p.children) = Len(n.children)
                  /\ IsInjective(p.children)

LEMMA PayloadIs ==
    ASSUME NEW n \in AnyNode, NEW at, \A c \in Children(n) : at[c] \in Nat,
           ~n.leaf => IsInjective(n.children),
           \A c, d \in Children(n) : at[c] = at[d] => c = d
    PROVE  PayloadOf(n, at, node_payload(n, at))
<1> DEFINE p == node_payload(n, at)
<1>1. /\ n.leaf \in BOOLEAN /\ (n.leaf => n.entries \in Maps(Entries(Nat)))
      /\ ~n.leaf => /\ n.pivots \in Seq(Nat) /\ n.children \in Seq(Nat)
                    /\ n.buffer \in Maps(MessagesOf(Nat))
  BY SlotKinds
<1>2. CASE n.leaf
  <2>1. p = [leaf |-> TRUE, entries |-> n.entries]
    BY <1>2 DEF node_payload
  <2>2. IsMap(n.entries, Entries(Nat))
    BY <1>1, <1>2, MapFacts DEF IsMap
  <2> HIDE DEF p
  <2>3. p.leaf = TRUE /\ p.entries = n.entries
    BY <2>1
  <2>4. IsRecord(p)
    BY <2>1, <2>2, <2>3 DEF IsRecord
  <2>5. Children(p) = {} /\ Children(n) = {}
    BY <1>2, <2>3 DEF Children
  <2>6. n.leaf = TRUE
    BY <1>1, <1>2
  <2>7. PayloadOf(n, at, p)
    BY <2>3, <2>4, <2>5, <2>6 DEF PayloadOf
  <2> QED BY <2>7 DEF p
<1>3. CASE ~n.leaf
  <2> DEFINE s == n.children
             t == [j \in DOMAIN s |-> at[s[j]]]
  <2>1. p = [leaf |-> FALSE, pivots |-> n.pivots, buffer |-> n.buffer, children |-> t]
    BY <1>3 DEF node_payload
  <2>2. IsMap(n.buffer, MessagesOf(Nat))
    BY <1>1, <1>3, MapFacts DEF IsMap
  <2>3. DOMAIN s = 1 .. Len(s) /\ Len(s) \in Nat
    BY <1>1, <1>3
  <2>4. Children(n) = {s[j] : j \in DOMAIN s}
    BY <1>3 DEF Children, Range
  <2>5. \A j \in DOMAIN s : t[j] = at[s[j]] /\ s[j] \in Children(n)
    BY <2>4
  <2>6. t \in [DOMAIN s -> Nat]
    BY <2>5
  <2> HIDE DEF p, s, t
  <2>7. t \in Seq(Nat) /\ Len(t) = Len(s) /\ DOMAIN t = DOMAIN s
    BY <2>3, <2>6, SMTT(20)
  <2>8. p.leaf = FALSE /\ p.pivots = n.pivots /\ p.buffer = n.buffer /\ p.children = t
    BY <2>1
  <2>9. IsRecord(p)
    BY <2>1, <2>2, <2>7, <2>8, <1>1, <1>3, Zenon DEF IsRecord
  <2>10. Children(p) = {t[j] : j \in DOMAIN s}
    BY <2>7, <2>8 DEF Children, Range
  <2>11. Children(p) = {at[c] : c \in Children(n)}
    BY <2>4, <2>5, <2>10
  <2>12. IsInjective(t)
    <3> SUFFICES ASSUME NEW a \in DOMAIN s, NEW b \in DOMAIN s, t[a] = t[b] PROVE a = b
      BY <2>7 DEF IsInjective
    <3>1. s[a] = s[b]
      BY <2>5
    <3> QED BY <3>1, <1>3 DEF IsInjective, s
  <2>13. n.leaf = FALSE
    BY <1>1, <1>3
  <2>14. PayloadOf(n, at, p)
    BY <2>7, <2>8, <2>9, <2>11, <2>12, <2>13 DEF PayloadOf, s
  <2> QED BY <2>14 DEF p
<1> QED BY <1>1, <1>2, <1>3

(* The heights of the records after a commit.                              *)
HeightsAfter(rs, hr, rk, s, hr2) ==
    hr2 = [o \in 1 .. (Len(rs) + Len(s)) |-> IF o <= Len(rs) THEN hr[o] ELSE rk[s[o - Len(rs)]]]

LevelsKept(e, rs, hr, rk, s, at, rs2, hr2) ==
    /\ Leveled(rs2, hr2)
    /\ \A o \in 1 .. Len(rs) : rs2[o] = rs[o] /\ hr2[o] = hr[o]
    /\ \A j \in 1 .. Len(s) : hr2[Len(rs) + j] = rk[s[j]]
    /\ \A x \in Range(s) : /\ hr2[at[x]] = rk[x]
                           /\ Children(rs2[at[x]]) = {at[c] : c \in Children(e.nodes[x])}

(* The file that a commit leaves is as leveled as it was.                  *)
LEMMA CommitLevels ==
    ASSUME NEW e, NEW rs, NEW hr, NEW r, NEW F, NEW rk, NEW par, NEW ft,
           SaneBy(e, rs, hr, r, {}, F, rk, par, ft),
           NEW s \in Seq(Alive(e)), NEW at, Settles(e, rs, r, rk, par, s, at),
           NEW rs2, Extended(e, rs, s, at, rs2),
           NEW hr2, HeightsAfter(rs, hr, rk, s, hr2)
    PROVE  LevelsKept(e, rs, hr, rk, s, at, rs2, hr2)
<1> DEFINE N == Len(rs)
           M == Len(s)
<1>1. /\ N \in Nat /\ M \in Nat /\ hr \in [1 .. N -> Nat]
      /\ \A o \in 1 .. N : /\ IsRecord(rs[o]) /\ (rs[o].leaf <=> hr[o] = 0)
                           /\ ~rs[o].leaf => /\ Len(rs[o].children) = Len(rs[o].pivots) + 1
                                             /\ IsInjective(rs[o].children)
      /\ \A o \in 1 .. N : ~rs[o].leaf =>
            \A c \in Children(rs[o]) : c \in 1 .. (o - 1) /\ hr[o] = hr[c] + 1
  BY RecordsBelow DEF SaneBy, Leveled
<1>2. \A j \in 1 .. M : s[j] \in Range(s) /\ s[j] \in Alive(e)
  BY DEF Range
<1>3. \A x \in Alive(e) : rk[x] \in Nat /\ (IsLoaded(e.nodes[x]) => (e.nodes[x].leaf <=> rk[x] = 0))
  BY DEF SaneBy, Rooted
<1>4. \A x \in Alive(e) : e.disk_offset[x] # NoRecord => rk[x] = hr[e.disk_offset[x]]
  BY DEF SaneBy, Rooted
<1>5. /\ rs2 \in Seq(Range(rs2)) /\ Len(rs2) = N + M
      /\ \A o \in 1 .. N : rs2[o] = rs[o]
      /\ \A j \in 1 .. M : rs2[N + j] = node_payload(e.nodes[s[j]], at)
  BY DEF Extended
<1>6. /\ DOMAIN hr2 = 1 .. N + M
      /\ \A o \in 1 .. N : hr2[o] = hr[o]
      /\ \A j \in 1 .. M : hr2[N + j] = rk[s[j]]
  <2>1. hr2 = [o \in 1 .. (N + M) |-> IF o <= N THEN hr[o] ELSE rk[s[o - N]]]
    BY DEF HeightsAfter
  <2>2. \A o \in 1 .. N : o \in 1 .. (N + M) /\ o <= N
    BY <1>1
  <2>3. \A j \in 1 .. M : N + j \in 1 .. (N + M) /\ ~(N + j <= N) /\ (N + j) - N = j
    BY <1>1
  <2> HIDE DEF N, M
  <2> QED BY <2>1, <2>2, <2>3
<1>7. \A x \in Range(s) : /\ x \in Alive(e) /\ IsLoaded(e.nodes[x]) /\ e.nodes[x] \in AnyNode
                          /\ at[x] \in (N + 1) .. (N + M) /\ s[at[x] - N] = x
  BY DEF Settles
<1>8. \A x, y \in Alive(e) : at[x] = at[y] /\ at[x] # NoRecord => x = y
  BY DEF Settles
<1>9. \A j \in 1 .. M : \A c \in Children(e.nodes[s[j]]) :
          /\ c \in Alive(e) /\ rk[s[j]] = rk[c] + 1 /\ rk[c] \in Nat
          /\ \/ c \in Range(s) /\ at[c] < N + j
             \/ c \notin Range(s) /\ at[c] \in 1 .. N
  BY DEF Settles
<1>10. \A x \in Alive(e) \ Range(s) : at[x] = e.disk_offset[x]
  BY DEF Settles
<1> HIDE DEF N, M
<1>11. ASSUME NEW x \in Range(s) PROVE at[x] - N \in 1 .. M /\ N + (at[x] - N) = at[x] /\ hr2[at[x]] = rk[x]
  <2>1. at[x] \in (N + 1) .. (N + M) /\ s[at[x] - N] = x
    BY <1>7
  <2>2. at[x] - N \in 1 .. M /\ N + (at[x] - N) = at[x]
    BY <2>1, <1>1, Neighbours, ZenonT(30)
  <2>3. hr2[N + (at[x] - N)] = rk[s[at[x] - N]]
    BY <2>2, <1>6
  <2> QED BY <2>1, <2>2, <2>3
<1>12. ASSUME NEW j \in 1 .. M, NEW c \in Children(e.nodes[s[j]])
       PROVE  at[c] \in 1 .. (N + j - 1) /\ hr2[at[c]] = rk[c]
  <2>1. CASE c \in Range(s)
    <3>1. at[c] \in (N + 1) .. (N + M) /\ at[c] < N + j
      BY <2>1, <1>7, <1>9, <1>1
    <3> QED BY <3>1, <2>1, <1>1, <1>11
  <2>2. CASE c \notin Range(s)
    <3>1. at[c] \in 1 .. N /\ c \in Alive(e)
      BY <2>2, <1>9
    <3>2. at[c] = e.disk_offset[c]
      BY <2>2, <3>1, <1>10
    <3>3. e.disk_offset[c] # NoRecord
      BY <3>1, <3>2 DEF NoRecord
    <3>4. hr2[at[c]] = hr[at[c]]
      BY <3>1, <1>6
    <3>5. hr2[at[c]] = rk[c]
      BY <3>1, <3>2, <3>3, <3>4, <1>4
    <3> QED BY <3>1, <3>5, <1>1
  <2> QED BY <2>1, <2>2
<1>13. ASSUME NEW j \in 1 .. M
       PROVE  /\ PayloadOf(e.nodes[s[j]], at, rs2[N + j])
              /\ ~e.nodes[s[j]].leaf => Len(e.nodes[s[j]].children) = Len(e.nodes[s[j]].pivots) + 1
  <2> DEFINE n == e.nodes[s[j]]
  <2>1. n \in AnyNode /\ IsLoaded(n) /\ s[j] \in Alive(e)
    BY <1>2, <1>7
  <2>2. \A c \in Children(n) : at[c] \in Nat /\ at[c] # NoRecord /\ c \in Alive(e)
    <3> TAKE c \in Children(n)
    <3>1. at[c] \in 1 .. (N + j - 1)
      BY <1>12
    <3> QED BY <3>1, <1>1, <1>9 DEF NoRecord
  <2>3. ~n.leaf => IsInjective(n.children) /\ Len(n.children) = Len(n.pivots) + 1
    BY <2>1 DEF SaneBy, Held
  <2>4. \A c, d \in Children(n) : at[c] = at[d] => c = d
    BY <2>2, <1>8
  <2> HIDE DEF n
  <2>5. PayloadOf(n, at, node_payload(n, at))
    BY <2>1, <2>2, <2>3, <2>4, PayloadIs
  <2>6. rs2[N + j] = node_payload(n, at)
    BY <1>5 DEF n
  <2>7. PayloadOf(n, at, rs2[N + j])
    BY <2>5, <2>6
  <2> QED BY <2>3, <2>7 DEF n
<1>14. ASSUME NEW x \in Range(s)
       PROVE  Children(rs2[at[x]]) = {at[c] : c \in Children(e.nodes[x])}
  <2>1. at[x] - N \in 1 .. M /\ N + (at[x] - N) = at[x] /\ s[at[x] - N] = x
    BY <1>7, <1>11
  <2>2. PayloadOf(e.nodes[s[at[x] - N]], at, rs2[N + (at[x] - N)])
    BY <2>1, <1>13
  <2> QED BY <2>1, <2>2 DEF PayloadOf
<1>15. ASSUME NEW o \in 1 .. N + M
       PROVE  /\ IsRecord(rs2[o]) /\ (rs2[o].leaf <=> hr2[o] = 0) /\ hr2[o] \in Nat
              /\ ~rs2[o].leaf =>
                    /\ Len(rs2[o].children) = Len(rs2[o].pivots) + 1
                    /\ IsInjective(rs2[o].children)
                    /\ \A c \in Children(rs2[o]) : c \in 1 .. (o - 1) /\ hr2[o] = hr2[c] + 1
  <2>1. CASE o <= N
    <3>1. o \in 1 .. N /\ rs2[o] = rs[o] /\ hr2[o] = hr[o]
      BY <2>1, <1>1, <1>5, <1>6
    <3>2. \A c \in 1 .. (o - 1) : hr2[c] = hr[c]
      BY <3>1, <1>1, <1>6
    <3>3. ~rs[o].leaf => \A c \in Children(rs[o]) : c \in 1 .. (o - 1) /\ hr[o] = hr2[c] + 1
      BY <3>1, <3>2, <1>1
    <3>4. /\ IsRecord(rs[o]) /\ (rs[o].leaf <=> hr[o] = 0) /\ hr[o] \in Nat
          /\ ~rs[o].leaf => /\ Len(rs[o].children) = Len(rs[o].pivots) + 1
                            /\ IsInjective(rs[o].children)
      BY <3>1, <1>1
    <3> QED BY <3>1, <3>3, <3>4
  <2>2. CASE ~(o <= N)
    <3> DEFINE j == o - N
    <3>1. j \in 1 .. M /\ N + j = o
      BY <2>2, <1>1
    <3> HIDE DEF j
    <3> DEFINE n == e.nodes[s[j]]
    <3>2. /\ PayloadOf(n, at, rs2[o]) /\ (~n.leaf => Len(n.children) = Len(n.pivots) + 1)
          /\ hr2[o] = rk[s[j]] /\ rk[s[j]] \in Nat /\ (n.leaf <=> rk[s[j]] = 0)
      BY <3>1, <1>2, <1>3, <1>6, <1>7, <1>13
    <3>3. ASSUME NEW c \in Children(rs2[o]) PROVE c \in 1 .. (o - 1) /\ hr2[o] = hr2[c] + 1
      <4>1. PICK d \in Children(n) : c = at[d]
        BY <3>2 DEF PayloadOf
      <4>2. at[d] \in 1 .. (N + j - 1) /\ hr2[at[d]] = rk[d] /\ rk[s[j]] = rk[d] + 1
        BY <3>1, <1>9, <1>12
      <4>3. N + j - 1 = o - 1
        BY <3>1, <1>1
      <4>4. hr2[o] = hr2[c] + 1
        BY <4>1, <4>2, <3>2
      <4> QED BY <4>1, <4>2, <4>3, <4>4
    <3> HIDE DEF n
    <3> QED BY <3>2, <3>3 DEF PayloadOf
  <2> QED BY <2>1, <2>2
<1>16. hr2 \in [1 .. N + M -> Nat]
  <2>1. hr2 = [o \in 1 .. N + M |-> hr2[o]]
    BY <1>6 DEF HeightsAfter, N, M
  <2> QED BY <2>1, <1>15
<1>17. Leveled(rs2, hr2)
  BY <1>5, <1>15, <1>16, Zenon DEF Leveled
<1> QED BY <1>5, <1>6, <1>11, <1>14, <1>17, Zenon DEF LevelsKept, N, M


(* More records at the end of the file do not concern the slots.           *)
LEMMA FileGrows ==
    ASSUME NEW e, NEW rs, NEW hr, NEW r, NEW X, NEW F, NEW rk, NEW par, NEW ft,
           SaneBy(e, rs, hr, r, X, F, rk, par, ft),
           NEW rs2, NEW hr2, Leveled(rs2, hr2), Len(rs) <= Len(rs2),
           \A o \in 1 .. Len(rs) : rs2[o] = rs[o] /\ hr2[o] = hr[o]
    PROVE  SaneBy(e, rs2, hr2, r, X, F, rk, par, ft)
<1> DEFINE L == Alive(e)
           N == Len(rs)
<1>1. /\ Leveled(rs, hr) /\ Held(e, rs, X) /\ Interned(e, rs) /\ Half(e, rs)
      /\ Rooted(e, rs, r, hr, rk, par) /\ Apart(e, rs, r, hr, rk, par, ft) /\ ft[r] \subseteq F
  BY DEF SaneBy
<1>2. N \in Nat
  BY <1>1, RecordsBelow
<1>3. Len(rs2) \in Nat
  BY RecordsBelow
<1>4. \A o \in 1 .. N : Subtree(rs2, o) = Subtree(rs, o) /\ (Nested(rs, hr, o) <=> Nested(rs2, hr2, o))
  BY <1>1, RecordsStay
<1>5. L \subseteq 1 .. Len(e.nodes) /\ \A i \in L : e.nodes[i] = OnDisk \/ IsLoaded(e.nodes[i])
  BY SlotFacts
<1>6. /\ \A i \in 1 .. Len(e.nodes) : e.disk_offset[i] \in 0 .. N
      /\ \A i \in 1 .. Len(e.nodes) : e.nodes[i] = OnDisk => e.disk_offset[i] # NoRecord
      /\ \A i \in L : IsLoaded(e.nodes[i]) /\ ~e.nodes[i].dirty => e.disk_offset[i] # NoRecord
  BY <1>1 DEF Held
<1>7. \A i \in 1 .. Len(e.nodes) : e.disk_offset[i] # NoRecord => e.disk_offset[i] \in 1 .. N
  BY <1>2, <1>6 DEF NoRecord
<1>8. \A i \in L : Clean(e, i) => e.disk_offset[i] \in 1 .. N
  <2> SUFFICES ASSUME NEW i \in L, Clean(e, i) PROVE e.disk_offset[i] \in 1 .. N
    OBVIOUS
  <2>1. e.nodes[i] = OnDisk \/ (IsLoaded(e.nodes[i]) /\ ~e.nodes[i].dirty)
    BY <1>5 DEF Clean
  <2> QED BY <2>1, <1>5, <1>6, <1>7
<1>9. \A i \in L : e.nodes[i] = OnDisk => e.disk_offset[i] \in 1 .. N
  BY <1>5, <1>6, <1>7
<1>10. \A i \in 1 .. Len(e.nodes) : e.disk_offset[i] \in 0 .. Len(rs2)
  BY <1>2, <1>3, <1>6
<1>11. 1 .. N \subseteq 1 .. Len(rs2)
  BY <1>2, <1>3
<1> HIDE DEF L, N
<1>12. \A o \in 1 .. N : rs2[o] = rs[o] /\ hr2[o] = hr[o]
  BY DEF N
<1>13. Held(e, rs2, X)
  <2>1. ASSUME NEW i \in L, IsLoaded(e.nodes[i]), ~e.nodes[i].dirty
        PROVE  e.disk_offset[i] # NoRecord /\ rs2[e.disk_offset[i]] = node_payload(e.nodes[i], e.disk_offset)
    <3>1. e.disk_offset[i] # NoRecord /\ rs[e.disk_offset[i]] = node_payload(e.nodes[i], e.disk_offset)
      BY <1>1, <2>1 DEF Held, L
    <3>2. e.disk_offset[i] \in 1 .. N
      BY <3>1, <1>5, <1>7
    <3> QED BY <3>1, <3>2, <1>12
  <2> QED BY <1>1, <1>10, <2>1, Zenon DEF Held, L
<1>14. Interned(e, rs2)
  BY <1>1, <1>11, Zenon DEF Interned, N
<1>15. Half(e, rs2)
  <2> SUFFICES ASSUME NEW i \in Alive(e), e.nodes[i] = OnDisk
               PROVE  Children(rs2[e.disk_offset[i]]) \subseteq DOMAIN e.offsets \/ Opaquely(e, rs2, i)
    BY DEF Half
  <2>1. e.disk_offset[i] \in 1 .. N
    BY <1>9 DEF L
  <2>2. rs2[e.disk_offset[i]] = rs[e.disk_offset[i]]
        /\ Subtree(rs2, e.disk_offset[i]) = Subtree(rs, e.disk_offset[i])
    BY <2>1, <1>4, <1>12
  <2> QED BY <2>2, <1>1, Zenon DEF Half, Opaquely
<1>16. \A i \in L : KidsOf(e, rs2, i) = KidsOf(e, rs, i)
  BY <1>9, <1>12 DEF KidsOf
<1>17. Rooted(e, rs2, r, hr2, rk, par)
  <2>1. ASSUME NEW i \in L, e.disk_offset[i] # NoRecord PROVE rk[i] = hr2[e.disk_offset[i]]
    <3>1. rk[i] = hr[e.disk_offset[i]]
      BY <1>1, <2>1 DEF Rooted, L
    <3> QED BY <3>1, <2>1, <1>5, <1>7, <1>12
  <2>2. \A i \in L : KidsOf(e, rs2, i) = {x \in L \ {r} : par[x] = i}
    <3>1. \A i \in L : KidsOf(e, rs, i) = {x \in L \ {r} : par[x] = i}
      BY <1>1 DEF Rooted, L
    <3> QED BY <3>1, <1>16
  <2> QED BY <1>1, <2>1, <2>2, Zenon DEF Rooted, L
<1>18. Apart(e, rs2, r, hr2, rk, par, ft)
  <2>1. \A x \in L : ft[x] \subseteq 1 .. Len(rs2)
    BY <1>1, <1>11 DEF Apart, L, N
  <2>2. ASSUME NEW x \in L, Clean(e, x)
        PROVE  ft[x] = Subtree(rs2, e.disk_offset[x]) /\ Nested(rs2, hr2, e.disk_offset[x])
    <3>1. ft[x] = Subtree(rs, e.disk_offset[x]) /\ Nested(rs, hr, e.disk_offset[x])
      BY <1>1, <2>2 DEF Apart, L
    <3> QED BY <3>1, <2>2, <1>4, <1>8
  <2> QED BY <1>1, <2>1, <2>2, Zenon DEF Apart, L
<1> QED BY <1>1, <1>13, <1>14, <1>15, <1>17, <1>18 DEF SaneBy


-----------------------------------------------------------------------------
(* The engine after a commit                                               *)

(* The nodes W have new records behind the first N, at those of the other  *)
(* nodes and at each other's, and the way up to the root is among them.    *)
Rewritten(e, rs, hr, r, rk, par, ft, N, W, at) ==
    /\ N \in 0 .. Len(rs) /\ DOMAIN e.offsets \subseteq 1 .. N
    /\ \A x \in Alive(e) : ft[x] \subseteq 1 .. N
    /\ W \subseteq Alive(e) /\ \A x \in W \ {r} : par[x] \in W
    /\ \A x \in W : /\ IsLoaded(e.nodes[x]) /\ e.nodes[x].dirty /\ e.nodes[x] \in AnyNode
                    /\ at[x] \in (N + 1) .. Len(rs) /\ hr[at[x]] = rk[x]
                    /\ rs[at[x]] = node_payload(e.nodes[x], at)
                    /\ Children(rs[at[x]]) = {at[c] : c \in Children(e.nodes[x])}
    /\ \A x \in Alive(e) \ W : at[x] = e.disk_offset[x] /\ at[x] \in 0 .. N
    /\ \A x, y \in Alive(e) : at[x] = at[y] /\ at[x] # NoRecord => x = y
    /\ \A x \in W : \A c \in Children(e.nodes[x]) :
          /\ c \in Alive(e) \ {r} /\ par[c] = x /\ rk[x] = rk[c] + 1 /\ rk[c] \in Nat
          /\ c \in W \/ (c \notin W /\ Clean(e, c) /\ at[c] \in 1 .. N)

(* The records below that of a rewritten node are new ones of others, and  *)
(* old ones that it had, below the record of a node that stays.            *)
ReachesNew(W, at, N, o) == o > N /\ \E x \in W : o = at[x]

ReachesOld(e, r, par, ft, W, N, w, o) ==
    /\ o \in 1 .. N /\ o \in ft[w]
    /\ \E c \in Alive(e) \ W : Clean(e, c) /\ c # r /\ par[c] \in W /\ o \in ft[c]

LEMMA BelowRewritten ==
    ASSUME NEW e, NEW rs, NEW hr, NEW r, NEW X, NEW F, NEW rk, NEW par, NEW ft,
           SaneBy(e, rs, hr, r, X, F, rk, par, ft),
           NEW N, NEW W, NEW at, Rewritten(e, rs, hr, r, rk, par, ft, N, W, at)
    PROVE  \A w \in W : \A o \in Subtree(rs, at[w]) :
              ReachesNew(W, at, N, o) \/ ReachesOld(e, r, par, ft, W, N, w, o)
<1> DEFINE Good(w) == \A o \in Subtree(rs, at[w]) :
                         ReachesNew(W, at, N, o) \/ ReachesOld(e, r, par, ft, W, N, w, o)
           G == {w \in W : Good(w)}
           h == [w \in W |-> rk[w]]
<1>1. N \in 0 .. Len(rs) /\ Len(rs) \in Nat /\ N \in Nat
  <2>1. Len(rs) \in Nat
    BY RecordsBelow DEF SaneBy
  <2> QED BY <2>1 DEF Rewritten
<1>2. \A w \in W : at[w] \in 1 .. Len(rs) /\ at[w] > N
  <2>1. \A w \in W : at[w] \in (N + 1) .. Len(rs)
    BY DEF Rewritten
  <2> QED BY <2>1, <1>1
<1>3. \A o \in 1 .. Len(rs) : Subtree(rs, o) = {o} \cup UNION {Subtree(rs, c) : c \in Children(rs[o])}
  BY RecordsBelow DEF SaneBy
<1>4. W \subseteq Alive(e) /\ \A x \in Alive(e) : rk[x] \in Nat
  BY DEF Rewritten, SaneBy, Rooted
<1>5. ASSUME NEW w \in W, \A c \in W : h[c] < h[w] => c \in G PROVE w \in G
  <2> SUFFICES ASSUME NEW o \in Subtree(rs, at[w])
               PROVE  ReachesNew(W, at, N, o) \/ ReachesOld(e, r, par, ft, W, N, w, o)
    OBVIOUS
  <2>1. CASE o = at[w]
    BY <2>1, <1>2 DEF ReachesNew
  <2>2. CASE o # at[w]
    <3>1. PICK b \in Children(rs[at[w]]) : o \in Subtree(rs, b)
      BY <2>2, <1>2, <1>3
    <3>2. PICK c \in Children(e.nodes[w]) : b = at[c]
      BY <3>1 DEF Rewritten
    <3>3. /\ c \in Alive(e) \ {r} /\ par[c] = w /\ rk[w] = rk[c] + 1 /\ rk[c] \in Nat
          /\ c \in W \/ (c \notin W /\ Clean(e, c) /\ at[c] \in 1 .. N)
      BY DEF Rewritten
    <3>4. ft[c] \subseteq ft[w] /\ ft[c] \subseteq 1 .. N
      BY <3>3 DEF SaneBy, Apart, Rewritten
    <3>5. CASE c \in W
      <4>1. h[c] < h[w]
        BY <3>3, <3>5
      <4>2. Good(c)
        BY <4>1, <3>5, <1>5
      <4>3. ReachesNew(W, at, N, o) \/ ReachesOld(e, r, par, ft, W, N, c, o)
        BY <4>2, <3>1, <3>2
      <4>4. ReachesOld(e, r, par, ft, W, N, c, o) => ReachesOld(e, r, par, ft, W, N, w, o)
        BY <3>4 DEF ReachesOld
      <4> QED BY <4>3, <4>4
    <3>6. CASE c \notin W
      <4>1. at[c] = e.disk_offset[c] /\ Clean(e, c)
        BY <3>3, <3>6 DEF Rewritten
      <4>2. ft[c] = Subtree(rs, at[c])
        BY <4>1, <3>3 DEF SaneBy, Apart
      <4>3. o \in ft[c]
        BY <4>2, <3>1, <3>2
      <4>4. o \in 1 .. N /\ o \in ft[w]
        BY <4>3, <3>4
      <4> QED BY <4>1, <4>3, <4>4, <3>3, <3>6 DEF ReachesOld
    <3> QED BY <3>5, <3>6
  <2> QED BY <2>1, <2>2
<1>6. h \in [W -> Nat]
  BY <1>4
<1>7. \A w \in W : w \in G
  <2> HIDE DEF G, h
  <2> QED BY <1>5, <1>6, RankInduction
<1> QED BY <1>7

(* Rewritten nodes of one height have no new record in common.             *)
LEMMA NewApart ==
    ASSUME NEW e, NEW rs, NEW hr, NEW r, NEW X, NEW F, NEW rk, NEW par, NEW ft,
           SaneBy(e, rs, hr, r, X, F, rk, par, ft),
           NEW N, NEW W, NEW at, Rewritten(e, rs, hr, r, rk, par, ft, N, W, at)
    PROVE  \A x, y \in W : \A o \in Subtree(rs, at[x]) \cap Subtree(rs, at[y]) :
              rk[x] = rk[y] /\ o > N => x = y
<1> DEFINE Good(x) == \A y \in W : \A o \in Subtree(rs, at[x]) \cap Subtree(rs, at[y]) :
                         rk[x] = rk[y] /\ o > N => x = y
           G == {x \in W : Good(x)}
           h == [w \in W |-> rk[w]]
<1>1. Len(rs) \in Nat /\ N \in Nat
  <2>1. Len(rs) \in Nat
    BY RecordsBelow DEF SaneBy
  <2> QED BY <2>1 DEF Rewritten
<1>2. \A w \in W : at[w] \in 1 .. Len(rs) /\ at[w] > N /\ hr[at[w]] = rk[w] /\ at[w] # NoRecord
  <2>1. \A w \in W : at[w] \in (N + 1) .. Len(rs) /\ hr[at[w]] = rk[w]
    BY DEF Rewritten
  <2> QED BY <2>1, <1>1 DEF NoRecord
<1>3. \A w \in W : /\ Subtree(rs, at[w]) = {at[w]} \cup UNION {Subtree(rs, c) : c \in Children(rs[at[w]])}
                   /\ \A t \in Subtree(rs, at[w]) : t # at[w] => hr[t] < hr[at[w]]
  BY <1>2, RecordsBelow, BelowRecord DEF SaneBy
<1>4. W \subseteq Alive(e) /\ \A x \in Alive(e) : rk[x] \in Nat
  BY DEF Rewritten, SaneBy, Rooted
<1>5. \A x, y \in W : at[x] = at[y] => x = y
  BY <1>2, <1>4 DEF Rewritten
<1>6. ASSUME NEW w \in W, NEW o \in Subtree(rs, at[w]), o # at[w], o > N
      PROVE  \E c \in W : rk[w] = rk[c] + 1 /\ rk[c] \in Nat /\ par[c] = w /\ o \in Subtree(rs, at[c])
  <2>1. PICK b \in Children(rs[at[w]]) : o \in Subtree(rs, b)
    BY <1>6, <1>3
  <2>2. PICK c \in Children(e.nodes[w]) : b = at[c]
    BY <2>1 DEF Rewritten
  <2>3. /\ c \in Alive(e) \ {r} /\ par[c] = w /\ rk[w] = rk[c] + 1 /\ rk[c] \in Nat
        /\ c \in W \/ (c \notin W /\ Clean(e, c) /\ at[c] \in 1 .. N)
    BY DEF Rewritten
  <2>4. CASE c \notin W
    <3>1. at[c] = e.disk_offset[c] /\ Clean(e, c)
      BY <2>3, <2>4 DEF Rewritten
    <3>2. ft[c] = Subtree(rs, at[c]) /\ ft[c] \subseteq 1 .. N
      BY <3>1, <2>3 DEF SaneBy, Apart, Rewritten
    <3>3. o \in 1 .. N
      BY <3>2, <2>1, <2>2
    <3> QED BY <3>3, <1>1, <1>6
  <2> QED BY <2>1, <2>2, <2>3, <2>4
<1>7. ASSUME NEW x \in W, \A c \in W : h[c] < h[x] => c \in G PROVE x \in G
  <2> SUFFICES ASSUME NEW y \in W, NEW o \in Subtree(rs, at[x]), o \in Subtree(rs, at[y]),
                      rk[x] = rk[y], o > N
               PROVE  x = y
    OBVIOUS
  <2>0. rk[x] \in Nat
    BY <1>4
  <2>1. CASE o = at[x]
    <3>1. ~(hr[at[x]] < hr[at[y]])
      BY <2>0, <1>2
    <3>2. at[x] = at[y]
      BY <3>1, <2>1, <1>3
    <3> QED BY <3>2, <1>5
  <2>2. CASE o = at[y]
    <3>1. ~(hr[at[y]] < hr[at[x]])
      BY <2>0, <1>2
    <3>2. at[x] = at[y]
      BY <3>1, <2>2, <1>3
    <3> QED BY <3>2, <1>5
  <2>3. CASE o # at[x] /\ o # at[y]
    <3>1. PICK c \in W : rk[x] = rk[c] + 1 /\ rk[c] \in Nat /\ par[c] = x /\ o \in Subtree(rs, at[c])
      BY <2>3, <1>6
    <3>2. PICK d \in W : rk[y] = rk[d] + 1 /\ rk[d] \in Nat /\ par[d] = y /\ o \in Subtree(rs, at[d])
      BY <2>3, <1>6
    <3>6. rk[d] + 1 = rk[c] + 1
      BY <3>1, <3>2
    <3>7. rk[c] = rk[d] /\ rk[c] < rk[x]
      BY <3>1, <3>2, <3>6
    <3>3. rk[c] = rk[d] /\ h[c] < h[x]
      BY <3>7
    <3>4. Good(c)
      BY <3>3, <1>7
    <3>5. c = d
      BY <3>1, <3>2, <3>3, <3>4
    <3> QED BY <3>1, <3>2, <3>5
  <2> QED BY <2>1, <2>2, <2>3
<1>8. h \in [W -> Nat]
  BY <1>4
<1>9. \A w \in W : w \in G
  <2> HIDE DEF G, h
  <2> QED BY <1>7, <1>8, RankInduction
<1> QED BY <1>9


(* The records of each node after the commit.                              *)
FtAfter(e, rs, ft, W, at) == [x \in Alive(e) |-> IF x \in W THEN Subtree(rs, at[x]) ELSE ft[x]]

LEMMA AfterApart ==
    ASSUME NEW e, NEW rs, NEW hr, NEW r, NEW X, NEW F, NEW rk, NEW par, NEW ft,
           SaneBy(e, rs, hr, r, X, F, rk, par, ft),
           NEW N, NEW W, NEW at, Rewritten(e, rs, hr, r, rk, par, ft, N, W, at),
           NEW f, f = FtAfter(e, rs, ft, W, at)
    PROVE  /\ \A x \in Alive(e) : f[x] = IF x \in W THEN Subtree(rs, at[x]) ELSE ft[x]
           /\ \A x, y \in Alive(e) : rk[x] = rk[y] /\ f[x] \cap f[y] # {} => x = y
<1>1. \A x \in Alive(e) : f[x] = IF x \in W THEN Subtree(rs, at[x]) ELSE ft[x]
  BY DEF FtAfter
<1>2. /\ \A x \in Alive(e) : ft[x] \subseteq 1 .. N
      /\ \A x, y \in Alive(e) : rk[x] = rk[y] /\ ft[x] \cap ft[y] # {} => x = y
      /\ N \in Nat
  BY DEF SaneBy, Apart, Rewritten
<1>3. ASSUME NEW w \in W, NEW o \in Subtree(rs, at[w]), ~(o > N) PROVE o \in ft[w]
  <2>1. ReachesNew(W, at, N, o) \/ ReachesOld(e, r, par, ft, W, N, w, o)
    BY BelowRewritten
  <2> QED BY <2>1, <1>3 DEF ReachesNew, ReachesOld
<1>4. \A x, y \in W : \A o \in Subtree(rs, at[x]) \cap Subtree(rs, at[y]) : rk[x] = rk[y] /\ o > N => x = y
  BY NewApart
<1>5. ASSUME NEW x \in Alive(e), NEW o \in f[x], ~(o > N) PROVE o \in ft[x]
  BY <1>1, <1>3, <1>5
<1>6. ASSUME NEW x \in Alive(e), NEW o \in f[x], o > N PROVE x \in W /\ o \in Subtree(rs, at[x])
  BY <1>1, <1>2, <1>6
<1>7. ASSUME NEW x \in Alive(e), NEW y \in Alive(e), NEW o \in f[x], o \in f[y], rk[x] = rk[y]
      PROVE  x = y
  <2>1. CASE o > N
    <3>1. x \in W /\ y \in W /\ o \in Subtree(rs, at[x]) \cap Subtree(rs, at[y])
      BY <2>1, <1>6, <1>7
    <3> QED BY <3>1, <2>1, <1>4, <1>7
  <2>2. CASE ~(o > N)
    <3>1. o \in ft[x] /\ o \in ft[y]
      BY <2>2, <1>5, <1>7
    <3> QED BY <3>1, <1>2, <1>7
  <2> QED BY <2>1, <2>2
<1> QED BY <1>1, <1>7

(* The new records form a tree with the old ones.                          *)
LEMMA NestedAfter ==
    ASSUME NEW e, NEW rs, NEW hr, NEW r, NEW X, NEW F, NEW rk, NEW par, NEW ft,
           SaneBy(e, rs, hr, r, X, F, rk, par, ft),
           NEW N, NEW W, NEW at, Rewritten(e, rs, hr, r, rk, par, ft, N, W, at), NEW w \in W
    PROVE  Nested(rs, hr, at[w])
<1> DEFINE f == FtAfter(e, rs, ft, W, at)
           L == Alive(e)
<1>1. /\ \A x \in L : f[x] = IF x \in W THEN Subtree(rs, at[x]) ELSE ft[x]
      /\ \A x, y \in L : rk[x] = rk[y] /\ f[x] \cap f[y] # {} => x = y
  BY AfterApart
<1>2. /\ \A x \in L : ft[x] \subseteq 1 .. N
      /\ \A x, y \in L : rk[x] = rk[y] /\ ft[x] \cap ft[y] # {} => x = y
      /\ W \subseteq L /\ \A x \in W \ {r} : par[x] \in W
      /\ \A x \in W : hr[at[x]] = rk[x] /\ at[x] \in (N + 1) .. Len(rs)
      /\ N \in 0 .. Len(rs)
  BY DEF SaneBy, Apart, Rewritten
<1>3. /\ \A x \in L : rk[x] \in Nat /\ rk[x] <= rk[r]
      /\ \A x \in L \ {r} : rk[par[x]] = rk[x] + 1 /\ ft[x] \subseteq ft[par[x]]
  BY DEF SaneBy, Apart, Rooted
<1>4. Leveled(rs, hr) /\ Len(rs) \in Nat /\ hr \in [1 .. Len(rs) -> Nat]
  <2>1. Leveled(rs, hr)
    BY DEF SaneBy
  <2> QED BY <2>1, RecordsBelow DEF Leveled
<1> HIDE DEF L, f
<1>5. ASSUME NEW c \in L \ W, Clean(e, c)
      PROVE  /\ ft[c] = Subtree(rs, e.disk_offset[c]) /\ Nested(rs, hr, e.disk_offset[c])
             /\ e.disk_offset[c] \in 1 .. Len(rs) /\ rk[c] = hr[e.disk_offset[c]]
  <2>1. ft[c] = Subtree(rs, e.disk_offset[c]) /\ Nested(rs, hr, e.disk_offset[c])
    BY <1>5 DEF SaneBy, Apart, L
  <2>2. e.disk_offset[c] # NoRecord /\ e.disk_offset[c] \in 0 .. Len(rs)
    <3>1. c \in 1 .. Len(e.nodes) /\ (e.nodes[c] = OnDisk \/ IsLoaded(e.nodes[c]))
      BY SlotFacts DEF L
    <3>2. e.disk_offset[c] \in 0 .. Len(rs) /\ (e.nodes[c] = OnDisk => e.disk_offset[c] # NoRecord)
      BY <3>1 DEF SaneBy, Held
    <3>3. CASE e.nodes[c] # OnDisk
      <4>1. IsLoaded(e.nodes[c]) /\ ~e.nodes[c].dirty
        BY <3>1, <3>3, <1>5 DEF Clean
      <4> QED BY <3>2, <4>1 DEF SaneBy, Held, L
    <3> QED BY <3>2, <3>3
  <2>3. rk[c] = hr[e.disk_offset[c]]
    BY <2>2 DEF SaneBy, Rooted, L
  <2> QED BY <2>1, <2>2, <2>3, <1>4 DEF NoRecord
<1>6. ASSUME NEW c \in L \ W, Clean(e, c), NEW b \in ft[c]
      PROVE  /\ Subtree(rs, b) \subseteq ft[c] /\ hr[b] <= rk[c] /\ hr[b] \in Nat
             /\ b \in Subtree(rs, b)
  <2>1. /\ ft[c] = Subtree(rs, e.disk_offset[c])
        /\ e.disk_offset[c] \in 1 .. Len(rs) /\ rk[c] = hr[e.disk_offset[c]]
    BY <1>5, <1>6
  <2>2. /\ Subtree(rs, e.disk_offset[c]) \subseteq 1 .. Len(rs)
        /\ \A t \in Subtree(rs, e.disk_offset[c]) : t # e.disk_offset[c] => hr[t] < hr[e.disk_offset[c]]
        /\ \A t \in Subtree(rs, e.disk_offset[c]) : Subtree(rs, t) \subseteq Subtree(rs, e.disk_offset[c])
    BY <2>1, <1>4, BelowRecord
  <2>3. b \in 1 .. Len(rs)
    BY <2>1, <2>2
  <2>4. b \in Subtree(rs, b) /\ hr[b] \in Nat
    BY <2>3, <1>4, BelowRecord
  <2>5. hr[b] <= rk[c]
    <3>1. hr[e.disk_offset[c]] \in Nat
      BY <2>1, <1>4
    <3> QED BY <3>1, <2>1, <2>2, <2>4
  <2> QED BY <2>1, <2>2, <2>4, <2>5
<1>7. ASSUME NEW x \in W, NEW c \in L \ W, NEW o \in ft[c], o \in ft[x], rk[x] <= rk[c] PROVE FALSE
  <2>1. rk[c] \in Nat /\ rk[c] <= rk[r]
    BY <1>3
  <2>2. \E a \in W : rk[a] = rk[c] /\ o \in ft[a]
    <3>1. W \subseteq Alive(e) /\ (\A y \in W \ {r} : par[y] \in W) /\ o \in ft[x] /\ rk[x] <= rk[c]
      BY <1>2, <1>7 DEF L
    <3>2. \A k \in Nat : rk[x] <= k /\ k <= rk[r] => \E a \in W : rk[a] = k /\ o \in ft[a]
      BY <3>1, Climb
    <3> QED BY <3>1, <3>2, <2>1
  <2>3. PICK a \in W : rk[a] = rk[c] /\ o \in ft[a]
    BY <2>2
  <2> QED BY <2>3, <1>2
<1>8. ASSUME NEW o \in Subtree(rs, at[w])
      PROVE  ReachesNew(W, at, N, o) \/ ReachesOld(e, r, par, ft, W, N, w, o)
  BY BelowRewritten
<1>9. ASSUME NEW a, NEW b, ReachesNew(W, at, N, a), ReachesNew(W, at, N, b), hr[a] = hr[b],
             NEW o \in Subtree(rs, a), o \in Subtree(rs, b)
      PROVE  a = b
  <2>1. PICK x \in W : a = at[x]
    BY <1>9 DEF ReachesNew
  <2>2. PICK y \in W : b = at[y]
    BY <1>9 DEF ReachesNew
  <2>3. rk[x] = rk[y] /\ o \in f[x] /\ o \in f[y] /\ x \in L /\ y \in L
    BY <2>1, <2>2, <1>1, <1>2, <1>9
  <2>4. x = y
    BY <2>3, <1>1
  <2> QED BY <2>1, <2>2, <2>4
<1>10. ASSUME NEW a, NEW b, ReachesNew(W, at, N, a), ReachesOld(e, r, par, ft, W, N, w, b),
              hr[a] = hr[b], NEW o \in Subtree(rs, a), o \in Subtree(rs, b)
       PROVE  FALSE
  <2>1. PICK x \in W : a = at[x]
    BY <1>10 DEF ReachesNew
  <2>2. PICK c \in L \ W : Clean(e, c) /\ b \in ft[c]
    BY <1>10 DEF ReachesOld, L
  <2>3. o \in ft[c] /\ hr[b] <= rk[c]
    BY <2>2, <1>6, <1>10
  <2>4. o \in ft[x]
    <3>1. o \in 1 .. N
      BY <2>2, <2>3, <1>2
    <3>2. ReachesNew(W, at, N, o) \/ ReachesOld(e, r, par, ft, W, N, x, o)
      BY <2>1, <1>10, BelowRewritten
    <3>3. ~(o > N)
      BY <3>1, <1>2
    <3> QED BY <3>2, <3>3 DEF ReachesNew, ReachesOld
  <2>5. rk[x] <= rk[c]
    BY <2>1, <2>3, <1>2, <1>10
  <2> QED BY <2>2, <2>3, <2>4, <2>5, <1>7
<1>11. ASSUME NEW c \in L \ W, NEW d \in L \ W, par[c] \in W, c # r, NEW o \in ft[c], o \in ft[d],
              rk[c] < rk[d]
       PROVE  FALSE
  <2>1. o \in ft[par[c]] /\ rk[par[c]] = rk[c] + 1 /\ rk[c] \in Nat /\ rk[d] \in Nat
    BY <1>3, <1>11
  <2>2. rk[par[c]] <= rk[d]
    BY <2>1, <1>11
  <2> QED BY <2>1, <2>2, <1>7, <1>11
<1>12. ASSUME NEW a, NEW b, ReachesOld(e, r, par, ft, W, N, w, a), ReachesOld(e, r, par, ft, W, N, w, b),
              hr[a] = hr[b], NEW o \in Subtree(rs, a), o \in Subtree(rs, b)
       PROVE  a = b
  <2>1. PICK c \in L \ W : Clean(e, c) /\ c # r /\ par[c] \in W /\ a \in ft[c]
    BY <1>12 DEF ReachesOld, L
  <2>2. PICK d \in L \ W : Clean(e, d) /\ d # r /\ par[d] \in W /\ b \in ft[d]
    BY <1>12 DEF ReachesOld, L
  <2>3. o \in ft[c]
    BY <2>1, <1>6, <1>12
  <2>4. o \in ft[d]
    BY <2>2, <1>6, <1>12
  <2>5. rk[c] = rk[d]
    <3>1. ~(rk[c] < rk[d])
      BY <2>1, <2>3, <2>4, <1>11
    <3>2. ~(rk[d] < rk[c])
      BY <2>2, <2>3, <2>4, <1>11
    <3> QED BY <3>1, <3>2, <1>3
  <2>6. c = d
    BY <2>3, <2>4, <2>5, <1>2
  <2>7. ft[c] = Subtree(rs, e.disk_offset[c]) /\ Nested(rs, hr, e.disk_offset[c])
    BY <2>1, <1>5
  <2>8. Subtree(rs, a) \cap Subtree(rs, b) # {}
    BY <1>12
  <2> QED BY <2>1, <2>2, <2>6, <2>7, <2>8, <1>12, Zenon DEF Nested
<1> SUFFICES ASSUME NEW a \in Subtree(rs, at[w]), NEW b \in Subtree(rs, at[w]), hr[a] = hr[b],
                    NEW o \in Subtree(rs, a), o \in Subtree(rs, b)
             PROVE  a = b
  BY DEF Nested
<1> QED BY <1>8, <1>9, <1>10, <1>12


(* The end of commit_inner: the nodes W are clean, at their new offsets.   *)
AdoptedBy(e, W, at, e2) ==
    /\ IsEngine(e2) /\ e2.disk_offset = at
    /\ e2.nodes = [i \in DOMAIN e.nodes |-> IF i \in W THEN [e.nodes[i] EXCEPT !.dirty = FALSE]
                                                       ELSE e.nodes[i]]
    /\ e2.offsets = [o \in (DOMAIN e.offsets \ {e.disk_offset[i] : i \in W}) \cup {at[i] : i \in W} |->
                        IF o \in DOMAIN e.offsets THEN e.offsets[o] ELSE CHOOSE i \in W : at[i] = o]

CleanedTo(n, m) ==
    /\ m \in AnyNode /\ ~m.dirty /\ m.leaf = n.leaf /\ Children(m) = Children(n)
    /\ ~n.leaf => m.children = n.children /\ m.pivots = n.pivots
    /\ \A at : node_payload(m, at) = node_payload(n, at)

LEMMA CleanedNode ==
    ASSUME NEW n \in AnyNode
    PROVE  CleanedTo(n, [n EXCEPT !.dirty = FALSE])
<1> DEFINE m == [n EXCEPT !.dirty = FALSE]
<1>1. CASE n \in LeafNode
  <2>1. m \in LeafNode /\ m.dirty = FALSE /\ m.leaf = n.leaf /\ m.entries = n.entries /\ n.leaf
    BY <1>1 DEF LeafNode
  <2> HIDE DEF m
  <2>2. Children(m) = Children(n)
    BY <2>1 DEF Children
  <2>3. \A at : node_payload(m, at) = node_payload(n, at)
    BY <2>1 DEF node_payload
  <2> QED BY <2>1, <2>2, <2>3 DEF AnyNode, m, CleanedTo
<1>2. CASE n \in InnerNode
  <2>1. /\ m \in InnerNode /\ m.dirty = FALSE /\ m.leaf = n.leaf /\ ~n.leaf
        /\ m.children = n.children /\ m.pivots = n.pivots /\ m.buffer = n.buffer
    BY <1>2 DEF InnerNode
  <2> HIDE DEF m
  <2>2. Children(m) = Children(n)
    BY <2>1 DEF Children
  <2>3. \A at : node_payload(m, at) = node_payload(n, at)
    BY <2>1, Zenon DEF node_payload
  <2> QED BY <2>1, <2>2, <2>3 DEF AnyNode, m, CleanedTo
<1> QED BY <1>1, <1>2 DEF AnyNode

LEMMA AdoptedFacts ==
    ASSUME NEW e, NEW rs, NEW hr, NEW r, NEW X, NEW F, NEW rk, NEW par, NEW ft,
           SaneBy(e, rs, hr, r, X, F, rk, par, ft),
           NEW N, NEW W, NEW at, Rewritten(e, rs, hr, r, rk, par, ft, N, W, at),
           NEW e2, AdoptedBy(e, W, at, e2)
    PROVE  /\ e2.nodes \in Seq(Slots) /\ Len(e2.nodes) = Len(e.nodes) /\ Alive(e2) = Alive(e)
           /\ \A i \in Alive(e) \ W : e2.nodes[i] = e.nodes[i]
           /\ \A i \in W : /\ e2.nodes[i] \in AnyNode /\ IsLoaded(e2.nodes[i]) /\ ~e2.nodes[i].dirty
                           /\ e2.nodes[i].leaf = e.nodes[i].leaf
                           /\ Children(e2.nodes[i]) = Children(e.nodes[i])
                           /\ ~e.nodes[i].leaf => /\ e2.nodes[i].children = e.nodes[i].children
                                                  /\ e2.nodes[i].pivots = e.nodes[i].pivots
                           /\ node_payload(e2.nodes[i], at) = node_payload(e.nodes[i], at)
           /\ \A i \in 1 .. Len(e.nodes) : e2.nodes[i] = OnDisk => e.nodes[i] = OnDisk /\ i \notin W
<1> DEFINE K == Len(e.nodes)
<1>1. /\ K \in Nat /\ DOMAIN e.nodes = 1 .. K /\ Alive(e) \subseteq 1 .. K
      /\ \A i \in 1 .. K : e.nodes[i] \in Slots
  BY SlotFacts
<1>2. W \subseteq Alive(e) /\ \A x \in W : e.nodes[x] \in AnyNode
  BY DEF Rewritten
<1>3. e2.nodes = [i \in 1 .. K |-> IF i \in W THEN [e.nodes[i] EXCEPT !.dirty = FALSE] ELSE e.nodes[i]]
  BY <1>1 DEF AdoptedBy
<1> HIDE DEF K
<1>4. /\ \A i \in W : e2.nodes[i] = [e.nodes[i] EXCEPT !.dirty = FALSE]
      /\ \A i \in (1 .. K) \ W : e2.nodes[i] = e.nodes[i]
      /\ DOMAIN e2.nodes = 1 .. K
  BY <1>1, <1>2, <1>3
<1>5. \A i \in W : CleanedTo(e.nodes[i], e2.nodes[i])
  <2> TAKE i \in W
  <2>1. CleanedTo(e.nodes[i], [e.nodes[i] EXCEPT !.dirty = FALSE])
    BY <1>2, CleanedNode
  <2> QED BY <2>1, <1>4
<1>6. \A i \in W : LET n == e.nodes[i]
                       m == e2.nodes[i]
                   IN /\ m \in AnyNode /\ ~m.dirty /\ m.leaf = n.leaf /\ Children(m) = Children(n)
                      /\ ~n.leaf => m.children = n.children /\ m.pivots = n.pivots
                      /\ node_payload(m, at) = node_payload(n, at)
  BY <1>5 DEF CleanedTo
<1>7. \A i \in W : IsLoaded(e2.nodes[i]) /\ e2.nodes[i] # OnDisk /\ e2.nodes[i] # Freed
  BY <1>6, SlotKinds
<1>8. \A i \in 1 .. K : e2.nodes[i] \in Slots
  BY <1>1, <1>4, <1>6 DEF Slots
<1>9. e2.nodes \in Seq(Slots) /\ Len(e2.nodes) = K
  <2>1. e2.nodes \in [1 .. K -> Slots]
    <3>1. e2.nodes = [i \in 1 .. K |-> e2.nodes[i]]
      BY <1>3
    <3> QED BY <3>1, <1>8
  <2> QED BY <2>1, <1>1, SMTT(20)
<1>10. Alive(e2) = Alive(e)
  <2>1. ASSUME NEW i \in 1 .. K PROVE e2.nodes[i] = Freed <=> e.nodes[i] = Freed
    <3>1. CASE i \in W
      BY <3>1, <1>2, <1>7 DEF Alive
    <3>2. CASE i \notin W
      BY <3>2, <1>4
    <3> QED BY <3>1, <3>2
  <2> QED BY <2>1, <1>9 DEF Alive, K
<1>11. \A i \in 1 .. K : e2.nodes[i] = OnDisk => e.nodes[i] = OnDisk /\ i \notin W
  BY <1>4, <1>7
<1>12. \A i \in Alive(e) \ W : e2.nodes[i] = e.nodes[i]
  BY <1>1, <1>4
<1> QED BY <1>6, <1>7, <1>9, <1>10, <1>11, <1>12 DEF K


(* The engine is sane after a commit, and what its superblock reaches is   *)
(* what its tree has.                                                      *)
LEMMA Adopts ==
    ASSUME NEW e, NEW rs, NEW hr, NEW r, NEW F, NEW rk, NEW par, NEW ft,
           SaneBy(e, rs, hr, r, {}, F, rk, par, ft),
           NEW N, NEW W, NEW at, Rewritten(e, rs, hr, r, rk, par, ft, N, W, at),
           at \in [1 .. Len(e.nodes) -> 0 .. Len(rs)], r \in W \/ Clean(e, r),
           NEW e2, AdoptedBy(e, W, at, e2)
    PROVE  /\ Sane(e2, rs, hr, r, {}, Subtree(rs, at[r])) /\ Alive(e2) = Alive(e)
           /\ at[r] \in 1 .. Len(rs) /\ Nested(rs, hr, at[r])
           /\ Subtree(rs, at[r]) \cap (1 .. N) \subseteq F
<1> DEFINE L == Alive(e)
           f == FtAfter(e, rs, ft, W, at)
<1>1. /\ Leveled(rs, hr) /\ Held(e, rs, {}) /\ Interned(e, rs) /\ Half(e, rs)
      /\ Rooted(e, rs, r, hr, rk, par) /\ Apart(e, rs, r, hr, rk, par, ft) /\ ft[r] \subseteq F
  BY DEF SaneBy
<1>2. /\ N \in 0 .. Len(rs) /\ DOMAIN e.offsets \subseteq 1 .. N
      /\ \A x \in L : ft[x] \subseteq 1 .. N
      /\ W \subseteq L /\ \A x \in W \ {r} : par[x] \in W
      /\ \A x \in L \ W : at[x] = e.disk_offset[x] /\ at[x] \in 0 .. N
      /\ \A x, y \in L : at[x] = at[y] /\ at[x] # NoRecord => x = y
  BY DEF Rewritten
<1>3. \A x \in W : /\ IsLoaded(e.nodes[x]) /\ at[x] \in (N + 1) .. Len(rs) /\ hr[at[x]] = rk[x]
                   /\ rs[at[x]] = node_payload(e.nodes[x], at)
                   /\ Children(rs[at[x]]) = {at[c] : c \in Children(e.nodes[x])}
  BY DEF Rewritten
<1>4. \A x \in W : \A c \in Children(e.nodes[x]) :
          /\ c \in L \ {r} /\ par[c] = x
          /\ c \in W \/ (c \notin W /\ Clean(e, c) /\ at[c] \in 1 .. N)
  BY DEF Rewritten
<1>5. Len(rs) \in Nat /\ N \in Nat
  <2>1. Len(rs) \in Nat
    BY <1>1, RecordsBelow
  <2> QED BY <2>1, <1>2
<1>6. \A x \in W : at[x] \in 1 .. Len(rs) /\ at[x] > N /\ at[x] # NoRecord
  BY <1>3, <1>5 DEF NoRecord
<1>7. /\ r \in L /\ \A x \in L \ {r} : par[x] \in L
      /\ \A i \in L : KidsOf(e, rs, i) = {x \in L \ {r} : par[x] = i}
  BY <1>1 DEF Rooted
<1>8. /\ e2.nodes \in Seq(Slots) /\ Len(e2.nodes) = Len(e.nodes) /\ Alive(e2) = L
      /\ \A i \in L \ W : e2.nodes[i] = e.nodes[i]
      /\ \A i \in W : /\ e2.nodes[i] \in AnyNode /\ IsLoaded(e2.nodes[i]) /\ ~e2.nodes[i].dirty
                      /\ e2.nodes[i].leaf = e.nodes[i].leaf
                      /\ Children(e2.nodes[i]) = Children(e.nodes[i])
                      /\ ~e.nodes[i].leaf => /\ e2.nodes[i].children = e.nodes[i].children
                                             /\ e2.nodes[i].pivots = e.nodes[i].pivots
                      /\ node_payload(e2.nodes[i], at) = node_payload(e.nodes[i], at)
      /\ \A i \in 1 .. Len(e.nodes) : e2.nodes[i] = OnDisk => e.nodes[i] = OnDisk /\ i \notin W
  BY AdoptedFacts
<1>9. L \subseteq 1 .. Len(e.nodes) /\ \A i \in L : e.nodes[i] = OnDisk \/ IsLoaded(e.nodes[i])
  BY SlotFacts
<1>10. \A i \in L : IsLoaded(e.nodes[i]) => KidsOf(e, rs, i) = Children(e.nodes[i])
  BY SlotFacts
<1>11. e2.disk_offset = at
  BY DEF AdoptedBy
<1>12. /\ DOMAIN e2.offsets = (DOMAIN e.offsets \ {e.disk_offset[i] : i \in W}) \cup {at[i] : i \in W}
       /\ \A o \in DOMAIN e2.offsets : e2.offsets[o] = IF o \in DOMAIN e.offsets THEN e.offsets[o]
                                                       ELSE CHOOSE i \in W : at[i] = o
  BY DEF AdoptedBy
<1> HIDE DEF L, f
<1>13. \A o \in DOMAIN e2.offsets : o \in 1 .. N =>
          o \in DOMAIN e.offsets /\ (\A i \in W : e.disk_offset[i] # o) /\ e2.offsets[o] = e.offsets[o]
  <2> SUFFICES ASSUME NEW o \in DOMAIN e2.offsets, o \in 1 .. N
               PROVE  /\ o \in DOMAIN e.offsets /\ (\A i \in W : e.disk_offset[i] # o)
                      /\ e2.offsets[o] = e.offsets[o]
    OBVIOUS
  <2>1. \A i \in W : at[i] # o
    BY <1>5, <1>6
  <2> QED BY <2>1, <1>12
<1>14. \A o \in DOMAIN e2.offsets : o \notin 1 .. N =>
          \E i \in W : at[i] = o /\ e2.offsets[o] = i
  <2> SUFFICES ASSUME NEW o \in DOMAIN e2.offsets, o \notin 1 .. N
               PROVE  \E i \in W : at[i] = o /\ e2.offsets[o] = i
    OBVIOUS
  <2>1. o \notin DOMAIN e.offsets
    BY <1>2
  <2>2. \E i \in W : at[i] = o
    BY <2>1, <1>12
  <2>3. e2.offsets[o] = CHOOSE i \in W : at[i] = o
    BY <2>1, <1>12
  <2> QED BY <2>2, <2>3, Zenon
<1>15. \A o \in DOMAIN e.offsets : (\A i \in W : e.disk_offset[i] # o) => o \in DOMAIN e2.offsets
  BY <1>12
<1>16. \A x \in L : e.disk_offset[x] # NoRecord =>
          e.disk_offset[x] \in DOMAIN e.offsets /\ e.offsets[e.disk_offset[x]] = x
  BY <1>1 DEF Interned, L
<1>17. \A o \in DOMAIN e.offsets : e.offsets[o] \in L /\ e.disk_offset[e.offsets[o]] = o
  BY <1>1 DEF Interned, L
<1>18. \A o \in DOMAIN e.offsets : o \in 1 .. N /\ o # NoRecord
  BY <1>2 DEF NoRecord
<1>19. \A o \in DOMAIN e.offsets : e.offsets[o] \notin W => o \in DOMAIN e2.offsets
  <2> SUFFICES ASSUME NEW o \in DOMAIN e.offsets, o \notin DOMAIN e2.offsets PROVE e.offsets[o] \in W
    OBVIOUS
  <2>1. PICK i \in W : e.disk_offset[i] = o
    BY <1>15
  <2>2. e.offsets[o] = i
    BY <2>1, <1>2, <1>16, <1>18
  <2> QED BY <2>2
<1>20. Interned(e2, rs)
  <2>1. DOMAIN e2.offsets \subseteq 1 .. Len(rs)
    BY <1>2, <1>5, <1>6, <1>12
  <2>2. ASSUME NEW o \in DOMAIN e2.offsets PROVE e2.offsets[o] \in L /\ at[e2.offsets[o]] = o
    <3>1. CASE o \in 1 .. N
      <4>1. o \in DOMAIN e.offsets /\ (\A i \in W : e.disk_offset[i] # o) /\ e2.offsets[o] = e.offsets[o]
        BY <3>1, <1>13
      <4>2. e.offsets[o] \in L /\ e.disk_offset[e.offsets[o]] = o
        BY <4>1, <1>17
      <4>3. e.offsets[o] \notin W
        BY <4>1, <4>2
      <4> QED BY <4>1, <4>2, <4>3, <1>2
    <3>2. CASE o \notin 1 .. N
      BY <3>2, <1>2, <1>14
    <3> QED BY <3>1, <3>2
  <2>3. ASSUME NEW i \in L, at[i] # NoRecord PROVE at[i] \in DOMAIN e2.offsets /\ e2.offsets[at[i]] = i
    <3>1. at[i] \in DOMAIN e2.offsets
      <4>1. CASE i \in W
        BY <4>1, <1>12
      <4>2. CASE i \notin W
        <5>1. at[i] = e.disk_offset[i] /\ at[i] \in DOMAIN e.offsets /\ e.offsets[at[i]] = i
          BY <4>2, <2>3, <1>2, <1>16
        <5> QED BY <5>1, <4>2, <1>19
      <4> QED BY <4>1, <4>2
    <3>2. e2.offsets[at[i]] \in L /\ at[e2.offsets[at[i]]] = at[i]
      BY <3>1, <2>2
    <3> QED BY <3>1, <3>2, <2>3, <1>2
  <2> QED BY <2>1, <2>2, <2>3, <1>8, <1>11 DEF Interned
<1>21. \A i \in L \ W : \A x \in L \ {r} : par[x] = i => x \notin W
  BY <1>2
<1>22. ASSUME NEW i \in L, e2.nodes[i] = OnDisk
       PROVE  /\ e.nodes[i] = OnDisk /\ i \in L \ W /\ at[i] = e.disk_offset[i] /\ at[i] \in 1 .. N
              /\ Children(rs[at[i]]) \cap DOMAIN e.offsets = Children(rs[at[i]]) \cap DOMAIN e2.offsets
              /\ \A c \in Children(rs[at[i]]) \cap DOMAIN e.offsets : e2.offsets[c] = e.offsets[c]
              /\ Subtree(rs, at[i]) \subseteq 1 .. N
  <2>1. e.nodes[i] = OnDisk /\ i \in L \ W /\ at[i] = e.disk_offset[i] /\ at[i] \in 0 .. N
    BY <1>2, <1>8, <1>9, <1>22
  <2>2. e.disk_offset[i] # NoRecord
    BY <2>1, <1>1, <1>9 DEF Held
  <2>3. at[i] \in 1 .. N
    BY <2>1, <2>2, <1>5 DEF NoRecord
  <2>4. Clean(e, i)
    BY <2>1 DEF Clean
  <2>5. ft[i] = Subtree(rs, at[i])
    BY <2>1, <2>4, <1>1 DEF Apart, L
  <2>6. Subtree(rs, at[i]) \subseteq 1 .. N
    BY <2>1, <2>5, <1>2
  <2>7. at[i] \in 1 .. Len(rs)
    BY <2>3, <1>2, <1>5
  <2>8. Children(rs[at[i]]) \subseteq 1 .. N
    <3>1. \A c \in Children(rs[at[i]]) : c \in 1 .. Len(rs) /\ Subtree(rs, c) \subseteq Subtree(rs, at[i])
      BY <2>7, <1>1, RecordsBelow, BelowRecord
    <3>2. \A c \in 1 .. Len(rs) : c \in Subtree(rs, c)
      BY <1>1, BelowRecord
    <3> QED BY <3>1, <3>2, <2>6
  <2>9. ASSUME NEW c \in Children(rs[at[i]]), c \in DOMAIN e.offsets PROVE c \in DOMAIN e2.offsets
    <3>1. e.offsets[c] \in KidsOf(e, rs, i)
      BY <2>1, <2>9 DEF KidsOf
    <3>2. e.offsets[c] \in L \ {r} /\ par[e.offsets[c]] = i
      BY <3>1, <1>7, <1>22
    <3>3. e.offsets[c] \notin W
      BY <3>2, <2>1, <1>21
    <3> QED BY <3>3, <2>9, <1>19
  <2>10. \A c \in Children(rs[at[i]]) : c \in DOMAIN e2.offsets =>
             c \in DOMAIN e.offsets /\ e2.offsets[c] = e.offsets[c]
    BY <2>8, <1>13
  <2> QED BY <2>1, <2>3, <2>6, <2>9, <2>10
<1>23. Half(e2, rs)
  <2> SUFFICES ASSUME NEW i \in L, e2.nodes[i] = OnDisk
               PROVE  Children(rs[at[i]]) \subseteq DOMAIN e2.offsets \/ Opaquely(e2, rs, i)
    BY <1>8, <1>11 DEF Half
  <2>1. /\ e.nodes[i] = OnDisk /\ at[i] = e.disk_offset[i]
        /\ Children(rs[at[i]]) \cap DOMAIN e.offsets = Children(rs[at[i]]) \cap DOMAIN e2.offsets
        /\ Subtree(rs, at[i]) \subseteq 1 .. N
    BY <1>22
  <2>2. Children(rs[at[i]]) \subseteq DOMAIN e.offsets \/ Opaquely(e, rs, i)
    BY <2>1, <1>1 DEF Half, L
  <2>3. Opaquely(e, rs, i) => Opaquely(e2, rs, i)
    BY <2>1, <1>11, <1>13 DEF Opaquely
  <2> QED BY <2>1, <2>2, <2>3
<1>24. \A i \in L : KidsOf(e2, rs, i) = KidsOf(e, rs, i)
  <2> TAKE i \in L
  <2>1. CASE e2.nodes[i] = OnDisk
    <3>1. /\ e.nodes[i] = OnDisk /\ at[i] = e.disk_offset[i]
          /\ Children(rs[at[i]]) \cap DOMAIN e.offsets = Children(rs[at[i]]) \cap DOMAIN e2.offsets
          /\ \A c \in Children(rs[at[i]]) \cap DOMAIN e.offsets : e2.offsets[c] = e.offsets[c]
      BY <2>1, <1>22
    <3>2. KidsOf(e2, rs, i) = {e2.offsets[c] : c \in Children(rs[at[i]]) \cap DOMAIN e2.offsets}
      BY <2>1, <1>11 DEF KidsOf
    <3>3. KidsOf(e, rs, i) = {e.offsets[c] : c \in Children(rs[at[i]]) \cap DOMAIN e.offsets}
      BY <3>1 DEF KidsOf
    <3> QED BY <3>1, <3>2, <3>3
  <2>2. CASE e2.nodes[i] # OnDisk /\ i \in W
    <3>1. e.nodes[i] # OnDisk /\ Children(e2.nodes[i]) = Children(e.nodes[i])
      BY <2>2, <1>3, <1>8 DEF IsLoaded
    <3> QED BY <3>1, <2>2 DEF KidsOf
  <2>3. CASE e2.nodes[i] # OnDisk /\ i \notin W
    <3>1. e2.nodes[i] = e.nodes[i]
      BY <2>3, <1>8
    <3> QED BY <3>1, <2>3 DEF KidsOf
  <2> QED BY <2>1, <2>2, <2>3
<1>25. \A i \in L : IsLoaded(e2.nodes[i]) => IsLoaded(e.nodes[i]) /\ e2.nodes[i].leaf = e.nodes[i].leaf
  BY <1>3, <1>8
<1>26. Rooted(e2, rs, r, hr, rk, par)
  <2>1. \A i \in L : IsLoaded(e2.nodes[i]) => (e2.nodes[i].leaf <=> rk[i] = 0)
    BY <1>1, <1>25 DEF Rooted, L
  <2>2. \A i \in L : at[i] # NoRecord => rk[i] = hr[at[i]]
    <3> SUFFICES ASSUME NEW i \in L, at[i] # NoRecord PROVE rk[i] = hr[at[i]]
      OBVIOUS
    <3>1. CASE i \in W
      BY <3>1, <1>3
    <3>2. CASE i \notin W
      <4>1. at[i] = e.disk_offset[i]
        BY <3>2, <1>2
      <4> QED BY <4>1, <1>1 DEF Rooted, L
    <3> QED BY <3>1, <3>2
  <2>3. \A i \in L : KidsOf(e2, rs, i) = {x \in L \ {r} : par[x] = i}
    BY <1>7, <1>24
  <2>4. /\ r \in L
        /\ \A x \in L : rk[x] \in Nat /\ rk[x] <= rk[r]
        /\ \A x \in L \ {r} : par[x] \in L /\ rk[par[x]] = rk[x] + 1
    BY <1>1 DEF Rooted, L
  <2> QED BY <2>1, <2>2, <2>3, <2>4, <1>8, <1>11, Zenon DEF Rooted
<1>27. /\ \A x \in L : f[x] = IF x \in W THEN Subtree(rs, at[x]) ELSE ft[x]
       /\ \A x, y \in L : rk[x] = rk[y] /\ f[x] \cap f[y] # {} => x = y
  BY AfterApart DEF L, f
<1>28. ASSUME NEW x \in L \ W, Clean(e, x)
       PROVE  f[x] = Subtree(rs, at[x]) /\ Nested(rs, hr, at[x]) /\ at[x] = e.disk_offset[x]
  <2>1. ft[x] = Subtree(rs, e.disk_offset[x]) /\ Nested(rs, hr, e.disk_offset[x])
    BY <1>1, <1>28 DEF Apart, L
  <2> QED BY <2>1, <1>2, <1>27
<1>29. Apart(e2, rs, r, hr, rk, par, f)
  <2>1. \A x \in L : f[x] \subseteq 1 .. Len(rs)
    <3> TAKE x \in L
    <3>1. CASE x \in W
      BY <3>1, <1>1, <1>6, <1>27, BelowRecord
    <3>2. CASE x \notin W
      <4>1. f[x] = ft[x]
        BY <3>2, <1>27
      <4> QED BY <4>1, <1>2, <1>5
    <3> QED BY <3>1, <3>2
  <2>2. ASSUME NEW x \in L \ {r} PROVE f[x] \subseteq f[par[x]]
    <3>1. par[x] \in L
      BY <1>7
    <3>2. CASE par[x] \in W
      <4> DEFINE p == par[x]
      <4>1. x \in Children(e.nodes[p])
        BY <3>1, <3>2, <1>3, <1>7, <1>10
      <4>2. at[x] \in Children(rs[at[p]])
        BY <4>1, <3>2, <1>3
      <4>3. Subtree(rs, at[x]) \subseteq Subtree(rs, at[p])
        BY <4>2, <3>2, <1>1, <1>6, BelowRecord
      <4>4. f[x] = Subtree(rs, at[x])
        <5>1. CASE x \in W
          BY <5>1, <1>27
        <5>2. CASE x \notin W
          BY <5>2, <4>1, <3>2, <1>4, <1>28
        <5> QED BY <5>1, <5>2
      <4> QED BY <4>3, <4>4, <3>1, <3>2, <1>27
    <3>3. CASE par[x] \notin W
      <4>1. x \notin W
        BY <3>3, <1>2
      <4>2. ft[x] \subseteq ft[par[x]]
        BY <1>1 DEF Apart, L
      <4> QED BY <4>1, <4>2, <3>1, <3>3, <1>27
    <3> QED BY <3>2, <3>3
  <2>3. ASSUME NEW x \in L, Clean(e2, x) PROVE f[x] = Subtree(rs, at[x]) /\ Nested(rs, hr, at[x])
    <3>1. CASE x \in W
      BY <3>1, <1>27, NestedAfter
    <3>2. CASE x \notin W
      <4>1. Clean(e, x)
        BY <3>2, <2>3, <1>8 DEF Clean
      <4> QED BY <4>1, <3>2, <1>28
    <3> QED BY <3>1, <3>2
  <2> QED BY <2>1, <2>2, <2>3, <1>8, <1>11, <1>27, Zenon DEF Apart
<1>30. Held(e2, rs, {})
  <2>1. at \in Seq(Nat) /\ Len(at) = Len(e.nodes)
    <3>1. at \in [1 .. Len(e.nodes) -> Nat] /\ Len(e.nodes) \in Nat
      <4>1. Len(e.nodes) \in Nat
        BY SlotFacts
      <4> QED BY <4>1, <1>5
    <3> QED BY <3>1, SMTT(20)
  <2>2. ASSUME NEW i \in 1 .. Len(e.nodes), e2.nodes[i] = OnDisk PROVE at[i] # NoRecord
    <3>1. i \in L
      <4>1. Len(e2.nodes) = Len(e.nodes) /\ OnDisk # Freed
        BY <1>8, SlotKinds
      <4>2. i \in Alive(e2)
        BY <4>1, <2>2 DEF Alive
      <4> QED BY <4>2, <1>8
    <3> QED BY <3>1, <2>2, <1>22 DEF NoRecord
  <2>3. ASSUME NEW i \in L, IsLoaded(e2.nodes[i]), ~e2.nodes[i].dirty
        PROVE  at[i] # NoRecord /\ rs[at[i]] = node_payload(e2.nodes[i], at)
    <3>1. CASE i \in W
      BY <3>1, <1>3, <1>6, <1>8
    <3>2. CASE i \notin W
      <4>1. e2.nodes[i] = e.nodes[i] /\ at[i] = e.disk_offset[i]
        BY <3>2, <1>2, <1>8
      <4>2. e.disk_offset[i] # NoRecord /\ rs[e.disk_offset[i]] = node_payload(e.nodes[i], e.disk_offset)
        BY <4>1, <2>3, <1>1 DEF Held, L
      <4>3. Children(e.nodes[i]) = {x \in L \ {r} : par[x] = i}
        BY <4>1, <2>3, <1>7, <1>10
      <4>4. \A c \in Children(e.nodes[i]) : at[c] = e.disk_offset[c]
        BY <4>3, <3>2, <1>2, <1>21
      <4>5. node_payload(e.nodes[i], e.disk_offset) = node_payload(e.nodes[i], at)
        <5>1. CASE e.nodes[i].leaf
          BY <5>1 DEF node_payload
        <5>2. CASE ~e.nodes[i].leaf
          <6>1. [j \in DOMAIN e.nodes[i].children |-> at[e.nodes[i].children[j]]]
                  = [j \in DOMAIN e.nodes[i].children |-> e.disk_offset[e.nodes[i].children[j]]]
            BY <4>4, <5>2 DEF Children, Range
          <6> QED BY <6>1, <5>2, Zenon DEF node_payload
        <5> QED BY <5>1, <5>2
      <4> QED BY <4>1, <4>2, <4>5
    <3> QED BY <3>1, <3>2
  <2>4. ASSUME NEW i \in L, IsLoaded(e2.nodes[i]), ~e2.nodes[i].leaf
        PROVE  IsInjective(e2.nodes[i].children) /\ Len(e2.nodes[i].children) = Len(e2.nodes[i].pivots) + 1
    <3>1. IsLoaded(e.nodes[i]) /\ ~e.nodes[i].leaf
      BY <2>4, <1>25
    <3>2. IsInjective(e.nodes[i].children) /\ Len(e.nodes[i].children) = Len(e.nodes[i].pivots) + 1
      BY <3>1, <1>1 DEF Held, L
    <3>3. e2.nodes[i].children = e.nodes[i].children /\ e2.nodes[i].pivots = e.nodes[i].pivots
      <4>1. CASE i \in W
        BY <4>1, <3>1, <1>8
      <4>2. CASE i \notin W
        BY <4>2, <1>8
      <4> QED BY <4>1, <4>2
    <3> QED BY <3>2, <3>3
  <2>5. \A i \in 1 .. Len(e.nodes) : at[i] \in 0 .. Len(rs)
    OBVIOUS
  <2> QED BY <2>1, <2>2, <2>3, <2>4, <2>5, <1>8, <1>11, Zenon DEF Held
<1>31. f[r] = Subtree(rs, at[r]) /\ Nested(rs, hr, at[r]) /\ at[r] \in 1 .. Len(rs)
  <2>1. CASE r \in W
    BY <2>1, <1>6, <1>7, <1>27, NestedAfter
  <2>2. CASE r \notin W
    <3>1. Clean(e, r)
      BY <2>2
    <3>2. f[r] = Subtree(rs, at[r]) /\ Nested(rs, hr, at[r]) /\ at[r] = e.disk_offset[r]
      BY <2>2, <3>1, <1>7, <1>28
    <3>3. e.disk_offset[r] # NoRecord
      <4>1. CASE e.nodes[r] = OnDisk
        BY <4>1, <1>1, <1>7, <1>9 DEF Held
      <4>2. CASE e.nodes[r] # OnDisk
        <5>1. IsLoaded(e.nodes[r]) /\ ~e.nodes[r].dirty
          BY <4>2, <3>1, <1>7, <1>9 DEF Clean
        <5> QED BY <5>1, <1>1, <1>7 DEF Held, L
      <4> QED BY <4>1, <4>2
    <3>4. at[r] \in 0 .. Len(rs)
      BY <1>7, <1>9
    <3> QED BY <3>2, <3>3, <3>4, <1>5 DEF NoRecord
  <2> QED BY <2>1, <2>2
<1>32. Subtree(rs, at[r]) \cap (1 .. N) \subseteq F
  <2>1. CASE r \in W
    <3>1. ASSUME NEW o \in Subtree(rs, at[r]), o \in 1 .. N PROVE o \in ft[r]
      <4>1. ReachesNew(W, at, N, o) \/ ReachesOld(e, r, par, ft, W, N, r, o)
        BY <2>1, BelowRewritten
      <4>2. ~(o > N)
        BY <3>1, <1>5
      <4> QED BY <4>1, <4>2 DEF ReachesNew, ReachesOld
    <3> QED BY <3>1, <1>1
  <2>2. CASE r \notin W
    <3>1. f[r] = ft[r]
      BY <2>2, <1>7, <1>27
    <3> QED BY <3>1, <1>1, <1>31
  <2> QED BY <2>1, <2>2
<1>33. SaneBy(e2, rs, hr, r, {}, Subtree(rs, at[r]), rk, par, f)
  BY <1>1, <1>20, <1>23, <1>26, <1>29, <1>30, <1>31 DEF SaneBy
<1>34. Sane(e2, rs, hr, r, {}, Subtree(rs, at[r]))
  BY <1>33, Zenon DEF Sane
<1> QED BY <1>8, <1>31, <1>32, <1>34 DEF L


(* What a commit does to the file and would do to the engine.              *)
CommitKept(e, rs, r, F, s, at, rs2, hr2) ==
    /\ Leveled(rs2, hr2) /\ Len(rs2) = Len(rs) + Len(s) /\ Len(rs) \in Nat
    /\ at[r] \in 1 .. Len(rs2) /\ Nested(rs2, hr2, at[r])
    /\ Subtree(rs2, at[r]) \cap (1 .. Len(rs)) \subseteq F
    /\ Sane(e, rs2, hr2, r, {}, F)
    /\ \A e2 : AdoptedBy(e, Range(s), at, e2) =>
          Sane(e2, rs2, hr2, r, {}, Subtree(rs2, at[r])) /\ Alive(e2) = Alive(e)

CommitOf(e, rs, r, s, at, rs2) ==
    /\ s = ChildrenFirst(Dirty(e.nodes, r)) /\ at = PutAt(e, rs, s)
    /\ rs2 = rs \o [j \in DOMAIN s |-> node_payload(e.nodes[s[j]], at)]

LEMMA CommitKeeps ==
    ASSUME NEW e, NEW rs, NEW hr, NEW r, NEW F, Sane(e, rs, hr, r, {}, F),
           NEW s, NEW at, NEW rs2, CommitOf(e, rs, r, s, at, rs2)
    PROVE  \E hr2 : CommitKept(e, rs, r, F, s, at, rs2, hr2)
<1>1. PICK rk, par, ft : SaneBy(e, rs, hr, r, {}, F, rk, par, ft)
  BY DEF Sane
<1>2. Ordered(e, r, par, s)
  BY <1>1, CommitOrder DEF CommitOf
<1>3. s \in Seq(Alive(e)) /\ (r \in Range(s) \/ Clean(e, r)) /\ \A x \in Range(s) \ {r} : par[x] \in Range(s)
  BY <1>2 DEF Ordered
<1>4. /\ e.nodes \in Seq(Slots) /\ e.disk_offset \in Seq(Nat) /\ Len(e.disk_offset) = Len(e.nodes)
      /\ rs \in Seq(Range(rs)) /\ Leveled(rs, hr)
      /\ \A i \in 1 .. Len(e.nodes) : e.disk_offset[i] \in 0 .. Len(rs)
  BY <1>1 DEF SaneBy, Held, Leveled
<1>5. Len(rs) \in Nat /\ Len(s) \in Nat /\ Len(e.nodes) \in Nat
  BY <1>3, <1>4
<1>6. Placed(e, rs, s, at)
  BY <1>3, <1>4, <1>5, PutAtPlaces DEF CommitOf
<1>7. Settles(e, rs, r, rk, par, s, at)
  BY <1>1, <1>2, <1>6, CommitSettles
<1>8. Extended(e, rs, s, at, rs2)
  BY <1>3, <1>4, RecordsAdded DEF CommitOf
<1> DEFINE N == Len(rs)
           W == Range(s)
<1>18. \E h : HeightsAfter(rs, hr, rk, s, h)
  BY DEF HeightsAfter
<1>19. PICK hr2 : HeightsAfter(rs, hr, rk, s, hr2)
  BY <1>18
<1>9. /\ Leveled(rs2, hr2)
      /\ \A o \in 1 .. Len(rs) : rs2[o] = rs[o] /\ hr2[o] = hr[o]
      /\ \A x \in Range(s) : /\ hr2[at[x]] = rk[x]
                             /\ Children(rs2[at[x]]) = {at[c] : c \in Children(e.nodes[x])}
  <2>1. LevelsKept(e, rs, hr, rk, s, at, rs2, hr2)
    BY <1>1, <1>3, <1>7, <1>8, <1>19, CommitLevels
  <2> QED BY <2>1, Zenon DEF LevelsKept
<1>10. /\ Len(rs2) = N + Len(s) /\ \A j \in 1 .. Len(s) : rs2[N + j] = node_payload(e.nodes[s[j]], at)
  BY <1>8 DEF Extended
<1>11. SaneBy(e, rs2, hr2, r, {}, F, rk, par, ft)
  <2>1. Len(rs) <= Len(rs2)
    BY <1>5, <1>10
  <2> QED BY <2>1, <1>1, <1>9, FileGrows
<1>12. Rewritten(e, rs2, hr2, r, rk, par, ft, N, W, at)
  <2>1. N \in 0 .. Len(rs2)
    BY <1>5, <1>10
  <2>2. DOMAIN e.offsets \subseteq 1 .. N /\ \A x \in Alive(e) : ft[x] \subseteq 1 .. N
    BY <1>1 DEF SaneBy, Interned, Apart
  <2>3. W \subseteq Alive(e) /\ \A x \in W \ {r} : par[x] \in W
    BY <1>3, <1>7 DEF Settles
  <2>4. ASSUME NEW x \in W
        PROVE  /\ IsLoaded(e.nodes[x]) /\ e.nodes[x].dirty /\ e.nodes[x] \in AnyNode
               /\ at[x] \in (N + 1) .. Len(rs2) /\ rs2[at[x]] = node_payload(e.nodes[x], at)
    <3>1. /\ IsLoaded(e.nodes[x]) /\ e.nodes[x].dirty /\ e.nodes[x] \in AnyNode
          /\ at[x] \in (N + 1) .. (N + Len(s)) /\ s[at[x] - N] = x
      BY <1>7 DEF Settles
    <3>2. at[x] - N \in 1 .. Len(s) /\ N + (at[x] - N) = at[x]
      BY <3>1, <1>5, SMTT(30)
    <3>3. rs2[N + (at[x] - N)] = node_payload(e.nodes[s[at[x] - N]], at)
      BY <3>2, <1>10
    <3> QED BY <3>1, <3>2, <3>3, <1>10
  <2>5. \A x \in Alive(e) \ W : at[x] = e.disk_offset[x] /\ at[x] \in 0 .. N
    BY <1>7 DEF Settles
  <2>6. \A x, y \in Alive(e) : at[x] = at[y] /\ at[x] # NoRecord => x = y
    BY <1>7 DEF Settles
  <2>7. ASSUME NEW x \in W, NEW c \in Children(e.nodes[x])
        PROVE  /\ c \in Alive(e) \ {r} /\ par[c] = x /\ rk[x] = rk[c] + 1 /\ rk[c] \in Nat
               /\ c \in W \/ (c \notin W /\ Clean(e, c) /\ at[c] \in 1 .. N)
    <3>1. PICK j \in 1 .. Len(s) : s[j] = x
      BY <1>3 DEF Range
    <3> QED BY <3>1, <1>7 DEF Settles
  <2> HIDE DEF N, W
  <2>8. \A x \in W : hr2[at[x]] = rk[x] /\ Children(rs2[at[x]]) = {at[c] : c \in Children(e.nodes[x])}
    BY <1>9 DEF W
  <2> QED BY <2>1, <2>2, <2>3, <2>4, <2>5, <2>6, <2>7, <2>8, Zenon DEF Rewritten
<1>13. at \in [1 .. Len(e.nodes) -> 0 .. Len(rs2)]
  <2>1. ASSUME NEW i \in 1 .. Len(e.nodes) PROVE at[i] \in 0 .. Len(rs2)
    <3>1. CASE i \in Range(s)
      <4>1. at[i] \in (N + 1) .. (N + Len(s))
        BY <3>1, <1>7 DEF Settles
      <4> QED BY <4>1, <1>5, <1>10
    <3>2. CASE i \notin Range(s)
      <4>1. at[i] = e.disk_offset[i]
        BY <3>2, <1>6 DEF Placed
      <4>2. at[i] \in 0 .. N
        BY <4>1, <1>4
      <4> QED BY <4>2, <1>5, <1>10
    <3> QED BY <3>1, <3>2
  <2>2. at = [i \in 1 .. Len(e.nodes) |-> at[i]]
    BY <1>6 DEF Placed
  <2> QED BY <2>1, <2>2
<1> HIDE DEF N, W
<1>14. ASSUME NEW e2, AdoptedBy(e, W, at, e2)
       PROVE  /\ Sane(e2, rs2, hr2, r, {}, Subtree(rs2, at[r])) /\ Alive(e2) = Alive(e)
              /\ at[r] \in 1 .. Len(rs2) /\ Nested(rs2, hr2, at[r])
              /\ Subtree(rs2, at[r]) \cap (1 .. N) \subseteq F
  BY <1>3, <1>11, <1>12, <1>13, <1>14, Adopts DEF W
<1>15. \E e2 : AdoptedBy(e, W, at, e2)
  <2> DEFINE ns == [i \in DOMAIN e.nodes |-> IF i \in W THEN [e.nodes[i] EXCEPT !.dirty = FALSE]
                                                        ELSE e.nodes[i]]
             os == [o \in (DOMAIN e.offsets \ {e.disk_offset[i] : i \in W}) \cup {at[i] : i \in W} |->
                        IF o \in DOMAIN e.offsets THEN e.offsets[o] ELSE CHOOSE i \in W : at[i] = o]
             e3 == [nodes |-> ns, disk_offset |-> at, offsets |-> os]
  <2> HIDE DEF ns, os
  <2>1. e3.nodes = ns /\ e3.disk_offset = at /\ e3.offsets = os /\ IsEngine(e3)
    BY DEF IsEngine
  <2> HIDE DEF e3
  <2>2. AdoptedBy(e, W, at, e3)
    BY <2>1, Zenon DEF AdoptedBy, ns, os
  <2> QED BY <2>2
<1>16. Sane(e, rs2, hr2, r, {}, F)
  BY <1>11, Zenon DEF Sane
<1>17. CommitKept(e, rs, r, F, s, at, rs2, hr2)
  BY <1>5, <1>9, <1>10, <1>14, <1>15, <1>16 DEF CommitKept, N, W
<1> QED BY <1>17


(* enforce_budget after a commit.                                          *)
LEMMA EvictKeeps ==
    ASSUME NEW e, IsEngine(e), NEW rs, NEW hr, NEW r, NEW X, NEW F, Sane(e, rs, hr, r, X, F),
           NEW pins, NEW keep, NEW e2 \in enforce_budget(e, pins, keep)
    PROVE  Sane(e2, rs, hr, r, X, F) /\ IsEngine(e2) /\ Alive(e2) = Alive(e)
<1>1. PICK S \in SUBSET (Evictable(e) \ (pins \cup {keep})) : e2 = [e EXCEPT !.nodes = Evicted(@, S)]
  BY DEF enforce_budget
<1>2. /\ e2.nodes = Evicted(e.nodes, S) /\ e2.disk_offset = e.disk_offset /\ e2.offsets = e.offsets
      /\ IsEngine(e2)
  BY <1>1 DEF IsEngine
<1>3. PICK rk, par, ft : SaneBy(e, rs, hr, r, X, F, rk, par, ft)
  BY DEF Sane
<1>4. S \in SUBSET Evictable(e)
  BY <1>1
<1>5. SaneBy(e2, rs, hr, r, X, F, rk, par, ft) /\ Alive(e2) = Alive(e)
  BY <1>2, <1>3, <1>4, Evicts
<1> QED BY <1>2, <1>5, Zenon DEF Sane

(* open_on_with: a slot for the root and nothing else.                     *)
LEMMA OpenSane ==
    ASSUME NEW rs, NEW hr, Leveled(rs, hr), NEW s, s.root \in 1 .. Len(rs), Nested(rs, hr, s.root)
    PROVE  Sane(Opened(s), rs, hr, 1, {}, Subtree(rs, s.root)) /\ IsEngine(Opened(s))
<1> DEFINE e == Opened(s)
           o == s.root
           rk == [x \in {1} |-> hr[o]]
           ft == [x \in {1} |-> Subtree(rs, o)]
<1>1. /\ e.nodes = <<OnDisk>> /\ e.disk_offset = <<o>> /\ e.offsets = [x \in {o} |-> 1] /\ IsEngine(e)
  BY DEF Opened, IsEngine
<1> HIDE DEF e
<1>2. Len(e.nodes) = 1 /\ e.nodes[1] = OnDisk /\ e.disk_offset[1] = o /\ Len(e.disk_offset) = 1
  BY <1>1
<1>3. OnDisk # Freed /\ ~IsLoaded(OnDisk)
  BY SlotKinds DEF IsLoaded
<1>4. Alive(e) = {1}
  BY <1>2, <1>3 DEF Alive
<1>5. Len(rs) \in Nat /\ hr \in [1 .. Len(rs) -> Nat] /\ o \in 1 .. Len(rs) /\ o # NoRecord
  BY RecordsBelow DEF Leveled, NoRecord
<1>6. DOMAIN e.offsets = {o} /\ e.offsets[o] = 1
  BY <1>1
<1>7. o \notin Children(rs[o])
  <2>1. \A c \in Children(rs[o]) : c < o
    BY <1>5, RecordsBelow
  <2> QED BY <2>1, <1>5
<1>8. Held(e, rs, {})
  <2>1. e.nodes \in Seq(Slots)
    BY <1>1 DEF Slots
  <2>2. e.disk_offset \in Seq(Nat)
    BY <1>1, <1>5
  <2>3. \A i \in 1 .. Len(e.nodes) : i = 1 /\ e.disk_offset[i] \in 0 .. Len(rs) /\ e.disk_offset[i] # NoRecord
    BY <1>2, <1>5
  <2>4. \A i \in Alive(e) : ~IsLoaded(e.nodes[i])
    BY <1>2, <1>3, <1>4
  <2> QED BY <2>1, <2>2, <2>3, <2>4, <1>2 DEF Held
<1>9. Interned(e, rs)
  BY <1>2, <1>4, <1>5, <1>6 DEF Interned
<1>10. Half(e, rs)
  <2>1. Opaquely(e, rs, 1)
    BY <1>2, <1>6 DEF Opaquely
  <2> QED BY <2>1, <1>4 DEF Half
<1>11. KidsOf(e, rs, 1) = {}
  BY <1>2, <1>6, <1>7 DEF KidsOf
<1>12. rk[1] = hr[o] /\ ft[1] = Subtree(rs, o)
  OBVIOUS
<1> HIDE DEF rk, ft
<1>13. Rooted(e, rs, 1, hr, rk, <<>>)
  <2>1. rk[1] \in Nat
    BY <1>5, <1>12
  <2>2. \A x \in Alive(e) : x = 1
    BY <1>4
  <2> QED BY <2>1, <2>2, <1>2, <1>3, <1>4, <1>11, <1>12 DEF Rooted
<1>14. Apart(e, rs, 1, hr, rk, <<>>, ft)
  <2>1. Subtree(rs, o) \subseteq 1 .. Len(rs)
    BY <1>5, BelowRecord
  <2> QED BY <2>1, <1>2, <1>4, <1>12 DEF Apart
<1>15. SaneBy(e, rs, hr, 1, {}, Subtree(rs, o), rk, <<>>, ft)
  BY <1>8, <1>9, <1>10, <1>12, <1>13, <1>14 DEF SaneBy
<1>16. Sane(e, rs, hr, 1, {}, Subtree(rs, o))
  BY <1>15, Zenon DEF Sane
<1> QED BY <1>1, <1>16 DEF e

(* However much the tree has, it is in the file.                           *)
LEMMA SaneAnyhow ==
    ASSUME NEW e, NEW rs, NEW hr, NEW r, NEW X, NEW F, Sane(e, rs, hr, r, X, F)
    PROVE  Sane(e, rs, hr, r, X, 1 .. Len(rs)) /\ Leveled(rs, hr)
<1>1. PICK rk, par, ft : SaneBy(e, rs, hr, r, X, F, rk, par, ft)
  BY DEF Sane
<1>2. ft[r] \subseteq 1 .. Len(rs) /\ Leveled(rs, hr)
  BY <1>1 DEF SaneBy, Apart, Rooted
<1>3. SaneBy(e, rs, hr, r, X, 1 .. Len(rs), rk, par, ft)
  BY <1>1, <1>2, Zenon DEF SaneBy
<1> QED BY <1>2, <1>3, Zenon DEF Sane


-----------------------------------------------------------------------------
(* The invariant of the engine                                             *)

Inner(e, i) == i \in Alive(e) /\ IsLoaded(e.nodes[i]) /\ ~e.nodes[i].leaf

(* The flush stack leads down from the root through nodes in memory.       *)
OnPath(e, r, fl) ==
    /\ fl \in Seq(Nat) /\ (fl # <<>> => fl[1] = r)
    /\ \A j \in 1 .. Len(fl) : Inner(e, fl[j])
    /\ \A j \in 1 .. (Len(fl) - 1) : fl[j + 1] \in Children(e.nodes[fl[j]])
    /\ fl = <<>> => IsLoaded(e.nodes[r]) /\ e.nodes[r].leaf

SeqOver(S, s) == s \in Seq(Nat) /\ \A j \in 1 .. Len(s) : s[j] \in S

(* The probed child is the next to be loaded or is still in memory.        *)
Probes(e, fl, lf, wk) ==
    /\ fl # <<>> /\ lf # <<>> /\ SeqOver(Alive(e), wk)
    /\ SeqOver(Children(e.nodes[Last(fl)]), lf)
    /\ ~(Count(e.nodes[Last(fl)].buffer) > 0)
    /\ wk = <<Head(lf)>> \/ Inner(e, Head(lf))

Framed(e, fr) == fr \in Seq(Nat \X Nat) /\ \A j \in 1 .. Len(fr) : Inner(e, fr[j][1])

(* What a running call relies on.                                          *)
Calling(e, r, md, fl, lf, wk, fr) ==
    \/ md = "rest" /\ fl = <<>> /\ wk = <<>>
    \/ md = "walk" /\ fl = <<>> /\ wk # <<>> /\ SeqOver(Alive(e), wk)
    \/ md = "scan" /\ fl = <<>> /\ wk = <<>> /\ fr # <<>> /\ Framed(e, fr)
    \/ md = "collapse" /\ fl = <<>> /\ wk = <<>> /\ IsLoaded(e.nodes[r])
    \/ md = "op" /\ OnPath(e, r, fl) /\ wk = <<>>
    \/ md = "drain" /\ OnPath(e, r, fl) /\ (wk # <<>> => Probes(e, fl, lf, wk))

(* The node that is being flushed may have lost all its children.          *)
Excused(fl) == IF fl = <<>> THEN {} ELSE {Last(fl)}

(* Until an error the tree shares records with the superblock's only.      *)
Bound(rs, s, p) == IF p THEN 1 .. Len(rs) ELSE Subtree(rs, s.root)

FileSane(rs, s, hr) ==
    /\ s.root \in 1 .. Len(rs) /\ Nested(rs, hr, s.root)
    /\ s.watermark = Len(rs) /\ s.last_seq \in Nat

TreeOk(e, rs, s, hr, r, X, p) == Sane(e, rs, hr, r, X, Bound(rs, s, p)) /\ FileSane(rs, s, hr)

DiskInv ==
    /\ next_seq \in Nat
    /\ \E hr : TreeOk(Engine, records, sb, hr, root, Excused(flushing), poisoned)
    /\ Calling(Engine, root, mode, flushing, left, walk, frames)

LEMMA Rebuild ==
    ASSUME NEW e, IsEngine(e), Becomes(e), next_seq' \in Nat,
           NEW hr, TreeOk(e, records', sb', hr, root', Excused(flushing'), poisoned'),
           Calling(e, root', mode', flushing', left', walk', frames')
    PROVE  DiskInv'
<1>1. Engine' = e
  BY DEF IsEngine, Becomes, Engine
<1>2. DiskInv' <=> /\ next_seq' \in Nat
                   /\ \E h : TreeOk(e, records', sb', h, root', Excused(flushing'), poisoned')
                   /\ Calling(e, root', mode', flushing', left', walk', frames')
  BY <1>1, Zenon DEF DiskInv
<1> QED BY <1>2, Zenon

(* A step of a call that leaves the file alone.                            *)
LEMMA Continues ==
    ASSUME NEW e, IsEngine(e), Becomes(e), next_seq' \in Nat,
           UNCHANGED <<records, sb, poisoned>>,
           NEW hr, FileSane(records, sb, hr),
           Sane(e, records, hr, root', Excused(flushing'), Bound(records, sb, poisoned)),
           Calling(e, root', mode', flushing', left', walk', frames')
    PROVE  DiskInv'
<1>1. TreeOk(e, records', sb', hr, root', Excused(flushing'), poisoned')
  BY Zenon DEF TreeOk
<1> QED BY <1>1, Rebuild

(* A storage error ends the call.                                          *)
LEMMA Interrupted ==
    ASSUME NEW e, IsEngine(e), Interrupt(e), next_seq \in Nat,
           NEW hr, FileSane(records, sb, hr), NEW F, Sane(e, records, hr, root', {}, F)
    PROVE  DiskInv'
<1>1. Sane(e, records, hr, root', {}, 1 .. Len(records))
  BY SaneAnyhow, Zenon
<1>2. Becomes(e) /\ poisoned' = TRUE /\ mode' = "rest" /\ flushing' = <<>> /\ walk' = <<>>
  BY DEF Interrupt, Idle
<1>3. records' = records /\ sb' = sb /\ next_seq' = next_seq
  BY DEF Interrupt
<1>4. Excused(flushing') = {}
  BY <1>2 DEF Excused
<1>5. Bound(records', sb', poisoned') = 1 .. Len(records)
  BY <1>2, <1>3 DEF Bound
<1>6. FileSane(records', sb', hr)
  BY <1>3, Zenon
<1>7. Sane(e, records', hr, root', Excused(flushing'), Bound(records', sb', poisoned'))
  BY <1>1, <1>3, <1>4, <1>5, Zenon
<1>8. TreeOk(e, records', sb', hr, root', Excused(flushing'), poisoned')
  BY <1>6, <1>7, Zenon DEF TreeOk
<1>9. Calling(e, root', mode', flushing', left', walk', frames')
  BY <1>2, Zenon DEF Calling
<1>10. next_seq' \in Nat
  BY <1>3
<1> QED BY <1>2, <1>8, <1>9, <1>10, Rebuild

LEMMA EngineIs == IsEngine(Engine) /\ Engine.nodes = nodes
                     /\ Engine.disk_offset = disk_offset /\ Engine.offsets = offsets
  BY DEF IsEngine, Engine

(* Init, with a file that a commit has left.                               *)
LEMMA InitOk == Init => DiskInv
<1> SUFFICES ASSUME Init PROVE DiskInv
  OBVIOUS
<1>1. PICK file \in Stored : records = file.records /\ sb = file.sb
  BY DEF Init
<1>2. Committed(file)
  BY StoredAssumption
<1>3. PICK hr \in [1 .. Len(file.records) -> 0 .. Len(file.records)] :
         Leveled(file.records, hr) /\ Nested(file.records, hr, file.sb.root)
  BY <1>2 DEF Committed
<1>4. FileSane(records, sb, hr) /\ Leveled(records, hr)
  BY <1>1, <1>2, <1>3, Zenon DEF FileSane, Committed
<1>5. sb.root \in 1 .. Len(records) /\ Nested(records, hr, sb.root)
  BY <1>4 DEF FileSane
<1>6. Sane(Opened(sb), records, hr, 1, {}, Subtree(records, sb.root)) /\ IsEngine(Opened(sb))
  BY <1>4, <1>5, OpenSane
<1>7. Engine = Opened(sb)
  BY <1>6 DEF Init, Engine, IsEngine
<1>8. root = 1 /\ flushing = <<>> /\ poisoned = FALSE /\ mode = "rest" /\ walk = <<>>
  BY DEF Init
<1>9. next_seq \in Nat
  BY <1>4 DEF Init, FileSane
<1>10. Excused(flushing) = {} /\ Bound(records, sb, poisoned) = Subtree(records, sb.root)
  BY <1>8 DEF Excused, Bound
<1>11. Sane(Engine, records, hr, root, Excused(flushing), Bound(records, sb, poisoned))
  BY <1>6, <1>7, <1>8, <1>10, Zenon
<1>12. TreeOk(Engine, records, sb, hr, root, Excused(flushing), poisoned)
  BY <1>4, <1>11, Zenon DEF TreeOk
<1>13. Calling(Engine, root, mode, flushing, left, walk, frames)
  BY <1>8, Zenon DEF Calling
<1> QED BY <1>9, <1>12, <1>13, Zenon DEF DiskInv

LEMMA ReopenOk == DiskInv /\ Reopen => DiskInv'
<1> SUFFICES ASSUME DiskInv, Reopen PROVE DiskInv'
  OBVIOUS
<1>1. PICK hr : TreeOk(Engine, records, sb, hr, root, Excused(flushing), poisoned)
  BY DEF DiskInv
<1>2. FileSane(records, sb, hr)
  BY <1>1, Zenon DEF TreeOk
<1>3. Leveled(records, hr)
  BY <1>1, SaneAnyhow, Zenon DEF TreeOk
<1>4. records \in Seq(Range(records))
  BY <1>3 DEF Leveled
<1>5. SubSeq(records, 1, sb.watermark) = records
  BY <1>2, <1>4 DEF FileSane
<1>6. /\ Becomes(Opened(sb)) /\ root' = 1 /\ poisoned' = FALSE /\ mode' = "rest" /\ sb' = sb
      /\ flushing' = <<>> /\ walk' = <<>> /\ next_seq' = sb.last_seq /\ records' = records
  BY <1>5 DEF Reopen, Idle
<1>7. sb.root \in 1 .. Len(records) /\ Nested(records, hr, sb.root) /\ sb.last_seq \in Nat
  BY <1>2 DEF FileSane
<1>8. Sane(Opened(sb), records, hr, 1, {}, Subtree(records, sb.root)) /\ IsEngine(Opened(sb))
  BY <1>3, <1>7, OpenSane
<1>9. Excused(flushing') = {} /\ Bound(records', sb', poisoned') = Subtree(records, sb.root)
  BY <1>6 DEF Excused, Bound
<1>10. Sane(Opened(sb), records', hr, root', Excused(flushing'), Bound(records', sb', poisoned'))
  BY <1>6, <1>8, <1>9, Zenon
<1>11. TreeOk(Opened(sb), records', sb', hr, root', Excused(flushing'), poisoned')
  BY <1>2, <1>6, <1>10, Zenon DEF TreeOk
<1>12. Calling(Opened(sb), root', mode', flushing', left', walk', frames')
  BY <1>6, Zenon DEF Calling
<1>13. next_seq' \in Nat
  BY <1>6, <1>7
<1> QED BY <1>6, <1>8, <1>11, <1>12, <1>13, Rebuild


-----------------------------------------------------------------------------
(* Commits                                                                 *)

ToWrite == ChildrenFirst(Dirty(nodes, root))

LEMMA WrittenIs ==
    /\ Written.nodes = Range(ToWrite) /\ Written.offset = PutAt(Engine, records, ToWrite)
    /\ Written.sb.root = PutAt(Engine, records, ToWrite)[root]
    /\ Written.sb.last_seq = next_seq /\ Written.sb.watermark = Len(records) + Len(ToWrite)
    /\ CommitOf(Engine, records, root, ToWrite, PutAt(Engine, records, ToWrite), Written.records)
<1>1. Engine.nodes = nodes /\ Engine.disk_offset = disk_offset
  BY EngineIs
<1>2. PutAt(Engine, records, ToWrite)
        = [i \in DOMAIN nodes |-> IF i \in Range(ToWrite)
                                  THEN Len(records) + SelectInSeq(ToWrite, LAMBDA x : x = i)
                                  ELSE disk_offset[i]]
  BY <1>1, Zenon DEF PutAt
<1> DEFINE at == PutAt(Engine, records, ToWrite)
<1>3. Written = [nodes |-> Range(ToWrite), offset |-> at,
                 records |-> records \o [j \in DOMAIN ToWrite |-> node_payload(nodes[ToWrite[j]], at)],
                 sb |-> [generation |-> sb.generation + 1, root |-> at[root], last_seq |-> next_seq,
                         watermark |-> Len(records) + Len(ToWrite)]]
  BY <1>2, Zenon DEF Written, ToWrite
<1> HIDE DEF at
<1>4. /\ Written.nodes = Range(ToWrite) /\ Written.offset = at
      /\ Written.records = records \o [j \in DOMAIN ToWrite |-> node_payload(nodes[ToWrite[j]], at)]
      /\ Written.sb.root = at[root]
      /\ Written.sb.last_seq = next_seq /\ Written.sb.watermark = Len(records) + Len(ToWrite)
  BY <1>3
<1>5. CommitOf(Engine, records, root, ToWrite, at, Written.records)
  BY <1>1, <1>4, Zenon DEF CommitOf, ToWrite, at
<1> QED BY <1>4, <1>5, Zenon DEF at

LEMMA AdoptIs == AdoptedBy(Engine, Written.nodes, Written.offset, adopt(Written))
  BY EngineIs DEF AdoptedBy, adopt, IsEngine

(* A commit's file: what is known of it when it is written.                *)
SavedAs(hr) ==
    /\ FileSane(Written.records, Written.sb, hr)
    /\ Subtree(Written.records, Written.sb.root) \cap (1 .. Len(records))
          \subseteq Subtree(records, sb.root)
    /\ Sane(Engine, Written.records, hr, root, {}, Subtree(records, sb.root))
    /\ Sane(adopt(Written), Written.records, hr, root, {},
            Subtree(Written.records, Written.sb.root))

LEMMA Saves == ASSUME DiskInv, Commits PROVE  \E hr : SavedAs(hr)
<1>1. PICK hr : TreeOk(Engine, records, sb, hr, root, Excused(flushing), poisoned)
  BY DEF DiskInv
<1>2. flushing = <<>> /\ ~poisoned
  BY DEF DiskInv, Calling, Commits
<1>3. Excused(flushing) = {} /\ Bound(records, sb, poisoned) = Subtree(records, sb.root)
  BY <1>2 DEF Excused, Bound
<1> DEFINE F == Subtree(records, sb.root)
           at == PutAt(Engine, records, ToWrite)
<1>4. Sane(Engine, records, hr, root, {}, F)
  BY <1>1, <1>3, Zenon DEF TreeOk
<1>5. CommitOf(Engine, records, root, ToWrite, at, Written.records)
  BY WrittenIs
<1> HIDE DEF F, at
<1>6. PICK hr2 : CommitKept(Engine, records, root, F, ToWrite, at, Written.records, hr2)
  BY <1>4, <1>5, CommitKeeps
<1>7. Written.sb.root = at[root] /\ Written.sb.watermark = Len(records) + Len(ToWrite)
  BY WrittenIs DEF at
<1>8. next_seq \in Nat /\ Written.sb.last_seq = next_seq
  BY WrittenIs DEF DiskInv
<1>9. FileSane(Written.records, Written.sb, hr2)
  BY <1>6, <1>7, <1>8, Zenon DEF FileSane, CommitKept
<1>10. AdoptedBy(Engine, Range(ToWrite), at, adopt(Written))
  BY AdoptIs, WrittenIs DEF at
<1>11. Sane(adopt(Written), Written.records, hr2, root, {}, Subtree(Written.records, at[root]))
  BY <1>6, <1>10, Zenon DEF CommitKept
<1>12. Subtree(Written.records, at[root]) \cap (1 .. Len(records)) \subseteq F
  BY <1>6, Zenon DEF CommitKept
<1>13. Sane(Engine, Written.records, hr2, root, {}, F)
  BY <1>6, Zenon DEF CommitKept
<1>14. SavedAs(hr2)
  BY <1>7, <1>9, <1>11, <1>12, <1>13, Zenon DEF SavedAs, F
<1> QED BY <1>14, Zenon

LEMMA CommitOk == DiskInv /\ commit => DiskInv'
<1> SUFFICES ASSUME DiskInv, commit PROVE DiskInv'
  OBVIOUS
<1>1. PICK hr : SavedAs(hr)
  BY Saves DEF commit
<1>2. PICK e \in enforce_budget(adopt(Written), {}, NoNode) : Becomes(e)
  BY Zenon DEF commit
<1>3. IsEngine(adopt(Written))
  BY AdoptIs, Zenon DEF AdoptedBy
<1> DEFINE G == Subtree(Written.records, Written.sb.root)
<1>4. Sane(adopt(Written), Written.records, hr, root, {}, G)
  BY <1>1, Zenon DEF SavedAs
<1> HIDE DEF G
<1>5. Sane(e, Written.records, hr, root, {}, G) /\ IsEngine(e)
  BY <1>2, <1>3, <1>4, EvictKeeps
<1>6. /\ records' = Written.records /\ sb' = Written.sb /\ root' = root
      /\ poisoned' = poisoned /\ ~poisoned /\ next_seq' = next_seq
      /\ mode = "rest" /\ mode' = mode /\ flushing' = flushing /\ walk' = walk
  BY DEF commit, Commits, callVars
<1>7. flushing = <<>> /\ walk = <<>> /\ next_seq \in Nat
  BY <1>6 DEF DiskInv, Calling
<1>8. Excused(flushing') = {} /\ Bound(records', sb', poisoned') = G
  BY <1>6, <1>7 DEF Excused, Bound, G
<1>9. FileSane(records', sb', hr)
  BY <1>1, <1>6, Zenon DEF SavedAs
<1>10. Sane(e, records', hr, root', Excused(flushing'), Bound(records', sb', poisoned'))
  BY <1>5, <1>6, <1>8, Zenon
<1>11. TreeOk(e, records', sb', hr, root', Excused(flushing'), poisoned')
  BY <1>9, <1>10, Zenon DEF TreeOk
<1>12. Calling(e, root', mode', flushing', left', walk', frames')
  BY <1>6, <1>7, Zenon DEF Calling
<1>13. next_seq' \in Nat
  BY <1>6, <1>7
<1> QED BY <1>2, <1>5, <1>11, <1>12, <1>13, Rebuild

LEMMA CommitFailsOk == DiskInv /\ CommitFails => DiskInv'
<1> SUFFICES ASSUME DiskInv, CommitFails PROVE DiskInv'
  OBVIOUS
<1>1. PICK hr : TreeOk(Engine, records, sb, hr, root, Excused(flushing), poisoned)
  BY DEF DiskInv
<1>2. /\ poisoned' /\ mode = "rest" /\ mode' = mode /\ flushing' = flushing /\ walk' = walk
      /\ root' = root /\ next_seq' = next_seq
  BY DEF CommitFails, callVars, Commits
<1>3. Becomes(Engine) /\ IsEngine(Engine)
  BY EngineIs DEF CommitFails, slotVars, Becomes
<1>4. flushing = <<>> /\ walk = <<>> /\ next_seq \in Nat
  BY <1>2 DEF DiskInv, Calling
<1>5. Excused(flushing) = {} /\ Excused(flushing') = {}
  BY <1>2, <1>4 DEF Excused
<1>6. \E h, F : Sane(Engine, records', h, root, {}, F) /\ FileSane(records', sb', h)
  <2>1. CASE records' = Written.records /\ sb' = Written.sb
    <3>1. PICK h : SavedAs(h)
      BY Saves DEF CommitFails
    <3> QED BY <2>1, <3>1, Zenon DEF SavedAs
  <2>2. CASE UNCHANGED <<records, sb>>
    <3>1. records' = records /\ sb' = sb
      BY <2>2
    <3> QED BY <1>1, <1>5, <3>1, Zenon DEF TreeOk
  <2> QED BY <2>1, <2>2 DEF CommitFails
<1>7. PICK h, F : Sane(Engine, records', h, root, {}, F) /\ FileSane(records', sb', h)
  BY <1>6
<1>8. Sane(Engine, records', h, root, {}, 1 .. Len(records'))
  BY <1>7, SaneAnyhow, Zenon
<1>9. Bound(records', sb', poisoned') = 1 .. Len(records')
  BY <1>2 DEF Bound
<1>10. TreeOk(Engine, records', sb', h, root', Excused(flushing'), poisoned')
  BY <1>2, <1>5, <1>7, <1>8, <1>9, Zenon DEF TreeOk
<1>11. Calling(Engine, root', mode', flushing', left', walk', frames')
  BY <1>2, <1>4, Zenon DEF Calling
<1>12. next_seq' \in Nat
  BY <1>2, <1>4
<1> QED BY <1>3, <1>10, <1>11, <1>12, Rebuild


-----------------------------------------------------------------------------
(* Stacks                                                                  *)

LEMMA LastOver ==
    ASSUME NEW S, NEW s, SeqOver(S, s), s # <<>>
    PROVE  /\ SeqOver(S, Front(s)) /\ Last(s) \in S /\ Head(s) \in S /\ SeqOver(S, Tail(s))
           /\ Front(s) = <<>> => s = <<Last(s)>>
<1>1. s \in Seq(Nat) /\ Len(s) \in Nat /\ Len(s) # 0 /\ DOMAIN s = 1 .. Len(s)
  BY DEF SeqOver
<1>2. Front(s) = SubSeq(s, 1, Len(s) - 1) /\ Last(s) = s[Len(s)]
  BY DEF Front, Last
<1>3. /\ Front(s) \in Seq(Nat) /\ Len(Front(s)) = Len(s) - 1
      /\ \A j \in 1 .. (Len(s) - 1) : Front(s)[j] = s[j]
  BY <1>1, <1>2
<1>4. SeqOver(S, Front(s))
  BY <1>1, <1>3, SMT DEF SeqOver
<1>5. Last(s) \in S /\ Head(s) \in S
  BY <1>1, <1>2 DEF SeqOver
<1>6. /\ Tail(s) \in Seq(Nat) /\ Len(Tail(s)) = Len(s) - 1
      /\ \A j \in 1 .. (Len(s) - 1) : Tail(s)[j] = s[j + 1]
  BY <1>1
<1>7. SeqOver(S, Tail(s))
  BY <1>1, <1>6 DEF SeqOver
<1>8. ASSUME Front(s) = <<>> PROVE s = <<Last(s)>>
  <2>1. Len(Front(s)) = 0
    BY <1>8
  <2>2. Len(s) = 1
    <3>1. Len(s) \in Nat /\ Len(Front(s)) = Len(s) - 1
      BY <1>1, <1>3, Zenon
    <3> QED BY <2>1, <3>1
  <2> QED BY <1>1, <1>2, <2>2
<1> QED BY <1>4, <1>5, <1>7, <1>8

LEMMA ConcatOver ==
    ASSUME NEW S, NEW a, NEW b, SeqOver(S, a), SeqOver(S, b)
    PROVE  SeqOver(S, a \o b)
<1>1. a \in Seq(Nat) /\ b \in Seq(Nat)
  BY DEF SeqOver
<1>2. /\ a \o b \in Seq(Nat) /\ Len(a \o b) = Len(a) + Len(b)
      /\ \A j \in 1 .. Len(a) + Len(b) :
            (a \o b)[j] = IF j <= Len(a) THEN a[j] ELSE b[j - Len(a)]
  BY <1>1
<1>3. Len(a) \in Nat /\ Len(b) \in Nat
  BY <1>1
<1>4. ASSUME NEW j \in 1 .. (Len(a) + Len(b)) PROVE (a \o b)[j] \in S
  <2>1. CASE j <= Len(a)
    <3>1. j \in 1 .. Len(a)
      BY <1>3, <2>1
    <3> QED BY <1>2, <2>1, <3>1 DEF SeqOver
  <2>2. CASE ~(j <= Len(a))
    <3>1. j - Len(a) \in 1 .. Len(b)
      BY <1>3, <2>2
    <3> QED BY <1>2, <2>2, <3>1 DEF SeqOver
  <2> QED BY <2>1, <2>2
<1> QED BY <1>2, <1>4 DEF SeqOver

LEMMA WiderOver ==
    ASSUME NEW S, NEW T, S \subseteq T, NEW s, SeqOver(S, s)
    PROVE  SeqOver(T, s)
  BY DEF SeqOver

LEMMA SmallOver ==
    ASSUME NEW S PROVE SeqOver(S, <<>>) /\ \A x \in S \cap Nat : SeqOver(S, <<x>>)
  BY DEF SeqOver

LEMMA ChildrenOver ==
    ASSUME NEW n \in InnerNode
    PROVE  SeqOver(Children(n), n.children)
<1>1. ~n.leaf /\ n.children \in Seq(Nat)
  BY DEF InnerNode
<1>2. Children(n) = Range(n.children)
  BY <1>1 DEF Children
<1> QED BY <1>1, <1>2 DEF SeqOver, Range

(* What the invariant says of the engine between two steps.                *)
Now(hr) ==
    /\ FileSane(records, sb, hr) /\ IsEngine(Engine)
    /\ Sane(Engine, records, hr, root, Excused(flushing), Bound(records, sb, poisoned))

LEMMA PickNow == ASSUME DiskInv PROVE \E hr : Now(hr)
<1>1. PICK hr : TreeOk(Engine, records, sb, hr, root, Excused(flushing), poisoned)
  BY DEF DiskInv
<1> QED BY <1>1, EngineIs, Zenon DEF TreeOk, Now

(* ensure_loaded on the engine as it is.                                   *)
LEMMA LoadsNow ==
    ASSUME NEW hr, Now(hr), NEW id \in Alive(Engine), NEW pins,
           NEW e \in ensure_loaded(Engine, id, pins)
    PROVE  /\ Sane(e, records, hr, root, Excused(flushing), Bound(records, sb, poisoned))
           /\ IsEngine(e) /\ Alive(Engine) \subseteq Alive(e) /\ IsLoaded(e.nodes[id])
           /\ \A i \in pins : Inner(Engine, i) => e.nodes[i] = nodes[i] /\ Inner(e, i)
<1> DEFINE X == Excused(flushing)
           F == Bound(records, sb, poisoned)
<1>1. Sane(Engine, records, hr, root, X, F) /\ IsEngine(Engine)
  BY Zenon DEF Now
<1> HIDE DEF X, F
<1>2. LoadedFrom(Engine, hr, root, X, F, id, pins, e)
  BY <1>1, Loads
<1>3. Engine.nodes = nodes
  BY EngineIs
<1>4. /\ Sane(e, records, hr, root, X, F)
      /\ IsEngine(e) /\ Alive(Engine) \subseteq Alive(e) /\ IsLoaded(e.nodes[id])
      /\ \A i \in pins \cup {id} :
            IsLoaded(Engine.nodes[i]) /\ i \in Alive(Engine) => e.nodes[i] = Engine.nodes[i]
  BY <1>2, Zenon DEF LoadedFrom
<1>5. ASSUME NEW i \in pins, Inner(Engine, i) PROVE e.nodes[i] = nodes[i] /\ Inner(e, i)
  <2>1. i \in Alive(Engine) /\ IsLoaded(Engine.nodes[i]) /\ ~Engine.nodes[i].leaf
    BY <1>5, Zenon DEF Inner
  <2>2. e.nodes[i] = Engine.nodes[i] /\ i \in Alive(e)
    BY <1>4, <2>1, Zenon
  <2> QED BY <1>3, <2>1, <2>2, Zenon DEF Inner
<1> QED BY <1>4, <1>5, Zenon DEF X, F

LEMMA RestIs ==
    ASSUME DiskInv, mode = "rest" PROVE flushing = <<>> /\ walk = <<>> /\ Excused(flushing) = {}
  BY DEF DiskInv, Calling, Excused

LEMMA StartWalkOk == DiskInv /\ StartWalk => DiskInv'
<1> SUFFICES ASSUME DiskInv, StartWalk PROVE DiskInv'
  OBVIOUS
<1>1. PICK hr : Now(hr)
  BY PickNow
<1>2. /\ mode = "rest" /\ mode' = "walk" /\ walk' = <<root>> /\ flushing' = flushing
      /\ root' = root /\ next_seq' = next_seq /\ poisoned' = poisoned
      /\ records' = records /\ sb' = sb
  BY DEF StartWalk, fileVars
<1>3. Becomes(Engine)
  BY EngineIs DEF StartWalk, slotVars, Becomes
<1>4. flushing = <<>> /\ next_seq \in Nat
  BY <1>2, RestIs DEF DiskInv
<1>5. root \in Alive(Engine) /\ Alive(Engine) \subseteq 1 .. Len(Engine.nodes)
  BY <1>1, SaneFacts, Zenon DEF Now
<1>6. walk' # <<>> /\ SeqOver(Alive(Engine), walk')
  BY <1>2, <1>5 DEF SeqOver
<1>7. Calling(Engine, root', mode', flushing', left', walk', frames')
  BY <1>2, <1>4, <1>6, Zenon DEF Calling
<1>8. Sane(Engine, records, hr, root', Excused(flushing'), Bound(records, sb, poisoned))
  BY <1>1, <1>2, Zenon DEF Now
<1>9. IsEngine(Engine) /\ FileSane(records, sb, hr)
  BY <1>1, Zenon DEF Now
<1>10. next_seq' \in Nat /\ UNCHANGED <<records, sb, poisoned>>
  BY <1>2, <1>4
<1> QED BY <1>3, <1>7, <1>8, <1>9, <1>10, Continues


-----------------------------------------------------------------------------
(* Reads                                                                   *)

(* The children of a node in memory are slots in use.                      *)
LEMMA InnerFacts ==
    ASSUME NEW e, NEW rs, NEW hr, NEW r, NEW X, NEW F, Sane(e, rs, hr, r, X, F),
           NEW i, Inner(e, i)
    PROVE  /\ i \in Nat /\ e.nodes[i] \in InnerNode /\ Children(e.nodes[i]) \subseteq Alive(e)
           /\ Children(e.nodes[i]) = Range(e.nodes[i].children)
           /\ SeqOver(Alive(e), e.nodes[i].children)
           /\ SeqOver(Children(e.nodes[i]), e.nodes[i].children)
<1>1. i \in Alive(e) /\ IsLoaded(e.nodes[i]) /\ ~e.nodes[i].leaf
  BY DEF Inner
<1>2. e.nodes[i] \in InnerNode /\ Children(e.nodes[i]) \subseteq Alive(e)
  BY <1>1, SaneFacts
<1>3. SeqOver(Children(e.nodes[i]), e.nodes[i].children)
  BY <1>2, ChildrenOver
<1>4. SeqOver(Alive(e), e.nodes[i].children)
  BY <1>2, <1>3, WiderOver
<1>5. Alive(e) \subseteq 1 .. Len(e.nodes) /\ Len(e.nodes) \in Nat
  BY SaneFacts, Zenon
<1>6. i \in Nat
  BY <1>1, <1>5
<1>7. Children(e.nodes[i]) = Range(e.nodes[i].children)
  BY <1>1 DEF Children
<1> QED BY <1>2, <1>3, <1>4, <1>6, <1>7

LEMMA NextOver ==
    ASSUME NEW e, NEW rs, NEW hr, NEW r, NEW X, NEW F, Sane(e, rs, hr, r, X, F),
           NEW i \in Alive(e), IsLoaded(e.nodes[i]), NEW next \in NextOf(e.nodes[i])
    PROVE  SeqOver(Alive(e), next)
<1>1. SeqOver(Alive(e), <<>>)
  BY SmallOver
<1>2. CASE e.nodes[i].leaf
  BY <1>1, <1>2 DEF NextOf
<1>3. CASE ~e.nodes[i].leaf
  <2>1. SeqOver(Alive(e), e.nodes[i].children)
    BY <1>3, InnerFacts, Zenon DEF Inner
  <2>2. \/ next = <<>> \/ next = e.nodes[i].children
        \/ \E j \in DOMAIN e.nodes[i].children : next = <<e.nodes[i].children[j]>>
    BY <1>3 DEF NextOf
  <2>3. ASSUME NEW j \in DOMAIN e.nodes[i].children
        PROVE  SeqOver(Alive(e), <<e.nodes[i].children[j]>>)
    <3>1. e.nodes[i].children[j] \in Alive(e) \cap Nat
      BY <2>1 DEF SeqOver
    <3> QED BY <3>1, SmallOver, Zenon
  <2> QED BY <1>1, <2>1, <2>2, <2>3
<1> QED BY <1>2, <1>3

LEMMA VisitOk == DiskInv /\ Visit => DiskInv'
<1> SUFFICES ASSUME DiskInv, Visit PROVE DiskInv'
  OBVIOUS
<1>1. PICK hr : Now(hr)
  BY PickNow
<1>2. /\ mode = "walk" /\ flushing' = flushing
      /\ root' = root /\ next_seq' = next_seq /\ poisoned' = poisoned
      /\ records' = records /\ sb' = sb
  BY DEF Visit, fileVars
<1>3. flushing = <<>> /\ walk # <<>> /\ SeqOver(Alive(Engine), walk) /\ next_seq \in Nat
  BY <1>2 DEF DiskInv, Calling
<1>4. Last(walk) \in Alive(Engine) /\ SeqOver(Alive(Engine), Front(walk))
  BY <1>3, LastOver
<1>5. PICK e \in ensure_loaded(Engine, Last(walk), {}) :
         /\ Becomes(e)
         /\ \E next \in NextOf(e.nodes[Last(walk)]) :
               /\ walk' = Front(walk) \o next
               /\ mode' = IF walk' = <<>> THEN "rest" ELSE "walk"
  BY Zenon DEF Visit
<1>6. PICK next \in NextOf(e.nodes[Last(walk)]) :
         /\ walk' = Front(walk) \o next
         /\ mode' = IF walk' = <<>> THEN "rest" ELSE "walk"
  BY <1>5
<1>7. /\ Sane(e, records, hr, root, Excused(flushing), Bound(records, sb, poisoned))
      /\ IsEngine(e) /\ Alive(Engine) \subseteq Alive(e) /\ IsLoaded(e.nodes[Last(walk)])
  BY <1>1, <1>4, <1>5, LoadsNow
<1>8. Last(walk) \in Alive(e) /\ SeqOver(Alive(e), Front(walk))
  BY <1>4, <1>7, WiderOver
<1>9. SeqOver(Alive(e), next)
  BY <1>6, <1>7, <1>8, NextOver
<1>10. SeqOver(Alive(e), walk')
  BY <1>6, <1>8, <1>9, ConcatOver
<1>11. Calling(e, root', mode', flushing', left', walk', frames')
  <2>1. CASE walk' = <<>>
    BY <1>2, <1>3, <1>6, <2>1 DEF Calling
  <2>2. CASE walk' # <<>>
    BY <1>2, <1>3, <1>6, <1>10, <2>2 DEF Calling
  <2> QED BY <2>1, <2>2
<1>12. Sane(e, records, hr, root', Excused(flushing'), Bound(records, sb, poisoned))
  BY <1>2, <1>7, Zenon
<1>13. FileSane(records, sb, hr)
  BY <1>1, Zenon DEF Now
<1>14. next_seq' \in Nat /\ UNCHANGED <<records, sb, poisoned>>
  BY <1>2, <1>3
<1> QED BY <1>5, <1>7, <1>11, <1>12, <1>13, <1>14, Continues

LEMMA StartScanOk == DiskInv /\ StartScan => DiskInv'
<1> SUFFICES ASSUME DiskInv, StartScan PROVE DiskInv'
  OBVIOUS
<1>1. PICK hr : Now(hr)
  BY PickNow
<1>2. /\ mode = "rest" /\ mode' = "scan" /\ flushing' = flushing /\ frames' = <<<<root, 0>>>>
      /\ root' = root /\ next_seq' = next_seq /\ poisoned' = poisoned
      /\ records' = records /\ sb' = sb /\ walk' = walk
  BY DEF StartScan, fileVars
<1>3. flushing = <<>> /\ walk = <<>> /\ next_seq \in Nat
  BY <1>2, RestIs DEF DiskInv
<1>4. root \in Alive(Engine)
  BY <1>1, SaneFacts, Zenon DEF Now
<1>5. PICK e \in ensure_loaded(Engine, root, {}) : Becomes(e) /\ ~e.nodes[root].leaf
  BY Zenon DEF StartScan
<1>6. /\ Sane(e, records, hr, root, Excused(flushing), Bound(records, sb, poisoned))
      /\ IsEngine(e) /\ Alive(Engine) \subseteq Alive(e) /\ IsLoaded(e.nodes[root])
  BY <1>1, <1>4, <1>5, LoadsNow
<1>7. Inner(e, root)
  BY <1>4, <1>5, <1>6, Zenon DEF Inner
<1>8. root \in Nat
  BY <1>6, <1>7, InnerFacts
<1>9. frames' # <<>> /\ Framed(e, frames')
  BY <1>2, <1>7, <1>8 DEF Framed
<1>10. Calling(e, root', mode', flushing', left', walk', frames')
  BY <1>2, <1>3, <1>9, Zenon DEF Calling
<1>11. Sane(e, records, hr, root', Excused(flushing'), Bound(records, sb, poisoned))
  BY <1>2, <1>6, Zenon
<1>12. FileSane(records, sb, hr)
  BY <1>1, Zenon DEF Now
<1>13. next_seq' \in Nat /\ UNCHANGED <<records, sb, poisoned>>
  BY <1>2, <1>3
<1> QED BY <1>5, <1>6, <1>10, <1>11, <1>12, <1>13, Continues

LEMMA ReadFailsOk == DiskInv /\ ReadFails => DiskInv'
<1> SUFFICES ASSUME DiskInv, ReadFails PROVE DiskInv'
  OBVIOUS
<1>1. PICK hr : Now(hr)
  BY PickNow
<1>2. /\ mode \in {"walk", "scan"} /\ mode' = "rest" /\ flushing' = <<>> /\ walk' = <<>>
      /\ root' = root /\ next_seq' = next_seq /\ poisoned' = poisoned
      /\ records' = records /\ sb' = sb
  BY DEF ReadFails, fileVars, Idle
<1>3. Becomes(Engine)
  BY EngineIs DEF ReadFails, slotVars, Becomes
<1>4. flushing = <<>> /\ next_seq \in Nat
  BY <1>2 DEF DiskInv, Calling
<1>5. Calling(Engine, root', mode', flushing', left', walk', frames')
  BY <1>2, Zenon DEF Calling
<1>6. Sane(Engine, records, hr, root', Excused(flushing'), Bound(records, sb, poisoned))
  BY <1>1, <1>2, <1>4, Zenon DEF Now
<1>7. IsEngine(Engine) /\ FileSane(records, sb, hr)
  BY <1>1, Zenon DEF Now
<1>8. next_seq' \in Nat /\ UNCHANGED <<records, sb, poisoned>>
  BY <1>2, <1>4
<1> QED BY <1>3, <1>5, <1>6, <1>7, <1>8, Continues


LEMMA FrameFacts ==
    ASSUME NEW e, NEW fr, Framed(e, fr), fr # <<>>
    PROVE  /\ Inner(e, Last(fr)[1]) /\ Last(fr)[1] \in Nat /\ Last(fr)[2] \in Nat
           /\ Framed(e, Front(fr))
<1>1. fr \in Seq(Nat \X Nat) /\ Len(fr) \in Nat /\ Len(fr) # 0 /\ DOMAIN fr = 1 .. Len(fr)
  BY DEF Framed
<1>2. Front(fr) = SubSeq(fr, 1, Len(fr) - 1) /\ Last(fr) = fr[Len(fr)] /\ Len(fr) \in 1 .. Len(fr)
  BY <1>1 DEF Front, Last
<1>3. /\ Front(fr) \in Seq(Nat \X Nat) /\ Len(Front(fr)) = Len(fr) - 1
      /\ \A j \in 1 .. (Len(fr) - 1) : Front(fr)[j] = fr[j]
  BY <1>1, <1>2, SMTT(30)
<1>4. Framed(e, Front(fr))
  <2> SUFFICES ASSUME NEW j \in 1 .. Len(Front(fr)) PROVE Inner(e, Front(fr)[j][1])
    BY <1>3 DEF Framed
  <2>1. j \in 1 .. (Len(fr) - 1) /\ j \in 1 .. Len(fr)
    BY <1>1, <1>3
  <2> QED BY <1>3, <2>1 DEF Framed
<1>5. fr[Len(fr)] \in Nat \X Nat /\ Inner(e, fr[Len(fr)][1])
  BY <1>1, <1>2, SMT DEF Framed
<1> QED BY <1>2, <1>4, <1>5

LEMMA FramesGrow ==
    ASSUME NEW e, NEW fr, Framed(e, fr), NEW id \in Nat, Inner(e, id), NEW n \in Nat
    PROVE  Framed(e, fr \o <<<<id, n>>>>) /\ fr \o <<<<id, n>>>> # <<>>
<1>1. fr \in Seq(Nat \X Nat) /\ Len(fr) \in Nat /\ <<id, n>> \in Nat \X Nat
  BY DEF Framed
<1>2. /\ fr \o <<<<id, n>>>> \in Seq(Nat \X Nat) /\ Len(fr \o <<<<id, n>>>>) = Len(fr) + 1
      /\ \A j \in 1 .. Len(fr) : (fr \o <<<<id, n>>>>)[j] = fr[j]
      /\ (fr \o <<<<id, n>>>>)[Len(fr) + 1] = <<id, n>>
  BY <1>1
<1> DEFINE s == fr \o <<<<id, n>>>>
<1> SUFFICES Framed(e, s) /\ s # <<>>
  OBVIOUS
<1>3. s \in Seq(Nat \X Nat) /\ Len(s) = Len(fr) + 1
  BY <1>2
<1>4. ASSUME NEW j \in 1 .. (Len(fr) + 1) PROVE Inner(e, s[j][1])
  <2>1. CASE j = Len(fr) + 1
    <3>1. s[j] = <<id, n>>
      BY <1>2, <2>1
    <3>2. s[j][1] = id
      BY <3>1
    <3> QED BY <3>2, Zenon
  <2>2. CASE j # Len(fr) + 1
    <3>1. j \in 1 .. Len(fr)
      BY <1>1, <2>2, SMTT(30)
    <3> QED BY <1>2, <3>1 DEF Framed
  <2> QED BY <2>1, <2>2
<1> HIDE DEF s
<1> QED BY <1>1, <1>3, <1>4 DEF Framed

LEMMA FramesKept ==
    ASSUME NEW e, NEW e2, NEW fr, Framed(e, fr),
           \A i \in {fr[j][1] : j \in DOMAIN fr} : Inner(e, i) => Inner(e2, i)
    PROVE  Framed(e2, fr)
<1>1. fr \in Seq(Nat \X Nat) /\ DOMAIN fr = 1 .. Len(fr)
  BY DEF Framed
<1> QED BY <1>1 DEF Framed

LEMMA ScanStepOk == DiskInv /\ ScanStep => DiskInv'
<1> SUFFICES ASSUME DiskInv, ScanStep PROVE DiskInv'
  OBVIOUS
<1>1. PICK hr : Now(hr)
  BY PickNow
<1> DEFINE id == Last(frames)[1]
           done == Last(frames)[2]
           frame == Front(frames) \o <<<<id, done + 1>>>>
<1>2. /\ mode = "scan" /\ flushing' = flushing /\ walk' = walk
      /\ root' = root /\ next_seq' = next_seq /\ poisoned' = poisoned
      /\ records' = records /\ sb' = sb
  BY Zenon DEF ScanStep, fileVars
<1>3. /\ flushing = <<>> /\ walk = <<>> /\ next_seq \in Nat
      /\ frames # <<>> /\ Framed(Engine, frames)
  BY <1>2 DEF DiskInv, Calling
<1>4. /\ Inner(Engine, id) /\ id \in Nat /\ done \in Nat /\ Framed(Engine, Front(frames))
  BY <1>3, FrameFacts
<1>5. \/ done < Len(nodes[id].children) /\ frames' = frame /\ UNCHANGED <<slotVars, mode>>
      \/ /\ done < Len(nodes[id].children)
         /\ \E e \in ensure_loaded(Engine, nodes[id].children[done + 1], Frames) :
               /\ Becomes(e)
               /\ frames' = frame \o (IF e.nodes[nodes[id].children[done + 1]].leaf THEN <<>>
                                      ELSE <<<<nodes[id].children[done + 1], 0>>>>)
               /\ UNCHANGED mode
      \/ /\ frames' = Front(frames)
         /\ mode' = IF frames' = <<>> THEN "rest" ELSE mode
         /\ UNCHANGED slotVars
  BY Zenon DEF ScanStep
<1>6. \E e : /\ Becomes(e) /\ IsEngine(e)
             /\ Sane(e, records, hr, root, Excused(flushing), Bound(records, sb, poisoned))
             /\ Framed(e, frames')
             /\ \/ mode' = "scan" /\ frames' # <<>>
                \/ mode' = "rest"
  <2> HIDE DEF id, done
  <2>0. Becomes(Engine) <=> UNCHANGED slotVars
    BY EngineIs DEF Becomes, slotVars
  <2>1. /\ IsEngine(Engine)
        /\ Sane(Engine, records, hr, root, Excused(flushing), Bound(records, sb, poisoned))
    BY <1>1, Zenon DEF Now
  <2>2. done + 1 \in Nat
    BY <1>4
  <2>3. Framed(Engine, frame) /\ frame # <<>>
    BY <1>4, <2>2, FramesGrow
  <2>4. CASE frames' = frame /\ UNCHANGED <<slotVars, mode>>
    <3>1. Becomes(Engine) /\ mode' = "scan"
      BY <1>2, <2>0, <2>4, Zenon
    <3> QED BY <2>1, <2>3, <2>4, <3>1, Zenon
  <2>5. CASE /\ frames' = Front(frames)
             /\ mode' = IF frames' = <<>> THEN "rest" ELSE mode
             /\ UNCHANGED slotVars
    <3>1. Becomes(Engine) /\ Framed(Engine, frames')
      BY <1>4, <2>0, <2>5, Zenon
    <3>2. \/ mode' = "scan" /\ frames' # <<>>
          \/ mode' = "rest"
      BY <1>2, <2>5
    <3> QED BY <2>1, <3>1, <3>2, Zenon
  <2>6. CASE /\ done < Len(nodes[id].children)
             /\ \E e \in ensure_loaded(Engine, nodes[id].children[done + 1], Frames) :
                   /\ Becomes(e)
                   /\ frames' = frame \o (IF e.nodes[nodes[id].children[done + 1]].leaf THEN <<>>
                                          ELSE <<<<nodes[id].children[done + 1], 0>>>>)
                   /\ UNCHANGED mode
    <3> DEFINE child == nodes[id].children[done + 1]
    <3>1. SeqOver(Alive(Engine), Engine.nodes[id].children)
      BY <1>4, <2>1, InnerFacts
    <3>2. child \in Alive(Engine) /\ child \in Nat
      <4>1. nodes[id].children \in Seq(Nat)
        BY <3>1, EngineIs DEF SeqOver
      <4>2. done + 1 \in 1 .. Len(nodes[id].children)
        <5>1. done \in Nat /\ Len(nodes[id].children) \in Nat /\ done < Len(nodes[id].children)
          <6>1. done < Len(nodes[id].children)
            BY <2>6, Zenon
          <6>2. done \in Nat
            BY <1>4, Zenon
          <6>3. Len(nodes[id].children) \in Nat
            BY <4>1
          <6> QED BY <6>1, <6>2, <6>3
        <5> QED BY <5>1
      <4> QED BY <3>1, <4>1, <4>2, EngineIs, SMT DEF SeqOver
    <3>3. PICK e \in ensure_loaded(Engine, child, Frames) :
                   /\ Becomes(e)
                   /\ frames' = frame \o (IF e.nodes[child].leaf THEN <<>> ELSE <<<<child, 0>>>>)
                   /\ UNCHANGED mode
      BY <2>6, Zenon
    <3> HIDE DEF child
    <3>4. /\ Sane(e, records, hr, root, Excused(flushing), Bound(records, sb, poisoned))
          /\ IsEngine(e) /\ Alive(Engine) \subseteq Alive(e) /\ IsLoaded(e.nodes[child])
          /\ \A i \in Frames : Inner(Engine, i) => e.nodes[i] = nodes[i] /\ Inner(e, i)
      BY <1>1, <3>2, <3>3, LoadsNow
    <3>5. Frames = {frames[j][1] : j \in DOMAIN frames}
      BY DEF Frames
    <3>6. Framed(e, frames)
      BY <1>3, <3>4, <3>5, FramesKept
    <3>7. Framed(e, Front(frames)) /\ Inner(e, id)
      BY <1>3, <3>6, FrameFacts DEF id
    <3>8. Framed(e, frame) /\ frame # <<>>
      BY <1>4, <2>2, <3>7, FramesGrow
    <3> HIDE DEF frame
    <3>9. CASE e.nodes[child].leaf
      <4>1. frames' = frame \o <<>> /\ frame \in Seq(Nat \X Nat)
        BY <3>3, <3>8, <3>9 DEF Framed
      <4>2. frames' = frame
        BY <4>1
      <4> QED BY <1>2, <3>3, <3>4, <3>8, <4>2, Zenon
    <3>10. CASE ~e.nodes[child].leaf
      <4>1. frames' = frame \o <<<<child, 0>>>>
        BY <3>3, <3>10
      <4>2. Inner(e, child)
        BY <3>2, <3>4, <3>10, Zenon DEF Inner
      <4>3. Framed(e, frames') /\ frames' # <<>>
        BY <3>2, <3>8, <4>1, <4>2, FramesGrow
      <4> QED BY <1>2, <3>3, <3>4, <4>3, Zenon
    <3> QED BY <3>9, <3>10
  <2> QED BY <1>5, <2>4, <2>5, <2>6, Zenon
<1>7. PICK e : /\ Becomes(e) /\ IsEngine(e)
               /\ Sane(e, records, hr, root, Excused(flushing), Bound(records, sb, poisoned))
               /\ Framed(e, frames')
               /\ \/ mode' = "scan" /\ frames' # <<>>
                  \/ mode' = "rest"
  BY <1>6
<1>8. Calling(e, root', mode', flushing', left', walk', frames')
  BY <1>2, <1>3, <1>7, Zenon DEF Calling
<1>9. Sane(e, records, hr, root', Excused(flushing'), Bound(records, sb, poisoned))
  BY <1>2, <1>7, Zenon
<1>10. FileSane(records, sb, hr)
  BY <1>1, Zenon DEF Now
<1>11. next_seq' \in Nat /\ UNCHANGED <<records, sb, poisoned>>
  BY <1>2, <1>3
<1> QED BY <1>7, <1>8, <1>9, <1>10, <1>11, Continues


-----------------------------------------------------------------------------
(* Calls begin and end                                                     *)

LEMMA Restores ==
    ASSUME NEW e, IsEngine(e), NEW r, NEW m \in {"op", "drain"}, Restore(e, r, m),
           IsLoaded(e.nodes[r]), next_seq' \in Nat, UNCHANGED <<records, sb, poisoned>>,
           NEW hr, FileSane(records, sb, hr),
           Sane(e, records, hr, r, {}, Bound(records, sb, poisoned))
    PROVE  DiskInv'
<1>1. /\ Becomes(e) /\ root' = r /\ mode' = m /\ walk' = <<>>
      /\ flushing' = IF e.nodes[r].leaf THEN <<>> ELSE <<r>>
  BY DEF Restore
<1> DEFINE F == Bound(records, sb, poisoned)
<1>2. Sane(e, records, hr, r, {}, F)
  OBVIOUS
<1> HIDE DEF F
<1>3. Sane(e, records, hr, r, Excused(flushing'), F)
  <2> DEFINE X2 == Excused(flushing')
  <2> SUFFICES Sane(e, records, hr, r, X2, F)
    OBVIOUS
  <2> HIDE DEF X2
  <2>1. \A i \in Alive(e) \cap {} : IsLoaded(e.nodes[i]) /\ ~e.nodes[i].leaf =>
              i \in X2 \/ e.nodes[i].children # <<>>
    OBVIOUS
  <2> QED BY <1>2, <2>1, Excuses
<1>4. r \in Alive(e) /\ Alive(e) \subseteq 1 .. Len(e.nodes) /\ Len(e.nodes) \in Nat
  BY <1>2, SaneFacts, Zenon
<1>5. OnPath(e, r, flushing')
  <2>1. CASE e.nodes[r].leaf
    BY <1>1, <2>1 DEF OnPath
  <2>2. CASE ~e.nodes[r].leaf
    <3>1. Inner(e, r) /\ r \in Nat
      BY <1>4, <2>2 DEF Inner
    <3>2. flushing' = <<r>>
      BY <1>1, <2>2
    <3>3. flushing' \in Seq(Nat) /\ Len(flushing') = 1 /\ flushing'[1] = r /\ flushing' # <<>>
      BY <3>1, <3>2
    <3> QED BY <3>1, <3>3 DEF OnPath
  <2> QED BY <2>1, <2>2
<1>6. Calling(e, root', mode', flushing', left', walk', frames')
  BY <1>1, <1>5, Zenon DEF Calling
<1>7. Sane(e, records, hr, root', Excused(flushing'), F)
  BY <1>1, <1>3, Zenon
<1> QED BY <1>1, <1>6, <1>7, Continues DEF F

LEMMA MutationOk ==
    ASSUME DiskInv, NEW k \in Keys, NEW m \in MessagesOf(Nat), Mutation(k, m)
    PROVE  DiskInv'
<1>1. PICK hr : Now(hr)
  BY PickNow
<1>2. /\ mode = "rest" /\ next_seq' = next_seq + 1
      /\ UNCHANGED <<records, sb, poisoned>>
  BY DEF Mutation, fileVars
<1> DEFINE batch == [key \in {k} |-> m]
<1>3. PICK e \in ensure_loaded(Engine, root, {}) : Restore(Deliver1(e, root, batch), root, "op")
  BY Zenon DEF Mutation
<1>4. batch \in Maps(MessagesOf(Nat))
  <2>1. IsFiniteSet({k})
    BY FS_Singleton
  <2>2. /\ batch = [x \in DOMAIN batch |-> batch[x]] /\ DOMAIN batch = {k}
        /\ \A x \in DOMAIN batch : batch[x] \in MessagesOf(Nat)
    OBVIOUS
  <2> HIDE DEF batch
  <2>3. DOMAIN batch \subseteq Keys /\ IsFiniteSet(DOMAIN batch)
    BY <2>1, <2>2
  <2> QED BY <2>2, <2>3, MapFacts
<1> HIDE DEF batch
<1>5. root \in Alive(Engine)
  BY <1>1, SaneFacts, Zenon DEF Now
<1> DEFINE F == Bound(records, sb, poisoned)
<1>6. /\ Sane(e, records, hr, root, Excused(flushing), F)
      /\ IsEngine(e) /\ Alive(Engine) \subseteq Alive(e) /\ IsLoaded(e.nodes[root])
  BY <1>1, <1>3, <1>5, LoadsNow
<1> HIDE DEF F
<1>7. Sane(e, records, hr, root, {}, F)
  BY <1>2, <1>6, RestIs, Zenon
<1>8. root \in Alive(e)
  BY <1>5, <1>6
<1> DEFINE e2 == Deliver1(e, root, batch)
<1>9. Sane(e2, records, hr, root, {}, F) /\ Changed(e, e2, root)
  BY <1>4, <1>6, <1>7, <1>8, DeliverKeeps
<1> HIDE DEF e2
<1>10. IsEngine(e2) /\ IsLoaded(e2.nodes[root])
  BY <1>9 DEF Changed
<1>11. next_seq' \in Nat
  BY <1>2 DEF DiskInv
<1>12. FileSane(records, sb, hr)
  BY <1>1, Zenon DEF Now
<1>13. Restore(e2, root, "op")
  BY <1>3 DEF e2
<1>14. Sane(e2, records, hr, root, {}, Bound(records, sb, poisoned))
  BY <1>9 DEF F
<1> QED BY <1>2, <1>10, <1>11, <1>12, <1>13, <1>14, Restores

LEMMA CallsOk ==
    ASSUME DiskInv, NEW k \in Keys
    PROVE  /\ \A v \in Puts : insert(k, v) => DiskInv'
           /\ delete(k) => DiskInv'
           /\ \A d \in Deltas : upsert(k, d) => DiskInv'
<1>1. next_seq + 1 \in Nat
  BY DEF DiskInv
<1>2. ASSUME NEW v \in Puts, insert(k, v) PROVE DiskInv'
  <2>1. v \in Values
    BY DiskAssumption
  <2>2. Put(next_seq + 1, v) \in MessagesOf(Nat)
    BY <1>1, <2>1 DEF Put, MessagesOf
  <2> QED BY <1>2, <2>2, MutationOk DEF insert
<1>3. ASSUME delete(k) PROVE DiskInv'
  <2>1. Delete(next_seq + 1) \in MessagesOf(Nat)
    BY <1>1 DEF Delete, MessagesOf
  <2> QED BY <1>3, <2>1, MutationOk DEF delete
<1>4. ASSUME NEW d \in Deltas, upsert(k, d) PROVE DiskInv'
  <2>1. d \in Numbers
    BY DiskAssumption
  <2>2. Upsert(next_seq + 1, d) \in MessagesOf(Nat)
    BY <1>1, <2>1 DEF Upsert, MessagesOf
  <2> QED BY <1>4, <2>2, MutationOk DEF upsert
<1> QED BY <1>2, <1>3, <1>4

LEMMA DrainOk == DiskInv /\ drain => DiskInv'
<1> SUFFICES ASSUME DiskInv, drain PROVE DiskInv'
  OBVIOUS
<1>1. PICK hr : Now(hr)
  BY PickNow
<1>2. mode = "rest" /\ next_seq' = next_seq /\ UNCHANGED <<records, sb, poisoned>>
  BY DEF drain, fileVars
<1>3. PICK e \in ensure_loaded(Engine, root, {}) : Restore(e, root, "drain")
  BY Zenon DEF drain
<1>4. root \in Alive(Engine)
  BY <1>1, SaneFacts, Zenon DEF Now
<1> DEFINE F == Bound(records, sb, poisoned)
<1>5. /\ Sane(e, records, hr, root, Excused(flushing), F)
      /\ IsEngine(e) /\ IsLoaded(e.nodes[root])
  BY <1>1, <1>3, <1>4, LoadsNow
<1>6. Sane(e, records, hr, root, {}, F)
  BY <1>2, <1>5, RestIs, Zenon
<1>7. next_seq' \in Nat
  BY <1>2 DEF DiskInv
<1>8. FileSane(records, sb, hr)
  BY <1>1, Zenon DEF Now
<1> QED BY <1>2, <1>3, <1>5, <1>6, <1>7, <1>8, Restores

(* The root when its flush is over.                                        *)
LEMMA RootDoneIs ==
    ASSUME DiskInv, RootDone
    PROVE  /\ IsLoaded(nodes[root]) /\ Excused(flushing) \subseteq {root} /\ walk = <<>>
           /\ mode \in {"op", "drain"}
           /\ flushing = <<>> => nodes[root].leaf
           /\ flushing # <<>> => Top = root /\ ~nodes[root].leaf
<1>1. mode \in {"op", "drain"} /\ (flushing = <<>> \/ (TopDone /\ Len(flushing) = 1))
  BY DEF RootDone
<1>2. /\ OnPath(Engine, root, flushing)
      /\ walk = <<>> \/ (walk # <<>> /\ Probes(Engine, flushing, left, walk))
  BY <1>1 DEF DiskInv, Calling
<1>3. Engine.nodes = nodes
  BY EngineIs
<1>4. CASE flushing = <<>>
  BY <1>1, <1>2, <1>3, <1>4 DEF OnPath, Excused, Probes
<1>5. CASE flushing # <<>>
  <2>1. TopDone /\ Len(flushing) = 1
    BY <1>1, <1>5
  <2>2. walk = <<>>
    BY <2>1 DEF TopDone, Probing
  <2>3. flushing[1] = root /\ Inner(Engine, flushing[1])
    BY <1>2, <1>5, <2>1 DEF OnPath
  <2>4. Last(flushing) = root
    BY <2>1, <2>3 DEF Last
  <2> QED BY <1>1, <1>3, <1>5, <2>2, <2>3, <2>4 DEF Inner, Excused, Top
<1> QED BY <1>4, <1>5

LEMMA RestartEmptyOk == DiskInv /\ RestartEmpty => DiskInv'
<1> SUFFICES ASSUME DiskInv, RestartEmpty PROVE DiskInv'
  OBVIOUS
<1>1. PICK hr : Now(hr)
  BY PickNow
<1>2. /\ RootDone /\ RootRemoved /\ root' = Len(nodes) + 1 /\ mode' = "collapse"
      /\ flushing' = <<>> /\ walk' = <<>> /\ next_seq' = next_seq
      /\ UNCHANGED <<records, sb, poisoned>>
  BY DEF RestartEmpty, Idle, fileVars
<1> DEFINE F == Bound(records, sb, poisoned)
           X == Excused(flushing)
           e2 == release_slot(Over(Engine, Append(Engine.nodes, Leaf(Empty))), root)
<1>3. Becomes(e2)
  BY EngineIs DEF RestartEmpty
<1>4. Sane(Engine, records, hr, root, X, F) /\ IsEngine(Engine) /\ FileSane(records, sb, hr)
  BY <1>1, Zenon DEF Now
<1>5. IsLoaded(nodes[root]) /\ Top = root /\ ~nodes[root].leaf
  BY <1>2, RootDoneIs DEF RootRemoved
<1>6. nodes[root].children = <<>>
  BY <1>2, <1>5 DEF RootRemoved, TopRemoved
<1>7. Children(nodes[root]) = {}
  BY <1>5, <1>6 DEF Children, Range
<1>8. IsLoaded(Engine.nodes[root]) /\ Children(Engine.nodes[root]) = {}
  BY <1>5, <1>7, EngineIs, Zenon
<1> HIDE DEF F, X
<1>9. /\ Sane(e2, records, hr, Len(Engine.nodes) + 1, {}, F) /\ IsEngine(e2)
      /\ IsLoaded(e2.nodes[Len(Engine.nodes) + 1])
  BY <1>4, <1>8, EmptyRoot
<1> HIDE DEF e2
<1>10. root' = Len(Engine.nodes) + 1
  BY <1>2, EngineIs
<1>11. Calling(e2, root', mode', flushing', left', walk', frames')
  BY <1>2, <1>9, <1>10, Zenon DEF Calling
<1>12. Excused(flushing') = {}
  BY <1>2 DEF Excused
<1>13. Sane(e2, records, hr, root', Excused(flushing'), Bound(records, sb, poisoned))
  BY <1>9, <1>10, <1>12, Zenon DEF F
<1>14. next_seq' \in Nat
  BY <1>2 DEF DiskInv
<1> QED BY <1>2, <1>3, <1>4, <1>9, <1>11, <1>13, <1>14, Continues

LEMMA GrowOk == DiskInv /\ Grow => DiskInv'
<1> SUFFICES ASSUME DiskInv, Grow PROVE DiskInv'
  OBVIOUS
<1>1. PICK hr : Now(hr)
  BY PickNow
<1>2. /\ RootDone /\ ~RootRemoved /\ RootSplit.promoted # <<>> /\ next_seq' = next_seq
      /\ UNCHANGED <<records, sb, poisoned>>
  BY DEF Grow, fileVars
<1> DEFINE F == Bound(records, sb, poisoned)
           X == Excused(flushing)
           promoted == RootSplit.promoted
           top == Internal([j \in DOMAIN promoted |-> promoted[j][1]],
                           <<root>> \o [j \in DOMAIN promoted |-> promoted[j][2]],
                           Empty)
           e2 == Over(Engine, Append(RootSplit.nodes, top))
<1>3. Restore(e2, Len(RootSplit.nodes) + 1, mode)
  BY Zenon DEF Grow
<1>4. Sane(Engine, records, hr, root, X, F) /\ IsEngine(Engine) /\ FileSane(records, sb, hr)
  BY <1>1, Zenon DEF Now
<1>5. IsLoaded(nodes[root]) /\ X \subseteq {root} /\ mode \in {"op", "drain"}
  BY <1>2, RootDoneIs
<1>6. ~Barren(nodes[root])
  BY <1>2, RootDoneIs DEF RootRemoved, TopRemoved, Barren
<1>7. IsLoaded(Engine.nodes[root]) /\ ~Barren(Engine.nodes[root])
  BY <1>5, <1>6, EngineIs, Zenon
<1>8. GrownRoot(Engine, root, RootSplit, top, e2)
  BY <1>2, EngineIs, Zenon DEF GrownRoot, RootSplit
<1> HIDE DEF F, X, top, e2, promoted
<1>9. /\ Sane(e2, records, hr, Len(RootSplit.nodes) + 1, {}, F) /\ IsEngine(e2)
      /\ IsLoaded(e2.nodes[Len(RootSplit.nodes) + 1])
  BY <1>4, <1>5, <1>7, <1>8, GrowRoot
<1>10. next_seq' \in Nat
  BY <1>2 DEF DiskInv
<1>11. Sane(e2, records, hr, Len(RootSplit.nodes) + 1, {}, Bound(records, sb, poisoned))
  BY <1>9 DEF F
<1> QED BY <1>2, <1>3, <1>4, <1>5, <1>9, <1>10, <1>11, Restores

LEMMA SettledOk == DiskInv /\ Settled => DiskInv'
<1> SUFFICES ASSUME DiskInv, Settled PROVE DiskInv'
  OBVIOUS
<1>1. PICK hr : Now(hr)
  BY PickNow
<1>2. /\ RootDone /\ ~RootRemoved /\ root' = root /\ mode' = "collapse"
      /\ flushing' = <<>> /\ walk' = <<>> /\ next_seq' = next_seq
      /\ UNCHANGED <<records, sb, poisoned>>
  BY DEF Settled, Idle, fileVars
<1> DEFINE F == Bound(records, sb, poisoned)
           X == Excused(flushing)
<1>3. Becomes(Engine)
  BY EngineIs DEF Settled, slotVars, Becomes
<1>4. Sane(Engine, records, hr, root, X, F) /\ IsEngine(Engine) /\ FileSane(records, sb, hr)
  BY <1>1, Zenon DEF Now
<1>5. IsLoaded(nodes[root]) /\ X \subseteq {root}
  BY <1>2, RootDoneIs
<1>6. ~nodes[root].leaf => nodes[root].children # <<>>
  BY <1>2, RootDoneIs DEF RootRemoved, TopRemoved
<1> HIDE DEF F, X
<1>7. \A i \in Alive(Engine) \cap X : IsLoaded(Engine.nodes[i]) /\ ~Engine.nodes[i].leaf =>
              i \in {} \/ Engine.nodes[i].children # <<>>
  BY <1>5, <1>6, EngineIs, Zenon
<1>8. Sane(Engine, records, hr, root, {}, F)
  BY <1>4, <1>7, Excuses
<1>9. IsLoaded(Engine.nodes[root])
  BY <1>5, EngineIs, Zenon
<1>10. Calling(Engine, root', mode', flushing', left', walk', frames')
  BY <1>2, <1>9, Zenon DEF Calling
<1>11. Excused(flushing') = {}
  BY <1>2 DEF Excused
<1>12. Sane(Engine, records, hr, root', Excused(flushing'), Bound(records, sb, poisoned))
  BY <1>2, <1>8, <1>11, Zenon DEF F
<1>13. next_seq' \in Nat
  BY <1>2 DEF DiskInv
<1> QED BY <1>2, <1>3, <1>4, <1>10, <1>12, <1>13, Continues


LEMMA CollapseOk == DiskInv /\ Collapse => DiskInv'
<1> SUFFICES ASSUME DiskInv, Collapse PROVE DiskInv'
  OBVIOUS
<1>1. PICK hr : Now(hr)
  BY PickNow
<1>2. mode = "collapse" /\ Lone(nodes[root]) /\ root' = nodes[root].children[1]
  BY DEF Collapse
<1>3. flushing = <<>> /\ walk = <<>> /\ IsLoaded(Engine.nodes[root]) /\ next_seq \in Nat
  BY <1>2 DEF DiskInv, Calling
<1>4. Excused(flushing) = {}
  BY <1>3 DEF Excused
<1> DEFINE F == Bound(records, sb, poisoned)
           e == release_slot(Engine, root)
<1>5. Sane(Engine, records, hr, root, {}, F) /\ IsEngine(Engine) /\ FileSane(records, sb, hr)
  BY <1>1, <1>4, Zenon DEF Now
<1>6. ~Engine.nodes[root].leaf /\ Len(Engine.nodes[root].children) = 1
  BY <1>2, EngineIs DEF Lone
<1>7. root' = Engine.nodes[root].children[1]
  BY <1>2, EngineIs
<1> HIDE DEF F
<1>8. Sane(e, records, hr, Engine.nodes[root].children[1], {}, F) /\ IsEngine(e)
  <2>1. {} \ {root} \subseteq {}
    OBVIOUS
  <2> QED BY <1>3, <1>5, <1>6, <2>1, ShedRoot
<1>9. Sane(e, records, hr, root', {}, F)
  BY <1>7, <1>8, Zenon
<1>10. \/ /\ \E loaded \in ensure_loaded(e, root', {}) : Becomes(loaded)
          /\ UNCHANGED <<next_seq, poisoned, fileVars, callVars>>
       \/ LoadFails(e, root') /\ Interrupt(e)
  BY DEF Collapse
<1> HIDE DEF e
<1>11. CASE Interrupt(e)
  BY <1>3, <1>5, <1>8, <1>9, <1>11, Interrupted
<1>12. CASE /\ \E loaded \in ensure_loaded(e, root', {}) : Becomes(loaded)
            /\ UNCHANGED <<next_seq, poisoned, fileVars, callVars>>
  <2>1. PICK loaded \in ensure_loaded(e, root', {}) : Becomes(loaded)
    BY <1>12
  <2>2. root' \in Alive(e)
    BY <1>9, SaneFacts, Zenon
  <2> DEFINE r2 == root'
  <2>3. r2 \in Alive(e) /\ Sane(e, records, hr, r2, {}, F) /\ loaded \in ensure_loaded(e, r2, {})
    BY <1>9, <2>1, <2>2
  <2> HIDE DEF r2
  <2>4. LoadedFrom(e, hr, r2, {}, F, r2, {}, loaded)
    BY <1>8, <2>3, Loads
  <2>5. Sane(loaded, records, hr, r2, {}, F) /\ IsEngine(loaded) /\ IsLoaded(loaded.nodes[r2])
    BY <2>4, Zenon DEF LoadedFrom
  <2>6. /\ mode' = "collapse" /\ flushing' = <<>> /\ walk' = <<>> /\ next_seq' \in Nat
        /\ UNCHANGED <<records, sb, poisoned>>
    BY <1>2, <1>3, <1>12 DEF callVars, fileVars
  <2>7. Calling(loaded, root', mode', flushing', left', walk', frames')
    BY <2>5, <2>6, Zenon DEF Calling, r2
  <2>8. Excused(flushing') = {}
    BY <2>6 DEF Excused
  <2>9. Sane(loaded, records, hr, root', Excused(flushing'), Bound(records, sb, poisoned))
    BY <2>5, <2>8, Zenon DEF F, r2
  <2> QED BY <1>5, <2>1, <2>5, <2>6, <2>7, <2>9, Continues
<1> QED BY <1>10, <1>11, <1>12

LEMMA ReturnOk == DiskInv /\ Return => DiskInv'
<1> SUFFICES ASSUME DiskInv, Return PROVE DiskInv'
  OBVIOUS
<1>1. PICK hr : Now(hr)
  BY PickNow
<1>2. /\ mode = "collapse" /\ mode' = "rest" /\ flushing' = flushing /\ walk' = walk
      /\ root' = root /\ next_seq' = next_seq /\ UNCHANGED <<records, sb, poisoned>>
  BY DEF Return, fileVars
<1>3. Becomes(Engine)
  BY EngineIs DEF Return, slotVars, Becomes
<1>4. flushing = <<>> /\ walk = <<>> /\ next_seq \in Nat
  BY <1>2 DEF DiskInv, Calling
<1>5. Calling(Engine, root', mode', flushing', left', walk', frames')
  BY <1>2, <1>4, Zenon DEF Calling
<1>6. Sane(Engine, records, hr, root', Excused(flushing'), Bound(records, sb, poisoned))
  BY <1>1, <1>2, Zenon DEF Now
<1>7. IsEngine(Engine) /\ FileSane(records, sb, hr) /\ next_seq' \in Nat
  BY <1>1, <1>2, <1>4, Zenon DEF Now
<1> QED BY <1>2, <1>3, <1>5, <1>6, <1>7, Continues

-----------------------------------------------------------------------------
(* The cascade                                                             *)

LEMMA PathTop ==
    ASSUME NEW e, NEW r, NEW fl, OnPath(e, r, fl), fl # <<>>
    PROVE  /\ fl \in Seq(Nat) /\ Len(fl) \in Nat /\ Len(fl) >= 1
           /\ Inner(e, Last(fl)) /\ Last(fl) = fl[Len(fl)] /\ Last(fl) \in Range(fl)
           /\ \A i \in Range(fl) : Inner(e, i)
<1>1. fl \in Seq(Nat) /\ Len(fl) \in Nat /\ Len(fl) # 0 /\ DOMAIN fl = 1 .. Len(fl)
  BY DEF OnPath
<1>2. Last(fl) = fl[Len(fl)] /\ Len(fl) \in 1 .. Len(fl)
  BY <1>1 DEF Last
<1>3. \A i \in Range(fl) : Inner(e, i)
  BY <1>1 DEF OnPath, Range
<1>4. Last(fl) \in Range(fl)
  BY <1>1, <1>2 DEF Range
<1> QED BY <1>1, <1>2, <1>3, <1>4

(* What lies on the path has stayed.                                       *)
LEMMA PathKept ==
    ASSUME NEW e, NEW r, NEW fl, OnPath(e, r, fl), fl # <<>>,
           NEW e2, \A i \in Range(fl) : Inner(e2, i) /\ Children(e2.nodes[i]) = Children(e.nodes[i])
    PROVE  OnPath(e2, r, fl)
<1>1. fl \in Seq(Nat) /\ Len(fl) \in Nat /\ DOMAIN fl = 1 .. Len(fl) /\ fl[1] = r
  BY DEF OnPath
<1>2. \A j \in 1 .. Len(fl) : fl[j] \in Range(fl)
  BY <1>1 DEF Range
<1>3. ASSUME NEW j \in 1 .. (Len(fl) - 1) PROVE fl[j + 1] \in Children(e2.nodes[fl[j]])
  <2>1. j \in 1 .. Len(fl)
    BY <1>1
  <2>2. fl[j + 1] \in Children(e.nodes[fl[j]])
    BY DEF OnPath
  <2> QED BY <1>2, <2>1, <2>2
<1> QED BY <1>1, <1>2, <1>3 DEF OnPath

(* The stack grows by a child of its top.                                  *)
LEMMA PathGrows ==
    ASSUME NEW e, NEW r, NEW fl, OnPath(e, r, fl), fl # <<>>,
           NEW c \in Nat, Inner(e, c), c \in Children(e.nodes[Last(fl)])
    PROVE  OnPath(e, r, Append(fl, c)) /\ Excused(Append(fl, c)) = {c}
<1>1. fl \in Seq(Nat) /\ Len(fl) \in Nat /\ Len(fl) >= 1 /\ fl[1] = r /\ Last(fl) = fl[Len(fl)]
  BY PathTop, Zenon DEF OnPath
<1> DEFINE s == Append(fl, c)
<1>2. /\ s \in Seq(Nat) /\ Len(s) = Len(fl) + 1 /\ s[Len(fl) + 1] = c
      /\ \A j \in 1 .. Len(fl) : s[j] = fl[j]
  BY <1>1
<1> SUFFICES OnPath(e, r, s) /\ Excused(s) = {c}
  OBVIOUS
<1> HIDE DEF s
<1>3. s # <<>> /\ s[1] = r
  BY <1>1, <1>2
<1>4. Excused(s) = {c}
  BY <1>1, <1>2, <1>3 DEF Excused, Last
<1>5. ASSUME NEW j \in 1 .. Len(s) PROVE Inner(e, s[j])
  <2>1. CASE j = Len(fl) + 1
    BY <1>2, <2>1
  <2>2. CASE j # Len(fl) + 1
    <3>1. j \in 1 .. Len(fl)
      BY <1>1, <1>2, <2>2
    <3> QED BY <1>2, <3>1 DEF OnPath
  <2> QED BY <2>1, <2>2
<1>6. ASSUME NEW j \in 1 .. (Len(s) - 1) PROVE s[j + 1] \in Children(e.nodes[s[j]])
  <2>1. CASE j = Len(fl)
    <3>1. s[j + 1] = c /\ s[j] = Last(fl)
      BY <1>1, <1>2, <2>1
    <3> QED BY <3>1
  <2>2. CASE j # Len(fl)
    <3>1. j \in 1 .. (Len(fl) - 1) /\ j \in 1 .. Len(fl) /\ j + 1 \in 1 .. Len(fl)
      BY <1>1, <1>2, <2>2
    <3>2. fl[j + 1] \in Children(e.nodes[fl[j]])
      BY <3>1 DEF OnPath
    <3> QED BY <1>2, <3>1, <3>2
  <2> QED BY <2>1, <2>2
<1>7. OnPath(e, r, s)
  BY <1>2, <1>3, <1>5, <1>6 DEF OnPath
<1> QED BY <1>4, <1>7

(* The top still has a child: nothing needs to be excused.                 *)
LEMMA NoExcuse ==
    ASSUME NEW e, NEW rs, NEW hr, NEW r, NEW fl, NEW F, Sane(e, rs, hr, r, Excused(fl), F),
           fl # <<>>, NEW c \in Children(e.nodes[Last(fl)]), NEW X2
    PROVE  Sane(e, rs, hr, r, X2, F)
<1> DEFINE X == Excused(fl)
<1>1. X = {Last(fl)}
  BY DEF Excused
<1>2. ~e.nodes[Last(fl)].leaf => e.nodes[Last(fl)].children # <<>>
  BY DEF Children, Range
<1>3. Sane(e, rs, hr, r, X, F)
  OBVIOUS
<1> HIDE DEF X
<1>4. \A i \in Alive(e) \cap X : IsLoaded(e.nodes[i]) /\ ~e.nodes[i].leaf =>
              i \in X2 \/ e.nodes[i].children # <<>>
  BY <1>1, <1>2
<1> QED BY <1>3, <1>4, Excuses

LEMMA BeginProbeOk == DiskInv /\ BeginProbe => DiskInv'
<1> SUFFICES ASSUME DiskInv, BeginProbe PROVE DiskInv'
  OBVIOUS
<1>1. PICK hr : Now(hr)
  BY PickNow
<1>2. /\ mode = "drain" /\ mode' = mode /\ flushing' = flushing
      /\ root' = root /\ next_seq' = next_seq /\ UNCHANGED <<records, sb, poisoned>>
      /\ flushing # <<>> /\ ~(Count(nodes[Top].buffer) > 0) /\ nodes[Top].children # <<>>
      /\ left' = nodes[Top].children /\ walk' = <<Head(left')>>
  BY DEF BeginProbe, ProbeDue, fileVars, Flushing, TopOverflows, threshold
<1>3. Becomes(Engine) /\ Engine.nodes = nodes
  BY EngineIs DEF BeginProbe, slotVars, Becomes
<1>4. OnPath(Engine, root, flushing) /\ next_seq \in Nat
  BY <1>2 DEF DiskInv, Calling
<1>5. Inner(Engine, Last(flushing))
  BY <1>2, <1>4, PathTop
<1> DEFINE F == Bound(records, sb, poisoned)
           X == Excused(flushing)
<1>6. Sane(Engine, records, hr, root, X, F) /\ IsEngine(Engine) /\ FileSane(records, sb, hr)
  BY <1>1, Zenon DEF Now
<1> HIDE DEF F, X
<1>7. /\ SeqOver(Children(Engine.nodes[Last(flushing)]), Engine.nodes[Last(flushing)].children)
      /\ Children(Engine.nodes[Last(flushing)]) \subseteq Alive(Engine)
  BY <1>5, <1>6, InnerFacts
<1>8. left' # <<>> /\ SeqOver(Children(Engine.nodes[Last(flushing)]), left')
  BY <1>2, <1>3, <1>7 DEF Top
<1>9. Head(left') \in Alive(Engine) /\ Head(left') \in Nat
  BY <1>7, <1>8 DEF SeqOver
<1>10. SeqOver(Alive(Engine), walk')
  BY <1>2, <1>9 DEF SeqOver
<1>11. ~(Count(Engine.nodes[Last(flushing)].buffer) > 0)
  BY <1>2, <1>3 DEF Top
<1>12. Probes(Engine, flushing', left', walk')
  BY <1>2, <1>8, <1>10, <1>11, Zenon DEF Probes
<1>13. Calling(Engine, root', mode', flushing', left', walk', frames')
  BY <1>2, <1>4, <1>12, Zenon DEF Calling
<1>14. Sane(Engine, records, hr, root', Excused(flushing'), Bound(records, sb, poisoned))
  BY <1>2, <1>6, Zenon DEF X, F
<1>15. next_seq' \in Nat
  BY <1>2, <1>4
<1> QED BY <1>2, <1>3, <1>6, <1>13, <1>14, <1>15, Continues


(* A node was probed and the drain goes on with what is left to probe.     *)
ProbedTo(e, n) ==
    LET below == Front(walk) \o (IF e.nodes[n].leaf THEN <<>> ELSE e.nodes[n].children)
        others == Tail(left)
    IN IF Found(e.nodes[n])
       THEN flushing' = Append(flushing, Head(left)) /\ left' = <<>> /\ walk' = <<>>
       ELSE IF below # <<>> THEN walk' = below /\ UNCHANGED <<flushing, left>>
       ELSE IF others # <<>>
       THEN left' = others /\ walk' = <<Head(others)>> /\ UNCHANGED flushing
       ELSE walk' = <<>> /\ UNCHANGED <<flushing, left>>

LEMMA ProbeGoesOn ==
    ASSUME DiskInv, mode = "drain", walk # <<>>, NEW hr, Now(hr),
           NEW e \in ensure_loaded(Engine, Last(walk), Range(flushing) \cup {Head(left)}),
           ProbedTo(e, Last(walk))
    PROVE  /\ Sane(e, records, hr, root, Excused(flushing'), Bound(records, sb, poisoned))
           /\ IsEngine(e) /\ OnPath(e, root, flushing')
           /\ walk' # <<>> => Probes(e, flushing', left', walk')
<1>1. Probes(Engine, flushing, left, walk) /\ OnPath(Engine, root, flushing)
  BY DEF DiskInv, Calling
<1>2. /\ flushing # <<>> /\ left # <<>> /\ SeqOver(Alive(Engine), walk)
      /\ SeqOver(Children(Engine.nodes[Last(flushing)]), left)
      /\ ~(Count(Engine.nodes[Last(flushing)].buffer) > 0)
      /\ walk = <<Head(left)>> \/ Inner(Engine, Head(left))
  BY <1>1, Zenon DEF Probes
<1> DEFINE n == Last(walk)
           H == Head(left)
           T == Last(flushing)
           F == Bound(records, sb, poisoned)
<1>3. n \in Alive(Engine) /\ SeqOver(Alive(Engine), Front(walk))
  BY <1>2, LastOver
<1>4. /\ Sane(e, records, hr, root, Excused(flushing), F)
      /\ IsEngine(e) /\ Alive(Engine) \subseteq Alive(e) /\ IsLoaded(e.nodes[n])
      /\ \A i \in Range(flushing) \cup {H} : Inner(Engine, i) => e.nodes[i] = nodes[i] /\ Inner(e, i)
  BY <1>3, LoadsNow
<1>5. /\ \A i \in Range(flushing) : Inner(Engine, i)
      /\ T \in Range(flushing)
  BY <1>1, <1>2, PathTop
<1>6. \A i \in Range(flushing) : Inner(e, i) /\ e.nodes[i] = Engine.nodes[i]
  BY <1>4, <1>5, EngineIs
<1> HIDE DEF F
<1>7. OnPath(e, root, flushing)
  BY <1>1, <1>2, <1>6, PathKept
<1>8. /\ SeqOver(Children(e.nodes[T]), left) /\ ~(Count(e.nodes[T].buffer) > 0)
      /\ Inner(e, T)
  BY <1>2, <1>5, <1>6
<1>9. Children(e.nodes[T]) \subseteq Alive(e)
  BY <1>4, <1>8, InnerFacts
<1>10. /\ H \in Children(e.nodes[T]) /\ H \in Nat /\ H \in Alive(e)
       /\ SeqOver(Children(e.nodes[T]), Tail(left))
  <2>1. H \in Children(e.nodes[T]) /\ SeqOver(Children(e.nodes[T]), Tail(left))
    BY <1>2, <1>8, LastOver
  <2>2. H \in Nat
    BY <1>2, <1>8 DEF SeqOver
  <2> QED BY <1>9, <2>1, <2>2
<1>11. n \in Alive(e) /\ SeqOver(Alive(e), Front(walk))
  BY <1>3, <1>4, WiderOver
<1>12. walk = <<H>> => n = H /\ Front(walk) = <<>>
  BY DEF Last, Front
<1>13. Inner(Engine, H) => Inner(e, H)
  BY <1>4
<1> HIDE DEF n, H, T
<1> DEFINE below == Front(walk) \o (IF e.nodes[n].leaf THEN <<>> ELSE e.nodes[n].children)
           others == Tail(left)
<1>14. IF Found(e.nodes[n]) THEN flushing' = Append(flushing, H) /\ left' = <<>> /\ walk' = <<>>
       ELSE IF below # <<>> THEN walk' = below /\ UNCHANGED <<flushing, left>>
       ELSE IF others # <<>>
       THEN left' = others /\ walk' = <<Head(others)>> /\ UNCHANGED flushing
       ELSE walk' = <<>> /\ UNCHANGED <<flushing, left>>
  BY Zenon DEF ProbedTo, n, H
<1>15. SeqOver(Alive(e), below)
  <2>1. CASE e.nodes[n].leaf
    <3>1. SeqOver(Alive(e), <<>>)
      BY SmallOver
    <3>2. SeqOver(Alive(e), Front(walk) \o <<>>)
      BY <1>11, <3>1, ConcatOver
    <3> QED BY <2>1, <3>2
  <2>2. CASE ~e.nodes[n].leaf
    <3>1. Inner(e, n)
      BY <1>4, <1>11, <2>2 DEF Inner, n
    <3>2. SeqOver(Alive(e), e.nodes[n].children)
      BY <1>4, <3>1, InnerFacts
    <3>3. SeqOver(Alive(e), Front(walk) \o e.nodes[n].children)
      BY <1>11, <3>2, ConcatOver
    <3> QED BY <2>2, <3>3
  <2> QED BY <2>1, <2>2
<1>16. CASE Found(e.nodes[n])
  <2>1. flushing' = Append(flushing, H) /\ walk' = <<>>
    BY <1>14, <1>16
  <2>2. ~e.nodes[n].leaf
    BY <1>16 DEF Found, HasMessages
  <2>3. Inner(e, n)
    BY <1>4, <1>11, <2>2 DEF Inner, n
  <2>4. Inner(e, H)
    BY <1>2, <1>12, <1>13, <2>3 DEF H
  <2>5. OnPath(e, root, Append(flushing, H)) /\ Excused(Append(flushing, H)) = {H}
    BY <1>2, <1>7, <1>10, <2>4, PathGrows DEF T
  <2>6. Sane(e, records, hr, root, {H}, F)
    BY <1>2, <1>4, <1>10, NoExcuse DEF T
  <2>7. Sane(e, records, hr, root, Excused(flushing'), Bound(records, sb, poisoned))
    BY <2>1, <2>5, <2>6, Zenon DEF F
  <2> QED BY <1>4, <2>1, <2>5, <2>7, Zenon
<1>17. CASE ~Found(e.nodes[n]) /\ below # <<>>
  <2>1. walk' = below /\ flushing' = flushing /\ left' = left
    BY <1>14, <1>17
  <2>2. Inner(e, H)
    <3>1. CASE Inner(Engine, H)
      BY <1>13, <3>1
    <3>2. CASE walk = <<H>>
      <4>1. n = H /\ Front(walk) = <<>>
        BY <1>12, <3>2
      <4>2. ~e.nodes[n].leaf
        BY <1>17, <4>1
      <4> QED BY <1>4, <1>11, <4>1, <4>2 DEF Inner, n
    <3> QED BY <1>2, <3>1, <3>2 DEF H
  <2> HIDE DEF below
  <2>3. Probes(e, flushing', left', walk')
    BY <1>2, <1>8, <1>15, <2>1, <2>2, Zenon DEF Probes, H, T
  <2>4. Sane(e, records, hr, root, Excused(flushing'), Bound(records, sb, poisoned))
    BY <1>4, <2>1, Zenon DEF F
  <2>5. OnPath(e, root, flushing')
    BY <1>7, <2>1, Zenon
  <2> QED BY <1>4, <2>3, <2>4, <2>5, Zenon
<1>18. CASE ~Found(e.nodes[n]) /\ ~(below # <<>>) /\ others # <<>>
  <2>1. walk' = <<Head(others)>> /\ flushing' = flushing /\ left' = others
    BY <1>14, <1>18
  <2>2. SeqOver(Children(e.nodes[T]), others)
    BY <1>10
  <2>3. Head(others) \in Children(e.nodes[T]) /\ Head(others) \in Nat
    <3> HIDE DEF others
    <3>1. SeqOver(Nat, others)
      BY <2>2 DEF SeqOver
    <3> QED BY <1>18, <2>2, <3>1, LastOver
  <2>4. Head(others) \in Alive(e) \cap Nat
    BY <1>9, <2>3
  <2> HIDE DEF others
  <2>5. SeqOver(Alive(e), walk')
    BY <2>1, <2>4, SmallOver, Zenon
  <2>6. Probes(e, flushing', left', walk')
    BY <1>2, <1>8, <1>18, <2>1, <2>2, <2>5, Zenon DEF Probes, T
  <2>7. Sane(e, records, hr, root, Excused(flushing'), Bound(records, sb, poisoned))
    BY <1>4, <2>1, Zenon DEF F
  <2>8. OnPath(e, root, flushing')
    BY <1>7, <2>1, Zenon
  <2> QED BY <1>4, <2>6, <2>7, <2>8, Zenon
<1>19. CASE ~Found(e.nodes[n]) /\ ~(below # <<>>) /\ ~(others # <<>>)
  <2>1. walk' = <<>> /\ flushing' = flushing
    BY <1>14, <1>19
  <2>2. Sane(e, records, hr, root, Excused(flushing'), Bound(records, sb, poisoned))
    BY <1>4, <2>1, Zenon DEF F
  <2>3. OnPath(e, root, flushing')
    BY <1>7, <2>1, Zenon
  <2> QED BY <1>4, <2>1, <2>2, <2>3, Zenon
<1> QED BY <1>16, <1>17, <1>18, <1>19

LEMMA ProbeOk == DiskInv /\ Probe => DiskInv'
<1> SUFFICES ASSUME DiskInv, Probe PROVE DiskInv'
  OBVIOUS
<1>1. PICK hr : Now(hr)
  BY PickNow
<1>2. mode = "drain" /\ walk # <<>> /\ next_seq \in Nat
  BY DEF Probe, Probing, DiskInv
<1>3. \/ /\ \E e \in ensure_loaded(Engine, Last(walk), Range(flushing) \cup {Head(left)}) :
               Becomes(e) /\ ProbedTo(e, Last(walk))
         /\ UNCHANGED <<root, next_seq, poisoned, fileVars, mode, frames>>
      \/ Interrupt(Engine) /\ UNCHANGED root
  BY Zenon DEF Probe, ProbedTo
<1>4. IsEngine(Engine) /\ FileSane(records, sb, hr)
  BY <1>1, Zenon DEF Now
<1>5. CASE /\ \E e \in ensure_loaded(Engine, Last(walk), Range(flushing) \cup {Head(left)}) :
                 Becomes(e) /\ ProbedTo(e, Last(walk))
           /\ UNCHANGED <<root, next_seq, poisoned, fileVars, mode, frames>>
  <2>1. PICK e \in ensure_loaded(Engine, Last(walk), Range(flushing) \cup {Head(left)}) :
               Becomes(e) /\ ProbedTo(e, Last(walk))
    BY <1>5, Zenon
  <2>2. /\ Sane(e, records, hr, root, Excused(flushing'), Bound(records, sb, poisoned))
        /\ IsEngine(e) /\ OnPath(e, root, flushing')
        /\ walk' # <<>> => Probes(e, flushing', left', walk')
    BY <1>1, <1>2, <2>1, ProbeGoesOn
  <2>3. /\ root' = root /\ mode' = "drain" /\ next_seq' \in Nat
        /\ UNCHANGED <<records, sb, poisoned>>
    BY <1>2, <1>5 DEF fileVars
  <2>4. Calling(e, root', mode', flushing', left', walk', frames')
    BY <2>2, <2>3, Zenon DEF Calling
  <2>5. Sane(e, records, hr, root', Excused(flushing'), Bound(records, sb, poisoned))
    BY <2>2, <2>3, Zenon
  <2> QED BY <1>4, <2>1, <2>2, <2>3, <2>4, <2>5, Continues
<1>6. CASE Interrupt(Engine) /\ UNCHANGED root
  <2>1. Probes(Engine, flushing, left, walk)
    BY <1>2 DEF DiskInv, Calling
  <2>2. /\ flushing # <<>> /\ left # <<>>
        /\ SeqOver(Children(Engine.nodes[Last(flushing)]), left)
    BY <2>1, Zenon DEF Probes
  <2>3. Head(left) \in Children(Engine.nodes[Last(flushing)])
    BY <2>2, LastOver
  <2> DEFINE F == Bound(records, sb, poisoned)
  <2>4. Sane(Engine, records, hr, root, Excused(flushing), F)
    BY <1>1, Zenon DEF Now
  <2> HIDE DEF F
  <2>5. Sane(Engine, records, hr, root, {}, F)
    BY <2>2, <2>3, <2>4, NoExcuse
  <2>6. Sane(Engine, records, hr, root', {}, F)
    BY <1>6, <2>5, Zenon
  <2> QED BY <1>2, <1>4, <1>6, <2>6, Interrupted
<1> QED BY <1>3, <1>5, <1>6


(* The ranks go down along the path.                                       *)
LEMMA PathRanks ==
    ASSUME NEW e, NEW rs, NEW hr, NEW r, NEW X, NEW F, NEW rk, NEW par, NEW ft,
           SaneBy(e, rs, hr, r, X, F, rk, par, ft), NEW fl, OnPath(e, r, fl), fl # <<>>
    PROVE  \A j \in 1 .. Len(fl) : rk[fl[j]] \in Nat /\ rk[fl[j]] + j = rk[r] + 1
<1>1. Len(fl) \in Nat /\ Len(fl) >= 1 /\ fl[1] = r
  BY PathTop, Zenon DEF OnPath
<1>2. ASSUME NEW j \in 1 .. (Len(fl) - 1)
      PROVE  rk[fl[j + 1]] \in Nat /\ rk[fl[j]] = rk[fl[j + 1]] + 1
  <2>1. j \in 1 .. Len(fl)
    BY <1>1
  <2>2. fl[j + 1] \in Children(e.nodes[fl[j]]) /\ Inner(e, fl[j])
    BY <2>1 DEF OnPath
  <2>3. fl[j] \in Alive(e) /\ IsLoaded(e.nodes[fl[j]])
    BY <2>2 DEF Inner
  <2>4. fl[j + 1] \in KidsOf(e, rs, fl[j])
    BY <2>2, <2>3, SlotFacts
  <2> QED BY <2>3, <2>4, SlotFacts
<1>3. rk[r] \in Nat
  BY DEF SaneBy, Rooted
<1> DEFINE N == Len(fl) - 1
           S == {n \in 0 .. N : rk[fl[n + 1]] \in Nat /\ rk[fl[n + 1]] + n = rk[r]}
<1>4. N \in Nat
  BY <1>1
<1>5. 0 \in S
  BY <1>1, <1>3, <1>4
<1>6. ASSUME NEW n \in 0 .. N - 1, n \in S PROVE n + 1 \in S
  <2>1. n + 1 \in 1 .. (Len(fl) - 1) /\ n + 1 \in 0 .. N
    BY <1>1
  <2>2. rk[fl[(n + 1) + 1]] \in Nat /\ rk[fl[n + 1]] = rk[fl[(n + 1) + 1]] + 1
    BY <1>2, <2>1
  <2>3. rk[fl[n + 1]] + n = rk[r]
    BY <1>6
  <2>4. rk[fl[(n + 1) + 1]] + (n + 1) = rk[r]
    BY <1>4, <2>2, <2>3
  <2> QED BY <2>1, <2>2, <2>4
<1> HIDE DEF N, S
<1>7. \A n \in 0 .. N : n \in S
  BY <1>4, <1>5, <1>6, BoundedInduction
<1> QED
  <2> SUFFICES ASSUME NEW j \in 1 .. Len(fl)
               PROVE  rk[fl[j]] \in Nat /\ rk[fl[j]] + j = rk[r] + 1
    OBVIOUS
  <2>1. j - 1 \in 0 .. N /\ (j - 1) + 1 = j
    BY <1>1 DEF N
  <2>2. j - 1 \in S
    BY <1>7, <2>1
  <2>3. rk[fl[j]] \in Nat /\ rk[fl[j]] + (j - 1) = rk[r]
    BY <2>1, <2>2 DEF S
  <2> QED BY <1>3, <2>3

(* A change to the top and to a child of it leaves the path.               *)
LEMMA PathStays ==
    ASSUME NEW e, NEW rs, NEW hr, NEW r, NEW X, NEW F, Sane(e, rs, hr, r, X, F),
           NEW fl, OnPath(e, r, fl), fl # <<>>, NEW c \in Children(e.nodes[Last(fl)]),
           NEW e2, StillThere(e, e2, Last(fl), c)
    PROVE  OnPath(e2, r, fl)
<1>1. PICK rk, par, ft : SaneBy(e, rs, hr, r, X, F, rk, par, ft)
  BY DEF Sane
<1> DEFINE T == Last(fl)
<1>2. /\ fl \in Seq(Nat) /\ Len(fl) \in Nat /\ Len(fl) >= 1 /\ fl[1] = r
      /\ Inner(e, T) /\ T = fl[Len(fl)]
  BY PathTop, Zenon DEF OnPath
<1>3. \A j \in 1 .. Len(fl) : rk[fl[j]] \in Nat /\ rk[fl[j]] + j = rk[r] + 1
  BY <1>1, PathRanks
<1>4. rk[c] \in Nat /\ rk[T] = rk[c] + 1
  <2>1. T \in Alive(e) /\ IsLoaded(e.nodes[T])
    BY <1>2 DEF Inner
  <2>2. c \in KidsOf(e, rs, T)
    BY <1>1, <2>1, SlotFacts
  <2> QED BY <1>1, <2>1, <2>2, SlotFacts
<1>5. rk[T] + Len(fl) = rk[r] + 1 /\ rk[r] \in Nat
  <2>1. Len(fl) \in 1 .. Len(fl)
    BY <1>2
  <2>2. rk[T] + Len(fl) = rk[r] + 1
    BY <1>2, <1>3, <2>1
  <2>3. rk[r] \in Nat
    BY <1>1 DEF SaneBy, Rooted
  <2> QED BY <2>2, <2>3
<1>6. ASSUME NEW j \in 1 .. Len(fl) PROVE fl[j] # c /\ (fl[j] = T => j = Len(fl))
  <2>1. rk[fl[j]] \in Nat /\ rk[fl[j]] + j = rk[r] + 1
    BY <1>3
  <2>2. ASSUME fl[j] = c PROVE FALSE
    <3>1. rk[c] + j = rk[r] + 1
      BY <2>1, <2>2
    <3> QED BY <1>2, <1>4, <1>5, <3>1, SMT
  <2>3. ASSUME fl[j] = T PROVE j = Len(fl)
    <3>1. rk[T] + j = rk[r] + 1
      BY <2>1, <2>3
    <3> QED BY <1>2, <1>4, <1>5, <3>1
  <2> QED BY <2>2, <2>3
<1> HIDE DEF T
<1>7. /\ \A i \in Alive(e) \ {c} : i \in Alive(e2) /\ (i # T => e2.nodes[i] = e.nodes[i])
      /\ IsLoaded(e2.nodes[T]) /\ ~e2.nodes[T].leaf
  BY DEF StillThere, T
<1>8. ASSUME NEW j \in 1 .. Len(fl)
      PROVE  Inner(e2, fl[j]) /\ (j # Len(fl) => e2.nodes[fl[j]] = e.nodes[fl[j]])
  <2>1. Inner(e, fl[j])
    BY DEF OnPath
  <2>2. fl[j] \in Alive(e) \ {c}
    BY <1>6, <2>1 DEF Inner
  <2> QED BY <1>6, <1>7, <2>1, <2>2 DEF Inner
<1>9. ASSUME NEW j \in 1 .. (Len(fl) - 1) PROVE fl[j + 1] \in Children(e2.nodes[fl[j]])
  <2>1. j \in 1 .. Len(fl) /\ j # Len(fl)
    BY <1>2
  <2>2. fl[j + 1] \in Children(e.nodes[fl[j]])
    BY DEF OnPath
  <2> QED BY <1>8, <2>1, <2>2
<1> QED BY <1>2, <1>8, <1>9 DEF OnPath

LEMMA NotBarren ==
    ASSUME NEW e, NEW rs, NEW hr, NEW r, NEW F, Sane(e, rs, hr, r, {}, F),
           NEW i \in Alive(e), IsLoaded(e.nodes[i])
    PROVE  ~Barren(e.nodes[i])
<1>1. Held(e, rs, {})
  BY DEF Sane, SaneBy
<1> SUFFICES ASSUME ~e.nodes[i].leaf, e.nodes[i].children = <<>> PROVE FALSE
  BY DEF Barren
<1>2. e.nodes[i] \in InnerNode
  BY SaneFacts
<1>3. Len(e.nodes[i].children) = Len(e.nodes[i].pivots) + 1
  BY <1>1 DEF Held
<1>4. Len(e.nodes[i].pivots) \in Nat
  BY <1>2 DEF InnerNode
<1>5. Len(e.nodes[i].children) = 0
  OBVIOUS
<1> QED BY <1>3, <1>4, <1>5

LEMMA FromNone ==
    ASSUME NEW e, NEW rs, NEW hr, NEW r, NEW F, Sane(e, rs, hr, r, {}, F), NEW X2
    PROVE  Sane(e, rs, hr, r, X2, F)
<1> DEFINE X == {}
<1>1. Sane(e, rs, hr, r, X, F)
  OBVIOUS
<1>2. \A i \in Alive(e) \cap X : IsLoaded(e.nodes[i]) /\ ~e.nodes[i].leaf =>
              i \in X2 \/ e.nodes[i].children # <<>>
  OBVIOUS
<1> HIDE DEF X
<1> QED BY <1>1, <1>2, Excuses


(* A step of the cascade that leaves the call's other state alone.         *)
LEMMA CascadeGoesOn ==
    ASSUME NEW e, IsEngine(e), Becomes(e), next_seq' \in Nat,
           UNCHANGED <<records, sb, poisoned, root, mode>>, mode \in {"op", "drain"},
           walk' = <<>>, OnPath(e, root, flushing'),
           NEW hr, FileSane(records, sb, hr),
           Sane(e, records, hr, root, Excused(flushing'), Bound(records, sb, poisoned))
    PROVE  DiskInv'
<1>1. root' = root /\ mode' = mode
  OBVIOUS
<1>2. Calling(e, root', mode', flushing', left', walk', frames')
  BY <1>1, Zenon DEF Calling
<1>3. Sane(e, records, hr, root', Excused(flushing'), Bound(records, sb, poisoned))
  BY <1>1, Zenon
<1>4. UNCHANGED <<records, sb, poisoned>>
  OBVIOUS
<1> QED BY <1>2, <1>3, <1>4, Continues

LEMMA PathFront ==
    ASSUME NEW e, NEW r, NEW fl, OnPath(e, r, fl), Len(fl) > 1
    PROVE  /\ OnPath(e, r, Front(fl)) /\ Front(fl) # <<>>
           /\ Last(fl) \in Children(e.nodes[Last(Front(fl))])
           /\ Excused(Front(fl)) = {Last(Front(fl))}
<1>1. fl \in Seq(Nat) /\ Len(fl) \in Nat /\ Len(fl) > 1
  BY DEF OnPath
<1>2. fl # <<>>
  BY <1>1
<1>3. Last(fl) = fl[Len(fl)] /\ fl[1] = r
  BY <1>2, PathTop, Zenon DEF OnPath
<1> DEFINE s == Front(fl)
<1>4. /\ s \in Seq(Nat) /\ Len(s) = Len(fl) - 1
      /\ \A j \in 1 .. (Len(fl) - 1) : s[j] = fl[j]
  BY <1>1 DEF Front
<1> HIDE DEF s
<1>5. s # <<>> /\ Last(s) = fl[Len(fl) - 1] /\ s[1] = r
  <2>1. Len(s) # 0 /\ Len(fl) - 1 \in 1 .. (Len(fl) - 1) /\ 1 \in 1 .. (Len(fl) - 1)
    BY <1>1, <1>4, SMT
  <2> QED BY <1>3, <1>4, <2>1, SMT DEF Last
<1>6. ASSUME NEW j \in 1 .. Len(s) PROVE Inner(e, s[j])
  <2>1. j \in 1 .. Len(fl) /\ j \in 1 .. (Len(fl) - 1)
    BY <1>1, <1>4
  <2> QED BY <1>4, <2>1 DEF OnPath
<1>7. ASSUME NEW j \in 1 .. (Len(s) - 1) PROVE s[j + 1] \in Children(e.nodes[s[j]])
  <2>1. j \in 1 .. (Len(fl) - 1) /\ j + 1 \in 1 .. (Len(fl) - 1)
    BY <1>1, <1>4
  <2>2. fl[j + 1] \in Children(e.nodes[fl[j]])
    BY <2>1 DEF OnPath
  <2> QED BY <1>4, <2>1, <2>2
<1>8. OnPath(e, r, s)
  BY <1>4, <1>5, <1>6, <1>7 DEF OnPath
<1>9. fl[Len(fl)] \in Children(e.nodes[fl[Len(fl) - 1]])
  <2>1. Len(fl) - 1 \in 1 .. (Len(fl) - 1) /\ (Len(fl) - 1) + 1 = Len(fl)
    BY <1>1
  <2>2. fl[(Len(fl) - 1) + 1] \in Children(e.nodes[fl[Len(fl) - 1]])
    BY <2>1 DEF OnPath
  <2> QED BY <2>1, <2>2
<1>10. Excused(s) = {Last(s)}
  BY <1>5 DEF Excused
<1> QED BY <1>3, <1>5, <1>8, <1>9, <1>10 DEF s

LEMMA SettleChildOk == DiskInv /\ SettleChild => DiskInv'
<1> SUFFICES ASSUME DiskInv, SettleChild PROVE DiskInv'
  OBVIOUS
<1>1. PICK hr : Now(hr)
  BY PickNow
<1>2. /\ mode \in {"op", "drain"} /\ walk' = <<>> /\ flushing' = Front(flushing)
      /\ Len(flushing) > 1 /\ flushing # <<>>
      /\ UNCHANGED <<records, sb, poisoned, root, mode>> /\ next_seq' = next_seq
  BY DEF SettleChild, TopDone, Flushing, Probing, fileVars
<1>3. OnPath(Engine, root, flushing) /\ next_seq \in Nat
  BY <1>2 DEF DiskInv, Calling
<1> DEFINE F == Bound(records, sb, poisoned)
           C == Last(flushing)
           P == Last(Front(flushing))
<1>4. Sane(Engine, records, hr, root, Excused(flushing), F) /\ IsEngine(Engine)
      /\ FileSane(records, sb, hr)
  BY <1>1, Zenon DEF Now
<1>5. /\ OnPath(Engine, root, Front(flushing)) /\ Front(flushing) # <<>>
      /\ C \in Children(Engine.nodes[P]) /\ Excused(Front(flushing)) = {P}
  BY <1>2, <1>3, PathFront
<1>6. Inner(Engine, C) /\ Inner(Engine, P)
  BY <1>2, <1>3, <1>5, PathTop
<1>7. Becomes(IF TopRemoved THEN unlink(Engine, P, C) ELSE SplitInto(Engine, P, C))
  BY DEF SettleChild, Top
<1>8. /\ P \in Alive(Engine) /\ IsLoaded(Engine.nodes[P])
      /\ IsLoaded(Engine.nodes[C]) /\ ~Engine.nodes[C].leaf
  BY <1>6 DEF Inner
<1>9. Excused(flushing) = {C}
  BY <1>2 DEF Excused
<1>10. TopRemoved <=> Engine.nodes[C].children = <<>>
  BY EngineIs DEF TopRemoved, Top
<1> HIDE DEF F, C, P
<1>11. Sane(Engine, records, hr, root, {C}, F)
  BY <1>4, <1>9, Zenon
<1>12. {C} \ {C, P} \subseteq {P} /\ P \in {P}
  OBVIOUS
<1>13. \E e : /\ Becomes(e) /\ Sane(e, records, hr, root, {P}, F) /\ StillThere(Engine, e, P, C)
  <2>1. CASE TopRemoved
    <3>1. Children(Engine.nodes[C]) = {}
      BY <1>8, <1>10, <2>1 DEF Children, Range
    <3>2. /\ Sane(unlink(Engine, P, C), records, hr, root, {P}, F)
          /\ StillThere(Engine, unlink(Engine, P, C), P, C)
      BY <1>4, <1>5, <1>8, <1>11, <1>12, <3>1, UnlinkKeeps
    <3> QED BY <1>7, <2>1, <3>2, Zenon
  <2>2. CASE ~TopRemoved
    <3>1. ~Barren(Engine.nodes[C])
      BY <1>10, <2>2 DEF Barren
    <3>2. /\ Sane(SplitInto(Engine, P, C), records, hr, root, {P}, F)
          /\ StillThere(Engine, SplitInto(Engine, P, C), P, C)
      BY <1>4, <1>5, <1>8, <1>11, <1>12, <3>1, SplitIntoKeeps
    <3> QED BY <1>7, <2>2, <3>2, Zenon
  <2> QED BY <2>1, <2>2
<1>14. PICK e : Becomes(e) /\ Sane(e, records, hr, root, {P}, F) /\ StillThere(Engine, e, P, C)
  BY <1>13
<1>15. IsEngine(e)
  BY <1>14 DEF StillThere
<1>16. OnPath(e, root, Front(flushing))
  BY <1>4, <1>5, <1>14, PathStays DEF P
<1>17. OnPath(e, root, flushing')
  BY <1>2, <1>16, Zenon
<1>18. Sane(e, records, hr, root, Excused(flushing'), Bound(records, sb, poisoned))
  BY <1>2, <1>5, <1>14, Zenon DEF F
<1>19. next_seq' \in Nat
  BY <1>2, <1>3
<1> QED BY <1>2, <1>4, <1>14, <1>15, <1>17, <1>18, <1>19, CascadeGoesOn


(* The end of a delivery to child c, whose batch it has applied.           *)
DeliveredTo(e, c) ==
    LET n == e.nodes[c]
    IN IF ~n.leaf /\ Count(n.buffer) > threshold
       THEN Becomes(e) /\ flushing' = Append(flushing, c)
       ELSE /\ Becomes(IF n.leaf /\ n.entries = Empty THEN unlink(e, Top, c)
                       ELSE SplitInto(e, Top, c))
            /\ UNCHANGED flushing

(* Whatever a step did to one node, the path is still there.               *)
LEMMA PathChanged ==
    ASSUME NEW e, NEW r, NEW fl, OnPath(e, r, fl), fl # <<>>, NEW i, NEW e2, Changed(e, e2, i)
    PROVE  OnPath(e2, r, fl) /\ \A p \in Range(fl) : Children(e2.nodes[p]) = Children(e.nodes[p])
<1>1. \A p \in Range(fl) : Inner(e, p)
  BY PathTop
<1>2. ASSUME NEW p \in Range(fl)
      PROVE  Inner(e2, p) /\ Children(e2.nodes[p]) = Children(e.nodes[p])
  <2>1. p \in Alive(e) /\ IsLoaded(e.nodes[p]) /\ ~e.nodes[p].leaf
    BY <1>1 DEF Inner
  <2>2. CASE p = i
    BY <2>1, <2>2 DEF Changed, Inner
  <2>3. CASE p # i
    BY <2>1, <2>3 DEF Changed, Inner
  <2> QED BY <2>2, <2>3
<1> QED BY <1>2, PathKept

LEMMA DeliveryEnds ==
    ASSUME NEW e, IsEngine(e), NEW hr, NEW F, Sane(e, records, hr, root, {}, F),
           OnPath(e, root, flushing), flushing # <<>>, NEW c \in Children(e.nodes[Top]),
           IsLoaded(e.nodes[c]), DeliveredTo(e, c)
    PROVE  \E e2 : /\ Becomes(e2) /\ IsEngine(e2) /\ OnPath(e2, root, flushing')
                   /\ Sane(e2, records, hr, root, Excused(flushing'), F)
<1>1. Inner(e, Top)
  BY PathTop DEF Top
<1>2. Top \in Alive(e) /\ IsLoaded(e.nodes[Top])
  BY <1>1 DEF Inner
<1>3. Children(e.nodes[Top]) \subseteq Alive(e) /\ Alive(e) \subseteq 1 .. Len(e.nodes)
      /\ Len(e.nodes) \in Nat
  BY <1>1, InnerFacts, SaneFacts, Zenon
<1>4. c \in Alive(e) /\ c \in Nat
  BY <1>3
<1>5. CASE ~e.nodes[c].leaf /\ Count(e.nodes[c].buffer) > threshold
  <2>1. Becomes(e) /\ flushing' = Append(flushing, c)
    BY <1>5, Zenon DEF DeliveredTo
  <2>2. Inner(e, c)
    BY <1>4, <1>5 DEF Inner
  <2>3. OnPath(e, root, Append(flushing, c)) /\ Excused(Append(flushing, c)) = {c}
    BY <1>4, <2>2, PathGrows DEF Top
  <2>4. Sane(e, records, hr, root, {c}, F)
    BY FromNone
  <2> QED BY <2>1, <2>3, <2>4, Zenon
<1>6. CASE ~(~e.nodes[c].leaf /\ Count(e.nodes[c].buffer) > threshold)
  <2>1. /\ Becomes(IF e.nodes[c].leaf /\ e.nodes[c].entries = Empty THEN unlink(e, Top, c)
                   ELSE SplitInto(e, Top, c))
        /\ flushing' = flushing
    BY <1>6, Zenon DEF DeliveredTo
  <2>2. Excused(flushing') = {Top}
    BY <2>1 DEF Excused, Top
  <2>3. {} \ {c, Top} \subseteq {Top} /\ Top \in {Top}
    OBVIOUS
  <2>4. \E e2 : Becomes(e2) /\ Sane(e2, records, hr, root, {Top}, F) /\ StillThere(e, e2, Top, c)
    <3>1. CASE e.nodes[c].leaf /\ e.nodes[c].entries = Empty
      <4>1. Children(e.nodes[c]) = {}
        BY <3>1 DEF Children
      <4>2. /\ Sane(unlink(e, Top, c), records, hr, root, {Top}, F)
            /\ StillThere(e, unlink(e, Top, c), Top, c)
        BY <1>2, <2>3, <4>1, UnlinkKeeps
      <4> QED BY <2>1, <3>1, <4>2, Zenon
    <3>2. CASE ~(e.nodes[c].leaf /\ e.nodes[c].entries = Empty)
      <4>1. ~Barren(e.nodes[c])
        BY <1>4, NotBarren
      <4>2. /\ Sane(SplitInto(e, Top, c), records, hr, root, {Top}, F)
            /\ StillThere(e, SplitInto(e, Top, c), Top, c)
        BY <1>2, <2>3, <4>1, SplitIntoKeeps
      <4> QED BY <2>1, <3>2, <4>2, Zenon
    <3> QED BY <3>1, <3>2
  <2>5. PICK e2 : Becomes(e2) /\ Sane(e2, records, hr, root, {Top}, F) /\ StillThere(e, e2, Top, c)
    BY <2>4
  <2>6. OnPath(e2, root, flushing)
    BY <2>5, PathStays DEF Top
  <2>7. IsEngine(e2)
    BY <2>5 DEF StillThere
  <2> QED BY <2>1, <2>2, <2>5, <2>6, <2>7, Zenon
<1> QED BY <1>5, <1>6

LEMMA DeliverOk ==
    ASSUME DiskInv, Flushing, NEW i \in DOMAIN nodes[Top].children, Deliver(i)
    PROVE  DiskInv'
<1>1. PICK hr : Now(hr)
  BY PickNow
<1>2. /\ mode \in {"op", "drain"} /\ flushing # <<>>
      /\ Count(nodes[Top].buffer) > threshold
  BY Zenon DEF Flushing, Deliver, TopOverflows
<1>3. OnPath(Engine, root, flushing) /\ next_seq \in Nat
  BY <1>2 DEF DiskInv, Calling
<1>4. Engine.nodes = nodes /\ IsEngine(Engine) /\ Top = Last(flushing)
  BY EngineIs DEF Top
<1>5. walk = <<>>
  <2>1. CASE mode = "op"
    BY <2>1 DEF DiskInv, Calling
  <2>2. CASE mode = "drain"
    <3>1. Count(Engine.nodes[Last(flushing)].buffer) > 0
      BY <1>2, <1>4, <2>2 DEF threshold
    <3>2. walk # <<>> => Probes(Engine, flushing, left, walk)
      BY <2>2 DEF DiskInv, Calling
    <3> QED BY <3>1, <3>2, Zenon DEF Probes
  <2> QED BY <1>2, <2>1, <2>2
<1> DEFINE F == Bound(records, sb, poisoned)
           child == nodes[Top].children[i]
           batch == Restrict(nodes[Top].buffer, Pending(nodes[Top], i))
           e1 == pick_and_extract(Engine, Top, i)
<1>6. Sane(Engine, records, hr, root, Excused(flushing), F) /\ FileSane(records, sb, hr)
  BY <1>1, Zenon DEF Now
<1>7. \/ /\ \E loaded \in ensure_loaded(e1, child, Range(flushing)) :
               DeliveredTo(Deliver1(loaded, child, batch), child)
         /\ UNCHANGED <<root, next_seq, poisoned, fileVars, mode, left, walk, frames>>
      \/ Interrupt(e1) /\ UNCHANGED root
  BY Zenon DEF Deliver, DeliveredTo
<1>8. Inner(Engine, Top)
  BY <1>2, <1>3, <1>4, PathTop
<1>9. Top \in Alive(Engine) /\ IsLoaded(Engine.nodes[Top]) /\ ~Engine.nodes[Top].leaf
  BY <1>8 DEF Inner
<1>10. child \in Children(Engine.nodes[Top])
  BY <1>4, <1>9 DEF Children, Range
<1>11. batch = Restrict(Engine.nodes[Top].buffer, Pending(Engine.nodes[Top], i))
  BY <1>4, Zenon
<1> HIDE DEF F, child, batch
<1> DEFINE X == Excused(flushing)
<1>12. Sane(Engine, records, hr, root, X, F)
  BY <1>6
<1> HIDE DEF X
<1>13. /\ Sane(e1, records, hr, root, X, F) /\ Changed(Engine, e1, Top)
       /\ Restrict(Engine.nodes[Top].buffer, Pending(Engine.nodes[Top], i)) \in Maps(MessagesOf(Nat))
  BY <1>4, <1>9, <1>12, ExtractKeeps
<1>14. batch \in Maps(MessagesOf(Nat))
  BY <1>11, <1>13, Zenon
<1> HIDE DEF e1
<1>15. IsEngine(e1) /\ Children(e1.nodes[Top]) = Children(Engine.nodes[Top])
  BY <1>13 DEF Changed
<1>16. OnPath(e1, root, flushing)
  BY <1>2, <1>3, <1>13, PathChanged
<1>17. child \in Children(e1.nodes[Last(flushing)])
  BY <1>4, <1>10, <1>15, Zenon
<1>18. Sane(e1, records, hr, root, {}, F)
  BY <1>2, <1>13, <1>17, NoExcuse DEF X
<1>19. CASE Interrupt(e1) /\ UNCHANGED root
  <2>1. Sane(e1, records, hr, root', {}, F)
    BY <1>18, <1>19, Zenon
  <2> QED BY <1>3, <1>6, <1>15, <1>19, <2>1, Interrupted
<1>20. CASE /\ \E loaded \in ensure_loaded(e1, child, Range(flushing)) :
                  DeliveredTo(Deliver1(loaded, child, batch), child)
            /\ UNCHANGED <<root, next_seq, poisoned, fileVars, mode, left, walk, frames>>
  <2>1. PICK loaded \in ensure_loaded(e1, child, Range(flushing)) :
               DeliveredTo(Deliver1(loaded, child, batch), child)
    BY <1>20
  <2>2. /\ next_seq' = next_seq /\ walk' = <<>> /\ UNCHANGED <<records, sb, poisoned, root, mode>>
    BY <1>5, <1>20 DEF fileVars
  <2>3. /\ \A p \in Range(flushing) : Inner(e1, p)
        /\ Last(flushing) \in Range(flushing)
    BY <1>2, <1>16, PathTop
  <2>4. child \in Alive(e1)
    <3>1. Inner(e1, Last(flushing))
      BY <2>3
    <3>2. Children(e1.nodes[Last(flushing)]) \subseteq Alive(e1)
      BY <1>18, <3>1, InnerFacts
    <3> QED BY <1>17, <3>2
  <2>5. LoadedFrom(e1, hr, root, {}, F, child, Range(flushing), loaded)
    BY <1>15, <1>18, <2>1, <2>4, Loads
  <2>6. /\ Sane(loaded, records, hr, root, {}, F) /\ IsEngine(loaded)
        /\ Alive(e1) \subseteq Alive(loaded) /\ IsLoaded(loaded.nodes[child])
        /\ \A p \in Range(flushing) \cup {child} :
              IsLoaded(e1.nodes[p]) /\ p \in Alive(e1) => loaded.nodes[p] = e1.nodes[p]
    BY <2>5, Zenon DEF LoadedFrom
  <2>7. \A p \in Range(flushing) : Inner(loaded, p) /\ loaded.nodes[p] = e1.nodes[p]
    BY <2>3, <2>6, Zenon DEF Inner
  <2>8. OnPath(loaded, root, flushing)
    BY <1>2, <1>16, <2>7, PathKept
  <2>9. child \in Alive(loaded)
    BY <2>4, <2>6
  <2>10. child \in Children(loaded.nodes[Last(flushing)])
    BY <1>17, <2>3, <2>7, Zenon
  <2> DEFINE e == Deliver1(loaded, child, batch)
  <2>11. Sane(e, records, hr, root, {}, F) /\ Changed(loaded, e, child)
    BY <1>14, <2>6, <2>9, DeliverKeeps
  <2>12. DeliveredTo(e, child)
    BY <2>1
  <2> HIDE DEF e
  <2>13. IsEngine(e) /\ IsLoaded(e.nodes[child])
    BY <2>11 DEF Changed
  <2>14. OnPath(e, root, flushing) /\ \A p \in Range(flushing) :
                                         Children(e.nodes[p]) = Children(loaded.nodes[p])
    BY <1>2, <2>8, <2>11, PathChanged
  <2>15. child \in Children(e.nodes[Top])
    BY <1>4, <2>3, <2>10, <2>14, Zenon
  <2>16. \E e2 : /\ Becomes(e2) /\ IsEngine(e2) /\ OnPath(e2, root, flushing')
                 /\ Sane(e2, records, hr, root, Excused(flushing'), F)
    BY <1>2, <2>11, <2>12, <2>13, <2>14, <2>15, DeliveryEnds
  <2>17. PICK e2 : /\ Becomes(e2) /\ IsEngine(e2) /\ OnPath(e2, root, flushing')
                   /\ Sane(e2, records, hr, root, Excused(flushing'), F)
    BY <2>16
  <2>18. Sane(e2, records, hr, root, Excused(flushing'), Bound(records, sb, poisoned))
    BY <2>17, Zenon DEF F
  <2>19. next_seq' \in Nat
    BY <1>3, <2>2
  <2> QED BY <1>2, <1>6, <2>2, <2>17, <2>18, <2>19, CascadeGoesOn
<1> QED BY <1>7, <1>19, <1>20


-----------------------------------------------------------------------------
(* The engine as a whole                                                   *)

LEMMA StutterOk == DiskInv /\ UNCHANGED vars => DiskInv'
<1> SUFFICES ASSUME DiskInv, UNCHANGED vars PROVE DiskInv'
  OBVIOUS
<1>1. /\ nodes' = nodes /\ disk_offset' = disk_offset /\ offsets' = offsets /\ root' = root
      /\ next_seq' = next_seq /\ poisoned' = poisoned /\ records' = records /\ sb' = sb
      /\ mode' = mode /\ flushing' = flushing /\ left' = left /\ walk' = walk /\ frames' = frames
  BY DEF vars, slotVars, fileVars, callVars
<1>2. Engine' = Engine
  BY <1>1 DEF Engine
<1> QED BY <1>1, <1>2, Zenon DEF DiskInv

LEMMA CascadeOk == DiskInv /\ Cascade => DiskInv'
  BY BeginProbeOk, ProbeOk, DeliverOk, SettleChildOk, RestartEmptyOk, GrowOk, SettledOk,
     CollapseOk, ReturnOk, Zenon DEF Cascade

LEMMA NextOk == DiskInv /\ [Next]_vars => DiskInv'
<1> SUFFICES ASSUME DiskInv, [Next]_vars PROVE DiskInv'
  OBVIOUS
<1>1. CASE UNCHANGED vars
  BY <1>1, StutterOk, Zenon
<1>2. CASE \E k \in Keys : \/ \E v \in Puts : insert(k, v)
                           \/ delete(k)
                           \/ \E d \in Deltas : upsert(k, d)
  BY <1>2, CallsOk, Zenon
<1>3. CASE drain \/ commit \/ CommitFails \/ Reopen
  BY <1>3, DrainOk, CommitOk, CommitFailsOk, ReopenOk, Zenon
<1>4. CASE StartWalk \/ StartScan \/ Reading
  BY <1>4, StartWalkOk, StartScanOk, VisitOk, ScanStepOk, ReadFailsOk, Zenon DEF Reading
<1>5. CASE Cascade
  BY <1>5, CascadeOk, Zenon
<1> QED BY <1>1, <1>2, <1>3, <1>4, <1>5, Zenon DEF Next

(* The invariant holds of the disk engine's tree whatever file it opens,   *)
(* whatever is evicted and whichever load or commit fails.                 *)
THEOREM EngineSound == Spec => []DiskInv
  BY InitOk, NextOk, PTL DEF Spec

(* offsets and disk_offset are each other's inverse on the slots in use,   *)
(* through every load, release and commit of src/disk.rs.                  *)
THEOREM Interning == Spec => []InterningExact
<1>1. DiskInv => InterningExact
  <2> SUFFICES ASSUME DiskInv PROVE InterningExact
    OBVIOUS
  <2>1. PICK hr : Now(hr)
    BY PickNow
  <2>2. Interned(Engine, records) /\ DOMAIN Engine.nodes = 1 .. Len(Engine.nodes)
    BY <2>1, SaneFacts, Zenon DEF Now, Sane, SaneBy
  <2>3. Live = Alive(Engine)
    BY <2>2, EngineIs DEF Live, Alive
  <2> QED BY <2>2, <2>3, EngineIs DEF Interned, InterningExact
<1> QED BY <1>1, EngineSound, PTL

(* What enforce_budget may evict is on disk as it is in memory.            *)
THEOREM EvictionLosesNothing == Spec => []CleanIsRecord
<1>1. DiskInv => CleanIsRecord
  <2> SUFFICES ASSUME DiskInv, NEW i \in DOMAIN nodes, IsLoaded(nodes[i]), ~nodes[i].dirty
               PROVE  /\ disk_offset[i] # NoRecord
                      /\ records[disk_offset[i]] = node_payload(nodes[i], disk_offset)
    BY DEF CleanIsRecord
  <2>1. PICK hr : Now(hr)
    BY PickNow
  <2>2. Held(Engine, records, Excused(flushing)) /\ DOMAIN Engine.nodes = 1 .. Len(Engine.nodes)
    BY <2>1, SaneFacts, Zenon DEF Now, Sane, SaneBy
  <2>3. i \in Alive(Engine) /\ IsLoaded(Engine.nodes[i]) /\ ~Engine.nodes[i].dirty
    BY <2>2, EngineIs DEF Alive, IsLoaded
  <2>4. /\ Engine.disk_offset[i] # NoRecord
        /\ records[Engine.disk_offset[i]] = node_payload(Engine.nodes[i], Engine.disk_offset)
    BY <2>2, <2>3, Zenon DEF Held
  <2> QED BY <2>4, EngineIs, Zenon
<1> QED BY <1>1, EngineSound, PTL

(* The ids that a cascade or a scan keeps across loads stay valid: none of *)
(* the loads in between evicts them.                                       *)
THEOREM StacksStay == Spec => []StackResident
<1>1. DiskInv => StackResident
  <2> SUFFICES ASSUME DiskInv PROVE StackResident
    OBVIOUS
  <2>1. Engine.nodes = nodes
    BY EngineIs
  <2>2. Calling(Engine, root, mode, flushing, left, walk, frames)
    BY DEF DiskInv
  <2>3. ASSUME NEW i \in Range(flushing) PROVE IsLoaded(nodes[i])
    <3>1. flushing # <<>>
      BY <2>3 DEF Range
    <3>2. OnPath(Engine, root, flushing)
      BY <2>2, <3>1, Zenon DEF Calling
    <3>3. Inner(Engine, i)
      BY <3>1, <3>2, PathTop
    <3> QED BY <2>1, <3>3 DEF Inner
  <2>4. ASSUME mode = "scan", NEW i \in Frames PROVE IsLoaded(nodes[i])
    <3>1. Framed(Engine, frames)
      BY <2>2, <2>4 DEF Calling
    <3>2. PICK j \in DOMAIN frames : i = frames[j][1]
      BY <2>4 DEF Frames
    <3>3. j \in 1 .. Len(frames)
      BY <3>1, <3>2 DEF Framed
    <3>4. Inner(Engine, i)
      BY <3>1, <3>2, <3>3, Zenon DEF Framed
    <3> QED BY <2>1, <3>4 DEF Inner
  <2>5. ASSUME mode \in {"op", "drain", "collapse"} PROVE IsLoaded(nodes[root])
    <3>1. CASE mode = "collapse"
      BY <2>1, <2>2, <3>1 DEF Calling
    <3>2. CASE mode \in {"op", "drain"}
      <4>1. OnPath(Engine, root, flushing)
        BY <2>2, <3>2 DEF Calling
      <4>2. CASE flushing = <<>>
        BY <2>1, <4>1, <4>2 DEF OnPath
      <4>3. CASE flushing # <<>>
        <5>1. flushing[1] = root /\ Len(flushing) >= 1 /\ Len(flushing) \in Nat
          BY <4>1, <4>3, PathTop, Zenon DEF OnPath
        <5>2. Inner(Engine, flushing[1])
          BY <4>1, <5>1 DEF OnPath
        <5> QED BY <2>1, <5>1, <5>2 DEF Inner
      <4> QED BY <4>2, <4>3
    <3> QED BY <2>5, <3>1, <3>2
  <2> QED BY <2>3, <2>4, <2>5, Zenon DEF StackResident
<1> QED BY <1>1, EngineSound, PTL

(* Every record in the file passes the checks that ensure_loaded makes.    *)
THEOREM RecordsStayValid == Spec => []RecordsValid
<1>1. DiskInv => RecordsValid
  <2> SUFFICES ASSUME DiskInv, NEW o \in DOMAIN records, ~records[o].leaf
               PROVE  /\ Len(records[o].children) = Len(records[o].pivots) + 1
                      /\ \A c \in Children(records[o]) : c \in 1 .. (o - 1)
    BY DEF RecordsValid
  <2>1. PICK hr : Now(hr)
    BY PickNow
  <2>2. Leveled(records, hr)
    BY <2>1, SaneAnyhow, Zenon DEF Now
  <2>3. o \in 1 .. Len(records)
    BY <2>2 DEF Leveled
  <2> QED BY <2>2, <2>3 DEF Leveled
<1> QED BY <1>1, EngineSound, PTL

(* commit_inner and a commit that fails half-way publish a superblock      *)
(* under which no record that was replaced before comes back.              *)
THEOREM CommitsKeepLive == Spec => CommitKeepsLive
<1> DEFINE Kept == sb' # sb => Subtree(records', sb'.root) \cap (1 .. sb.watermark)
                                  \subseteq Subtree(records, sb.root)
<1>1. DiskInv /\ [Next]_vars => [Kept]_vars
  <2> SUFFICES ASSUME DiskInv, Next, sb' # sb
               PROVE  Subtree(records', sb'.root) \cap (1 .. sb.watermark)
                         \subseteq Subtree(records, sb.root)
    OBVIOUS
  <2>1. commit \/ CommitFails
    <3>1. ~(\E k \in Keys : \/ \E v \in Puts : insert(k, v)
                            \/ delete(k)
                            \/ \E d \in Deltas : upsert(k, d))
      BY Zenon DEF insert, delete, upsert, Mutation, fileVars
    <3>2. ~drain /\ ~Reopen /\ ~StartWalk /\ ~StartScan
      BY DEF drain, Reopen, StartWalk, StartScan, fileVars
    <3>3. ~Reading
      BY Zenon DEF Reading, Visit, ScanStep, ReadFails, fileVars
    <3>4. ~BeginProbe /\ ~SettleChild /\ ~RestartEmpty /\ ~Grow /\ ~Settled /\ ~Return
      BY DEF BeginProbe, SettleChild, RestartEmpty, Grow, Settled, Return, fileVars
    <3>5. ~Probe
      BY DEF Probe, Interrupt, fileVars
    <3>6. ~Collapse
      BY DEF Collapse, Interrupt, fileVars
    <3>7. \A i : ~Deliver(i)
      BY DEF Deliver, Interrupt, fileVars
    <3> QED BY <3>1, <3>2, <3>3, <3>4, <3>5, <3>6, <3>7, Zenon DEF Next, Cascade
  <2>2. Commits /\ records' = Written.records /\ sb' = Written.sb
    BY <2>1 DEF commit, CommitFails
  <2>3. PICK hr : SavedAs(hr)
    BY <2>2, Saves
  <2>4. PICK h : Now(h)
    BY PickNow
  <2>5. sb.watermark = Len(records)
    BY <2>4 DEF Now, FileSane
  <2>6. Subtree(Written.records, Written.sb.root) \cap (1 .. Len(records))
          \subseteq Subtree(records, sb.root)
    BY <2>3, Zenon DEF SavedAs
  <2> QED BY <2>2, <2>5, <2>6, Zenon
<1> QED BY <1>1, EngineSound, PTL DEF Spec, CommitKeepsLive


-----------------------------------------------------------------------------
(* Nothing is left behind                                                  *)

At(e, o) == IF o \in DOMAIN e.offsets THEN e.offsets[o] ELSE Len(e.nodes) + o

Link(e, r) == IF r.leaf THEN r ELSE [r EXCEPT !.children = [j \in DOMAIN @ |-> At(e, @[j])]]

LEMMA ViewIs ==
    ASSUME NEW e
    PROVE  View(e) = [i \in 1 .. (Len(e.nodes) + Len(records)) |->
                         IF i <= Len(e.nodes)
                         THEN CASE e.nodes[i] = OnDisk -> Link(e, records[e.disk_offset[i]])
                                [] e.nodes[i] = Freed -> Leaf(Empty)
                                [] OTHER -> e.nodes[i]
                         ELSE Link(e, records[i - Len(e.nodes)])]
  BY Zenon DEF View, At, Link

LEMMA LinkKids ==
    ASSUME NEW e, NEW r, IsRecord(r)
    PROVE  Children(Link(e, r)) = {At(e, o) : o \in Children(r)}
<1>1. r.leaf \in BOOLEAN /\ (~r.leaf => r.children \in Seq(Nat))
  BY RecordTyped
<1>2. CASE r.leaf
  BY <1>2 DEF Link, Children
<1>3. CASE ~r.leaf
  <2> DEFINE f == [j \in DOMAIN r.children |-> At(e, r.children[j])]
  <2>1. r = [leaf |-> FALSE, pivots |-> r.pivots, buffer |-> r.buffer, children |-> r.children]
    BY <1>3 DEF IsRecord
  <2>2. Link(e, r) = [r EXCEPT !.children = f]
    BY <1>3 DEF Link
  <2>3. Link(e, r).leaf = FALSE /\ Link(e, r).children = f
    <3> HIDE DEF f
    <3> QED BY <2>1, <2>2
  <2>4. Children(Link(e, r)) = {f[j] : j \in DOMAIN f}
    BY <2>3 DEF Children, Range
  <2>5. Children(r) = {r.children[j] : j \in DOMAIN r.children}
    BY <1>3 DEF Children, Range
  <2> QED BY <2>4, <2>5
<1> QED BY <1>1, <1>2, <1>3

(* Below what is below a node there is nothing else.                       *)
LEMMA SubtreeClosed ==
    ASSUME NEW ns, NEW rk \in [DOMAIN ns -> Nat], NEW H \in Nat, \A i \in DOMAIN ns : rk[i] <= H,
           \A i \in DOMAIN ns : \A c \in Children(ns[i]) : c \in DOMAIN ns /\ rk[c] < rk[i]
    PROVE  \A i \in DOMAIN ns : /\ i \in Subtree(ns, i)
                                /\ \A t \in Subtree(ns, i) : Children(ns[t]) \subseteq Subtree(ns, i)
<1> DEFINE D == DOMAIN ns
           G == {i \in D : \A t \in Subtree(ns, i) : Children(ns[t]) \subseteq Subtree(ns, i)}
<1>1. \A i \in D : Subtree(ns, i) = {i} \cup UNION {Subtree(ns, c) : c \in Children(ns[i])}
  BY SubtreeMeets
<1>2. \A i \in D : \A c \in Children(ns[i]) : c \in D /\ rk[c] < rk[i]
  OBVIOUS
<1>3. rk \in [D -> Nat]
  OBVIOUS
<1> HIDE DEF D
<1>4. ASSUME NEW i \in D, \A c \in D : rk[c] < rk[i] => c \in G PROVE i \in G
  <2> SUFFICES ASSUME NEW t \in Subtree(ns, i), NEW y \in Children(ns[t]) PROVE y \in Subtree(ns, i)
    OBVIOUS
  <2>1. CASE t = i
    <3>1. y \in D /\ y \in Children(ns[i])
      BY <1>2, <2>1
    <3>2. y \in Subtree(ns, y)
      BY <1>1, <3>1
    <3> QED BY <1>1, <3>1, <3>2
  <2>2. CASE t # i
    <3>1. PICK c \in Children(ns[i]) : t \in Subtree(ns, c)
      BY <1>1, <2>2
    <3>2. c \in G
      BY <1>2, <1>4
    <3>3. y \in Subtree(ns, c)
      BY <3>1, <3>2
    <3> QED BY <1>1, <3>3
  <2> QED BY <2>1, <2>2
<1>5. \A i \in D : i \in G
  <2> HIDE DEF G
  <2> QED BY <1>3, <1>4, RankInduction
<1> QED BY <1>1, <1>5 DEF D

(* The children of a node as they are seen, slot or record.                *)
LEMMA ViewKids ==
    ASSUME NEW e, NEW hr, NEW r, NEW X, NEW F, NEW rk, NEW par, NEW ft,
           SaneBy(e, records, hr, r, X, F, rk, par, ft)
    PROVE  /\ DOMAIN View(e) = 1 .. (Len(e.nodes) + Len(records))
           /\ \A i \in Alive(e) : IsLoaded(e.nodes[i]) => Children(View(e)[i]) = Children(e.nodes[i])
           /\ \A i \in Alive(e) : e.nodes[i] = OnDisk =>
                 Children(View(e)[i]) = {At(e, o) : o \in Children(records[e.disk_offset[i]])}
           /\ \A i \in (1 .. Len(e.nodes)) \ Alive(e) : Children(View(e)[i]) = {}
           /\ \A p \in 1 .. Len(records) :
                 Children(View(e)[Len(e.nodes) + p]) = {At(e, o) : o \in Children(records[p])}
<1> DEFINE N == Len(e.nodes)
           M == Len(records)
<1>1. N \in Nat /\ M \in Nat /\ Alive(e) \subseteq 1 .. N
  <2>1. Leveled(records, hr)
    BY DEF SaneBy
  <2> QED BY <2>1, SlotFacts, RecordsBelow
<1>2. \A p \in 1 .. M : IsRecord(records[p])
  BY DEF SaneBy, Leveled
<1>3. DOMAIN View(e) = 1 .. (N + M)
  BY ViewIs
<1> HIDE DEF N, M
<1>4. ASSUME NEW i \in 1 .. N
      PROVE  View(e)[i] = CASE e.nodes[i] = OnDisk -> Link(e, records[e.disk_offset[i]])
                            [] e.nodes[i] = Freed -> Leaf(Empty)
                            [] OTHER -> e.nodes[i]
  <2>1. i \in 1 .. (N + M) /\ i <= N
    BY <1>1
  <2> QED BY <2>1, ViewIs DEF N, M
<1>5. ASSUME NEW i \in Alive(e), IsLoaded(e.nodes[i]) PROVE Children(View(e)[i]) = Children(e.nodes[i])
  <2>1. View(e)[i] = e.nodes[i]
    BY <1>1, <1>4, <1>5 DEF IsLoaded
  <2> QED BY <2>1
<1>6. ASSUME NEW i \in Alive(e), e.nodes[i] = OnDisk
      PROVE  Children(View(e)[i]) = {At(e, o) : o \in Children(records[e.disk_offset[i]])}
  <2>1. View(e)[i] = Link(e, records[e.disk_offset[i]])
    <3>1. i \in 1 .. N /\ e.nodes[i] # Freed
      BY <1>1 DEF Alive
    <3> DEFINE n == e.nodes[i]
               l == Link(e, records[e.disk_offset[i]])
    <3>2. View(e)[i] = CASE n = OnDisk -> l [] n = Freed -> Leaf(Empty) [] OTHER -> n
      BY <1>4, <3>1, Zenon
    <3>3. n = OnDisk /\ n # Freed
      BY <1>6, <3>1
    <3> HIDE DEF n, l
    <3>4. View(e)[i] = l
      BY <3>2, <3>3
    <3> QED BY <3>4 DEF l
  <2>2. e.disk_offset[i] \in 1 .. M
    <3>1. e.disk_offset[i] \in 0 .. M /\ e.disk_offset[i] # NoRecord
      BY <1>1, <1>6 DEF SaneBy, Held, M, N
    <3> QED BY <1>1, <3>1 DEF NoRecord
  <2>3. Children(Link(e, records[e.disk_offset[i]]))
          = {At(e, o) : o \in Children(records[e.disk_offset[i]])}
    BY <1>2, <2>2, LinkKids
  <2> QED BY <2>1, <2>3, Zenon
<1>7. ASSUME NEW i \in (1 .. N) \ Alive(e) PROVE Children(View(e)[i]) = {}
  <2>1. e.nodes[i] = Freed /\ e.nodes[i] # OnDisk
    BY <1>7 DEF Alive, N, Freed, OnDisk
  <2>2. View(e)[i] = Leaf(Empty)
    BY <1>4, <2>1
  <2> QED BY <2>2 DEF Leaf, Children
<1>8. ASSUME NEW p \in 1 .. M
      PROVE  Children(View(e)[N + p]) = {At(e, o) : o \in Children(records[p])}
  <2>1. N + p \in 1 .. (N + M) /\ ~(N + p <= N) /\ (N + p) - N = p
    BY <1>1
  <2>2. View(e)[N + p] = Link(e, records[(N + p) - N])
    BY <2>1, ViewIs DEF N, M
  <2>3. View(e)[N + p] = Link(e, records[p])
    BY <2>1, <2>2, Zenon
  <2>4. Children(Link(e, records[p])) = {At(e, o) : o \in Children(records[p])}
    BY <1>2, LinkKids
  <2> QED BY <2>3, <2>4, Zenon
<1> QED BY <1>3, <1>5, <1>6, <1>7, <1>8 DEF N, M


(* A record is no higher than there are records up to it.                  *)
LEMMA HeightBound ==
    ASSUME NEW rs, NEW hr, Leveled(rs, hr)
    PROVE  \A o \in 1 .. Len(rs) : hr[o] \in Nat /\ hr[o] <= Len(rs)
<1> DEFINE D == 1 .. Len(rs)
           id == [o \in D |-> o]
           G == {o \in D : hr[o] <= o}
<1>1. Len(rs) \in Nat /\ hr \in [D -> Nat]
  BY RecordsBelow DEF Leveled
<1>2. ASSUME NEW o \in D, \A c \in D : id[c] < id[o] => c \in G PROVE o \in G
  <2>1. CASE rs[o].leaf
    <3>1. hr[o] = 0
      BY <2>1 DEF Leveled
    <3> QED BY <1>1, <3>1
  <2>2. CASE ~rs[o].leaf
    <3>1. /\ Len(rs[o].children) = Len(rs[o].pivots) + 1
          /\ rs[o].children \in Seq(Nat) /\ rs[o].pivots \in Seq(Nat)
      BY <2>2, RecordTyped DEF Leveled
    <3>2. rs[o].children[1] \in Children(rs[o])
      <4>1. 1 \in 1 .. Len(rs[o].children)
        BY <3>1
      <4>2. Children(rs[o]) = Range(rs[o].children) /\ 1 \in DOMAIN rs[o].children
        BY <2>2, <3>1, <4>1 DEF Children
      <4> QED BY <4>2, Zenon DEF Range
    <3>3. PICK c : c \in Children(rs[o])
      BY <3>2
    <3>4. c \in D /\ c < o /\ hr[o] = hr[c] + 1
      BY <3>3, RecordsBelow
    <3>5. c \in G
      BY <1>2, <3>4
    <3>6. hr[c] <= c /\ hr[c] \in Nat
      BY <1>1, <3>4, <3>5
    <3> QED BY <1>1, <3>4, <3>6
  <2> QED BY <2>1, <2>2
<1>3. id \in [D -> Nat]
  OBVIOUS
<1>4. \A o \in D : o \in G
  <2> HIDE DEF D, id, G
  <2> QED BY <1>2, <1>3, RankInduction
<1> QED
  <2> SUFFICES ASSUME NEW o \in 1 .. Len(rs) PROVE hr[o] \in Nat /\ hr[o] <= Len(rs)
    OBVIOUS
  <2>1. hr[o] <= o /\ hr[o] \in Nat
    BY <1>1, <1>4
  <2> QED BY <1>1, <2>1

(* How high a node is, slot or record.                                     *)
HeightIn(e, hr, rk) ==
    [i \in 1 .. (Len(e.nodes) + Len(records)) |->
        IF i \in Alive(e) THEN rk[i] ELSE IF i <= Len(e.nodes) THEN 0 ELSE hr[i - Len(e.nodes)]]

LEMMA ViewRanks ==
    ASSUME NEW e, NEW hr, NEW r, NEW X, NEW F, NEW rk, NEW par, NEW ft,
           SaneBy(e, records, hr, r, X, F, rk, par, ft)
    PROVE  /\ HeightIn(e, hr, rk) \in [DOMAIN View(e) -> Nat]
           /\ rk[r] + Len(records) \in Nat
           /\ \A i \in DOMAIN View(e) : HeightIn(e, hr, rk)[i] <= rk[r] + Len(records)
           /\ \A i \in DOMAIN View(e) : \A c \in Children(View(e)[i]) :
                 c \in DOMAIN View(e) /\ HeightIn(e, hr, rk)[c] < HeightIn(e, hr, rk)[i]
<1> DEFINE N == Len(e.nodes)
           M == Len(records)
           R == HeightIn(e, hr, rk)
<1>1. Leveled(records, hr)
  BY DEF SaneBy
<1>2. /\ N \in Nat /\ M \in Nat /\ Alive(e) \subseteq 1 .. N /\ DOMAIN View(e) = 1 .. (N + M)
  BY <1>1, SlotFacts, RecordsBelow, ViewKids
<1>3. rk[r] \in Nat /\ \A x \in Alive(e) : rk[x] \in Nat /\ rk[x] <= rk[r]
  BY DEF SaneBy, Rooted
<1>4. \A o \in 1 .. M : hr[o] \in Nat /\ hr[o] <= M
  BY <1>1, HeightBound
<1>5. R = [i \in 1 .. (N + M) |-> IF i \in Alive(e) THEN rk[i] ELSE IF i <= N THEN 0 ELSE hr[i - N]]
  BY DEF HeightIn
<1> HIDE DEF N, M, R
<1>6. \A i \in Alive(e) : i \in 1 .. (N + M) /\ R[i] = rk[i]
  BY <1>2, <1>5
<1>7. ASSUME NEW i \in 1 .. (N + M) PROVE R[i] \in Nat /\ R[i] <= rk[r] + M
  <2>1. CASE i \in Alive(e)
    <3>1. R[i] = rk[i] /\ rk[i] \in Nat /\ rk[i] <= rk[r]
      BY <1>3, <1>6, <2>1
    <3> QED BY <1>2, <1>3, <3>1
  <2>2. CASE i \notin Alive(e) /\ i <= N
    BY <1>2, <1>3, <1>5, <2>2
  <2>3. CASE i \notin Alive(e) /\ ~(i <= N)
    <3>1. R[i] = hr[i - N] /\ i - N \in 1 .. M
      BY <1>2, <1>5, <2>3
    <3>2. R[i] \in Nat /\ R[i] <= M
      BY <1>4, <3>1
    <3> QED BY <1>2, <1>3, <3>2
  <2> QED BY <2>1, <2>2, <2>3
<1>8. ASSUME NEW p \in 1 .. M, NEW o \in Children(records[p])
      PROVE  At(e, o) \in 1 .. (N + M) /\ R[At(e, o)] < hr[p]
  <2>1. o \in 1 .. M /\ hr[p] = hr[o] + 1
    BY <1>1, RecordsBelow DEF M
  <2>2. hr[o] \in Nat
    BY <1>4, <2>1
  <2>3. At(e, o) \in 1 .. (N + M) /\ R[At(e, o)] = hr[o]
    <3>1. CASE o \in DOMAIN e.offsets
      <4>1. At(e, o) = e.offsets[o]
        BY <3>1 DEF At
      <4>2. e.offsets[o] \in Alive(e) /\ e.disk_offset[e.offsets[o]] = o
        BY <3>1 DEF SaneBy, Interned
      <4>3. o # NoRecord
        BY <2>1 DEF NoRecord
      <4>4. rk[e.offsets[o]] = hr[o]
        BY <4>2, <4>3 DEF SaneBy, Rooted
      <4> QED BY <1>6, <4>1, <4>2, <4>4
    <3>2. CASE o \notin DOMAIN e.offsets
      <4>1. At(e, o) = N + o
        BY <3>2 DEF At, N
      <4>2. N + o \in 1 .. (N + M) /\ ~(N + o <= N) /\ (N + o) - N = o
        BY <1>2, <2>1
      <4>3. N + o \notin Alive(e)
        BY <1>2, <4>2
      <4>4. R[N + o] = hr[(N + o) - N]
        BY <1>5, <4>2, <4>3
      <4> QED BY <4>1, <4>2, <4>4
    <3> QED BY <3>1, <3>2
  <2> QED BY <2>1, <2>2, <2>3
<1>9. ASSUME NEW i \in 1 .. (N + M), NEW c \in Children(View(e)[i])
      PROVE  c \in 1 .. (N + M) /\ R[c] < R[i]
  <2>1. CASE i \in Alive(e) /\ IsLoaded(e.nodes[i])
    <3>1. c \in Children(e.nodes[i])
      BY <1>9, <2>1, ViewKids
    <3>2. c \in KidsOf(e, records, i)
      BY <2>1, <3>1, SlotFacts
    <3>3. c \in Alive(e) /\ rk[c] \in Nat /\ rk[i] = rk[c] + 1
      BY <2>1, <3>2, SlotFacts
    <3> QED BY <1>6, <2>1, <3>3
  <2>2. CASE i \in Alive(e) /\ e.nodes[i] = OnDisk
    <3>1. c \in {At(e, o) : o \in Children(records[e.disk_offset[i]])}
      BY <1>9, <2>2, ViewKids
    <3>2. PICK o \in Children(records[e.disk_offset[i]]) : c = At(e, o)
      BY <3>1
    <3>3. e.disk_offset[i] \in 0 .. M /\ e.disk_offset[i] # NoRecord
      BY <1>2, <2>2 DEF SaneBy, Held, M, N
    <3>4. e.disk_offset[i] \in 1 .. M
      BY <1>2, <3>3 DEF NoRecord
    <3>5. rk[i] = hr[e.disk_offset[i]]
      BY <2>2, <3>3 DEF SaneBy, Rooted
    <3> QED BY <1>6, <1>8, <2>2, <3>2, <3>4, <3>5
  <2>3. CASE i \notin Alive(e) /\ i <= N
    <3>1. i \in (1 .. N) \ Alive(e)
      BY <1>2, <2>3
    <3> QED BY <1>9, <3>1, ViewKids DEF N
  <2>4. CASE i \notin Alive(e) /\ ~(i <= N)
    <3>1. i - N \in 1 .. M /\ N + (i - N) = i
      BY <1>2, <2>4
    <3>2. Children(View(e)[N + (i - N)]) = {At(e, o) : o \in Children(records[i - N])}
      BY <3>1, ViewKids DEF N, M
    <3>3. PICK o \in Children(records[i - N]) : c = At(e, o)
      BY <1>9, <3>1, <3>2
    <3>4. R[i] = hr[i - N]
      BY <1>5, <2>4
    <3> QED BY <1>8, <3>1, <3>3, <3>4
  <2>5. i \in Alive(e) => e.nodes[i] = OnDisk \/ IsLoaded(e.nodes[i])
    BY SlotFacts
  <2> QED BY <2>1, <2>2, <2>3, <2>4, <2>5
<1>10. R \in [1 .. (N + M) -> Nat]
  BY <1>5, <1>7
<1>11. rk[r] + M \in Nat
  BY <1>2, <1>3
<1> QED BY <1>2, <1>7, <1>9, <1>10, <1>11 DEF R, M

(* Each slot in use is below the root.                                     *)
LEMMA AllBelow ==
    ASSUME NEW e, NEW hr, NEW r, NEW X, NEW F, Sane(e, records, hr, r, X, F)
    PROVE  Alive(e) \subseteq Subtree(View(e), r)
<1>1. PICK rk, par, ft : SaneBy(e, records, hr, r, X, F, rk, par, ft)
  BY DEF Sane
<1> DEFINE V == View(e)
           R == HeightIn(e, hr, rk)
           H == rk[r] + Len(records)
<1>2. /\ R \in [DOMAIN V -> Nat] /\ H \in Nat /\ \A i \in DOMAIN V : R[i] <= H
      /\ \A i \in DOMAIN V : \A c \in Children(V[i]) : c \in DOMAIN V /\ R[c] < R[i]
  BY <1>1, ViewRanks
<1>3. r \in DOMAIN V
  <2>1. Len(records) \in Nat
    BY <1>1, RecordsBelow DEF SaneBy
  <2>2. r \in 1 .. Len(e.nodes) /\ Len(e.nodes) \in Nat /\ DOMAIN V = 1 .. (Len(e.nodes) + Len(records))
    BY <1>1, SlotFacts, ViewKids
  <2> QED BY <2>1, <2>2
<1>4. ASSUME NEW i \in Alive(e), NEW c \in KidsOf(e, records, i) PROVE c \in Children(V[i])
  <2>1. CASE IsLoaded(e.nodes[i])
    BY <1>1, <1>4, <2>1, SlotFacts, ViewKids
  <2>2. CASE e.nodes[i] = OnDisk
    <3>1. PICK o \in Children(records[e.disk_offset[i]]) \cap DOMAIN e.offsets : c = e.offsets[o]
      BY <1>4, <2>2 DEF KidsOf
    <3>2. c = At(e, o)
      BY <3>1 DEF At
    <3>3. Children(V[i]) = {At(e, x) : x \in Children(records[e.disk_offset[i]])}
      BY <1>1, <2>2, ViewKids, SMTT(30)
    <3> QED BY <3>1, <3>2, <3>3
  <2>3. e.nodes[i] = OnDisk \/ IsLoaded(e.nodes[i])
    BY <1>1, SlotFacts
  <2> QED BY <2>1, <2>2, <2>3
<1> HIDE DEF V, R, H
<1>5. /\ r \in Subtree(V, r)
      /\ \A t \in Subtree(V, r) : Children(V[t]) \subseteq Subtree(V, r)
  BY <1>2, <1>3, SubtreeClosed
<1>6. /\ rk[r] \in Nat /\ \A x \in Alive(e) : rk[x] \in Nat /\ rk[x] <= rk[r]
      /\ \A x \in Alive(e) \ {r} : par[x] \in Alive(e) /\ rk[par[x]] = rk[x] + 1
      /\ \A x \in Alive(e) \ {r} : x \in KidsOf(e, records, par[x])
  BY <1>1 DEF SaneBy, Rooted
<1> DEFINE S == {n \in Nat : \A x \in Alive(e) : rk[x] + n = rk[r] => x \in Subtree(V, r)}
<1>7. 0 \in S
  <2> SUFFICES ASSUME NEW x \in Alive(e), rk[x] + 0 = rk[r] PROVE x \in Subtree(V, r)
    OBVIOUS
  <2>1. rk[x] = rk[r]
    BY <1>6
  <2>2. CASE x = r
    BY <1>5, <2>2
  <2>3. CASE x # r
    <3>1. par[x] \in Alive(e) /\ rk[par[x]] = rk[r] + 1
      BY <1>6, <2>1, <2>3
    <3>2. rk[par[x]] <= rk[r]
      BY <1>6, <3>1
    <3> QED BY <1>6, <3>1, <3>2
  <2> QED BY <2>2, <2>3
<1>8. ASSUME NEW n \in Nat, n \in S PROVE n + 1 \in S
  <2> SUFFICES ASSUME NEW x \in Alive(e), rk[x] + (n + 1) = rk[r] PROVE x \in Subtree(V, r)
    OBVIOUS
  <2>1. x # r
    BY <1>6
  <2>2. par[x] \in Alive(e) /\ rk[par[x]] = rk[x] + 1 /\ x \in KidsOf(e, records, par[x])
    BY <1>6, <2>1
  <2>3. rk[par[x]] + n = rk[r]
    BY <1>6, <2>2
  <2>4. par[x] \in Subtree(V, r)
    BY <1>8, <2>2, <2>3
  <2>5. x \in Children(V[par[x]])
    BY <1>4, <2>2
  <2> QED BY <1>5, <2>4, <2>5
<1>9. \A n \in Nat : n \in S
  <2> HIDE DEF S
  <2> QED BY <1>7, <1>8, SetInduction
<1> SUFFICES ASSUME NEW x \in Alive(e) PROVE x \in Subtree(V, r)
  BY DEF V
<1>10. rk[x] \in Nat /\ rk[x] <= rk[r] /\ rk[r] \in Nat
  BY <1>6
<1>11. rk[r] - rk[x] \in Nat /\ rk[x] + (rk[r] - rk[x]) = rk[r]
  BY <1>10
<1>12. rk[r] - rk[x] \in S
  BY <1>9, <1>11
<1> QED BY <1>11, <1>12

(* Each slot that is in use is a node of the tree: what unlink, the root's *)
(* collapse and restart_empty take out of the tree they also free.         *)
THEOREM NothingOrphaned == Spec => []NoOrphans
<1>1. DiskInv => NoOrphans
  <2> SUFFICES ASSUME DiskInv PROVE NoOrphans
    OBVIOUS
  <2>1. PICK hr : Now(hr)
    BY PickNow
  <2>2. DOMAIN Engine.nodes = 1 .. Len(Engine.nodes)
    BY <2>1, SaneFacts, Zenon DEF Now
  <2>3. Live = Alive(Engine)
    BY <2>2, EngineIs DEF Live, Alive
  <2>4. Alive(Engine) \subseteq Subtree(View(Engine), root)
    BY <2>1, AllBelow, Zenon DEF Now
  <2> QED BY <2>3, <2>4, Zenon DEF NoOrphans
<1> QED BY <1>1, EngineSound, PTL
=============================================================================
