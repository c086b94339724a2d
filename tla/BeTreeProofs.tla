---------------------------- MODULE BeTreeProofs ----------------------------
(***************************************************************************)
(* For every value of the constants, the in-memory engine of module BeTree *)
(* implements the reference map of module KvSpec, call by call; its drains *)
(* are complete, its capacities and orders kept, and its scans exact;      *)
(* without drains commits reach what is dirty, and forks are faithful.     *)
(***************************************************************************)
EXTENDS BeTreeCheck, NodesProofs

-----------------------------------------------------------------------------
(* The stack of a cascade                                                  *)

(* The stack is a path of internal nodes down from the root, and no node   *)
(* on it buffers anything for the one above it on the stack.               *)
Stacked(ns, r, L, st) ==
    /\ st \in Seq(Nat)
    /\ st # <<>> => st[1] = r
    /\ \A m \in 1 .. Len(st) : st[m] \in L /\ ~ns[st[m]].leaf
    /\ \A m \in 1 .. (Len(st) - 1) :
          \E j \in 1 .. Len(ns[st[m]].children) :
             ns[st[m]].children[j] = st[m + 1] /\ Pending(ns[st[m]], j) = {}

(* Only the node on top of the stack may be without children.              *)
BarrenOnTop(ns, L, st) == \A i \in L : Barren(ns[i]) => st # <<>> /\ i = Last(st)

SoundBy(ns, r, st, L, rk, iv) ==
    /\ ns \in Seq(AnyNode)
    /\ Shape(ns, r, L, rk, iv)
    /\ Stacked(ns, r, L, st)
    /\ BarrenOnTop(ns, L, st)

Sound(ns, r, st) == \E L, rk, iv : SoundBy(ns, r, st, L, rk, iv)

(* What is invariant: the tree has its shape in the middle of a cascade,   *)
(* too, and the stack is where the cascade can go on.                      *)
MapInv ==
    /\ next_seq \in Nat
    /\ mode = "rest" => flushing = <<>>
    /\ Sound(nodes, root, flushing)

(* An arena keeps its type when it keeps its ids.                          *)
LEMMA SeqKept ==
    ASSUME NEW ns \in Seq(AnyNode), NEW ns2, DOMAIN ns2 = DOMAIN ns, Arena(ns2)
    PROVE  ns2 \in Seq(AnyNode)
<1>1. DOMAIN ns2 = 1 .. Len(ns) /\ Len(ns) \in Nat
  OBVIOUS
<1>2. ns2 = [i \in DOMAIN ns2 |-> ns2[i]] /\ \A i \in DOMAIN ns2 : ns2[i] \in AnyNode
  BY DEF Arena, NodeOk, AnyNode
<1>3. ns2 \in [1 .. Len(ns) -> AnyNode]
  BY <1>1, <1>2
<1> QED BY <1>1, <1>3

(* The node on top, and what is known of it.                               *)
LEMMA TopNode ==
    ASSUME NEW ns, NEW r, NEW st, NEW L, NEW rk, NEW iv, SoundBy(ns, r, st, L, rk, iv), st # <<>>
    PROVE  /\ Len(st) \in Nat /\ Len(st) >= 1 /\ Last(st) = st[Len(st)] /\ st \in Seq(Nat)
           /\ Last(st) \in L /\ ~ns[Last(st)].leaf /\ st[1] = r
<1>1. st \in Seq(Nat) /\ st[1] = r /\ \A m \in 1 .. Len(st) : st[m] \in L /\ ~ns[st[m]].leaf
  BY DEF SoundBy, Stacked
<1>2. Len(st) \in Nat /\ Len(st) >= 1
  BY <1>1
<1>3. Last(st) = st[Len(st)]
  BY DEF Last
<1> QED BY <1>1, <1>2, <1>3

(* Nodes lower down the stack are higher in the tree.                      *)
LEMMA StackRanks ==
    ASSUME NEW ns, NEW r, NEW st, NEW L, NEW rk, NEW iv, SoundBy(ns, r, st, L, rk, iv)
    PROVE  \A m, n \in 1 .. Len(st) :
              /\ rk[st[m]] \in Nat
              /\ m < n => rk[st[m]] > rk[st[n]]
<1>1. st \in Seq(Nat) /\ \A m \in 1 .. Len(st) : st[m] \in L /\ ~ns[st[m]].leaf
  BY DEF SoundBy, Stacked
<1>2. Len(st) \in Nat
  BY <1>1
<1>3. Ranked(ns, rk) /\ L \subseteq DOMAIN ns /\ rk \in [DOMAIN ns -> Nat]
  BY DEF SoundBy, Shape, Tree, Ranked
<1>4. \A m \in 1 .. Len(st) : rk[st[m]] \in Nat
  BY <1>1, <1>3
<1>5. ASSUME NEW m \in 1 .. (Len(st) - 1) PROVE rk[st[m]] = rk[st[m + 1]] + 1
  <2>1. PICK j \in 1 .. Len(ns[st[m]].children) : ns[st[m]].children[j] = st[m + 1]
    BY DEF SoundBy, Stacked
  <2>2. m \in 1 .. Len(st)
    BY <1>2
  <2>3. st[m] \in DOMAIN ns /\ ~ns[st[m]].leaf
    BY <2>2, <1>1, <1>3
  <2>4. rk[st[m]] = rk[ns[st[m]].children[j]] + 1
    BY <2>1, <2>3, <1>3, Zenon DEF Ranked
  <2> QED BY <2>1, <2>4
<1> SUFFICES ASSUME NEW m \in 1 .. Len(st) PROVE \A n \in 1 .. Len(st) : m < n => rk[st[m]] > rk[st[n]]
  BY <1>4
<1> DEFINE S == {d \in 0 .. (Len(st) - m) : rk[st[m]] = rk[st[m + d]] + d}
<1>6. 0 \in S
  <2>1. m + 0 = m /\ 0 \in 0 .. (Len(st) - m)
    BY <1>2
  <2>2. rk[st[m]] = rk[st[m]] + 0
    BY <1>4
  <2> QED BY <2>1, <2>2
<1>7. ASSUME NEW d \in 0 .. (Len(st) - m) - 1, d \in S PROVE d + 1 \in S
  <2>1. /\ m + d \in 1 .. (Len(st) - 1) /\ (m + d) + 1 = m + (d + 1)
        /\ d + 1 \in 0 .. (Len(st) - m) /\ m + (d + 1) \in 1 .. Len(st)
    BY <1>2
  <2>2. rk[st[m + d]] = rk[st[m + (d + 1)]] + 1
    BY <2>1, <1>5
  <2>3. rk[st[m]] = rk[st[m + d]] + d /\ rk[st[m + (d + 1)]] \in Nat
    BY <1>4, <1>7, <2>1
  <2>4. rk[st[m]] = rk[st[m + (d + 1)]] + (d + 1)
    <3> DEFINE x == rk[st[m]]
               y == rk[st[m + d]]
               z == rk[st[m + (d + 1)]]
    <3>1. x = y + d /\ y = z + 1 /\ z \in Nat /\ d \in Nat
      BY <2>2, <2>3
    <3> HIDE DEF x, y, z
    <3>2. x = z + (d + 1)
      BY <3>1
    <3> QED BY <3>2 DEF x, z
  <2> QED BY <2>1, <2>4
<1>8. \A d \in 0 .. (Len(st) - m) : d \in S
  <2>1. Len(st) - m \in Nat
    BY <1>2
  <2> HIDE DEF S
  <2> QED BY <2>1, <1>6, <1>7, BoundedInduction
<1>9. ASSUME NEW n \in 1 .. Len(st), m < n PROVE rk[st[m]] > rk[st[n]]
  <2>1. n - m \in 0 .. (Len(st) - m) /\ m + (n - m) = n /\ n - m > 0
    BY <1>2, <1>9
  <2>2. n - m \in S
    BY <2>1, <1>8
  <2>3. rk[st[m]] = rk[st[n]] + (n - m)
    BY <2>1, <2>2
  <2> QED BY <2>1, <2>3, <1>4
<1> QED BY <1>9

(* A stack stays one when the nodes under its top do not change.           *)
LEMMA StackKept ==
    ASSUME NEW ns, NEW r, NEW L, NEW st, Stacked(ns, r, L, st),
           NEW ns2, NEW L2, NEW st2 \in Seq(Nat), Len(st2) \in 1 .. Len(st),
           \A m \in 1 .. Len(st2) : st2[m] = st[m] /\ st[m] \in L2,
           \A m \in 1 .. (Len(st2) - 1) : ns2[st[m]] = ns[st[m]],
           ~ns2[st[Len(st2)]].leaf
    PROVE  Stacked(ns2, r, L2, st2)
<1> DEFINE N == Len(st2)
           M == Len(st)
<1>1. /\ st \in Seq(Nat) /\ (st # <<>> => st[1] = r)
      /\ \A m \in 1 .. M : st[m] \in L /\ ~ns[st[m]].leaf
  BY DEF Stacked
<1>2. M \in Nat /\ N \in 1 .. M /\ N \in Nat
  BY <1>1
<1>3. st # <<>>
  BY <1>1, <1>2
<1> HIDE DEF N, M
<1>4. ASSUME NEW m \in 1 .. N PROVE st2[m] \in L2 /\ ~ns2[st2[m]].leaf
  <2>1. m \in 1 .. M /\ (m = N \/ m \in 1 .. (N - 1))
    BY <1>2
  <2>2. st2[m] = st[m] /\ st[m] \in L2
    BY DEF N
  <2>3. CASE m = N
    BY <2>2, <2>3 DEF N
  <2>4. CASE m \in 1 .. (N - 1)
    <3>1. ns2[st[m]] = ns[st[m]]
      BY <2>4 DEF N
    <3> QED BY <2>1, <2>2, <3>1, <1>1
  <2> QED BY <2>1, <2>3, <2>4
<1>5. ASSUME NEW m \in 1 .. (N - 1)
      PROVE  \E j \in 1 .. Len(ns2[st2[m]].children) :
                ns2[st2[m]].children[j] = st2[m + 1] /\ Pending(ns2[st2[m]], j) = {}
  <2>1. m \in 1 .. (M - 1) /\ m \in 1 .. N /\ m + 1 \in 1 .. N
    BY <1>2
  <2>2. ns2[st[m]] = ns[st[m]]
    BY DEF N
  <2>3. st2[m] = st[m] /\ st2[m + 1] = st[m + 1]
    BY <2>1 DEF N
  <2>4. \E j \in 1 .. Len(ns[st[m]].children) :
           ns[st[m]].children[j] = st[m + 1] /\ Pending(ns[st[m]], j) = {}
    BY <2>1 DEF Stacked, M
  <2> QED BY <2>2, <2>3, <2>4
<1>6. 1 \in 1 .. N /\ st2[1] = st[1]
  BY <1>2 DEF N
<1> QED BY <1>1, <1>3, <1>4, <1>5, <1>6 DEF Stacked, N

(* What a change of stack node P and its child C has to leave alone.       *)
LEMMA StackApart ==
    ASSUME NEW ns, NEW r, NEW st, NEW L, NEW rk, NEW iv, SoundBy(ns, r, st, L, rk, iv),
           NEW n \in 1 .. Len(st), NEW j \in 1 .. Len(ns[st[n]].children)
    PROVE  \A m \in 1 .. (n - 1) : st[m] \notin {st[n], ns[st[n]].children[j]}
<1>1. st \in Seq(Nat) /\ st[n] \in L /\ ~ns[st[n]].leaf /\ Shape(ns, r, L, rk, iv)
  BY DEF SoundBy, Stacked
<1>2. Len(st) \in Nat
  BY <1>1
<1>3. Parented(ns, r, L, rk, st[n], j)
  BY <1>1, ChildApart
<1> DEFINE C == ns[st[n]].children[j]
<1>4. rk[st[n]] = rk[C] + 1 /\ rk[st[n]] \in Nat /\ rk[C] \in Nat
  BY <1>3 DEF Parented
<1> SUFFICES ASSUME NEW m \in 1 .. (n - 1) PROVE st[m] # st[n] /\ st[m] # C
  OBVIOUS
<1>5. m \in 1 .. Len(st) /\ m < n
  BY <1>2
<1>6. rk[st[m]] > rk[st[n]] /\ rk[st[m]] \in Nat
  BY <1>5, StackRanks
<1> HIDE DEF C
<1> QED BY <1>4, <1>6

(* A batch has left the node on top of the stack.                          *)
FlushSound(ns, r, st, L, rk, P, j) ==
    /\ \E iv : SoundBy(Flushed(ns, P, j), r, st, L, rk, iv)
    /\ SameMap(ns, r, Flushed(ns, P, j), r)
    /\ LinksKept(ns, Flushed(ns, P, j))
    /\ Pending(Flushed(ns, P, j)[P], j) = {}
    /\ \A i \in L : ~Barren(Flushed(ns, P, j)[i])

(* It has left nothing behind for that child, and the tree is sound.       *)
LEMMA TopFlushed ==
    ASSUME NEW ns, NEW r, NEW st, NEW L, NEW rk, NEW iv, SoundBy(ns, r, st, L, rk, iv),
           st # <<>>, NEW j \in 1 .. Len(ns[Last(st)].children)
    PROVE  FlushSound(ns, r, st, L, rk, Last(st), j)
<1> DEFINE P == Last(st)
           C == ns[P].children[j]
           ns2 == Flushed(ns, P, j)
<1>1. Shape(ns, r, L, rk, iv) /\ ns \in Seq(AnyNode) /\ Stacked(ns, r, L, st)
      /\ BarrenOnTop(ns, L, st)
  BY DEF SoundBy
<1>2. P \in L /\ ~ns[P].leaf /\ P = st[Len(st)] /\ Len(st) \in Nat /\ Len(st) >= 1 /\ st \in Seq(Nat)
  BY TopNode
<1>3. Parented(ns, r, L, rk, P, j)
  BY <1>1, <1>2, ChildApart
<1>4. C \in L /\ C \in DOMAIN ns /\ C # P /\ P \in DOMAIN ns /\ ns[P] \in InnerNode
      /\ ns[P].children \in Seq(Nat)
  BY <1>3 DEF Parented
<1>5. ns[P].children # <<>>
  BY <1>4
<1> HIDE DEF P
<1>6. ASSUME NEW i \in L PROVE ~Barren(ns[i])
  BY <1>1, <1>5 DEF BarrenOnTop, Barren, P
<1>7. FlushKept(ns, r, L, rk, P, j)
  <2>1. ~Barren(ns[C])
    BY <1>4, <1>6
  <2>2. j \in 1 .. Len(ns[P].children)
    BY DEF P
  <2> QED BY <1>1, <1>2, <2>1, <2>2, FlushKeeps
<1>8. PICK iv2 : Shape(ns2, r, L, rk, iv2)
  BY <1>7 DEF FlushKept
<1>9. LinksKept(ns, ns2) /\ SameMap(ns, r, ns2, r)
  BY <1>7 DEF FlushKept
<1>10. Arena(ns) /\ Arena(ns2) /\ DOMAIN ns2 = DOMAIN ns /\ L \subseteq DOMAIN ns
  BY <1>1, <1>8, <1>9 DEF Shape, LinksKept, Tree
<1>11. ns2[P] = Drained(ns[P], j) /\ \A i \in DOMAIN ns \ {P, C} : ns2[i] = ns[i]
  BY <1>4, <1>10, FlushedNodes
<1>12. ns2 \in Seq(AnyNode)
  <2> HIDE DEF ns2
  <2> QED BY <1>1, <1>10, SeqKept
<1>13. Pending(ns2[P], j) = {}
  <2>1. NodeOk(ns[P])
    BY <1>4, <1>10 DEF Arena
  <2>2. /\ Drained(ns[P], j).pivots = ns[P].pivots
        /\ Drained(ns[P], j).buffer = Restrict(ns[P].buffer, DOMAIN ns[P].buffer \ Pending(ns[P], j))
    BY <2>1, <1>4, DrainedShape
  <2> HIDE DEF ns2
  <2> QED BY <2>2, <1>11 DEF Pending, Restrict
<1>14. ASSUME NEW i \in L PROVE ~Barren(ns2[i])
  <2> HIDE DEF ns2
  <2> QED BY <1>6, <1>9, <1>10 DEF Barren, LinksKept
<1>15. Stacked(ns2, r, L, st)
  <2> DEFINE N == Len(st)
  <2>1. N \in 1 .. Len(st) /\ N \in 1 .. N
    BY <1>2
  <2>2. \A m \in 1 .. N : st[m] = st[m] /\ st[m] \in L
    BY <1>1 DEF Stacked
  <2>3. \A m \in 1 .. (N - 1) : st[m] \notin {P, C}
    <3>1. N \in 1 .. Len(st) /\ j \in 1 .. Len(ns[st[N]].children)
      BY <2>1, <1>2 DEF P
    <3> QED BY <3>1, <1>2, StackApart
  <2>4. \A m \in 1 .. (N - 1) : ns2[st[m]] = ns[st[m]]
    <3> SUFFICES ASSUME NEW m \in 1 .. (N - 1) PROVE ns2[st[m]] = ns[st[m]]
      OBVIOUS
    <3>1. m \in 1 .. N
      BY <2>1
    <3>2. st[m] \in DOMAIN ns \ {P, C}
      BY <3>1, <2>2, <2>3, <1>10
    <3> HIDE DEF ns2
    <3> QED BY <3>2, <1>11
  <2>5. ~ns2[st[N]].leaf
    <3> HIDE DEF ns2
    <3> QED BY <1>2, <1>4, <1>9 DEF LinksKept
  <2> HIDE DEF ns2
  <2> QED BY <1>1, <1>2, <2>1, <2>2, <2>4, <2>5, StackKept
<1>16. SoundBy(ns2, r, st, L, rk, iv2)
  <2> HIDE DEF ns2
  <2> QED BY <1>8, <1>12, <1>14, <1>15 DEF SoundBy, BarrenOnTop
<1>17. FlushSound(ns, r, st, L, rk, P, j)
  BY <1>9, <1>13, <1>14, <1>16 DEF FlushSound
<1> QED BY <1>17 DEF P

(* The cascade goes on with a child of the node on top, for which nothing  *)
(* is buffered.                                                            *)
LEMMA Pushed ==
    ASSUME NEW ns, NEW r, NEW st, NEW L, NEW rk, NEW iv, SoundBy(ns, r, st, L, rk, iv),
           st # <<>>, NEW j \in 1 .. Len(ns[Last(st)].children),
           Pending(ns[Last(st)], j) = {}, ~ns[ns[Last(st)].children[j]].leaf,
           \A i \in L : ~Barren(ns[i])
    PROVE  SoundBy(ns, r, Append(st, ns[Last(st)].children[j]), L, rk, iv)
<1> DEFINE P == Last(st)
           C == ns[P].children[j]
           st2 == Append(st, C)
           N == Len(st)
<1>1. Shape(ns, r, L, rk, iv) /\ ns \in Seq(AnyNode) /\ Stacked(ns, r, L, st)
  BY DEF SoundBy
<1>2. P \in L /\ ~ns[P].leaf /\ P = st[N] /\ N \in Nat /\ N >= 1 /\ st \in Seq(Nat) /\ st[1] = r
  BY TopNode
<1>3. Parented(ns, r, L, rk, P, j)
  BY <1>1, <1>2, ChildApart
<1>4. C \in L /\ ns[P].children \in Seq(Nat)
  BY <1>3 DEF Parented
<1>5. C \in Nat
  BY <1>4
<1>6. j \in 1 .. Len(ns[P].children) /\ Pending(ns[P], j) = {} /\ ~ns[C].leaf
  OBVIOUS
<1> HIDE DEF P
<1> DEFINE c == C
<1> HIDE DEF c, N
<1>7. /\ st2 \in Seq(Nat) /\ Len(st2) = N + 1 /\ st2[N + 1] = C
      /\ \A m \in 1 .. N : st2[m] = st[m]
  <2>1. c \in Nat
    BY <1>5 DEF c
  <2>2. /\ Append(st, c) \in Seq(Nat) /\ Len(Append(st, c)) = N + 1 /\ Append(st, c)[N + 1] = c
        /\ \A m \in 1 .. N : Append(st, c)[m] = st[m]
    BY <2>1, <1>2 DEF N
  <2> QED BY <2>2 DEF c
<1> HIDE DEF st2
<1>8. ASSUME NEW m \in 1 .. (N + 1) PROVE st2[m] \in L /\ ~ns[st2[m]].leaf
  <2>1. CASE m = N + 1
    BY <2>1, <1>4, <1>6, <1>7
  <2>2. CASE m # N + 1
    <3>1. m \in 1 .. N
      BY <2>2, <1>2
    <3> QED BY <3>1, <1>1, <1>7 DEF Stacked, N
  <2> QED BY <2>1, <2>2
<1>9. ASSUME NEW m \in 1 .. N
      PROVE  \E i \in 1 .. Len(ns[st2[m]].children) :
                ns[st2[m]].children[i] = st2[m + 1] /\ Pending(ns[st2[m]], i) = {}
  <2>1. CASE m = N
    <3>1. st2[m] = P /\ st2[m + 1] = C
      BY <2>1, <1>2, <1>7
    <3> QED BY <3>1, <1>6
  <2>2. CASE m # N
    <3>1. m \in 1 .. (N - 1) /\ m \in 1 .. N /\ m + 1 \in 1 .. N
      BY <2>2, <1>2
    <3>2. \E i \in 1 .. Len(ns[st[m]].children) :
             ns[st[m]].children[i] = st[m + 1] /\ Pending(ns[st[m]], i) = {}
      BY <3>1, <1>1 DEF Stacked, N
    <3>3. st2[m] = st[m] /\ st2[m + 1] = st[m + 1]
      BY <3>1, <1>7
    <3> QED BY <3>2, <3>3
  <2> QED BY <2>1, <2>2
<1>10. 1 \in 1 .. N /\ (N + 1) - 1 = N
  BY <1>2
<1>11. Stacked(ns, r, L, st2)
  BY <1>2, <1>7, <1>8, <1>9, <1>10 DEF Stacked
<1>12. SoundBy(ns, r, st2, L, rk, iv)
  BY <1>1, <1>11 DEF SoundBy, BarrenOnTop
<1> QED BY <1>12 DEF st2, P

(* What a step of the cascade on node P of the stack comes to.             *)
StepSound(ns, r, ns2, r2, st2) == Sound(ns2, r2, st2) /\ SameMap(ns, r, ns2, r2)

(* st2 is the lowest n nodes of the stack.                                 *)
Bottom(st, n, st2) == /\ st2 \in Seq(Nat) /\ Len(st2) = n
                      /\ \A m \in 1 .. n : st2[m] = st[m]

(* A hollow child of the n-th node is unlinked, with all that was above    *)
(* that node on the stack.                                                 *)
LEMMA ChildRemoved ==
    ASSUME NEW ns, NEW r, NEW st, NEW L, NEW rk, NEW iv, SoundBy(ns, r, st, L, rk, iv),
           NEW n \in 1 .. Len(st), NEW j \in 1 .. Len(ns[st[n]].children),
           Pending(ns[st[n]], j) = {}, Hollow(ns[ns[st[n]].children[j]]),
           \A i \in L \ {ns[st[n]].children[j]} : ~Barren(ns[i]),
           NEW st2, Bottom(st, n, st2)
    PROVE  StepSound(ns, r, remove_child(ns, st[n], ns[st[n]].children[j]), r, st2)
<1> DEFINE P == st[n]
           C == ns[P].children[j]
           ns2 == remove_child(ns, P, C)
<1>1. Shape(ns, r, L, rk, iv) /\ ns \in Seq(AnyNode) /\ Stacked(ns, r, L, st)
  BY DEF SoundBy
<1>2. P \in L /\ ~ns[P].leaf /\ st \in Seq(Nat)
  BY <1>1 DEF Stacked
<1>3. RemoveKept(ns, r, L, rk, P, C, ns2)
  BY <1>1, <1>2, RemoveKeeps
<1>4. Parented(ns, r, L, rk, P, j)
  BY <1>1, <1>2, ChildApart
<1>5. C # P /\ L \subseteq DOMAIN ns
  BY <1>1, <1>4 DEF Parented, Shape, Tree
<1>6. \A m \in 1 .. (n - 1) : st[m] \notin {P, C}
  BY StackApart
<1>7. \A i \in L \ {C} : ~Barren(ns[i])
  OBVIOUS
<1>8. Len(st) \in Nat /\ st2 \in Seq(Nat) /\ Len(st2) = n /\ \A m \in 1 .. n : st2[m] = st[m]
  BY <1>2 DEF Bottom
<1> HIDE DEF C, P, ns2
<1>9. PICK iv2 : Shape(ns2, r, L \ {C}, rk, iv2)
  BY <1>3 DEF RemoveKept
<1>10. /\ DOMAIN ns2 = DOMAIN ns /\ ~ns2[P].leaf /\ \A i \in DOMAIN ns \ {P} : ns2[i] = ns[i]
       /\ SameMap(ns, r, ns2, r)
  BY <1>3 DEF RemoveKept
<1>11. ns2 \in Seq(AnyNode)
  <2>1. Arena(ns2)
    BY <1>9 DEF Shape
  <2> QED BY <2>1, <1>1, <1>10, SeqKept
<1>12. Stacked(ns2, r, L \ {C}, st2)
  <2>1. ASSUME NEW m \in 1 .. Len(st2) PROVE st2[m] = st[m] /\ st[m] \in L \ {C}
    <3>1. m \in 1 .. n /\ m \in 1 .. Len(st) /\ (m = n \/ m \in 1 .. (n - 1))
      BY <1>8
    <3>2. st[m] \in L /\ st2[m] = st[m]
      BY <3>1, <1>1, <1>8 DEF Stacked
    <3> QED BY <3>1, <3>2, <1>5, <1>6 DEF P
  <2>2. ASSUME NEW m \in 1 .. (Len(st2) - 1) PROVE ns2[st[m]] = ns[st[m]]
    <3>1. m \in 1 .. (n - 1) /\ m \in 1 .. Len(st)
      BY <1>8
    <3>2. st[m] \in L
      BY <3>1, <1>1 DEF Stacked
    <3> QED BY <3>1, <3>2, <1>5, <1>6, <1>10
  <2>3. ~ns2[st[Len(st2)]].leaf
    BY <1>8, <1>10 DEF P
  <2>4. Len(st2) \in 1 .. Len(st)
    BY <1>8
  <2> QED BY <1>1, <1>8, <2>1, <2>2, <2>3, <2>4, StackKept
<1>13. BarrenOnTop(ns2, L \ {C}, st2)
  <2> SUFFICES ASSUME NEW i \in L \ {C}, Barren(ns2[i]) PROVE st2 # <<>> /\ i = Last(st2)
    BY DEF BarrenOnTop
  <2>1. i = P
    BY <1>5, <1>7, <1>10
  <2>2. st2 # <<>> /\ st2[n] = st[n] /\ Last(st2) = st2[n]
    BY <1>8 DEF Last
  <2> QED BY <2>1, <2>2 DEF P
<1>14. Sound(ns2, r, st2)
  BY <1>9, <1>11, <1>12, <1>13 DEF Sound, SoundBy
<1> QED BY <1>10, <1>14 DEF StepSound, ns2, C, P

(* A child of the n-th node splits, if it has to.                          *)
LEMMA ChildIntegrated ==
    ASSUME NEW ns, NEW r, NEW st, NEW L, NEW rk, NEW iv, SoundBy(ns, r, st, L, rk, iv),
           NEW n \in 1 .. Len(st), NEW j \in 1 .. Len(ns[st[n]].children),
           \A i \in L : ~Barren(ns[i]),
           NEW st2, Bottom(st, n, st2)
    PROVE  StepSound(ns, r, Integrated(ns, st[n], ns[st[n]].children[j]), r, st2)
<1> DEFINE P == st[n]
           C == ns[P].children[j]
           ns2 == Integrated(ns, P, C)
<1>1. Shape(ns, r, L, rk, iv) /\ ns \in Seq(AnyNode) /\ Stacked(ns, r, L, st)
  BY DEF SoundBy
<1>2. P \in L /\ ~ns[P].leaf /\ st \in Seq(Nat)
  BY <1>1 DEF Stacked
<1>3. IntegrateKept(ns, r, L, P, C, ns2)
  BY <1>1, <1>2, SplitKeeps
<1>6. \A m \in 1 .. (n - 1) : st[m] \notin {P, C}
  BY StackApart
<1>8. Len(st) \in Nat /\ st2 \in Seq(Nat) /\ Len(st2) = n /\ \A m \in 1 .. n : st2[m] = st[m]
  BY <1>2 DEF Bottom
<1> HIDE DEF C, P, ns2
<1>9. PICK L2, rk2, iv2 : /\ Shape(ns2, r, L2, rk2, iv2) /\ L \subseteq L2
                          /\ \A i \in L2 : Barren(ns2[i]) => i \in L /\ Barren(ns[i])
  BY <1>3 DEF IntegrateKept
<1>10. /\ ns2 \in Seq(AnyNode) /\ SameMap(ns, r, ns2, r)
       /\ \A i \in L \ {P, C} : ns2[i] = ns[i]
       /\ ~ns2[P].leaf
  BY <1>3 DEF IntegrateKept
<1>12. Stacked(ns2, r, L2, st2)
  <2>1. ASSUME NEW m \in 1 .. Len(st2) PROVE st2[m] = st[m] /\ st[m] \in L2
    <3>1. m \in 1 .. n /\ m \in 1 .. Len(st)
      BY <1>8
    <3>2. st[m] \in L /\ st2[m] = st[m]
      BY <3>1, <1>1, <1>8 DEF Stacked
    <3> QED BY <3>2, <1>9
  <2>2. ASSUME NEW m \in 1 .. (Len(st2) - 1) PROVE ns2[st[m]] = ns[st[m]]
    <3>1. m \in 1 .. (n - 1) /\ m \in 1 .. Len(st)
      BY <1>8
    <3>2. st[m] \in L
      BY <3>1, <1>1 DEF Stacked
    <3> QED BY <3>1, <3>2, <1>6, <1>10
  <2>3. ~ns2[st[Len(st2)]].leaf
    BY <1>8, <1>10 DEF P
  <2>4. Len(st2) \in 1 .. Len(st)
    BY <1>8
  <2> QED BY <1>1, <1>8, <2>1, <2>2, <2>3, <2>4, StackKept
<1>13. BarrenOnTop(ns2, L2, st2)
  BY <1>9 DEF BarrenOnTop
<1>14. Sound(ns2, r, st2)
  BY <1>9, <1>10, <1>12, <1>13 DEF Sound, SoundBy
<1> QED BY <1>10, <1>14 DEF StepSound, ns2, C, P

(* Maps stay the same over two steps.                                      *)
LEMMA SameMapTwice ==
    ASSUME NEW ns, NEW r, NEW ns2, NEW r2, NEW ns3, NEW r3,
           SameMap(ns, r, ns2, r2), SameMap(ns2, r2, ns3, r3)
    PROVE  SameMap(ns, r, ns3, r3)
BY DEF SameMap

(* The three ways in which an iteration of flush_with ends that delivers a *)
(* batch to the j-th child of the node on top.                             *)
LEMMA Delivered ==
    ASSUME NEW ns, NEW r, NEW st, Sound(ns, r, st), st # <<>>,
           NEW P, P = Last(st), NEW j \in 1 .. Len(ns[P].children), NEW C, C = ns[P].children[j],
           NEW f, f = Flushed(ns, P, j)
    PROVE  /\ ~f[C].leaf => StepSound(ns, r, f, r, Append(st, C))
           /\ f[C].leaf /\ f[C].entries = Empty => StepSound(ns, r, remove_child(f, P, C), r, st)
           /\ StepSound(ns, r, Integrated(f, P, C), r, st)
<1>1. PICK L, rk, iv : SoundBy(ns, r, st, L, rk, iv)
  BY DEF Sound
<1>2. FlushSound(ns, r, st, L, rk, P, j)
  BY <1>1, TopFlushed
<1>3. PICK iv2 : SoundBy(f, r, st, L, rk, iv2)
  BY <1>2 DEF FlushSound
<1>4. /\ SameMap(ns, r, f, r) /\ LinksKept(ns, f) /\ Pending(f[P], j) = {}
      /\ \A i \in L : ~Barren(f[i])
  BY <1>2 DEF FlushSound
<1>5. /\ P \in L /\ ~ns[P].leaf /\ P = st[Len(st)] /\ Len(st) \in Nat /\ Len(st) >= 1
      /\ st \in Seq(Nat) /\ L \subseteq DOMAIN ns
  <2>1. L \subseteq DOMAIN ns
    BY <1>1 DEF SoundBy, Shape, Tree
  <2> QED BY <2>1, <1>1, TopNode
<1>6. f[P].children = ns[P].children
  BY <1>4, <1>5 DEF LinksKept
<1>7. j \in 1 .. Len(f[P].children) /\ f[P].children[j] = C
  BY <1>6
<1>8. /\ Len(st) \in 1 .. Len(st) /\ st[Len(st)] = P /\ Bottom(st, Len(st), st)
  BY <1>5 DEF Bottom
<1> DEFINE N == Len(st)
<1> HIDE DEF N
<1>9. /\ N \in 1 .. Len(st) /\ st[N] = P /\ Bottom(st, N, st)
      /\ j \in 1 .. Len(f[st[N]].children) /\ f[st[N]].children[j] = C
  BY <1>7, <1>8 DEF N
<1>10. ASSUME ~f[C].leaf PROVE StepSound(ns, r, f, r, Append(st, C))
  <2>1. SoundBy(f, r, Append(st, f[Last(st)].children[j]), L, rk, iv2)
    BY <1>3, <1>4, <1>7, <1>10, Pushed
  <2>2. Sound(f, r, Append(st, C))
    BY <2>1, <1>7 DEF Sound
  <2> QED BY <2>2, <1>4 DEF StepSound
<1>11. ASSUME f[C].leaf, f[C].entries = Empty PROVE StepSound(ns, r, remove_child(f, P, C), r, st)
  <2>1. Hollow(f[f[st[N]].children[j]]) /\ Pending(f[st[N]], j) = {}
    BY <1>4, <1>9, <1>11 DEF Hollow
  <2>2. StepSound(f, r, remove_child(f, st[N], f[st[N]].children[j]), r, st)
    BY <1>3, <1>4, <1>9, <2>1, ChildRemoved
  <2>3. StepSound(f, r, remove_child(f, P, C), r, st)
    BY <2>2, <1>9
  <2> QED BY <2>3, <1>4, SameMapTwice DEF StepSound
<1>12. StepSound(ns, r, Integrated(f, P, C), r, st)
  <2>2. StepSound(f, r, Integrated(f, st[N], f[st[N]].children[j]), r, st)
    BY <1>3, <1>4, <1>9, ChildIntegrated
  <2>3. StepSound(f, r, Integrated(f, P, C), r, st)
    BY <2>2, <1>9
  <2> QED BY <2>3, <1>4, SameMapTwice DEF StepSound
<1> QED BY <1>10, <1>11, <1>12

(* The node on top is done and leaves the stack.                           *)
LEMMA Settled ==
    ASSUME NEW ns, NEW r, NEW st, Sound(ns, r, st), Len(st) > 1,
           NEW P, P = Last(Front(st)), NEW C, C = Last(st)
    PROVE  /\ ns[C].children = <<>> => StepSound(ns, r, remove_child(ns, P, C), r, Front(st))
           /\ ns[C].children # <<>> => StepSound(ns, r, Integrated(ns, P, C), r, Front(st))
<1>1. PICK L, rk, iv : SoundBy(ns, r, st, L, rk, iv)
  BY DEF Sound
<1>2. st \in Seq(Nat) /\ Stacked(ns, r, L, st) /\ BarrenOnTop(ns, L, st)
  BY <1>1 DEF SoundBy, Stacked
<1>3. Len(st) \in Nat /\ st # <<>>
  BY <1>2
<1>4. C = st[Len(st)] /\ ~ns[C].leaf
  BY <1>1, <1>3, TopNode
<1> DEFINE N == Len(st) - 1
<1>5. N \in 1 .. Len(st) /\ N + 1 = Len(st) /\ N \in 1 .. (Len(st) - 1)
  BY <1>3
<1>6. Front(st) \in Seq(Nat) /\ Len(Front(st)) = N /\ \A m \in 1 .. N : Front(st)[m] = st[m]
  <2>1. Front(st) = SubSeq(st, 1, N)
    BY DEF Front
  <2>2. 1 \in 1 .. Len(st) /\ N \in 1 .. Len(st)
    BY <1>5
  <2>3. /\ SubSeq(st, 1, N) \in Seq(Nat) /\ Len(SubSeq(st, 1, N)) = N
        /\ \A m \in 1 .. N : SubSeq(st, 1, N)[m] = st[m]
    BY <1>2, <1>3, <1>5
  <2> QED BY <2>1, <2>3
<1>7. Bottom(st, N, Front(st)) /\ P = st[N]
  BY <1>5, <1>6 DEF Bottom, Last
<1>8. PICK j \in 1 .. Len(ns[st[N]].children) :
         ns[st[N]].children[j] = st[N + 1] /\ Pending(ns[st[N]], j) = {}
  BY <1>2, <1>5 DEF Stacked
<1>9. ns[st[N]].children[j] = C
  BY <1>4, <1>5, <1>8
<1> HIDE DEF N
<1>10. ASSUME ns[C].children = <<>>
       PROVE  StepSound(ns, r, remove_child(ns, P, C), r, Front(st))
  <2>1. Hollow(ns[ns[st[N]].children[j]])
    BY <1>4, <1>9, <1>10 DEF Hollow
  <2>2. \A i \in L \ {ns[st[N]].children[j]} : ~Barren(ns[i])
    BY <1>2, <1>9 DEF BarrenOnTop
  <2>3. StepSound(ns, r, remove_child(ns, st[N], ns[st[N]].children[j]), r, Front(st))
    BY <1>1, <1>5, <1>7, <1>8, <2>1, <2>2, ChildRemoved
  <2> QED BY <2>3, <1>7, <1>9
<1>11. ASSUME ns[C].children # <<>>
       PROVE  StepSound(ns, r, Integrated(ns, P, C), r, Front(st))
  <2>1. \A i \in L : ~Barren(ns[i])
    BY <1>2, <1>11 DEF BarrenOnTop, Barren
  <2>2. StepSound(ns, r, Integrated(ns, st[N], ns[st[N]].children[j]), r, Front(st))
    BY <1>1, <1>5, <1>7, <1>8, <2>1, ChildIntegrated
  <2> QED BY <2>2, <1>7, <1>9
<1> QED BY <1>10, <1>11

(* Where restore_root_with starts to flush.                                *)
StackAt(ns, r) == IF ns[r].leaf THEN <<>> ELSE <<r>>

(* A sound tree is one where a cascade can start, or a call end.           *)
LEMMA Started ==
    ASSUME NEW ns \in Seq(AnyNode), NEW r, NEW L, NEW rk, NEW iv, Shape(ns, r, L, rk, iv),
           \A i \in L : ~Barren(ns[i])
    PROVE  Sound(ns, r, StackAt(ns, r)) /\ Sound(ns, r, <<>>)
<1>1. r \in L /\ r \in DOMAIN ns /\ DOMAIN ns \subseteq Nat
  BY DEF Shape, Tree, Arena
<1>2. r \in Nat
  BY <1>1
<1>3. <<>> \in Seq(Nat) /\ Len(<<>>) = 0
  OBVIOUS
<1>4. Stacked(ns, r, L, <<>>)
  BY <1>3 DEF Stacked
<1>5. ASSUME ~ns[r].leaf PROVE Stacked(ns, r, L, <<r>>)
  <2>1. <<r>> \in Seq(Nat) /\ Len(<<r>>) = 1 /\ <<r>>[1] = r
    BY <1>2
  <2> QED BY <2>1, <1>1, <1>5 DEF Stacked
<1>6. Stacked(ns, r, L, StackAt(ns, r))
  BY <1>4, <1>5 DEF StackAt
<1> QED BY <1>4, <1>6 DEF Sound, SoundBy, BarrenOnTop

(* The flushing of the root is done, and it has children left.             *)
LEMMA NoneBarren ==
    ASSUME NEW ns, NEW r, NEW st, NEW L, NEW rk, NEW iv, SoundBy(ns, r, st, L, rk, iv),
           st # <<>> => ns[Last(st)].children # <<>>
    PROVE  \A i \in L : ~Barren(ns[i])
BY DEF SoundBy, BarrenOnTop, Barren

(* A root that splits gets a new root above its pieces.                    *)
LEMMA RootGrown ==
    ASSUME NEW ns, NEW r, NEW st, Sound(ns, r, st), st # <<>> => ns[Last(st)].children # <<>>,
           split_if_needed(ns, r).promoted # <<>>,
           NEW ns2, ns2 = Grown(ns, r), NEW R, R = Len(split_if_needed(ns, r).nodes) + 1
    PROVE  StepSound(ns, r, ns2, R, StackAt(ns2, R))
<1>1. PICK L, rk, iv : SoundBy(ns, r, st, L, rk, iv)
  BY DEF Sound
<1>2. \A i \in L : ~Barren(ns[i])
  BY <1>1, NoneBarren
<1>3. ns \in Seq(AnyNode) /\ Shape(ns, r, L, rk, iv)
  BY <1>1 DEF SoundBy
<1>4. GrowKept(ns, r, L, ns2, R)
  BY <1>3, GrowKeeps
<1>5. PICK L2, rk2, iv2 : /\ Shape(ns2, R, L2, rk2, iv2)
                          /\ \A i \in L2 : Barren(ns2[i]) => i \in L /\ Barren(ns[i])
  BY <1>4 DEF GrowKept
<1>6. ns2 \in Seq(AnyNode) /\ SameMap(ns, r, ns2, R)
  BY <1>4 DEF GrowKept
<1>7. \A i \in L2 : ~Barren(ns2[i])
  BY <1>2, <1>5
<1>8. Sound(ns2, R, StackAt(ns2, R))
  BY <1>5, <1>6, <1>7, Started
<1> QED BY <1>6, <1>8 DEF StepSound

(* The root gives way to its only child.                                   *)
LEMMA RootCollapsed ==
    ASSUME NEW ns \in Seq(AnyNode), NEW r, NEW L, NEW rk, NEW iv, Shape(ns, r, L, rk, iv),
           \A i \in L : ~Barren(ns[i]), NEW r2, r2 = Collapsed(ns, r)
    PROVE  StepSound(ns, r, ns, r2, <<>>)
<1>1. CollapseKept(ns, r, L, rk, r2)
  BY CollapseKeeps
<1>2. PICK L2, iv2 : L2 \subseteq L /\ Shape(ns, r2, L2, rk, iv2)
  BY <1>1 DEF CollapseKept
<1>3. SameMap(ns, r, ns, r2)
  BY <1>1 DEF CollapseKept
<1>4. \A i \in L2 : ~Barren(ns[i])
  BY <1>2
<1>5. Sound(ns, r2, <<>>)
  BY <1>2, <1>4, Started
<1> QED BY <1>3, <1>5 DEF StepSound

(* A call may return when its root is done.                                *)
LEMMA RootReturned ==
    ASSUME NEW ns, NEW r, NEW st, Sound(ns, r, st), st # <<>> => ns[Last(st)].children # <<>>
    PROVE  StepSound(ns, r, ns, Collapsed(ns, r), <<>>)
<1>1. PICK L, rk, iv : SoundBy(ns, r, st, L, rk, iv)
  BY DEF Sound
<1>2. \A i \in L : ~Barren(ns[i])
  BY <1>1, NoneBarren
<1>3. ns \in Seq(AnyNode) /\ Shape(ns, r, L, rk, iv)
  BY <1>1 DEF SoundBy
<1> QED BY <1>2, <1>3, RootCollapsed

(* A root without children gives way to an empty leaf.                     *)
LEMMA FreshRoot ==
    ASSUME NEW ns, NEW r, NEW ns2, NEW R, RestartKept(ns, r, ns2, R)
    PROVE  StepSound(ns, r, ns2, Collapsed(ns2, R), <<>>)
<1>1. PICK rk2, iv2 : Shape(ns2, R, {R}, rk2, iv2)
  BY DEF RestartKept
<1>2. ns2 \in Seq(AnyNode) /\ ns2[R].leaf /\ SameMap(ns, r, ns2, R)
  BY DEF RestartKept
<1>3. \A i \in {R} : ~Barren(ns2[i])
  BY <1>2 DEF Barren
<1>4. StepSound(ns2, R, ns2, Collapsed(ns2, R), <<>>)
  BY <1>1, <1>2, <1>3, RootCollapsed
<1> QED BY <1>2, <1>4, SameMapTwice DEF StepSound

(* Which is what happens when the root has lost its last child.            *)
LEMMA RootRestarted ==
    ASSUME NEW ns, NEW r, NEW st, Sound(ns, r, st), st # <<>>, Len(st) = 1,
           ns[Last(st)].children = <<>>
    PROVE  StepSound(ns, r, Append(ns, Leaf(Empty)),
                     Collapsed(Append(ns, Leaf(Empty)), Len(ns) + 1), <<>>)
<1>1. PICK L, rk, iv : SoundBy(ns, r, st, L, rk, iv)
  BY DEF Sound
<1>2. Last(st) = r /\ ~ns[r].leaf
  BY <1>1, TopNode
<1>3. ns \in Seq(AnyNode) /\ Shape(ns, r, L, rk, iv)
  BY <1>1 DEF SoundBy
<1>4. Barren(ns[r])
  BY <1>2 DEF Barren
<1>5. RestartKept(ns, r, Append(ns, Leaf(Empty)), Len(ns) + 1)
  BY <1>3, <1>4, RestartKeeps
<1> QED BY <1>5, FreshRoot

(* Between calls nothing is on the stack, and no live node is childless.   *)
LEMMA AtRest ==
    ASSUME NEW ns, NEW r, Sound(ns, r, <<>>)
    PROVE  \E L, rk, iv : /\ ns \in Seq(AnyNode) /\ Shape(ns, r, L, rk, iv)
                          /\ \A i \in L : ~Barren(ns[i])
BY DEF Sound, SoundBy, BarrenOnTop

(* drain starts from a tree at rest.                                       *)
LEMMA DrainStarted ==
    ASSUME NEW ns, NEW r, Sound(ns, r, <<>>)
    PROVE  StepSound(ns, r, ns, r, StackAt(ns, r))
BY AtRest, Started DEF StepSound, SameMap

(* A mutation has entered the root.                                        *)
MutationSound(ns, r, k, m, ns2) ==
    /\ Sound(ns2, r, StackAt(ns2, r))
    /\ \A x \in Nat : Get(ns2, r, x) = IF x = k THEN Effect(m, Get(ns, r, x)) ELSE Get(ns, r, x)

(* The tree is sound after that, and ready to be flushed.                  *)
LEMMA Entered ==
    ASSUME NEW ns, NEW r, Sound(ns, r, <<>>), NEW k \in Keys, NEW m \in MessagesOf(Nat),
           NEW ns2, ns2 = WithMessage(ns, r, k, m)
    PROVE  MutationSound(ns, r, k, m, ns2)
<1>1. PICK L, rk, iv : /\ ns \in Seq(AnyNode) /\ Shape(ns, r, L, rk, iv)
                       /\ \A i \in L : ~Barren(ns[i])
  BY AtRest
<1>2. r \in L /\ L \subseteq DOMAIN ns
  BY <1>1 DEF Shape, Tree
<1>3. RootApplied(ns, r, L, rk, k, m, ns2)
  <2>1. ~Barren(ns[r])
    BY <1>1, <1>2
  <2>2. RootApplied(ns, r, L, rk, k, m, WithMessage(ns, r, k, m))
    BY <1>1, <2>1, ApplyRoot
  <2> QED BY <2>2
<1>4. PICK iv2 : Shape(ns2, r, L, rk, iv2)
  BY <1>3 DEF RootApplied
<1>5. LinksKept(ns, ns2)
  BY <1>3 DEF RootApplied
<1>6. \A x \in Nat : Get(ns2, r, x) = IF x = k THEN Effect(m, Get(ns, r, x)) ELSE Get(ns, r, x)
  BY <1>3 DEF RootApplied
<1>7. ns2 \in Seq(AnyNode)
  <2>1. Arena(ns2) /\ DOMAIN ns2 = DOMAIN ns
    BY <1>4, <1>5 DEF Shape, LinksKept
  <2> QED BY <2>1, <1>1, SeqKept
<1>8. \A i \in L : ~Barren(ns2[i])
  BY <1>1, <1>2, <1>5 DEF Barren, LinksKept
<1>9. Sound(ns2, r, StackAt(ns2, r))
  BY <1>4, <1>7, <1>8, Started
<1> QED BY <1>6, <1>9 DEF MutationSound

(* Where dirty flags are cleared, nodes stay as they are otherwise.        *)
LEMMA CleanedNodes ==
    ASSUME NEW ns \in Seq(AnyNode), NEW D, NEW ns2,
           ns2 = [i \in DOMAIN ns |-> IF i \in D THEN [ns[i] EXCEPT !.dirty = FALSE] ELSE ns[i]]
    PROVE  /\ DOMAIN ns2 = DOMAIN ns /\ ns2 = [i \in DOMAIN ns |-> ns2[i]]
           /\ \A i \in DOMAIN ns : ns2[i] \in AnyNode /\ Alike(ns2[i], ns[i])
<1>2. DOMAIN ns2 = DOMAIN ns /\ ns2 = [i \in DOMAIN ns |-> ns2[i]]
  OBVIOUS
<1>3. ASSUME NEW i \in DOMAIN ns PROVE ns2[i] \in AnyNode /\ Alike(ns2[i], ns[i])
  <2> DEFINE n == ns[i]
             c == [n EXCEPT !.dirty = FALSE]
  <2>1. n \in AnyNode
    OBVIOUS
  <2>2. ns2[i] = n \/ ns2[i] = c
    OBVIOUS
  <2> HIDE DEF n
  <2>3. CASE n \in LeafNode
    <3>1. c \in LeafNode /\ c.leaf = n.leaf /\ c.entries = n.entries /\ n.leaf
      BY <2>3 DEF LeafNode
    <3> HIDE DEF c
    <3>2. Alike(c, n) /\ Alike(n, n)
      BY <3>1 DEF Alike
    <3>3. ns2[i] \in AnyNode /\ Alike(ns2[i], n)
      BY <2>1, <2>2, <3>1, <3>2 DEF AnyNode
    <3> QED BY <3>3 DEF n
  <2>4. CASE n \in InnerNode
    <3>1. /\ c \in InnerNode /\ c.leaf = n.leaf /\ ~n.leaf
          /\ c.pivots = n.pivots /\ c.children = n.children /\ c.buffer = n.buffer
      BY <2>4 DEF InnerNode
    <3> HIDE DEF c
    <3>2. Alike(c, n) /\ Alike(n, n)
      BY <3>1 DEF Alike
    <3>3. ns2[i] \in AnyNode /\ Alike(ns2[i], n)
      BY <2>1, <2>2, <3>1, <3>2 DEF AnyNode
    <3> QED BY <3>3 DEF n
  <2> QED BY <2>1, <2>3, <2>4 DEF AnyNode
<1> QED BY <1>2, <1>3

(* A commit clears dirty flags.                                            *)
LEMMA Cleaned ==
    ASSUME NEW ns, NEW r, Sound(ns, r, <<>>), NEW D, NEW ns2,
           ns2 = [i \in DOMAIN ns |-> IF i \in D THEN [ns[i] EXCEPT !.dirty = FALSE] ELSE ns[i]]
    PROVE  StepSound(ns, r, ns2, r, <<>>)
<1>1. PICK L, rk, iv : /\ ns \in Seq(AnyNode) /\ Shape(ns, r, L, rk, iv)
                       /\ \A i \in L : ~Barren(ns[i])
  BY AtRest
<1>2. DOMAIN ns2 = DOMAIN ns /\ ns2 = [i \in DOMAIN ns |-> ns2[i]]
  OBVIOUS
<1>3. \A i \in DOMAIN ns : ns2[i] \in AnyNode /\ Alike(ns2[i], ns[i])
  BY <1>1, CleanedNodes, ZenonT(40)
<1>4. Shape(ns2, r, L, rk, iv) /\ SameMap(ns, r, ns2, r)
  BY <1>1, <1>2, <1>3, AlikeKeeps
<1>5. ns2 \in Seq(AnyNode)
  <2>1. Arena(ns2)
    BY <1>4 DEF Shape
  <2> QED BY <2>1, <1>1, <1>2, SeqKept
<1>6. L \subseteq DOMAIN ns
  BY <1>1 DEF Shape, Tree
<1>7. \A i \in L : ~Barren(ns2[i])
  BY <1>1, <1>3, <1>6 DEF Barren, Alike
<1>8. Sound(ns2, r, <<>>)
  BY <1>4, <1>5, <1>7, Started
<1> QED BY <1>4, <1>8 DEF StepSound

-----------------------------------------------------------------------------
(* The steps of the engine                                                 *)

(* A step that changes where things are and not what get returns.          *)
Quiet == MapInv' /\ next_seq' = next_seq /\ SameMap(nodes, root, nodes', root')

(* What there is to show of a quiet step.                                  *)
LEMMA QuietIs ==
    ASSUME MapInv, next_seq' = next_seq, mode' = "rest" => flushing' = <<>>,
           StepSound(nodes, root, nodes', root', flushing')
    PROVE  Quiet
BY DEF Quiet, MapInv, StepSound

(* drain goes down to a child only when the buffer of its parent is empty. *)
LEMMA DescendQuiet == ASSUME MapInv, Descend PROVE Quiet
<1> DEFINE n == nodes[Top]
           pick == CHOOSE i \in Undrained : \A j \in Undrained : i <= j
<1>1. PICK L, rk, iv : SoundBy(nodes, root, flushing, L, rk, iv)
  BY DEF MapInv, Sound
<1>2. flushing # <<>> /\ mode # "rest" /\ Undrained # {} /\ ~(Count(n.buffer) > threshold)
  BY DEF Descend, Flushing, TopOverflows
<1>3. Undrained \subseteq DOMAIN n.children /\ mode = "drain"
      /\ \A i \in Undrained : subtree_has_messages(nodes, n.children[i])
  BY <1>2 DEF Undrained
<1>4. /\ Shape(nodes, root, L, rk, iv) /\ Arena(nodes) /\ Ranked(nodes, rk)
      /\ Top \in L /\ Top \in DOMAIN nodes /\ ~n.leaf
  BY <1>1, <1>2, TopNode DEF SoundBy, Shape, Tree, Top
<1>5. n \in InnerNode
  BY <1>4 DEF Arena, NodeOk, LeafNode
<1>6. n.children \in Seq(Nat) /\ n.buffer \in Maps(MessagesOf(Nat))
  BY <1>5 DEF InnerNode
<1>7. DOMAIN n.children = 1 .. Len(n.children) /\ Len(n.children) \in Nat
  BY <1>6
<1>8. IsFiniteSet(DOMAIN n.buffer)
  BY <1>6, MapFacts
<1>9. DOMAIN n.buffer = {}
  <2>1. Cardinality(DOMAIN n.buffer) \in Nat
    BY <1>8, FS_CardinalityType
  <2>2. ~(Cardinality(DOMAIN n.buffer) > 0)
    BY <1>2, <1>3 DEF Count, threshold
  <2>3. Cardinality(DOMAIN n.buffer) = 0
    BY <2>1, <2>2
  <2> QED BY <2>3, <1>8, FS_EmptySet
<1>10. \A i : Pending(n, i) = {}
  BY <1>9 DEF Pending
<1>11. pick \in Undrained
  <2>1. Undrained \in SUBSET Nat
    BY <1>3, <1>7
  <2>2. \E i \in Undrained : \A j \in Undrained : i <= j
    BY <2>1, <1>2, Least
  <2> QED BY <2>2, Zenon
<1> HIDE DEF pick
<1>12. pick \in 1 .. Len(n.children) /\ n.children[pick] \in DOMAIN nodes
  <2>1. pick \in 1 .. Len(n.children)
    BY <1>3, <1>7, <1>11
  <2> QED BY <2>1, <1>4 DEF Ranked
<1>13. ~nodes[n.children[pick]].leaf
  BY <1>3, <1>4, <1>11, <1>12, LeafSubtree
<1>14. \A i \in L : ~Barren(nodes[i])
  <2>1. n.children # <<>>
    BY <1>7, <1>12
  <2> QED BY <1>1, <2>1, NoneBarren DEF Top
<1>15. SoundBy(nodes, root, Append(flushing, n.children[pick]), L, rk, iv)
  <2>1. pick \in 1 .. Len(nodes[Last(flushing)].children) /\ Pending(nodes[Last(flushing)], pick) = {}
        /\ ~nodes[nodes[Last(flushing)].children[pick]].leaf
    BY <1>10, <1>12, <1>13 DEF Top
  <2>2. SoundBy(nodes, root, Append(flushing, nodes[Last(flushing)].children[pick]), L, rk, iv)
    BY <1>1, <1>2, <1>14, <2>1, Pushed
  <2> QED BY <2>2 DEF Top
<1>16. /\ flushing' = Append(flushing, n.children[pick]) /\ nodes' = nodes /\ root' = root
       /\ next_seq' = next_seq /\ mode' = mode
  BY DEF Descend, pick
<1>17. StepSound(nodes, root, nodes', root', flushing')
  <2>1. Sound(nodes', root', flushing')
    BY <1>15, <1>16 DEF Sound
  <2> QED BY <2>1, <1>16 DEF StepSound, SameMap
<1> QED BY <1>2, <1>16, <1>17, QuietIs

(* A batch goes to a child, which is then visited, unlinked, split or      *)
(* left.                                                                   *)
LEMMA DeliverQuiet ==
    ASSUME MapInv, Flushing, NEW i \in DOMAIN nodes[Top].children, Deliver(i) PROVE Quiet
<1> DEFINE P == Top
           C == nodes[P].children[i]
           f == Flushed(nodes, P, i)
<1>1. PICK L, rk, iv : SoundBy(nodes, root, flushing, L, rk, iv)
  BY DEF MapInv, Sound
<1>2. flushing # <<>> /\ mode # "rest" /\ Sound(nodes, root, flushing) /\ P = Last(flushing)
  BY DEF Flushing, MapInv, Top
<1>3. i \in 1 .. Len(nodes[P].children)
  <2>1. Arena(nodes) /\ P \in DOMAIN nodes /\ ~nodes[P].leaf
    BY <1>1, <1>2, TopNode DEF SoundBy, Shape, Tree
  <2>2. nodes[P] \in InnerNode
    BY <2>1 DEF Arena, NodeOk, LeafNode
  <2>3. nodes[P].children \in Seq(Nat)
    BY <2>2 DEF InnerNode
  <2> QED BY <2>3
<1>4. root' = root /\ next_seq' = next_seq /\ mode' = mode
  BY DEF Deliver
<1>5. \/ ~f[C].leaf /\ nodes' = f /\ flushing' = Append(flushing, C)
      \/ f[C].leaf /\ f[C].entries = Empty /\ nodes' = remove_child(f, P, C) /\ flushing' = flushing
      \/ nodes' = Integrated(f, P, C) /\ flushing' = flushing
  BY Zenon DEF Deliver, Flushed, Integrated
<1> HIDE DEF f, C, P
<1>6. /\ ~f[C].leaf => StepSound(nodes, root, f, root, Append(flushing, C))
      /\ f[C].leaf /\ f[C].entries = Empty =>
            StepSound(nodes, root, remove_child(f, P, C), root, flushing)
      /\ StepSound(nodes, root, Integrated(f, P, C), root, flushing)
  <2>1. f = Flushed(nodes, P, i) /\ C = nodes[P].children[i]
    BY DEF f, C
  <2> QED BY <2>1, <1>2, <1>3, Delivered
<1>7. StepSound(nodes, root, nodes', root', flushing')
  BY <1>4, <1>5, <1>6
<1> QED BY <1>2, <1>4, <1>7, QuietIs

(* A node that is done leaves the stack, and is unlinked or split.         *)
LEMMA SettleQuiet == ASSUME MapInv, SettleChild PROVE Quiet
<1> DEFINE P == Last(Front(flushing))
<1>1. Sound(nodes, root, flushing) /\ Len(flushing) > 1 /\ mode # "rest" /\ Top = Last(flushing)
  BY DEF MapInv, SettleChild, TopDone, Flushing, Top
<1>2. root' = root /\ next_seq' = next_seq /\ mode' = mode /\ flushing' = Front(flushing)
  BY DEF SettleChild
<1>3. \/ nodes[Top].children = <<>> /\ nodes' = remove_child(nodes, P, Top)
      \/ nodes[Top].children # <<>> /\ nodes' = Integrated(nodes, P, Top)
  BY Zenon DEF SettleChild, TopRemoved, Integrated
<1> HIDE DEF P
<1>4. /\ nodes[Top].children = <<>> =>
            StepSound(nodes, root, remove_child(nodes, P, Top), root, Front(flushing))
      /\ nodes[Top].children # <<>> =>
            StepSound(nodes, root, Integrated(nodes, P, Top), root, Front(flushing))
  <2>1. P = Last(Front(flushing))
    BY DEF P
  <2> QED BY <1>1, <2>1, Settled
<1>5. StepSound(nodes, root, nodes', root', flushing')
  BY <1>2, <1>3, <1>4
<1> QED BY <1>1, <1>2, <1>5, QuietIs

(* Every key has gone.                                                     *)
LEMMA RestartQuiet == ASSUME MapInv, RestartEmpty PROVE Quiet
<1>1. /\ Sound(nodes, root, flushing) /\ flushing # <<>> /\ Len(flushing) = 1
      /\ nodes[Last(flushing)].children = <<>>
  BY DEF MapInv, RestartEmpty, RootDone, RootRemoved, TopRemoved, Top
<1>2. /\ nodes' = Append(nodes, Leaf(Empty)) /\ flushing' = <<>> /\ next_seq' = next_seq
      /\ root' = Collapsed(Append(nodes, Leaf(Empty)), Len(nodes) + 1)
  BY DEF RestartEmpty, Finish
<1>3. StepSound(nodes, root, Append(nodes, Leaf(Empty)),
                Collapsed(Append(nodes, Leaf(Empty)), Len(nodes) + 1), <<>>)
  BY <1>1, RootRestarted
<1>4. StepSound(nodes, root, nodes', root', flushing')
  BY <1>2, <1>3
<1> QED BY <1>2, <1>4, QuietIs

(* The root splits.                                                        *)
LEMMA GrowQuiet == ASSUME MapInv, Grow PROVE Quiet
<1> DEFINE ns2 == Grown(nodes, root)
           R == Len(split_if_needed(nodes, root).nodes) + 1
<1>1. /\ Sound(nodes, root, flushing) /\ mode # "rest"
      /\ flushing # <<>> => nodes[Last(flushing)].children # <<>>
      /\ split_if_needed(nodes, root).promoted # <<>>
  BY DEF MapInv, Grow, RootDone, RootRemoved, TopRemoved, Top, RootSplit
<1>2. /\ nodes' = ns2 /\ root' = R /\ flushing' = StackAt(ns2, R)
      /\ next_seq' = next_seq /\ mode' = mode
  BY Zenon DEF Grow, Restore, Grown, RootOver, RootSplit, StackAt
<1> HIDE DEF ns2, R
<1>3. StepSound(nodes, root, ns2, R, StackAt(ns2, R))
  <2>1. ns2 = Grown(nodes, root) /\ R = Len(split_if_needed(nodes, root).nodes) + 1
    BY DEF ns2, R
  <2> QED BY <1>1, <2>1, RootGrown
<1>4. StepSound(nodes, root, nodes', root', flushing')
  BY <1>2, <1>3
<1> QED BY <1>1, <1>2, <1>4, QuietIs

(* The call returns.                                                       *)
LEMMA ReturnQuiet == ASSUME MapInv, Return PROVE Quiet
<1>1. /\ Sound(nodes, root, flushing)
      /\ flushing # <<>> => nodes[Last(flushing)].children # <<>>
  BY DEF MapInv, Return, RootRemoved, TopRemoved, Top
<1>2. /\ nodes' = nodes /\ flushing' = <<>> /\ next_seq' = next_seq
      /\ root' = Collapsed(nodes, root)
  BY DEF Return, Finish
<1>3. StepSound(nodes, root, nodes, Collapsed(nodes, root), <<>>)
  BY <1>1, RootReturned
<1>4. StepSound(nodes, root, nodes', root', flushing')
  BY <1>2, <1>3
<1> QED BY <1>2, <1>4, QuietIs

(* drain is called.                                                        *)
LEMMA DrainQuiet == ASSUME MapInv, drain PROVE Quiet
<1>1. Sound(nodes, root, <<>>)
  BY DEF MapInv, drain
<1>2. /\ nodes' = nodes /\ root' = root /\ flushing' = StackAt(nodes, root)
      /\ next_seq' = next_seq /\ mode' = "drain"
  BY DEF drain, Restore, StackAt
<1>3. StepSound(nodes, root, nodes, root, StackAt(nodes, root))
  BY <1>1, DrainStarted
<1>4. StepSound(nodes, root, nodes', root', flushing')
  BY <1>2, <1>3
<1> QED BY <1>2, <1>4, QuietIs

(* A commit clears dirty flags and nothing else.                           *)
LEMMA CommitQuiet == ASSUME MapInv, simulate_commit PROVE Quiet
<1> DEFINE ns2 == [i \in DOMAIN nodes |->
                     IF i \in DirtyWalk THEN [nodes[i] EXCEPT !.dirty = FALSE] ELSE nodes[i]]
<1>1. Sound(nodes, root, <<>>) /\ flushing = <<>>
  BY DEF MapInv, simulate_commit
<1>2. /\ nodes' = ns2 /\ root' = root /\ flushing' = flushing /\ next_seq' = next_seq
  BY DEF simulate_commit
<1>3. StepSound(nodes, root, ns2, root, <<>>)
  BY <1>1, Cleaned
<1>4. StepSound(nodes, root, nodes', root', flushing')
  BY <1>1, <1>2, <1>3
<1> QED BY <1>1, <1>2, <1>4, QuietIs

(* What a mutation does to the map, whatever its message is.               *)
Heard(k, m) == /\ MapInv' /\ next_seq' = next_seq + 1
               /\ Contents' = [Contents EXCEPT ![k] = Effect(m, Contents[k])]

(* Every mutation has the effect of its message on its key.                *)
LEMMA MutationHeard ==
    ASSUME MapInv, NEW k \in Keys, NEW m \in MessagesOf(Nat), Mutation(k, m) PROVE Heard(k, m)
<1> DEFINE ns2 == WithMessage(nodes, root, k, m)
<1>1. Sound(nodes, root, <<>>) /\ next_seq \in Nat
  BY DEF MapInv, Mutation
<1>2. /\ nodes' = ns2 /\ root' = root /\ flushing' = StackAt(ns2, root)
      /\ next_seq' = next_seq + 1 /\ mode' = "op"
  BY Zenon DEF Mutation, apply_root, Restore, WithMessage, StackAt
<1>3. MutationSound(nodes, root, k, m, ns2)
  BY <1>1, Entered
<1> HIDE DEF ns2
<1>4. MapInv'
  <2>1. Sound(nodes', root', flushing')
    BY <1>2, <1>3 DEF MutationSound
  <2>2. next_seq' \in Nat /\ mode' # "rest"
    BY <1>1, <1>2
  <2> QED BY <2>1, <2>2 DEF MapInv
<1>5. ASSUME NEW x \in Keys
      PROVE  Get(nodes', root', x) = IF x = k THEN Effect(m, Get(nodes, root, k))
                                              ELSE Get(nodes, root, x)
  <2>1. x \in Nat
    BY KeysAssumption
  <2> QED BY <2>1, <1>2, <1>3 DEF MutationSound
<1>6. Contents' = [x \in Keys |-> Get(nodes', root', x)]
  BY DEF Contents
<1>7. Contents = [x \in Keys |-> Get(nodes, root, x)]
  BY DEF Contents
<1>8. Contents' = [Contents EXCEPT ![k] = Effect(m, Contents[k])]
  BY <1>5, <1>6, <1>7
<1> QED BY <1>2, <1>4, <1>8 DEF Heard

(* insert does what the reference engine does.                             *)
LEMMA InsertHeard ==
    ASSUME MapInv, NEW k \in Keys, NEW v \in Puts, insert(k, v)
    PROVE  MapInv' /\ Kv!insert(k, v)
<1> DEFINE m == Put(next_seq + 1, v)
<1>1. m \in MessagesOf(Nat) /\ \A x : Effect(m, x) = v
  BY OpsAssumption DEF MapInv, MessagesOf, Put, Effect
<1>2. Mutation(k, m)
  BY DEF insert
<1> HIDE DEF m
<1>3. Heard(k, m)
  BY <1>1, <1>2, MutationHeard
<1> QED BY <1>1, <1>3 DEF Heard, Kv!insert, Kv!Mutation

(* delete does what the reference engine does.                             *)
LEMMA DeleteHeard ==
    ASSUME MapInv, NEW k \in Keys, delete(k)
    PROVE  MapInv' /\ Kv!delete(k)
<1> DEFINE m == Delete(next_seq + 1)
<1>1. m \in MessagesOf(Nat) /\ \A x : Effect(m, x) = NoValue
  BY DEF MapInv, MessagesOf, Delete, Effect
<1>2. Mutation(k, m)
  BY DEF delete
<1> HIDE DEF m
<1>3. Heard(k, m)
  BY <1>1, <1>2, MutationHeard
<1> QED BY <1>1, <1>3 DEF Heard, Kv!delete, Kv!Mutation

(* upsert does what the reference engine does.                             *)
LEMMA UpsertHeard ==
    ASSUME MapInv, NEW k \in Keys, NEW d \in Deltas, upsert(k, d)
    PROVE  MapInv' /\ Kv!upsert(k, d)
<1> DEFINE m == Upsert(next_seq + 1, d)
<1>1. m \in MessagesOf(Nat) /\ \A x : Effect(m, x) = apply(d, x)
  BY OpsAssumption DEF MapInv, MessagesOf, Upsert, Effect
<1>2. Mutation(k, m)
  BY DEF upsert
<1> HIDE DEF m
<1>3. Heard(k, m)
  BY <1>1, <1>2, MutationHeard
<1>4. \A x : Kv!apply(d, x) = apply(d, x)
  BY DEF Kv!apply, apply, Kv!wrapping_add, wrapping_add, Kv!Numbers, Numbers
<1>5. Contents' = [Contents EXCEPT ![k] = apply(d, Contents[k])] /\ next_seq' = next_seq + 1 /\ MapInv'
  BY <1>1, <1>3 DEF Heard
<1> QED BY <1>4, <1>5, Zenon DEF Kv!upsert, Kv!Mutation

(* A single empty leaf is an empty map.                                    *)
LEMMA StartsEmpty == ASSUME Init PROVE MapInv /\ Kv!Init
<1> DEFINE e == Leaf(Empty)
           rk == [i \in {1} |-> 0]
           iv == [i \in {1} |-> Nat]
<1>1. e \in LeafNode /\ e.leaf /\ e.entries = Empty
  BY EmptyMap DEF Leaf, LeafNode
<1>2. DOMAIN Empty = {}
  BY DEF Empty
<1>3. nodes = <<e>> /\ root = 1 /\ next_seq = 0 /\ flushing = <<>>
  BY DEF Init
<1> HIDE DEF e
<1>4. DOMAIN nodes = {1} /\ nodes[1] = e /\ nodes = [i \in DOMAIN nodes |-> nodes[i]]
  BY <1>3
<1>5. nodes \in Seq(AnyNode)
  BY <1>1, <1>3 DEF AnyNode
<1>6. Arena(nodes)
  <2>1. NodeOk(e)
    BY <1>1 DEF NodeOk
  <2> QED BY <2>1, <1>4 DEF Arena
<1>7. Ranked(nodes, rk)
  <2>1. rk \in [DOMAIN nodes -> Nat] /\ \A i \in DOMAIN nodes : i = 1 /\ rk[i] = 0
    BY <1>4
  <2>2. 0 \in Nat /\ 0 <= 0
    OBVIOUS
  <2> HIDE DEF rk
  <2> QED BY <2>1, <2>2, <1>1, <1>4 DEF Ranked
<1>8. Tree(nodes, 1, {1})
  BY <1>1, <1>4 DEF Tree
<1>9. Ranges(nodes, 1, {1}, iv)
  <2>1. iv \in [DOMAIN nodes -> SUBSET Nat] /\ iv[1] = Nat
    BY <1>4
  <2> HIDE DEF iv
  <2> QED BY <2>1, <1>1, <1>2, <1>4 DEF Ranges, HeldBy
<1>10. Shape(nodes, 1, {1}, rk, iv)
  BY <1>6, <1>7, <1>8, <1>9 DEF Shape
<1> HIDE DEF rk, iv
<1>11. Sound(nodes, 1, <<>>)
  <2>1. \A i \in {1} : ~Barren(nodes[i])
    BY <1>1, <1>4 DEF Barren
  <2> QED BY <2>1, <1>5, <1>10, Started
<1>12. MapInv
  BY <1>3, <1>11 DEF MapInv
<1>13. ASSUME NEW k \in Keys PROVE Get(nodes, root, k) = NoValue
  <2> DEFINE v == [i \in {1} |-> NoValue]
  <2>1. k \in Nat
    BY KeysAssumption
  <2>2. v \in [DOMAIN nodes -> MaybeValues] /\ v[1] = NoValue
    BY <1>4 DEF MaybeValues
  <2> HIDE DEF v
  <2>3. ValueAt(nodes[1], k, v) = NoValue
    BY <1>1, <1>2, <1>4 DEF ValueAt, ValueIn
  <2>4. Vals(nodes, k, v)
    BY <2>2, <2>3, <1>4 DEF Vals
  <2>5. Get(nodes, 1, k) = v[1]
    BY <2>1, <2>4, <1>4, <1>6, <1>7, GetIs
  <2> QED BY <2>2, <2>5, <1>3
<1>14. Kv!Init
  BY <1>3, <1>13 DEF Kv!Init, Contents
<1> QED BY <1>12, <1>14

(* What get returns for a key is the map's, and a quiet step leaves it.    *)
LEMMA QuietMap == ASSUME Quiet PROVE MapInv' /\ UNCHANGED Kv!vars
<1>1. \A k \in Keys : Get(nodes', root', k) = Get(nodes, root, k)
  BY KeysAssumption DEF Quiet, SameMap
<1>2. Contents' = Contents
  BY <1>1 DEF Contents
<1> QED BY <1>2 DEF Quiet, Kv!vars

(* Every step keeps the invariant and is a step, or none, of the map.      *)
LEMMA StepRefines ==
    ASSUME MapInv, [Next]_vars
    PROVE  MapInv' /\ [Kv!Next]_(Kv!vars)
<1>1. ASSUME NEW k \in Keys, NEW v \in Puts, insert(k, v) PROVE MapInv' /\ Kv!Next
  <2>1. v \in Kv!Values
    BY OpsAssumption DEF Kv!Values, Values, Kv!Numbers, Numbers
  <2>2. MapInv' /\ Kv!insert(k, v)
    BY <1>1, InsertHeard
  <2> QED BY <2>1, <2>2, Zenon DEF Kv!Next
<1>2. ASSUME NEW k \in Keys, delete(k) PROVE MapInv' /\ Kv!Next
  <2>2. MapInv' /\ Kv!delete(k)
    BY <1>2, DeleteHeard
  <2> QED BY <2>2, Zenon DEF Kv!Next
<1>3. ASSUME NEW k \in Keys, NEW d \in Deltas, upsert(k, d) PROVE MapInv' /\ Kv!Next
  <2>1. d \in Kv!Numbers
    BY OpsAssumption DEF Kv!Numbers, Numbers
  <2>2. MapInv' /\ Kv!upsert(k, d)
    BY <1>3, UpsertHeard
  <2> QED BY <2>1, <2>2, Zenon DEF Kv!Next
<1>4. ASSUME drain PROVE MapInv' /\ UNCHANGED Kv!vars
  BY <1>4, DrainQuiet, QuietMap
<1>5. ASSUME simulate_commit PROVE MapInv' /\ UNCHANGED Kv!vars
  BY <1>5, CommitQuiet, QuietMap
<1>6. ASSUME Cascade PROVE MapInv' /\ UNCHANGED Kv!vars
  <2>1. Quiet
    BY <1>6, DescendQuiet, DeliverQuiet, SettleQuiet, RestartQuiet, GrowQuiet, ReturnQuiet
    DEF Cascade
  <2> QED BY <2>1, QuietMap
<1>7. ASSUME UNCHANGED vars PROVE MapInv' /\ UNCHANGED Kv!vars
  BY <1>7 DEF vars, MapInv, Kv!vars, Contents
<1> QED BY <1>1, <1>2, <1>3, <1>4, <1>5, <1>6, <1>7, Zenon DEF Next

-----------------------------------------------------------------------------

(* In the middle of every cascade, too, the live nodes form a tree of even *)
(* height in which keys, pivots and messages are where routing finds them, *)
(* and the stack of flush_with is a path from the root on which nothing is *)
(* buffered for the next node.                                             *)
THEOREM TreeSound == Spec => []MapInv
<1>1. Init => MapInv
  BY StartsEmpty
<1>2. MapInv /\ [Next]_vars => MapInv'
  BY StepRefines
<1> QED BY <1>1, <1>2, PTL DEF Spec

(* The B-epsilon tree implements the reference map: a mutation takes       *)
(* effect for get in the step in which it enters the root, as the          *)
(* reference engine's call would, and no flush, split, removal, root       *)
(* change, drain or commit changes what get returns for any key.           *)
THEOREM MapImplemented == Spec => ImplementsMap
<1> DEFINE Match == \A k \in Keys : /\ \A v \in Puts : insert(k, v) => Kv!insert(k, v)
                                    /\ delete(k) => Kv!delete(k)
                                    /\ \A d \in Deltas : upsert(k, d) => Kv!upsert(k, d)
<1>1. Init => Kv!Init
  BY StartsEmpty
<1>2. MapInv /\ [Next]_vars => [Kv!Next]_(Kv!vars)
  BY StepRefines
<1>3. MapInv => Match
  BY InsertHeard, DeleteHeard, UpsertHeard
<1>4. MapInv /\ [Next]_vars => [Match]_vars
  BY <1>3
<1> HIDE DEF Match
<1>5. Spec => Kv!Spec
  BY <1>1, <1>2, TreeSound, PTL DEF Spec, Kv!Spec
<1>6. Spec => [][Match]_vars
  BY <1>4, TreeSound, PTL DEF Spec
<1>7. Spec => CallsMatch
  BY <1>6 DEF CallsMatch, Match
<1> QED BY <1>5, <1>7 DEF ImplementsMap

-----------------------------------------------------------------------------
(* drain                                                                   *)

(* A cascade has nothing on its stack only when the root is a leaf.        *)
StackStarts == mode # "rest" /\ flushing = <<>> => nodes[root].leaf

(* An iteration of restore_root_with begins with the root on the stack.    *)
LEMMA RestoreStarts ==
    ASSUME NEW ns, NEW r, Restore(ns, r) PROVE StackStarts'
<1>1. nodes' = ns /\ root' = r /\ flushing' = IF ns[r].leaf THEN <<>> ELSE <<r>>
  BY DEF Restore
<1>2. <<r>> # <<>>
  OBVIOUS
<1> QED BY <1>1, <1>2 DEF StackStarts

(* The root stays on the stack until it is done.                           *)
LEMMA StackStartsKept == ASSUME MapInv, StackStarts, [Next]_vars PROVE StackStarts'
<1>1. flushing \in Seq(Nat)
  BY DEF MapInv, Sound, SoundBy, Stacked
<1>2. ASSUME NEW k, NEW m, Mutation(k, m) PROVE StackStarts'
  BY <1>2, RestoreStarts DEF Mutation, apply_root
<1>3. ASSUME drain PROVE StackStarts'
  BY <1>3, RestoreStarts DEF drain
<1>4. ASSUME simulate_commit PROVE StackStarts'
  BY <1>4 DEF simulate_commit, StackStarts
<1>5. ASSUME Descend PROVE StackStarts'
  <2>1. \E c : flushing' = Append(flushing, c)
    BY <1>5 DEF Descend
  <2>2. flushing' # <<>>
    BY <2>1, <1>1
  <2> QED BY <2>2 DEF StackStarts
<1>6. ASSUME Flushing, NEW i, Deliver(i) PROVE StackStarts'
  <2>1. (\E c : flushing' = Append(flushing, c)) \/ flushing' = flushing
    BY <1>6, Zenon DEF Deliver
  <2>2. flushing # <<>>
    BY <1>6 DEF Flushing
  <2>3. flushing' # <<>>
    BY <2>1, <2>2, <1>1
  <2> QED BY <2>3 DEF StackStarts
<1>7. ASSUME SettleChild PROVE StackStarts'
  <2>1. flushing' = Front(flushing) /\ Len(flushing) > 1
    BY <1>7 DEF SettleChild
  <2>2. Front(flushing) = SubSeq(flushing, 1, Len(flushing) - 1)
    BY DEF Front
  <2>3. Len(flushing') = Len(flushing) - 1 /\ Len(flushing) \in Nat
    BY <2>1, <2>2, <1>1
  <2>4. flushing' # <<>>
    BY <2>1, <2>3
  <2> QED BY <2>4 DEF StackStarts
<1>8. ASSUME RestartEmpty \/ Return PROVE StackStarts'
  BY <1>8 DEF RestartEmpty, Return, Finish, StackStarts
<1>9. ASSUME Grow PROVE StackStarts'
  <2>1. \E ns, r : Restore(ns, r)
    BY <1>9, Zenon DEF Grow
  <2> QED BY <2>1, RestoreStarts
<1>10. ASSUME Cascade PROVE StackStarts'
  BY <1>5, <1>6, <1>7, <1>8, <1>9, <1>10, Zenon DEF Cascade
<1>11. ASSUME UNCHANGED vars PROVE StackStarts'
  BY <1>11 DEF vars, StackStarts
<1> QED BY <1>2, <1>3, <1>4, <1>10, <1>11, Zenon DEF Next, insert, delete, upsert

(* What is below the node to which a root gives way was below the root.    *)
LEMMA CollapsedBelow ==
    ASSUME NEW ns, NEW rk, Arena(ns), Ranked(ns, rk)
    PROVE  \A i \in DOMAIN ns : Subtree(ns, Collapsed(ns, i)) \subseteq Subtree(ns, i)
<1> DEFINE D == DOMAIN ns
           G == {i \in D : Subtree(ns, Collapsed(ns, i)) \subseteq Subtree(ns, i)}
<1>1. PICK to \in [D -> D] :
         /\ \A i \in D : to[i] = IF GivesWay(ns[i]) THEN to[ns[i].children[1]] ELSE i
         /\ \A i \in D : Collapsed(ns, i) = to[i]
  BY CollapsedIs
<1>2. \A i \in D : Subtree(ns, i) = {i} \cup UNION {Subtree(ns, c) : c \in Children(ns[i])}
  BY SubtreeIs
<1>3. rk \in [D -> Nat]
  BY DEF Ranked
<1>4. ASSUME NEW i \in D, \A c \in D : rk[c] < rk[i] => c \in G PROVE i \in G
  <2>1. CASE ~GivesWay(ns[i])
    <3>1. Collapsed(ns, i) = i
      BY <2>1, <1>1
    <3> QED BY <3>1
  <2>2. CASE GivesWay(ns[i])
    <3> DEFINE c == ns[i].children[1]
    <3>1. ~ns[i].leaf /\ Len(ns[i].children) = 1
      BY <2>2 DEF GivesWay
    <3>2. ns[i].children \in Seq(Nat)
      BY <3>1 DEF Arena, NodeOk, LeafNode, InnerNode
    <3>3. c \in Children(ns[i])
      BY <3>1, <3>2 DEF Children, Range
    <3>4. c \in D /\ rk[c] < rk[i]
      BY <3>3, ChildrenLower
    <3> HIDE DEF c
    <3>5. Collapsed(ns, i) = Collapsed(ns, c)
      <4>1. Collapsed(ns, i) = to[i] /\ Collapsed(ns, c) = to[c]
        BY <1>1, <3>4
      <4>2. to[i] = to[ns[i].children[1]]
        BY <1>1, <2>2
      <4> QED BY <4>1, <4>2 DEF c
    <3>6. Subtree(ns, Collapsed(ns, c)) \subseteq Subtree(ns, c)
      BY <3>4, <1>4
    <3>7. Subtree(ns, c) \subseteq Subtree(ns, i)
      BY <3>3, <1>2
    <3> QED BY <3>5, <3>6, <3>7
  <2> QED BY <2>1, <2>2
<1>5. \A i \in D : i \in G
  <2> HIDE DEF G, D
  <2> QED BY <1>3, <1>4, RankInduction
<1> QED BY <1>5

(* A node that buffers nothing, above children that have no messages.      *)
LEMMA NoMessages ==
    ASSUME NEW ns, NEW rk, Arena(ns), Ranked(ns, rk), NEW i \in DOMAIN ns, ~HasMessages(ns[i]),
           ~ns[i].leaf => \A j \in DOMAIN ns[i].children : ~subtree_has_messages(ns, ns[i].children[j])
    PROVE  ~subtree_has_messages(ns, i)
<1>1. Subtree(ns, i) = {i} \cup UNION {Subtree(ns, c) : c \in Children(ns[i])}
  BY SubtreeIs
<1>2. ASSUME NEW c \in Children(ns[i]) PROVE \A x \in Subtree(ns, c) : ~HasMessages(ns[x])
  <2>1. ~ns[i].leaf /\ \E j \in DOMAIN ns[i].children : c = ns[i].children[j]
    BY DEF Children, Range
  <2> QED BY <2>1 DEF subtree_has_messages
<1> QED BY <1>1, <1>2, Zenon DEF subtree_has_messages

(* drain is done with the root.                                            *)
LEMMA DrainedRoot ==
    ASSUME MapInv, StackStarts, mode = "drain", RootDone, NEW L, NEW rk, NEW iv,
           SoundBy(nodes, root, flushing, L, rk, iv)
    PROVE  ~subtree_has_messages(nodes, root)
<1>1. Arena(nodes) /\ Ranked(nodes, rk) /\ root \in DOMAIN nodes
  BY DEF SoundBy, Shape, Tree
<1>2. CASE flushing = <<>>
  <2>1. nodes[root].leaf
    BY <1>2 DEF StackStarts
  <2> QED BY <2>1, <1>1, LeafSubtree
<1>3. CASE flushing # <<>>
  <2>1. TopDone /\ Len(flushing) = 1
    BY <1>3 DEF RootDone
  <2>2. Top = root /\ ~nodes[root].leaf
    BY <1>3, <2>1, TopNode DEF Top
  <2>3. ~(Count(nodes[root].buffer) > 0) /\ Undrained = {}
    BY <2>1, <2>2 DEF TopDone, TopOverflows, threshold
  <2>4. nodes[root] \in InnerNode
    BY <1>1, <2>2 DEF Arena, NodeOk, LeafNode
  <2>5. nodes[root].buffer \in Maps(MessagesOf(Nat))
    BY <2>4 DEF InnerNode
  <2>6. IsFiniteSet(DOMAIN nodes[root].buffer) /\ nodes[root].buffer = [k \in DOMAIN nodes[root].buffer |-> nodes[root].buffer[k]]
    BY <2>5, MapFacts
  <2>7. DOMAIN nodes[root].buffer = {}
    <3>1. Cardinality(DOMAIN nodes[root].buffer) \in Nat
      BY <2>6, FS_CardinalityType
    <3>2. Cardinality(DOMAIN nodes[root].buffer) = 0
      BY <2>3, <3>1 DEF Count
    <3> QED BY <3>2, <2>6, FS_EmptySet
  <2>8. nodes[root].buffer = Empty
    BY <2>6, <2>7 DEF Empty
  <2>9. ~HasMessages(nodes[root])
    BY <2>8 DEF HasMessages
  <2>10. \A j \in DOMAIN nodes[root].children : ~subtree_has_messages(nodes, nodes[root].children[j])
    BY <2>2, <2>3 DEF Undrained
  <2> QED BY <1>1, <2>9, <2>10, NoMessages
<1> QED BY <1>2, <1>3

(* The step in which drain returns.                                        *)
LEMMA DrainReturns ==
    ASSUME MapInv, StackStarts, mode = "drain", Return
    PROVE  \A i \in Subtree(nodes', root') : ~HasMessages(nodes'[i])
<1>1. PICK L, rk, iv : SoundBy(nodes, root, flushing, L, rk, iv)
  BY DEF MapInv, Sound
<1>2. nodes' = nodes /\ root' = Collapsed(nodes, root) /\ RootDone
  BY DEF Return, Finish
<1>3. ~subtree_has_messages(nodes, root)
  BY <1>1, <1>2, DrainedRoot
<1>4. Arena(nodes) /\ Ranked(nodes, rk) /\ root \in DOMAIN nodes
  BY <1>1 DEF SoundBy, Shape, Tree
<1>5. Subtree(nodes, Collapsed(nodes, root)) \subseteq Subtree(nodes, root)
  BY <1>4, CollapsedBelow
<1> QED BY <1>2, <1>3, <1>5 DEF subtree_has_messages

(* Or in which it leaves an empty leaf.                                    *)
LEMMA DrainRestarts ==
    ASSUME MapInv, RestartEmpty
    PROVE  \A i \in Subtree(nodes', root') : ~HasMessages(nodes'[i])
<1>1. PICK L, rk, iv : SoundBy(nodes, root, flushing, L, rk, iv)
  BY DEF MapInv, Sound
<1>2. /\ flushing # <<>> /\ Len(flushing) = 1 /\ nodes[Last(flushing)].children = <<>>
      /\ nodes' = Append(nodes, Leaf(Empty)) /\ root' = Collapsed(nodes', Len(nodes) + 1)
  BY DEF RestartEmpty, RootDone, RootRemoved, TopRemoved, Top, Finish
<1>3. Last(flushing) = root /\ ~nodes[root].leaf
  BY <1>1, <1>2, TopNode
<1>4. RestartKept(nodes, root, Append(nodes, Leaf(Empty)), Len(nodes) + 1)
  <2>1. Barren(nodes[root]) /\ nodes \in Seq(AnyNode) /\ Shape(nodes, root, L, rk, iv)
    BY <1>1, <1>2, <1>3 DEF Barren, SoundBy
  <2> QED BY <2>1, RestartKeeps
<1> DEFINE R == Len(nodes) + 1
<1>5. RestartKept(nodes, root, nodes', R)
  BY <1>2, <1>4
<1> HIDE DEF R
<1>6. PICK rk2, iv2 : Shape(nodes', R, {R}, rk2, iv2)
  BY <1>5 DEF RestartKept
<1>7. Arena(nodes') /\ Ranked(nodes', rk2) /\ R \in DOMAIN nodes' /\ nodes'[R].leaf
  BY <1>5, <1>6 DEF RestartKept, Shape, Tree
<1>8. Subtree(nodes', Collapsed(nodes', R)) \subseteq Subtree(nodes', R)
  BY <1>7, CollapsedBelow
<1>9. ~subtree_has_messages(nodes', R)
  BY <1>7, LeafSubtree
<1> QED BY <1>2, <1>8, <1>9 DEF subtree_has_messages, R

(* Where drain returns, by whichever step, nothing is buffered any more.   *)
LEMMA DrainStep ==
    ASSUME MapInv, StackStarts, Next, mode = "drain", mode' = "rest"
    PROVE  \A i \in Subtree(nodes', root') : ~HasMessages(nodes'[i])
<1>1. \A k, m : ~Mutation(k, m)
  BY DEF Mutation
<1>2. ~drain /\ ~simulate_commit
  BY DEF drain, simulate_commit
<1>3. mode' # mode
  OBVIOUS
<1>4. ~Descend /\ ~SettleChild /\ ~Grow /\ \A i : ~Deliver(i)
  BY <1>3, Zenon DEF Descend, SettleChild, Grow, Deliver
<1>5. Return \/ RestartEmpty
  BY <1>1, <1>2, <1>4, Zenon DEF Next, Cascade, insert, delete, upsert
<1> QED BY <1>5, DrainReturns, DrainRestarts

(* drain leaves no message anywhere in the tree, whatever splits, removals *)
(* and root changes its own flushing set off on the way.                   *)
THEOREM DrainComplete == Spec => DrainEmpties
<1>1. Init => StackStarts
  BY DEF Init, StackStarts
<1>2. MapInv /\ StackStarts /\ [Next]_vars => StackStarts'
  BY StackStartsKept
<1>3. MapInv /\ StackStarts /\ [Next]_vars =>
         [mode = "drain" /\ mode' = "rest" =>
            \A i \in Subtree(nodes', root') : ~HasMessages(nodes'[i])]_vars
  BY DrainStep
<1> QED BY <1>1, <1>2, <1>3, TreeSound, PTL DEF Spec, DrainEmpties

-----------------------------------------------------------------------------
(* The live nodes                                                          *)

(* The nodes below node i, without i.                                      *)
Beneath(ns, i) == UNION {Subtree(ns, c) : c \in Children(ns[i])}

(* The tree below a node is the node and what is under it, all of it lower *)
(* than the node.                                                          *)
LEMMA SubtreeFacts ==
    ASSUME NEW ns, NEW rk, Arena(ns), Ranked(ns, rk)
    PROVE  \A i \in DOMAIN ns :
              /\ Subtree(ns, i) = {i} \cup Beneath(ns, i) /\ i \notin Beneath(ns, i)
              /\ \A d \in Beneath(ns, i) : d \in DOMAIN ns /\ rk[d] < rk[i]
              /\ \A d \in Subtree(ns, i) : Subtree(ns, d) \subseteq Subtree(ns, i)
              /\ \A d \in Beneath(ns, i) : Subtree(ns, d) \subseteq Beneath(ns, i)
              /\ Children(ns[i]) \subseteq Beneath(ns, i)
<1> DEFINE D == DOMAIN ns
           G == {i \in D : /\ \A d \in Subtree(ns, i) : d \in D /\ rk[d] <= rk[i]
                           /\ \A d \in Subtree(ns, i) : Subtree(ns, d) \subseteq Subtree(ns, i)}
<1>1. rk \in [D -> Nat]
  BY DEF Ranked
<1>2. \A i \in D : Subtree(ns, i) = {i} \cup Beneath(ns, i)
  BY SubtreeIs DEF Beneath
<1>3. \A i \in D : \A c \in Children(ns[i]) : c \in D /\ rk[c] < rk[i]
  BY ChildrenLower
<1>4. ASSUME NEW i \in D, \A c \in D : rk[c] < rk[i] => c \in G PROVE i \in G
  <2>1. ASSUME NEW d \in Beneath(ns, i)
        PROVE  d \in D /\ rk[d] <= rk[i] /\ Subtree(ns, d) \subseteq Subtree(ns, i)
    <3>1. PICK c \in Children(ns[i]) : d \in Subtree(ns, c)
      BY DEF Beneath
    <3>2. c \in D /\ rk[c] < rk[i] /\ c \in G
      BY <1>3, <1>4
    <3>3. d \in D /\ rk[d] <= rk[c] /\ Subtree(ns, d) \subseteq Subtree(ns, c)
      BY <3>1, <3>2
    <3>4. Subtree(ns, c) \subseteq Subtree(ns, i)
      BY <1>2 DEF Beneath
    <3>5. rk[d] <= rk[i]
      BY <3>2, <3>3, <1>1
    <3> QED BY <3>3, <3>4, <3>5
  <2>2. rk[i] <= rk[i]
    BY <1>1
  <2> QED BY <2>1, <2>2, <1>2
<1>5. \A i \in D : i \in G
  <2> HIDE DEF G, D
  <2> QED BY <1>1, <1>4, RankInduction
<1> SUFFICES ASSUME NEW i \in D
             PROVE  /\ i \notin Beneath(ns, i)
                    /\ \A d \in Beneath(ns, i) : d \in D /\ rk[d] < rk[i]
                    /\ \A d \in Beneath(ns, i) : Subtree(ns, d) \subseteq Beneath(ns, i)
                    /\ Children(ns[i]) \subseteq Beneath(ns, i)
  BY <1>2, <1>5
<1>6. ASSUME NEW d \in Beneath(ns, i)
      PROVE  d \in D /\ rk[d] < rk[i] /\ Subtree(ns, d) \subseteq Beneath(ns, i)
  <2>1. PICK c \in Children(ns[i]) : d \in Subtree(ns, c)
    BY DEF Beneath
  <2>2. c \in D /\ rk[c] < rk[i] /\ c \in G
    BY <1>3, <1>5
  <2>3. d \in D /\ rk[d] <= rk[c] /\ Subtree(ns, d) \subseteq Subtree(ns, c)
    BY <2>1, <2>2
  <2>4. rk[d] < rk[i]
    BY <2>2, <2>3, <1>1
  <2>5. Subtree(ns, c) \subseteq Beneath(ns, i)
    BY DEF Beneath
  <2> QED BY <2>3, <2>4, <2>5
<1>7. i \notin Beneath(ns, i)
  <2>1. rk[i] \in Nat /\ ~(rk[i] < rk[i])
    BY <1>1
  <2> QED BY <2>1, <1>6
<1>8. Children(ns[i]) \subseteq Beneath(ns, i)
  <2>1. \A c \in Children(ns[i]) : c \in Subtree(ns, c)
    BY <1>2, <1>3
  <2> QED BY <2>1 DEF Beneath
<1> QED BY <1>6, <1>7, <1>8

(* A set that has the children of its members has what is below them.      *)
LEMMA SubtreeWithin ==
    ASSUME NEW ns, NEW rk, Arena(ns), Ranked(ns, rk), NEW X \in SUBSET DOMAIN ns,
           \A i \in X : Children(ns[i]) \subseteq X
    PROVE  \A i \in X : Subtree(ns, i) \subseteq X
<1> DEFINE D == DOMAIN ns
           G == {i \in D : i \in X => Subtree(ns, i) \subseteq X}
<1>1. rk \in [D -> Nat]
  BY DEF Ranked
<1>2. \A i \in D : Subtree(ns, i) = {i} \cup UNION {Subtree(ns, c) : c \in Children(ns[i])}
  BY SubtreeIs
<1>3. ASSUME NEW i \in D, \A c \in D : rk[c] < rk[i] => c \in G PROVE i \in G
  <2> SUFFICES ASSUME i \in X PROVE Subtree(ns, i) \subseteq X
    OBVIOUS
  <2>1. ASSUME NEW c \in Children(ns[i]) PROVE Subtree(ns, c) \subseteq X
    <3>1. c \in D /\ rk[c] < rk[i]
      BY ChildrenLower
    <3> QED BY <3>1, <1>3
  <2> QED BY <2>1, <1>2
<1>4. \A i \in D : i \in G
  <2> HIDE DEF G, D
  <2> QED BY <1>1, <1>3, RankInduction
<1> QED BY <1>4

(* The children of a live node are live.                                   *)
LEMMA ShapeClosed ==
    ASSUME NEW ns, NEW r, NEW L, NEW rk, NEW iv, Shape(ns, r, L, rk, iv)
    PROVE  \A i \in L : Children(ns[i]) \subseteq L
<1>1. Arena(ns) /\ Ranked(ns, rk) /\ Tree(ns, r, L) /\ L \subseteq DOMAIN ns
  BY DEF Shape, Tree
<1> SUFFICES ASSUME NEW i \in L, NEW c \in Children(ns[i]) PROVE c \in L
  OBVIOUS
<1>2. ~ns[i].leaf /\ \E j \in 1 .. Len(ns[i].children) : c = ns[i].children[j]
  BY <1>1, ChildrenLower
<1> QED BY <1>1, <1>2 DEF Tree

(* The live nodes are those below the root.                                *)
LEMMA LiveIs ==
    ASSUME NEW ns, NEW r, NEW st, Sound(ns, r, st)
    PROVE  \E rk, iv : SoundBy(ns, r, st, Subtree(ns, r), rk, iv)
<1>1. PICK L, rk, iv : SoundBy(ns, r, st, L, rk, iv)
  BY DEF Sound
<1>2. /\ ns \in Seq(AnyNode) /\ Shape(ns, r, L, rk, iv) /\ Stacked(ns, r, L, st)
      /\ BarrenOnTop(ns, L, st)
  BY <1>1 DEF SoundBy
<1>3. Arena(ns) /\ Ranked(ns, rk) /\ Tree(ns, r, L) /\ Ranges(ns, r, L, iv)
  BY <1>2 DEF Shape
<1>4. L \in SUBSET DOMAIN ns /\ r \in L
  BY <1>3 DEF Tree
<1> DEFINE K == Subtree(ns, r)
<1>5. \A i \in L : Children(ns[i]) \subseteq L
  BY <1>2, ShapeClosed
<1>6. K \subseteq L
  BY <1>3, <1>4, <1>5, SubtreeWithin
<1>7. r \in K /\ \A i \in K : Children(ns[i]) \subseteq K
  <2>1. r \in DOMAIN ns
    BY <1>4
  <2>2. /\ Subtree(ns, r) = {r} \cup Beneath(ns, r)
        /\ \A d \in Subtree(ns, r) : Subtree(ns, d) \subseteq Subtree(ns, r)
    BY <2>1, <1>3, SubtreeFacts
  <2>3. \A i \in DOMAIN ns : /\ Subtree(ns, i) = {i} \cup Beneath(ns, i)
                             /\ Children(ns[i]) \subseteq Beneath(ns, i)
    BY <1>3, SubtreeFacts
  <2>4. \A i \in K : i \in DOMAIN ns
    BY <1>4, <1>6
  <2> HIDE DEF K
  <2>5. \A i \in K : Subtree(ns, i) \subseteq K
    BY <2>2 DEF K
  <2> QED BY <2>2, <2>3, <2>4, <2>5 DEF K
<1> HIDE DEF K
<1>8. ASSUME NEW i \in K, ~ns[i].leaf, NEW j \in 1 .. Len(ns[i].children)
      PROVE  ns[i].children[j] \in K
  <2>1. i \in DOMAIN ns
    BY <1>4, <1>6
  <2>2. ns[i].children \in Seq(Nat)
    BY <2>1, <1>3, <1>8 DEF Arena, NodeOk, LeafNode, InnerNode
  <2>3. ns[i].children[j] \in Children(ns[i])
    BY <2>2, <1>8 DEF Children, Range
  <2> QED BY <2>3, <1>7
<1>9. Tree(ns, r, K)
  <2>1. ASSUME NEW i \in K, ~ns[i].leaf, NEW j \in 1 .. Len(ns[i].children)
        PROVE  /\ ns[i].children[j] \in K /\ ns[i].children[j] # r
               /\ \A x \in K : ~ns[x].leaf =>
                     \A y \in 1 .. Len(ns[x].children) :
                        ns[x].children[y] = ns[i].children[j] => x = i /\ y = j
    BY <2>1, <1>3, <1>6, <1>8 DEF Tree
  <2> QED BY <2>1, <1>4, <1>6, <1>7 DEF Tree
<1>10. Ranges(ns, r, K, iv)
  BY <1>3, <1>6 DEF Ranges
<1>11. Stacked(ns, r, K, st)
  <2>1. /\ st \in Seq(Nat) /\ (st # <<>> => st[1] = r)
        /\ \A m \in 1 .. Len(st) : st[m] \in L /\ ~ns[st[m]].leaf
        /\ \A m \in 1 .. (Len(st) - 1) :
              \E j \in 1 .. Len(ns[st[m]].children) :
                 ns[st[m]].children[j] = st[m + 1] /\ Pending(ns[st[m]], j) = {}
    BY <1>2 DEF Stacked
  <2>2. Len(st) \in Nat
    BY <2>1
  <2>3. CASE Len(st) = 0
    <3>1. \A m \in 1 .. Len(st) : FALSE
      BY <2>3
    <3> QED BY <2>1, <3>1 DEF Stacked
  <2>4. CASE Len(st) # 0
    <3> DEFINE N == Len(st) - 1
               S == {m \in 0 .. N : st[m + 1] \in K}
    <3>1. N \in Nat /\ 0 \in 0 .. N /\ 0 + 1 = 1 /\ st # <<>>
      BY <2>2, <2>4
    <3>2. 0 \in S
      BY <3>1, <2>1, <1>7
    <3>3. ASSUME NEW m \in 0 .. N - 1, m \in S PROVE m + 1 \in S
      <4>1. m + 1 \in 1 .. N /\ m + 1 \in 1 .. Len(st) /\ m + 1 \in 0 .. N
        BY <2>2, <3>1
      <4>2. PICK j \in 1 .. Len(ns[st[m + 1]].children) : ns[st[m + 1]].children[j] = st[(m + 1) + 1]
        BY <4>1, <2>1
      <4>3. st[m + 1] \in K /\ ~ns[st[m + 1]].leaf
        BY <3>3, <4>1, <2>1
      <4>4. st[(m + 1) + 1] \in K
        BY <4>2, <4>3, <1>8
      <4> QED BY <4>1, <4>4
    <3>4. \A m \in 0 .. N : m \in S
      <4> HIDE DEF S, N
      <4> QED BY <3>1, <3>2, <3>3, BoundedInduction
    <3>5. ASSUME NEW m \in 1 .. Len(st) PROVE st[m] \in K
      <4>1. m - 1 \in 0 .. N /\ (m - 1) + 1 = m
        BY <2>2, <3>1
      <4>2. m - 1 \in S
        BY <4>1, <3>4
      <4> QED BY <4>1, <4>2
    <3> QED BY <2>1, <3>5 DEF Stacked
  <2> QED BY <2>3, <2>4
<1>12. BarrenOnTop(ns, K, st)
  BY <1>2, <1>6 DEF BarrenOnTop
<1>13. SoundBy(ns, r, st, K, rk, iv)
  BY <1>2, <1>3, <1>9, <1>10, <1>11, <1>12 DEF SoundBy, Shape
<1> QED BY <1>13 DEF K

-----------------------------------------------------------------------------
(* Capacities                                                              *)

(* The node is within its capacities.                                      *)
Roomy(n) == ~Overfull(n) /\ (~n.leaf => Count(n.buffer) <= BufferCapacity)

(* And it is no empty leaf.                                                *)
Tidy(n) == Roomy(n) /\ (n.leaf => n.entries # Empty)

(* Every live node is tidy that is neither on the stack nor the root.      *)
Fit(ns, r, st) == \A i \in Subtree(ns, r) \ (Range(st) \cup {r}) : Tidy(ns[i])

(* A cascade leaves nothing untidy but where it is, and the root is within *)
(* its capacities when it ends.                                            *)
FitInv == Fit(nodes, root, flushing) /\ (mode = "rest" => Roomy(nodes[root]))

(* It is enough to look at a set with the root and the children of its     *)
(* members.                                                                *)
LEMMA FitFrom ==
    ASSUME NEW ns, NEW rk, Arena(ns), Ranked(ns, rk), NEW X \in SUBSET DOMAIN ns, NEW r \in X,
           \A i \in X : Children(ns[i]) \subseteq X, NEW st,
           \A i \in X \ (Range(st) \cup {r}) : Tidy(ns[i])
    PROVE  Fit(ns, r, st)
<1>1. Subtree(ns, r) \subseteq X
  BY SubtreeWithin
<1> QED BY <1>1 DEF Fit

(* What holds no more than a node whose messages fit is a tidy piece.      *)
LEMMA PieceTidy ==
    ASSUME NEW n, NodeOk(n), NEW m, PieceOf(n, m), ~n.leaf => Count(n.buffer) <= BufferCapacity,
           n.leaf => n.entries # Empty
    PROVE  Tidy(m)
<1>1. PartlyAs(n, m) /\ ~Overfull(m) /\ (m.leaf => m.entries # Empty)
  BY DEF PieceOf, PartlyAs
<1>2. ASSUME ~m.leaf PROVE Count(m.buffer) <= BufferCapacity
  <2>1. ~n.leaf /\ DOMAIN m.buffer \subseteq DOMAIN n.buffer
    BY <1>1, <1>2 DEF PartlyAs, HeldBy
  <2>2. n.buffer \in Maps(MessagesOf(Nat))
    BY <2>1 DEF NodeOk, LeafNode, InnerNode
  <2>3. IsFiniteSet(DOMAIN n.buffer)
    BY <2>2, MapFacts
  <2>4. /\ Cardinality(DOMAIN m.buffer) <= Cardinality(DOMAIN n.buffer)
        /\ Cardinality(DOMAIN m.buffer) \in Nat /\ Cardinality(DOMAIN n.buffer) \in Nat
    BY <2>1, <2>3, FS_Subset, FS_CardinalityType
  <2>5. Cardinality(DOMAIN n.buffer) <= BufferCapacity /\ BufferCapacity \in Nat
    BY <2>1, ParamsAssumption DEF Count
  <2> QED BY <2>4, <2>5 DEF Count
<1> QED BY <1>1, <1>2 DEF Tidy, Roomy

(* A child of P splits, if it has to, and its pieces fit.                  *)
LEMMA IntegrateFits ==
    ASSUME NEW ns \in Seq(AnyNode), NEW r, NEW L, NEW rk, NEW iv, Shape(ns, r, L, rk, iv),
           NEW P \in L, ~ns[P].leaf, NEW j \in 1 .. Len(ns[P].children),
           NEW C, C = ns[P].children[j],
           ~ns[C].leaf => Count(ns[C].buffer) <= BufferCapacity,
           ns[C].leaf => ns[C].entries # Empty,
           NEW st, NEW st2, P \in Range(st2), Range(st) \subseteq Range(st2) \cup {C},
           \A i \in L \ (Range(st) \cup {r, C}) : Tidy(ns[i])
    PROVE  Fit(Integrated(ns, P, C), r, st2)
<1> DEFINE ns2 == Integrated(ns, P, C)
           new == DOMAIN ns2 \ DOMAIN ns
           X == L \cup new
<1>1. IntegrateKept(ns, r, L, P, C, ns2)
  BY SplitKeeps
<1> HIDE DEF ns2
<1>2. PICK L2, rk2, iv2 : Shape(ns2, r, L2, rk2, iv2)
  BY <1>1 DEF IntegrateKept
<1>3. IntegrateNodes(ns, P, C, ns2)
  BY <1>1 DEF IntegrateKept
<1>4. /\ DOMAIN ns \subseteq DOMAIN ns2
      /\ \A i \in DOMAIN ns \ {P, C} : ns2[i] = ns[i]
      /\ Children(ns2[P]) \subseteq Children(ns[P]) \cup new
      /\ \A i \in new \cup {C} : PieceOf(ns[C], ns2[i])
  BY <1>3 DEF IntegrateNodes
<1>5. /\ L \subseteq DOMAIN ns /\ r \in L /\ C \in L /\ Arena(ns)
  BY DEF Shape, Tree
<1>6. Arena(ns2) /\ Ranked(ns2, rk2)
  BY <1>2 DEF Shape
<1>7. \A i \in L : Children(ns[i]) \subseteq L
  BY ShapeClosed
<1> HIDE DEF new
<1>8. \A i \in new \cup {C} : Tidy(ns2[i])
  BY <1>4, <1>5, PieceTidy DEF Arena
<1>9. X \in SUBSET DOMAIN ns2 /\ r \in X
  BY <1>4, <1>5 DEF new
<1>10. \A i \in X : Children(ns2[i]) \subseteq X
  <2>1. \A i \in new \cup {C} : Children(ns2[i]) \subseteq Children(ns[C])
    BY <1>4 DEF PieceOf, PartlyAs
  <2> QED BY <2>1, <1>4, <1>5, <1>7
<1>11. \A i \in X \ (Range(st2) \cup {r}) : Tidy(ns2[i])
  BY <1>4, <1>5, <1>8
<1> HIDE DEF X
<1>12. Fit(ns2, r, st2)
  BY <1>6, <1>9, <1>10, <1>11, FitFrom
<1> QED BY <1>12 DEF ns2

(* A hollow child of P is unlinked.                                        *)
LEMMA RemoveFits ==
    ASSUME NEW ns, NEW r, NEW L, NEW rk, NEW iv, Shape(ns, r, L, rk, iv),
           NEW P \in L, ~ns[P].leaf, NEW j \in 1 .. Len(ns[P].children),
           NEW C, C = ns[P].children[j], Hollow(ns[C]), Pending(ns[P], j) = {},
           NEW st, NEW st2, P \in Range(st2), Range(st) \subseteq Range(st2) \cup {C},
           \A i \in L \ (Range(st) \cup {r, C}) : Tidy(ns[i])
    PROVE  Fit(remove_child(ns, P, C), r, st2)
<1> DEFINE ns2 == remove_child(ns, P, C)
           X == L \ {C}
<1>1. RemoveKept(ns, r, L, rk, P, C, ns2)
  BY RemoveKeeps
<1> HIDE DEF ns2
<1>2. PICK iv2 : Shape(ns2, r, X, rk, iv2)
  BY <1>1 DEF RemoveKept
<1>3. \A i \in DOMAIN ns \ {P} : ns2[i] = ns[i]
  BY <1>1 DEF RemoveKept
<1>4. /\ X \in SUBSET DOMAIN ns2 /\ r \in X /\ Arena(ns2) /\ Ranked(ns2, rk)
      /\ L \subseteq DOMAIN ns
  BY <1>2 DEF Shape, Tree
<1>5. \A i \in X : Children(ns2[i]) \subseteq X
  BY <1>2, ShapeClosed
<1>6. \A i \in X \ (Range(st2) \cup {r}) : Tidy(ns2[i])
  BY <1>3, <1>4
<1> HIDE DEF X
<1>7. Fit(ns2, r, st2)
  BY <1>4, <1>5, <1>6, FitFrom
<1> QED BY <1>7 DEF ns2

(* What is on the stack when a node is pushed on it or leaves it.          *)
LEMMA StackRange ==
    ASSUME NEW st \in Seq(Nat), st # <<>>
    PROVE  /\ Last(st) \in Range(st)
           /\ \A c \in Nat : Range(st) \subseteq Range(Append(st, c)) /\ c \in Range(Append(st, c))
           /\ Len(st) > 1 => /\ Last(Front(st)) \in Range(Front(st))
                             /\ Range(st) \subseteq Range(Front(st)) \cup {Last(st)}
           /\ Len(st) = 1 => Range(st) = {st[1]}
<1>1. Len(st) \in Nat /\ Len(st) >= 1 /\ DOMAIN st = 1 .. Len(st)
  OBVIOUS
<1>2. Last(st) = st[Len(st)]
  BY DEF Last
<1>3. Last(st) \in Range(st)
  BY <1>1, <1>2 DEF Range
<1>4. ASSUME NEW c \in Nat
      PROVE  Range(st) \subseteq Range(Append(st, c)) /\ c \in Range(Append(st, c))
  <2> DEFINE t == Append(st, c)
  <2>1. /\ DOMAIN t = 1 .. (Len(st) + 1) /\ t[Len(st) + 1] = c
        /\ \A m \in 1 .. Len(st) : t[m] = st[m]
    BY <1>1
  <2> HIDE DEF t
  <2>2. Len(st) + 1 \in DOMAIN t /\ \A m \in 1 .. Len(st) : m \in DOMAIN t
    BY <2>1, <1>1
  <2>3. Range(st) \subseteq Range(t) /\ c \in Range(t)
    BY <2>1, <2>2, <1>1 DEF Range
  <2> QED BY <2>3 DEF t
<1>5. ASSUME Len(st) > 1
      PROVE  /\ Last(Front(st)) \in Range(Front(st))
             /\ Range(st) \subseteq Range(Front(st)) \cup {Last(st)}
  <2> DEFINE N == Len(st) - 1
             t == Front(st)
  <2>1. N \in Nat /\ N >= 1 /\ N \in 1 .. N
    BY <1>1, <1>5
  <2>2. t = SubSeq(st, 1, N)
    BY DEF Front
  <2>3. DOMAIN t = 1 .. N /\ Len(t) = N /\ \A m \in 1 .. N : t[m] = st[m]
    BY <2>1, <2>2, <1>1
  <2>4. Last(t) = t[N]
    BY <2>3 DEF Last
  <2>5. ASSUME NEW m \in 1 .. Len(st), m # Len(st) PROVE m \in 1 .. N
    <3>1. \A a \in Nat : \A x \in 1 .. a : x # a => x \in 1 .. (a - 1)
      OBVIOUS
    <3> QED BY <1>1, <2>5, <3>1
  <2> HIDE DEF t, N
  <2>6. Last(t) \in Range(t)
    BY <2>1, <2>3, <2>4 DEF Range
  <2>7. Range(st) \subseteq Range(t) \cup {Last(st)}
    BY <2>3, <2>5, <1>1, <1>2 DEF Range
  <2> QED BY <2>6, <2>7 DEF t
<1>6. ASSUME Len(st) = 1 PROVE Range(st) = {st[1]}
  <2>1. DOMAIN st = {1}
    BY <1>1, <1>6
  <2> QED BY <2>1 DEF Range
<1> QED BY <1>3, <1>4, <1>5, <1>6

(* A flush changes only nodes that are on the stack and the child.         *)
LEMMA FlushFits ==
    ASSUME NEW ns, NEW r, NEW st, NEW L, NEW rk, NEW iv, SoundBy(ns, r, st, L, rk, iv),
           st # <<>>, NEW P, P = Last(st), NEW j \in 1 .. Len(ns[P].children),
           NEW C, C = ns[P].children[j],
           \A i \in L \ (Range(st) \cup {r}) : Tidy(ns[i])
    PROVE  \A i \in L \ (Range(st) \cup {r, C}) : Tidy(Flushed(ns, P, j)[i])
<1>1. P \in L /\ ~ns[P].leaf /\ st \in Seq(Nat)
  BY TopNode
<1>2. Shape(ns, r, L, rk, iv) /\ Arena(ns) /\ L \subseteq DOMAIN ns
  BY DEF SoundBy, Shape, Tree
<1>3. Parented(ns, r, L, rk, P, j)
  BY <1>1, <1>2, ChildApart
<1>4. ns[P] \in InnerNode /\ C \in DOMAIN ns /\ C # P
  BY <1>3 DEF Parented
<1>5. \A i \in DOMAIN ns \ {P, C} : Flushed(ns, P, j)[i] = ns[i]
  BY <1>1, <1>2, <1>4, FlushedNodes
<1>6. P \in Range(st)
  BY <1>1, StackRange
<1> QED BY <1>2, <1>5, <1>6

(* A cascade leaves the node it delivers to tidy, or goes on there.        *)
LEMMA DeliverFits ==
    ASSUME NEW ns, NEW r, NEW st, Sound(ns, r, st), Fit(ns, r, st), st # <<>>,
           NEW P, P = Last(st), NEW j \in 1 .. Len(ns[P].children), NEW C, C = ns[P].children[j],
           NEW f, f = Flushed(ns, P, j)
    PROVE  /\ Fit(f, r, Append(st, C))
           /\ f[C].leaf /\ f[C].entries = Empty => Fit(remove_child(f, P, C), r, st)
           /\ /\ ~f[C].leaf => Count(f[C].buffer) <= BufferCapacity
              /\ f[C].leaf => f[C].entries # Empty
              => Fit(Integrated(f, P, C), r, st)
<1> DEFINE L == Subtree(ns, r)
<1>1. PICK rk, iv : SoundBy(ns, r, st, L, rk, iv)
  BY LiveIs
<1>2. \A i \in L \ (Range(st) \cup {r}) : Tidy(ns[i])
  BY DEF Fit
<1> HIDE DEF L
<1>3. \A i \in L \ (Range(st) \cup {r, C}) : Tidy(f[i])
  BY <1>1, <1>2, FlushFits
<1>4. FlushSound(ns, r, st, L, rk, P, j)
  BY <1>1, TopFlushed
<1>5. PICK iv2 : SoundBy(f, r, st, L, rk, iv2)
  BY <1>4 DEF FlushSound
<1>6. LinksKept(ns, f) /\ Pending(f[P], j) = {}
  BY <1>4 DEF FlushSound
<1>7. P \in L /\ ~ns[P].leaf /\ st \in Seq(Nat)
  BY <1>1, TopNode
<1>8. Shape(ns, r, L, rk, iv) /\ Arena(ns) /\ L \subseteq DOMAIN ns
  BY <1>1 DEF SoundBy, Shape, Tree
<1>9. Parented(ns, r, L, rk, P, j)
  BY <1>7, <1>8, ChildApart
<1>10. C \in L /\ C \in Nat
  BY <1>8, <1>9 DEF Parented, Arena
<1>11. ~f[P].leaf /\ f[P].children = ns[P].children
  BY <1>6, <1>7, <1>8 DEF LinksKept
<1>12. /\ f \in Seq(AnyNode) /\ Shape(f, r, L, rk, iv2) /\ Arena(f) /\ Ranked(f, rk)
       /\ L \in SUBSET DOMAIN f /\ r \in L
  BY <1>5 DEF SoundBy, Shape, Tree
<1>13. P \in Range(st) /\ Range(st) \subseteq Range(Append(st, C)) /\ C \in Range(Append(st, C))
  BY <1>7, <1>10, StackRange
<1>14. Fit(f, r, Append(st, C))
  <2>1. \A i \in L : Children(f[i]) \subseteq L
    BY <1>12, ShapeClosed
  <2>2. \A i \in L \ (Range(Append(st, C)) \cup {r}) : Tidy(f[i])
    BY <1>3, <1>13
  <2> QED BY <2>1, <2>2, <1>12, FitFrom
<1>15. Range(st) \subseteq Range(st) \cup {C} /\ C = f[P].children[j] /\ j \in 1 .. Len(f[P].children)
  BY <1>11
<1>16. ASSUME f[C].leaf, f[C].entries = Empty PROVE Fit(remove_child(f, P, C), r, st)
  <2>1. Hollow(f[C])
    BY <1>16 DEF Hollow
  <2> QED BY <2>1, <1>3, <1>6, <1>7, <1>11, <1>12, <1>13, <1>15, RemoveFits
<1>17. ASSUME ~f[C].leaf => Count(f[C].buffer) <= BufferCapacity,
              f[C].leaf => f[C].entries # Empty
       PROVE  Fit(Integrated(f, P, C), r, st)
  BY <1>3, <1>7, <1>11, <1>12, <1>13, <1>15, <1>17, IntegrateFits, ZenonT(40)
<1> QED BY <1>14, <1>16, <1>17

(* A node that leaves the stack is unlinked or left tidy.                  *)
LEMMA SettleFits ==
    ASSUME NEW ns, NEW r, NEW st, Sound(ns, r, st), Fit(ns, r, st), Len(st) > 1,
           NEW P, P = Last(Front(st)), NEW C, C = Last(st),
           Count(ns[C].buffer) <= BufferCapacity
    PROVE  /\ ns[C].children = <<>> => Fit(remove_child(ns, P, C), r, Front(st))
           /\ Fit(Integrated(ns, P, C), r, Front(st))
<1> DEFINE L == Subtree(ns, r)
           N == Len(st) - 1
<1>1. PICK rk, iv : SoundBy(ns, r, st, L, rk, iv)
  BY LiveIs
<1>2. \A i \in L \ (Range(st) \cup {r}) : Tidy(ns[i])
  BY DEF Fit
<1> HIDE DEF L
<1>3. st \in Seq(Nat) /\ Stacked(ns, r, L, st)
  BY <1>1 DEF SoundBy, Stacked
<1>4. Len(st) \in Nat /\ st # <<>> /\ N \in 1 .. Len(st) /\ N + 1 = Len(st) /\ N \in 1 .. (Len(st) - 1)
  BY <1>3
<1>5. C = st[N + 1] /\ ~ns[C].leaf
  BY <1>1, <1>4, TopNode
<1>6. P = st[N]
  <2>1. Front(st) = SubSeq(st, 1, N)
    BY DEF Front
  <2>2. Len(SubSeq(st, 1, N)) = N /\ SubSeq(st, 1, N)[N] = st[N]
    BY <1>3, <1>4
  <2> HIDE DEF N
  <2> QED BY <2>1, <2>2 DEF Last
<1> HIDE DEF N
<1>7. P \in L /\ ~ns[P].leaf
  BY <1>3, <1>4, <1>6 DEF Stacked
<1>8. PICK j \in 1 .. Len(ns[P].children) : ns[P].children[j] = C /\ Pending(ns[P], j) = {}
  <2>1. \E j \in 1 .. Len(ns[st[N]].children) :
           ns[st[N]].children[j] = st[N + 1] /\ Pending(ns[st[N]], j) = {}
    BY <1>3, <1>4 DEF Stacked, N
  <2> QED BY <2>1, <1>5, <1>6
<1>9. ns \in Seq(AnyNode) /\ Shape(ns, r, L, rk, iv)
  BY <1>1 DEF SoundBy
<1>10. P \in Range(Front(st)) /\ Range(st) \subseteq Range(Front(st)) \cup {C}
  BY <1>3, <1>4, StackRange
<1>11. \A i \in L \ (Range(st) \cup {r, C}) : Tidy(ns[i])
  BY <1>2
<1>12. ASSUME ns[C].children = <<>> PROVE Fit(remove_child(ns, P, C), r, Front(st))
  <2>1. Hollow(ns[C])
    BY <1>5, <1>12 DEF Hollow
  <2> QED BY <2>1, <1>7, <1>8, <1>9, <1>10, <1>11, RemoveFits
<1>13. Fit(Integrated(ns, P, C), r, Front(st))
  BY <1>5, <1>7, <1>8, <1>9, <1>10, <1>11, IntegrateFits
<1> QED BY <1>12, <1>13

(* A node that split_if_needed leaves alone is not overfull.               *)
LEMMA NothingPromoted ==
    ASSUME NEW ns \in Seq(AnyNode), Arena(ns), NEW i \in DOMAIN ns,
           split_if_needed(ns, i).promoted = <<>>
    PROVE  ~Overfull(ns[i])
<1> SUFFICES ASSUME Overfull(ns[i]) PROVE FALSE
  OBVIOUS
<1>1. NodeOk(ns[i])
  BY DEF Arena
<1>2. PICK M, rest, piece, sep, cut : CutInto(ns, i, M, rest, piece, sep, cut)
  BY <1>1, SplitIs
<1>3. /\ M \in Nat /\ M >= 2 /\ DOMAIN sep = 1 .. (M - 1)
      /\ split_if_needed(ns, i) = Split(ns, i, piece, sep)
  BY <1>2 DEF CutInto, Cuts
<1>4. split_if_needed(ns, i).promoted = [t \in 1 .. (M - 1) |-> <<sep[t], Len(ns) + t>>]
  <2>1. Split(ns, i, piece, sep).promoted = [t \in DOMAIN sep |-> <<sep[t], Len(ns) + t>>]
    BY Zenon DEF Split
  <2> QED BY <1>3, <2>1
<1>5. 1 \in 1 .. (M - 1) /\ DOMAIN <<>> = {}
  BY <1>3
<1> QED BY <1>4, <1>5

(* The root splits, and its pieces fit.                                    *)
LEMMA GrowFits ==
    ASSUME NEW ns, NEW r, NEW st, Sound(ns, r, st), Fit(ns, r, st), Range(st) \subseteq {r},
           split_if_needed(ns, r).promoted # <<>>,
           ~ns[r].leaf => Count(ns[r].buffer) <= BufferCapacity,
           NEW ns2, ns2 = Grown(ns, r), NEW R, R = Len(split_if_needed(ns, r).nodes) + 1, NEW st2
    PROVE  Fit(ns2, R, st2)
<1> DEFINE L == Subtree(ns, r)
           new == PieceIds(ns, ns2, R)
           X == L \cup new \cup {R}
<1>1. PICK rk, iv : SoundBy(ns, r, st, L, rk, iv)
  BY LiveIs
<1>2. \A i \in L \ {r} : Tidy(ns[i])
  BY DEF Fit
<1> HIDE DEF L
<1>3. /\ ns \in Seq(AnyNode) /\ Shape(ns, r, L, rk, iv) /\ Arena(ns) /\ r \in L
      /\ L \subseteq DOMAIN ns
  BY <1>1 DEF SoundBy, Shape, Tree
<1>4. GrowKept(ns, r, L, ns2, R)
  BY <1>3, GrowKeeps
<1>5. PICK L2, rk2, iv2 : Shape(ns2, R, L2, rk2, iv2)
  BY <1>4 DEF GrowKept
<1>6. Arena(ns2) /\ Ranked(ns2, rk2)
  BY <1>5 DEF Shape
<1>7. GrowNodes(ns, r, ns2, R)
  BY <1>4 DEF GrowKept
<1>8. /\ R \notin DOMAIN ns /\ DOMAIN ns \cup {R} \subseteq DOMAIN ns2
      /\ \A i \in DOMAIN ns \ {r} : ns2[i] = ns[i]
      /\ Children(ns2[R]) \subseteq {r} \cup new
      /\ \A i \in {r} \cup new : PieceOf(ns[r], ns2[i])
  BY <1>7 DEF GrowNodes
<1>9. new \subseteq DOMAIN ns2
  BY DEF PieceIds
<1>10. ns[r].leaf => ns[r].entries # Empty
  <2> SUFFICES ASSUME ns[r].leaf, ns[r].entries = Empty PROVE FALSE
    OBVIOUS
  <2>1. Count(ns[r].entries) = 0
    BY FS_EmptySet DEF Count, Empty
  <2>2. ~Overfull(ns[r])
    BY <2>1, ParamsAssumption DEF Overfull
  <2> QED BY <2>2, Zenon DEF split_if_needed
<1> HIDE DEF new
<1>11. \A i \in {r} \cup new : Tidy(ns2[i])
  BY <1>3, <1>8, <1>10, PieceTidy DEF Arena
<1>12. X \in SUBSET DOMAIN ns2 /\ R \in X
  BY <1>3, <1>8, <1>9
<1>13. \A i \in X : Children(ns2[i]) \subseteq X
  <2>1. \A i \in L : Children(ns[i]) \subseteq L
    BY <1>3, ShapeClosed
  <2>2. \A i \in {r} \cup new : Children(ns2[i]) \subseteq Children(ns[r])
    BY <1>8 DEF PieceOf, PartlyAs
  <2> QED BY <2>1, <2>2, <1>3, <1>8
<1>14. \A i \in X \ (Range(st2) \cup {R}) : Tidy(ns2[i])
  BY <1>2, <1>3, <1>8, <1>11
<1> HIDE DEF X
<1> QED BY <1>6, <1>12, <1>13, <1>14, FitFrom

(* The call returns: everything fits.                                      *)
LEMMA ReturnFits ==
    ASSUME NEW ns, NEW r, NEW st, Sound(ns, r, st), Fit(ns, r, st), Range(st) \subseteq {r},
           split_if_needed(ns, r).promoted = <<>>,
           ~ns[r].leaf => Count(ns[r].buffer) <= BufferCapacity,
           NEW r2, r2 = Collapsed(ns, r)
    PROVE  Fit(ns, r2, <<>>) /\ Roomy(ns[r2])
<1> DEFINE L == Subtree(ns, r)
<1>1. PICK rk, iv : SoundBy(ns, r, st, L, rk, iv)
  BY LiveIs
<1>2. /\ ns \in Seq(AnyNode) /\ Shape(ns, r, L, rk, iv) /\ Arena(ns) /\ Ranked(ns, rk)
      /\ r \in DOMAIN ns
  BY <1>1 DEF SoundBy, Shape, Tree
<1>3. Roomy(ns[r])
  BY <1>2, NothingPromoted DEF Roomy
<1>4. \A i \in L \ {r} : Tidy(ns[i])
  BY DEF Fit
<1>5. Subtree(ns, r2) \subseteq L /\ r2 \in Subtree(ns, r2)
  <2>1. Subtree(ns, r2) \subseteq L
    BY <1>2, CollapsedBelow
  <2>2. PICK to \in [DOMAIN ns -> DOMAIN ns] : \A i \in DOMAIN ns : Collapsed(ns, i) = to[i]
    BY <1>2, CollapsedIs
  <2>3. r2 \in DOMAIN ns
    BY <1>2, <2>2
  <2>4. Subtree(ns, r2) = {r2} \cup Beneath(ns, r2)
    BY <1>2, <2>3, SubtreeFacts
  <2> QED BY <2>1, <2>4
<1>6. L = {r} \cup Beneath(ns, r)
  BY <1>2, SubtreeFacts
<1>7. ns[r].leaf => L = {r}
  BY <1>6 DEF Beneath, Children
<1> HIDE DEF L
<1>8. ASSUME NEW i \in Subtree(ns, r2), i # r2 PROVE Tidy(ns[i])
  <2>1. CASE ns[r].leaf
    BY <2>1, <1>5, <1>7, <1>8
  <2>2. CASE ~ns[r].leaf
    BY <2>2, <1>3, <1>4, <1>5, <1>8 DEF Tidy
  <2> QED BY <2>1, <2>2
<1>9. Roomy(ns[r2])
  BY <1>3, <1>4, <1>5 DEF Tidy
<1> QED BY <1>8, <1>9 DEF Fit

(* A single empty leaf fits.                                               *)
LEMMA LeafFits ==
    ASSUME NEW ns, NEW rk, Arena(ns), Ranked(ns, rk), NEW R \in DOMAIN ns, ns[R] = Leaf(Empty),
           NEW r2, r2 = Collapsed(ns, R)
    PROVE  Fit(ns, r2, <<>>) /\ Roomy(ns[r2])
<1>1. ns[R].leaf /\ ns[R].entries = Empty
  BY DEF Leaf
<1>2. Count(Empty) = 0
  BY FS_EmptySet DEF Count, Empty
<1>3. Roomy(ns[R])
  BY <1>1, <1>2, ParamsAssumption DEF Roomy, Overfull
<1>4. Subtree(ns, R) = {R} \cup Beneath(ns, R)
  BY SubtreeFacts
<1>5. Subtree(ns, R) = {R}
  BY <1>1, <1>4 DEF Beneath, Children
<1>6. PICK to \in [DOMAIN ns -> DOMAIN ns] :
         /\ \A i \in DOMAIN ns : to[i] = IF GivesWay(ns[i]) THEN to[ns[i].children[1]] ELSE i
         /\ \A i \in DOMAIN ns : Collapsed(ns, i) = to[i]
  BY CollapsedIs
<1>7. r2 = R
  BY <1>1, <1>6 DEF GivesWay
<1> QED BY <1>3, <1>5, <1>7 DEF Fit

(* Of ns, ns2 is left when a message has entered the root.                 *)
EnteredAs(ns, r, L, rk, k, m, ns2) ==
    /\ \E iv2 : Shape(ns2, r, L, rk, iv2)
    /\ \A i \in L \ {r} : ns2[i] = ns[i]
    /\ ns2[r] = Applied(ns[r], [key \in {k} |-> m])
    /\ LinksKept(ns, ns2)

(* A mutation changes the root only.                                       *)
LEMMA EnteredNodes ==
    ASSUME NEW ns, NEW r, NEW L, NEW rk, NEW iv, Shape(ns, r, L, rk, iv),
           ~Barren(ns[r]), NEW k \in Keys, NEW m \in MessagesOf(Nat),
           NEW ns2, ns2 = WithMessage(ns, r, k, m)
    PROVE  EnteredAs(ns, r, L, rk, k, m, ns2)
<1>1. RootApplied(ns, r, L, rk, k, m, WithMessage(ns, r, k, m))
  BY ApplyRoot
<1>2. (\E iv2 : Shape(ns2, r, L, rk, iv2)) /\ LinksKept(ns, ns2)
  BY <1>1 DEF RootApplied
<1>3. ns2 = [ns EXCEPT ![r] = Applied(ns[r], [key \in {k} |-> m])]
  BY DEF WithMessage, apply_batch, Applied
<1>4. L \subseteq DOMAIN ns /\ r \in DOMAIN ns
  BY DEF Shape, Tree
<1> QED BY <1>2, <1>3, <1>4 DEF EnteredAs

(* A mutation may leave the root too full, and nothing else.               *)
LEMMA EnterFits ==
    ASSUME NEW ns, NEW r, Sound(ns, r, <<>>), Fit(ns, r, <<>>), NEW k \in Keys,
           NEW m \in MessagesOf(Nat), NEW ns2, ns2 = WithMessage(ns, r, k, m), NEW st2
    PROVE  Fit(ns2, r, st2)
<1> DEFINE L == Subtree(ns, r)
<1>1. PICK rk, iv : SoundBy(ns, r, <<>>, L, rk, iv)
  BY LiveIs
<1>2. \A i \in L \ {r} : Tidy(ns[i])
  BY DEF Fit, Range
<1> HIDE DEF L
<1>3. Shape(ns, r, L, rk, iv) /\ r \in L /\ ~Barren(ns[r])
  BY <1>1 DEF SoundBy, Shape, Tree, BarrenOnTop
<1>4. EnteredAs(ns, r, L, rk, k, m, ns2)
  BY <1>3, EnteredNodes
<1>5. PICK iv2 : Shape(ns2, r, L, rk, iv2)
  BY <1>4 DEF EnteredAs
<1>6. /\ L \in SUBSET DOMAIN ns2 /\ Arena(ns2) /\ Ranked(ns2, rk)
      /\ \A i \in L : Children(ns2[i]) \subseteq L
  <2>1. \A i \in L : Children(ns2[i]) \subseteq L
    BY <1>5, ShapeClosed
  <2> QED BY <2>1, <1>5 DEF Shape, Tree
<1>7. \A i \in L \ (Range(st2) \cup {r}) : Tidy(ns2[i])
  BY <1>2, <1>4 DEF EnteredAs
<1> QED BY <1>3, <1>6, <1>7, FitFrom

(* A commit leaves the sizes of nodes alone.                               *)
LEMMA CleanFits ==
    ASSUME NEW ns, NEW r, Sound(ns, r, <<>>), Fit(ns, r, <<>>), Roomy(ns[r]), NEW D, NEW ns2,
           ns2 = [i \in DOMAIN ns |-> IF i \in D THEN [ns[i] EXCEPT !.dirty = FALSE] ELSE ns[i]]
    PROVE  Fit(ns2, r, <<>>) /\ Roomy(ns2[r])
<1> DEFINE L == Subtree(ns, r)
<1>1. PICK rk, iv : SoundBy(ns, r, <<>>, L, rk, iv)
  BY LiveIs
<1>2. \A i \in L \ {r} : Tidy(ns[i])
  BY DEF Fit, Range
<1> HIDE DEF L
<1>3. ns \in Seq(AnyNode) /\ Shape(ns, r, L, rk, iv) /\ r \in L /\ L \subseteq DOMAIN ns
  BY <1>1 DEF SoundBy, Shape, Tree
<1>4. /\ DOMAIN ns2 = DOMAIN ns /\ ns2 = [i \in DOMAIN ns |-> ns2[i]]
      /\ \A i \in DOMAIN ns : ns2[i] \in AnyNode /\ Alike(ns2[i], ns[i])
  BY <1>3, CleanedNodes
<1>5. Shape(ns2, r, L, rk, iv)
  BY <1>3, <1>4, AlikeKeeps
<1>6. /\ L \in SUBSET DOMAIN ns2 /\ Arena(ns2) /\ Ranked(ns2, rk)
      /\ \A i \in L : Children(ns2[i]) \subseteq L
  <2>1. \A i \in L : Children(ns2[i]) \subseteq L
    BY <1>5, ShapeClosed
  <2> QED BY <2>1, <1>5 DEF Shape, Tree
<1>7. ASSUME NEW i \in L PROVE (Roomy(ns[i]) => Roomy(ns2[i])) /\ (Tidy(ns[i]) => Tidy(ns2[i]))
  <2>1. Alike(ns2[i], ns[i])
    BY <1>3, <1>4
  <2> QED BY <2>1 DEF Alike, Tidy, Roomy, Overfull
<1>8. \A i \in L \ (Range(<<>>) \cup {r}) : Tidy(ns2[i])
  BY <1>2, <1>7
<1>9. Fit(ns2, r, <<>>)
  BY <1>3, <1>6, <1>8, FitFrom
<1> QED BY <1>3, <1>7, <1>9

(* The steps there are; a mutation brings a message with the next seqno.   *)
LEMMA StepIs ==
    ASSUME MapInv, [Next]_vars
    PROVE  \/ \E k \in Keys, m \in MessagesOf(Nat) : m.seq = next_seq + 1 /\ Mutation(k, m)
           \/ drain \/ simulate_commit \/ Cascade \/ UNCHANGED vars
<1>1. next_seq + 1 \in Nat
  BY DEF MapInv
<1>2. ASSUME NEW k \in Keys, NEW v \in Puts, insert(k, v)
      PROVE  \E m \in MessagesOf(Nat) : m.seq = next_seq + 1 /\ Mutation(k, m)
  <2>1. Put(next_seq + 1, v) \in MessagesOf(Nat) /\ Put(next_seq + 1, v).seq = next_seq + 1
    BY <1>1, OpsAssumption DEF MessagesOf, Put
  <2> QED BY <1>2, <2>1 DEF insert
<1>3. ASSUME NEW k \in Keys, delete(k)
      PROVE  \E m \in MessagesOf(Nat) : m.seq = next_seq + 1 /\ Mutation(k, m)
  <2>1. Delete(next_seq + 1) \in MessagesOf(Nat) /\ Delete(next_seq + 1).seq = next_seq + 1
    BY <1>1 DEF MessagesOf, Delete
  <2> QED BY <1>3, <2>1 DEF delete
<1>4. ASSUME NEW k \in Keys, NEW d \in Deltas, upsert(k, d)
      PROVE  \E m \in MessagesOf(Nat) : m.seq = next_seq + 1 /\ Mutation(k, m)
  <2>1. Upsert(next_seq + 1, d) \in MessagesOf(Nat) /\ Upsert(next_seq + 1, d).seq = next_seq + 1
    BY <1>1, OpsAssumption DEF MessagesOf, Upsert
  <2> QED BY <1>4, <2>1 DEF upsert
<1> QED BY <1>2, <1>3, <1>4, Zenon DEF Next

(* What flush_with tolerates in a buffer is within the capacity.           *)
LEMMA ThresholdFits ==
    ASSUME NEW x \in Nat, ~(x > threshold) PROVE x <= BufferCapacity
BY ParamsAssumption DEF threshold

(* The size of the buffer of a live internal node is a number.             *)
LEMMA BufferSize ==
    ASSUME NEW ns, Arena(ns), NEW i \in DOMAIN ns, ~ns[i].leaf
    PROVE  Count(ns[i].buffer) \in Nat
<1>1. ns[i].buffer \in Maps(MessagesOf(Nat))
  BY DEF Arena, NodeOk, LeafNode, InnerNode
<1>2. IsFiniteSet(DOMAIN ns[i].buffer)
  BY <1>1, MapFacts
<1> QED BY <1>2, FS_CardinalityType DEF Count

(* A step of flush_with that delivers.                                     *)
LEMMA DeliverStep ==
    ASSUME MapInv, FitInv, Flushing, NEW i \in DOMAIN nodes[Top].children, Deliver(i)
    PROVE  FitInv'
<1> DEFINE P == Top
           C == nodes[P].children[i]
           f == Flushed(nodes, P, i)
<1>1. PICK L, rk, iv : SoundBy(nodes, root, flushing, L, rk, iv)
  BY DEF MapInv, Sound
<1>2. flushing # <<>> /\ mode # "rest" /\ Sound(nodes, root, flushing) /\ P = Last(flushing)
  BY DEF Flushing, MapInv, Top
<1>3. /\ i \in 1 .. Len(nodes[P].children) /\ P \in L /\ ~nodes[P].leaf
  <2>1. Arena(nodes) /\ P \in DOMAIN nodes /\ ~nodes[P].leaf /\ P \in L
    BY <1>1, <1>2, TopNode DEF SoundBy, Shape, Tree
  <2>2. nodes[P].children \in Seq(Nat)
    BY <2>1 DEF Arena, NodeOk, LeafNode, InnerNode
  <2> QED BY <2>1, <2>2
<1>4. root' = root /\ mode' = mode
  BY DEF Deliver
<1>5. \/ nodes' = f /\ flushing' = Append(flushing, C)
      \/ f[C].leaf /\ f[C].entries = Empty /\ nodes' = remove_child(f, P, C) /\ flushing' = flushing
      \/ /\ IF f[C].leaf THEN f[C].entries # Empty ELSE Count(f[C].buffer) <= threshold
         /\ nodes' = Integrated(f, P, C) /\ flushing' = flushing
  BY Zenon DEF Deliver, Flushed, Integrated
<1>6. f = Flushed(nodes, P, i) /\ C = nodes[P].children[i]
  OBVIOUS
<1> HIDE DEF f, C, P
<1>7. ~f[C].leaf => Count(f[C].buffer) \in Nat
  <2>1. FlushSound(nodes, root, flushing, L, rk, Last(flushing), i)
    BY <1>1, <1>2, <1>3, TopFlushed
  <2>2. PICK iv2 : SoundBy(f, root, flushing, L, rk, iv2)
    BY <2>1, <1>2, <1>6 DEF FlushSound
  <2>3. Arena(f) /\ L \subseteq DOMAIN f
    BY <2>2 DEF SoundBy, Shape, Tree
  <2>4. Shape(nodes, root, L, rk, iv)
    BY <1>1 DEF SoundBy
  <2>5. C \in L
    BY <2>4, <1>3, <1>6, ChildApart DEF Parented
  <2> QED BY <2>3, <2>5, BufferSize
<1>8. Fit(nodes, root, flushing)
  BY DEF FitInv
<1>9. /\ Fit(f, root, Append(flushing, C))
      /\ f[C].leaf /\ f[C].entries = Empty => Fit(remove_child(f, P, C), root, flushing)
      /\ /\ ~f[C].leaf => Count(f[C].buffer) <= BufferCapacity
         /\ f[C].leaf => f[C].entries # Empty
         => Fit(Integrated(f, P, C), root, flushing)
  BY <1>2, <1>3, <1>6, <1>8, DeliverFits
<1>10. ~f[C].leaf /\ Count(f[C].buffer) <= threshold => Count(f[C].buffer) <= BufferCapacity
  <2>1. threshold \in Nat
    BY ParamsAssumption DEF threshold
  <2>2. \A x \in Nat : x <= threshold => ~(x > threshold)
    BY <2>1
  <2> QED BY <2>2, <1>7, ThresholdFits
<1>11. Fit(nodes', root', flushing')
  BY <1>4, <1>5, <1>9, <1>10
<1> QED BY <1>2, <1>4, <1>11 DEF FitInv

(* A node that is done leaves the stack.                                   *)
LEMMA SettleStep == ASSUME MapInv, FitInv, SettleChild PROVE FitInv'
<1> DEFINE P == Last(Front(flushing))
<1>1. /\ Sound(nodes, root, flushing) /\ Len(flushing) > 1 /\ mode # "rest" /\ Top = Last(flushing)
      /\ ~(Count(nodes[Top].buffer) > threshold) /\ flushing # <<>>
  BY DEF MapInv, SettleChild, TopDone, TopOverflows, Flushing, Top
<1>2. root' = root /\ mode' = mode /\ flushing' = Front(flushing)
  BY DEF SettleChild
<1>3. \/ nodes[Top].children = <<>> /\ nodes' = remove_child(nodes, P, Top)
      \/ nodes' = Integrated(nodes, P, Top)
  BY Zenon DEF SettleChild, TopRemoved, Integrated
<1>4. Count(nodes[Top].buffer) <= BufferCapacity
  <2>1. PICK L, rk, iv : SoundBy(nodes, root, flushing, L, rk, iv)
    BY <1>1 DEF Sound
  <2>2. Top \in DOMAIN nodes /\ ~nodes[Top].leaf /\ Arena(nodes)
    BY <2>1, <1>1, TopNode DEF SoundBy, Shape, Tree
  <2> QED BY <2>2, <1>1, BufferSize, ThresholdFits
<1>5. P = Last(Front(flushing)) /\ Fit(nodes, root, flushing)
  BY DEF FitInv
<1> HIDE DEF P
<1>6. /\ nodes[Top].children = <<>> => Fit(remove_child(nodes, P, Top), root, Front(flushing))
      /\ Fit(Integrated(nodes, P, Top), root, Front(flushing))
  BY <1>1, <1>4, <1>5, SettleFits
<1>7. Fit(nodes', root', flushing')
  BY <1>2, <1>3, <1>6
<1> QED BY <1>1, <1>2, <1>7 DEF FitInv

(* The root is done with: nothing but the root is on the stack, and what   *)
(* the root buffers fits.                                                  *)
LEMMA RootDoneFits ==
    ASSUME MapInv, StackStarts, RootDone
    PROVE  /\ Range(flushing) \subseteq {root}
           /\ ~nodes[root].leaf => Count(nodes[root].buffer) <= BufferCapacity
<1>1. PICK L, rk, iv : SoundBy(nodes, root, flushing, L, rk, iv)
  BY DEF MapInv, Sound
<1>2. CASE flushing = <<>>
  <2>1. mode # "rest" /\ DOMAIN flushing = {}
    BY <1>2 DEF RootDone
  <2> QED BY <1>2, <2>1 DEF StackStarts, Range
<1>3. CASE flushing # <<>>
  <2>1. TopDone /\ Len(flushing) = 1
    BY <1>3 DEF RootDone
  <2>2. /\ Top = root /\ ~nodes[root].leaf /\ flushing \in Seq(Nat) /\ flushing[1] = root
        /\ root \in L
    BY <1>1, <1>3, <2>1, TopNode DEF Top
  <2>3. ~(Count(nodes[root].buffer) > threshold)
    BY <2>1, <2>2 DEF TopDone, TopOverflows
  <2>4. Arena(nodes) /\ root \in DOMAIN nodes
    BY <1>1 DEF SoundBy, Shape, Tree
  <2>5. Count(nodes[root].buffer) <= BufferCapacity
    BY <2>2, <2>3, <2>4, BufferSize, ThresholdFits
  <2> QED BY <1>3, <2>1, <2>2, <2>5, StackRange
<1> QED BY <1>2, <1>3

(* No step of the engine leaves an untidy node behind.                     *)
LEMMA FitKept ==
    ASSUME MapInv, StackStarts, FitInv, [Next]_vars PROVE FitInv'
<1>1. Fit(nodes, root, flushing) /\ Sound(nodes, root, flushing)
  BY DEF FitInv, MapInv
<1>2. ASSUME NEW k \in Keys, NEW m \in MessagesOf(Nat), Mutation(k, m) PROVE FitInv'
  <2>1. flushing = <<>>
    BY <1>2 DEF Mutation, MapInv
  <2>2. nodes' = WithMessage(nodes, root, k, m) /\ root' = root /\ mode' = "op"
    BY <1>2, Zenon DEF Mutation, apply_root, Restore, WithMessage
  <2>3. Fit(nodes', root, flushing')
    BY <1>1, <2>1, <2>2, EnterFits
  <2> QED BY <2>2, <2>3 DEF FitInv
<1>3. ASSUME drain PROVE FitInv'
  <2>1. flushing = <<>> /\ nodes' = nodes /\ root' = root /\ mode' = "drain"
    BY <1>3 DEF drain, MapInv, Restore
  <2>2. Fit(nodes, root, flushing')
    BY <1>1, <2>1 DEF Fit, Range
  <2> QED BY <2>1, <2>2 DEF FitInv
<1>4. ASSUME simulate_commit PROVE FitInv'
  <2>1. /\ flushing = <<>> /\ flushing' = flushing /\ root' = root /\ Roomy(nodes[root])
        /\ nodes' = [i \in DOMAIN nodes |->
                       IF i \in DirtyWalk THEN [nodes[i] EXCEPT !.dirty = FALSE] ELSE nodes[i]]
    BY <1>4 DEF simulate_commit, MapInv, FitInv
  <2>2. Fit(nodes', root, <<>>) /\ Roomy(nodes'[root])
    BY <1>1, <2>1, CleanFits
  <2> QED BY <2>1, <2>2 DEF FitInv
<1>5. ASSUME Descend PROVE FitInv'
  <2>1. /\ mode # "rest" /\ flushing # <<>> /\ nodes' = nodes /\ root' = root /\ mode' = mode
        /\ flushing' = Append(flushing, nodes[Top].children[CHOOSE i \in Undrained :
                                                \A j \in Undrained : i <= j])
    BY <1>5 DEF Descend, Flushing
  <2>2. Sound(nodes', root', flushing')
    BY <1>5, DescendQuiet DEF Quiet, MapInv
  <2>3. flushing \in Seq(Nat) /\ flushing' \in Seq(Nat)
    BY <1>1, <2>2 DEF Sound, SoundBy, Stacked
  <2>4. Range(flushing) \subseteq Range(flushing')
    <3> DEFINE c == nodes[Top].children[CHOOSE i \in Undrained : \A j \in Undrained : i <= j]
    <3>1. flushing' = Append(flushing, c)
      BY <2>1
    <3> HIDE DEF c
    <3>2. /\ DOMAIN flushing = 1 .. Len(flushing) /\ DOMAIN flushing' = 1 .. (Len(flushing) + 1)
          /\ Len(flushing) \in Nat /\ \A x \in 1 .. Len(flushing) : flushing'[x] = flushing[x]
      BY <2>3, <3>1
    <3>3. \A x \in 1 .. Len(flushing) : x \in DOMAIN flushing'
      BY <3>2
    <3> QED BY <3>2, <3>3 DEF Range
  <2>5. Fit(nodes, root, flushing')
    BY <1>1, <2>4 DEF Fit
  <2> QED BY <2>1, <2>5 DEF FitInv
<1>6. ASSUME RestartEmpty PROVE FitInv'
  <2>1. PICK L, rk, iv : SoundBy(nodes, root, flushing, L, rk, iv)
    BY <1>1 DEF Sound
  <2>2. /\ flushing # <<>> /\ Len(flushing) = 1 /\ nodes[Last(flushing)].children = <<>>
        /\ nodes' = Append(nodes, Leaf(Empty)) /\ root' = Collapsed(nodes', Len(nodes) + 1)
        /\ flushing' = <<>>
    BY <1>6 DEF RestartEmpty, RootDone, RootRemoved, TopRemoved, Top, Finish
  <2>3. Last(flushing) = root /\ ~nodes[root].leaf
    BY <2>1, <2>2, TopNode
  <2>4. RestartKept(nodes, root, Append(nodes, Leaf(Empty)), Len(nodes) + 1)
    <3>1. Barren(nodes[root]) /\ nodes \in Seq(AnyNode) /\ Shape(nodes, root, L, rk, iv)
      BY <2>1, <2>2, <2>3 DEF Barren, SoundBy
    <3> QED BY <3>1, RestartKeeps
  <2> DEFINE R == Len(nodes) + 1
  <2>5. PICK rk2, iv2 : Shape(nodes', R, {R}, rk2, iv2)
    BY <2>2, <2>4 DEF RestartKept
  <2>6. nodes'[R] = Leaf(Empty)
    <3>1. nodes \in Seq(AnyNode)
      BY <2>1 DEF SoundBy
    <3>2. Append(nodes, Leaf(Empty))[Len(nodes) + 1] = Leaf(Empty)
      BY <3>1
    <3> QED BY <2>2, <3>2
  <2> HIDE DEF R
  <2>7. Arena(nodes') /\ Ranked(nodes', rk2) /\ R \in DOMAIN nodes'
    BY <2>5 DEF Shape, Tree
  <2>8. root' = Collapsed(nodes', R)
    BY <2>2 DEF R
  <2>9. Fit(nodes', root', <<>>) /\ Roomy(nodes'[root'])
    BY <2>6, <2>7, <2>8, LeafFits
  <2> QED BY <2>2, <2>9 DEF FitInv
<1>7. ASSUME Grow PROVE FitInv'
  <2>1. /\ RootDone /\ mode' = mode /\ split_if_needed(nodes, root).promoted # <<>>
        /\ nodes' = Grown(nodes, root) /\ root' = Len(split_if_needed(nodes, root).nodes) + 1
    BY <1>7, Zenon DEF Grow, Restore, Grown, RootOver, RootSplit
  <2>2. mode # "rest"
    BY <2>1 DEF RootDone
  <2>3. Fit(nodes', root', flushing')
    BY <1>1, <2>1, RootDoneFits, GrowFits
  <2> QED BY <2>1, <2>2, <2>3 DEF FitInv
<1>8. ASSUME Return PROVE FitInv'
  <2>1. /\ RootDone /\ split_if_needed(nodes, root).promoted = <<>>
        /\ nodes' = nodes /\ root' = Collapsed(nodes, root) /\ flushing' = <<>>
    BY <1>8 DEF Return, Finish, RootSplit
  <2>2. Fit(nodes, root', <<>>) /\ Roomy(nodes[root'])
    BY <1>1, <2>1, RootDoneFits, ReturnFits
  <2> QED BY <2>1, <2>2 DEF FitInv
<1>9. ASSUME Cascade PROVE FitInv'
  BY <1>5, <1>6, <1>7, <1>8, <1>9, DeliverStep, SettleStep, Zenon DEF Cascade
<1>10. ASSUME UNCHANGED vars PROVE FitInv'
  BY <1>10 DEF vars, FitInv
<1> QED BY <1>2, <1>3, <1>4, <1>9, <1>10, StepIs

(* A single empty leaf is within its capacities.                           *)
LEMMA StartsFit == ASSUME Init PROVE FitInv
<1>1. PICK L, rk, iv : SoundBy(nodes, root, flushing, L, rk, iv)
  BY StartsEmpty DEF MapInv, Sound
<1>2. nodes[root] = Leaf(Empty) /\ flushing = <<>>
  BY DEF Init
<1>3. Arena(nodes) /\ Ranked(nodes, rk) /\ root \in DOMAIN nodes
  BY <1>1 DEF SoundBy, Shape, Tree
<1>4. PICK to \in [DOMAIN nodes -> DOMAIN nodes] :
         /\ \A i \in DOMAIN nodes : to[i] = IF GivesWay(nodes[i]) THEN to[nodes[i].children[1]] ELSE i
         /\ \A i \in DOMAIN nodes : Collapsed(nodes, i) = to[i]
  BY <1>3, CollapsedIs
<1>5. root = Collapsed(nodes, root)
  BY <1>2, <1>3, <1>4 DEF GivesWay, Leaf
<1> QED BY <1>2, <1>3, <1>5, LeafFits DEF FitInv

(* The invariants say what check_invariants asks for between calls.        *)
LEMMA FitAtRest == ASSUME MapInv, FitInv PROVE FitsAtRest
<1> SUFFICES ASSUME mode = "rest"
             PROVE  /\ WithinCapacity /\ NoEmptyLeaf
                    /\ \A i \in Reachable : nodes[i].leaf \/ nodes[i].children # <<>>
  BY DEF FitsAtRest
<1>1. flushing = <<>> /\ Sound(nodes, root, <<>>)
  BY DEF MapInv
<1>2. \A i \in Reachable \ {root} : Tidy(nodes[i])
  BY <1>1 DEF FitInv, Fit, Range, Reachable
<1>3. \A i \in Reachable : Roomy(nodes[i])
  BY <1>2 DEF Tidy, FitInv
<1>4. PICK rk, iv : SoundBy(nodes, root, <<>>, Reachable, rk, iv)
  BY <1>1, LiveIs DEF Reachable
<1>5. \A i \in Reachable : ~Barren(nodes[i])
  BY <1>4 DEF SoundBy, BarrenOnTop
<1>6. WithinCapacity
  <2> SUFFICES ASSUME NEW i \in Reachable
               PROVE  /\ nodes[i].leaf => Count(nodes[i].entries) <= LeafCapacity
                      /\ ~nodes[i].leaf => /\ Len(nodes[i].children) <= Fanout
                                           /\ Count(nodes[i].buffer) <= BufferCapacity
    BY Zenon DEF WithinCapacity
  <2>1. NodeOk(nodes[i])
    BY <1>4 DEF SoundBy, Shape, Tree, Arena
  <2>2. ASSUME nodes[i].leaf PROVE Count(nodes[i].entries) <= LeafCapacity
    <3>1. nodes[i].entries \in Maps(Entries(Nat))
      BY <2>1, <2>2 DEF NodeOk, LeafNode, InnerNode
    <3>2. Count(nodes[i].entries) \in Nat
      BY <3>1, MapFacts, FS_CardinalityType DEF Count
    <3>3. ~(Count(nodes[i].entries) > LeafCapacity)
      BY <1>3, <2>2 DEF Roomy, Overfull
    <3> QED BY <3>2, <3>3, ParamsAssumption
  <2>3. ASSUME ~nodes[i].leaf
        PROVE  Len(nodes[i].children) <= Fanout /\ Count(nodes[i].buffer) <= BufferCapacity
    <3>1. Len(nodes[i].children) \in Nat
      BY <2>1, <2>3 DEF NodeOk, LeafNode, InnerNode
    <3>2. ~(Len(nodes[i].children) > Fanout) /\ Count(nodes[i].buffer) <= BufferCapacity
      BY <1>3, <2>3 DEF Roomy, Overfull
    <3> QED BY <3>1, <3>2, ParamsAssumption
  <2> QED BY <2>2, <2>3
<1>7. NoEmptyLeaf
  BY <1>2 DEF NoEmptyLeaf, Tidy
<1> QED BY <1>5, <1>6, <1>7 DEF Barren

(* When a call returns, no leaf, buffer or fanout is over its capacity and *)
(* no emptied leaf or childless node is left, however long the cascade of  *)
(* flushes, splits and removals was that the call set off.                 *)
THEOREM CapacitiesKept == Spec => []FitsAtRest
<1>1. Init => StackStarts /\ FitInv
  BY StartsFit DEF Init, StackStarts
<1>2. MapInv /\ StackStarts /\ FitInv /\ [Next]_vars => StackStarts' /\ FitInv'
  BY StackStartsKept, FitKept
<1>3. MapInv /\ FitInv => FitsAtRest
  BY FitAtRest
<1> QED BY <1>1, <1>2, <1>3, TreeSound, PTL DEF Spec

-----------------------------------------------------------------------------
(* Ages: what is held for a key gets older on the way down                 *)

(* What n holds for a key is newer than what m holds for it.               *)
Newer(n, m) == \A k \in DOMAIN HeldBy(n) : k \in DOMAIN HeldBy(m) => HeldBy(m)[k].seq < HeldBy(n)[k].seq

(* Nothing that n holds is newer than s.                                   *)
NoNewer(n, s) == \A k \in DOMAIN HeldBy(n) : HeldBy(n)[k].seq <= s

(* A live node holds newer messages than the nodes beneath it, and none    *)
(* that is newer than s.                                                   *)
Aged(ns, r, s) ==
    \A i \in Subtree(ns, r) : /\ NoNewer(ns[i], s)
                              /\ \A d \in Beneath(ns, i) : Newer(ns[i], ns[d])

AgeInv == Aged(nodes, root, next_seq)

(* m holds nothing but what n holds.                                       *)
HeldPart(n, m) == /\ DOMAIN HeldBy(m) \subseteq DOMAIN HeldBy(n)
                  /\ \A k \in DOMAIN HeldBy(m) : HeldBy(m)[k] = HeldBy(n)[k]

(* Each node of X stems from a live node, of which it holds a part, and    *)
(* its children stem from children of that node.                           *)
Stems(ns, r, ns2, X, from) ==
    \A i \in X : /\ from[i] \in Subtree(ns, r) /\ HeldPart(ns[from[i]], ns2[i])
                 /\ \A c \in Children(ns2[i]) : c \in X /\ from[c] \in Children(ns[from[i]])

(* Below a node is then what stems from nodes below the one it stems from. *)
LEMMA StemsBelow ==
    ASSUME NEW ns, NEW rk, Arena(ns), Ranked(ns, rk), NEW r, Subtree(ns, r) \subseteq DOMAIN ns,
           NEW ns2, NEW rk2, Arena(ns2), Ranked(ns2, rk2), NEW X \in SUBSET DOMAIN ns2, NEW from,
           Stems(ns, r, ns2, X, from)
    PROVE  \A i \in X : /\ Subtree(ns2, i) \subseteq X
                        /\ \A d \in Beneath(ns2, i) : d \in X /\ from[d] \in Beneath(ns, from[i])
<1> DEFINE D == DOMAIN ns2
           G == {i \in D : i \in X => \A d \in Beneath(ns2, i) : d \in X /\ from[d] \in Beneath(ns, from[i])}
<1>1. rk2 \in [D -> Nat]
  BY DEF Ranked
<1>2. ASSUME NEW i \in D, \A c \in D : rk2[c] < rk2[i] => c \in G PROVE i \in G
  <2> SUFFICES ASSUME i \in X, NEW d \in Beneath(ns2, i)
               PROVE  d \in X /\ from[d] \in Beneath(ns, from[i])
    OBVIOUS
  <2>1. PICK c \in Children(ns2[i]) : d \in Subtree(ns2, c)
    BY DEF Beneath
  <2>2. c \in D /\ rk2[c] < rk2[i]
    BY ChildrenLower
  <2>3. c \in X /\ from[c] \in Children(ns[from[i]]) /\ from[i] \in DOMAIN ns
    BY DEF Stems
  <2>4. c \in G
    BY <1>2, <2>2
  <2>5. Subtree(ns2, c) = {c} \cup Beneath(ns2, c)
    BY <2>2, SubtreeFacts
  <2>6. from[c] \in Beneath(ns, from[i]) /\ from[c] \in DOMAIN ns
    BY <2>3, SubtreeFacts
  <2>7. Beneath(ns, from[c]) \subseteq Beneath(ns, from[i])
    <3>1. Subtree(ns, from[c]) \subseteq Beneath(ns, from[i])
      BY <2>3, <2>6, SubtreeFacts
    <3>2. Subtree(ns, from[c]) = {from[c]} \cup Beneath(ns, from[c])
      BY <2>6, SubtreeFacts
    <3> QED BY <3>1, <3>2
  <2>8. CASE d = c
    BY <2>3, <2>6, <2>8
  <2>9. CASE d \in Beneath(ns2, c)
    BY <2>3, <2>4, <2>7, <2>9
  <2> QED BY <2>1, <2>5, <2>8, <2>9
<1>3. \A i \in D : i \in G
  <2> HIDE DEF G, D
  <2> QED BY <1>1, <1>2, RankInduction
<1>4. \A i \in X : Subtree(ns2, i) = {i} \cup Beneath(ns2, i)
  BY SubtreeFacts
<1> QED BY <1>3, <1>4

(* So what stems from an aged tree is aged, below a root that may be new   *)
(* if it holds nothing.                                                    *)
LEMMA AgedFrom ==
    ASSUME NEW ns, NEW rk, Arena(ns), Ranked(ns, rk), NEW r, Subtree(ns, r) \subseteq DOMAIN ns,
           NEW ns2, NEW rk2, Arena(ns2), Ranked(ns2, rk2), NEW X \in SUBSET DOMAIN ns2, NEW from,
           Stems(ns, r, ns2, X, from), NEW r2 \in DOMAIN ns2,
           r2 \in X \/ (HeldBy(ns2[r2]) = Empty /\ Children(ns2[r2]) \subseteq X),
           NEW s, Aged(ns, r, s)
    PROVE  Aged(ns2, r2, s)
<1>1. \A i \in X : /\ Subtree(ns2, i) \subseteq X
                   /\ \A d \in Beneath(ns2, i) : d \in X /\ from[d] \in Beneath(ns, from[i])
  BY StemsBelow
<1>2. ASSUME NEW i \in X
      PROVE  NoNewer(ns2[i], s) /\ \A d \in Beneath(ns2, i) : Newer(ns2[i], ns2[d])
  <2>1. from[i] \in Subtree(ns, r) /\ HeldPart(ns[from[i]], ns2[i])
    BY DEF Stems
  <2>2. NoNewer(ns2[i], s)
    BY <2>1 DEF Aged, NoNewer, HeldPart
  <2>3. ASSUME NEW d \in Beneath(ns2, i) PROVE Newer(ns2[i], ns2[d])
    <3>1. d \in X /\ from[d] \in Beneath(ns, from[i])
      BY <1>1
    <3>2. HeldPart(ns[from[d]], ns2[d]) /\ Newer(ns[from[i]], ns[from[d]])
      BY <3>1, <2>1 DEF Stems, Aged
    <3> QED BY <3>2, <2>1 DEF Newer, HeldPart
  <2> QED BY <2>2, <2>3
<1>3. \A i \in Subtree(ns2, r2) : i \in X \/ (i = r2 /\ HeldBy(ns2[r2]) = Empty)
  <2>1. Subtree(ns2, r2) = {r2} \cup UNION {Subtree(ns2, c) : c \in Children(ns2[r2])}
    BY SubtreeIs
  <2> QED BY <1>1, <2>1
<1>4. \A m, t : HeldBy(ns2[r2]) = Empty => NoNewer(ns2[r2], t) /\ Newer(ns2[r2], m)
  BY DEF NoNewer, Newer, Empty
<1> QED BY <1>2, <1>3, <1>4 DEF Aged

(* With the same links, the same nodes are below a node.                   *)
LEMMA LinksKeptBelow ==
    ASSUME NEW ns, NEW rk, Arena(ns), Ranked(ns, rk), NEW ns2, Arena(ns2), Ranked(ns2, rk),
           LinksKept(ns, ns2)
    PROVE  \A i \in DOMAIN ns : Subtree(ns2, i) = Subtree(ns, i) /\ Beneath(ns2, i) = Beneath(ns, i)
<1> DEFINE D == DOMAIN ns
           G == {i \in D : Subtree(ns2, i) = Subtree(ns, i)}
<1>1. rk \in [D -> Nat] /\ DOMAIN ns2 = D
  BY DEF Ranked, LinksKept
<1>2. \A i \in D : Children(ns2[i]) = Children(ns[i])
  BY DEF LinksKept, Children
<1>3. ASSUME NEW i \in D, \A c \in D : rk[c] < rk[i] => c \in G PROVE i \in G
  <2>1. /\ Subtree(ns, i) = {i} \cup UNION {Subtree(ns, c) : c \in Children(ns[i])}
        /\ Subtree(ns2, i) = {i} \cup UNION {Subtree(ns2, c) : c \in Children(ns2[i])}
    BY <1>1, SubtreeIs
  <2>2. \A c \in Children(ns[i]) : Subtree(ns2, c) = Subtree(ns, c)
    BY <1>3, ChildrenLower
  <2>3. {Subtree(ns2, c) : c \in Children(ns2[i])} = {Subtree(ns, c) : c \in Children(ns[i])}
    BY <2>2, <1>2
  <2> QED BY <2>1, <2>3
<1>4. \A i \in D : i \in G
  <2> HIDE DEF G, D
  <2> QED BY <1>1, <1>3, RankInduction
<1>5. ASSUME NEW i \in D PROVE Beneath(ns2, i) = Beneath(ns, i)
  <2>1. \A c \in Children(ns[i]) : Subtree(ns2, c) = Subtree(ns, c)
    BY <1>4, ChildrenLower
  <2>2. {Subtree(ns2, c) : c \in Children(ns2[i])} = {Subtree(ns, c) : c \in Children(ns[i])}
    BY <2>1, <1>2
  <2> QED BY <2>2 DEF Beneath
<1> QED BY <1>4, <1>5

(* A child is beneath its parent and what its parent is beneath, and under *)
(* no other live node.                                                     *)
LEMMA OnlyBeneath ==
    ASSUME NEW ns, NEW r, NEW L, NEW rk, NEW iv, Shape(ns, r, L, rk, iv),
           NEW P \in L, ~ns[P].leaf, NEW j \in 1 .. Len(ns[P].children),
           NEW C, C = ns[P].children[j]
    PROVE  \A i \in L : C \in Beneath(ns, i) => i = P \/ P \in Beneath(ns, i)
<1> DEFINE D == DOMAIN ns
           G == {i \in D : i \in L /\ C \in Beneath(ns, i) => i = P \/ P \in Beneath(ns, i)}
<1>1. Arena(ns) /\ Ranked(ns, rk) /\ Tree(ns, r, L) /\ rk \in [D -> Nat] /\ L \subseteq D
  BY DEF Shape, Ranked, Tree
<1>2. \A i \in L : Children(ns[i]) \subseteq L
  BY ShapeClosed
<1>3. ASSUME NEW i \in D, \A c \in D : rk[c] < rk[i] => c \in G PROVE i \in G
  <2> SUFFICES ASSUME i \in L, C \in Beneath(ns, i) PROVE i = P \/ P \in Beneath(ns, i)
    OBVIOUS
  <2>1. PICK c \in Children(ns[i]) : C \in Subtree(ns, c)
    BY DEF Beneath
  <2>2. /\ c \in D /\ rk[c] < rk[i] /\ ~ns[i].leaf /\ c \in L
        /\ \E y \in 1 .. Len(ns[i].children) : c = ns[i].children[y]
    BY <1>1, <1>2, ChildrenLower
  <2>3. Subtree(ns, c) = {c} \cup Beneath(ns, c) /\ Subtree(ns, c) \subseteq Beneath(ns, i)
    <3>1. Subtree(ns, c) = {c} \cup Beneath(ns, c)
      BY <1>1, <2>2, SubtreeFacts
    <3> QED BY <3>1 DEF Beneath
  <2>4. CASE C = c
    BY <2>2, <2>4, <1>1 DEF Tree
  <2>5. CASE C \in Beneath(ns, c)
    BY <2>2, <2>3, <2>5, <1>3
  <2> QED BY <2>1, <2>3, <2>4, <2>5
<1>4. \A i \in D : i \in G
  <2> HIDE DEF G, D
  <2> QED BY <1>1, <1>3, RankInduction
<1> QED BY <1>1, <1>4

(* A message takes the age of the newer one when it absorbs another.       *)
LEMMA CoalesceAge ==
    ASSUME NEW m \in MessagesOf(Nat), NEW older \in MessagesOf(Nat)
    PROVE  coalesce(m, older).seq = m.seq
<1>1. older.kind \in {"Put", "Delete", "Upsert"}
  BY DEF MessagesOf
<1>2. CASE older.kind = "Put"
  BY <1>2, Zenon DEF coalesce, Put
<1>3. CASE older.kind = "Delete"
  <2>1. older.kind # "Put"
    BY <1>3
  <2> QED BY <1>3, <2>1 DEF coalesce, Put
<1>4. CASE older.kind = "Upsert"
  <2>1. older.kind # "Put" /\ older.kind # "Delete"
    BY <1>4
  <2> QED BY <1>4, <2>1 DEF coalesce, Upsert
<1> QED BY <1>1, <1>2, <1>3, <1>4

(* What a node holds for a key has the age of the batch, if the key is in  *)
(* the batch, and is what it held for it if not.                           *)
AgesOf(n, batch, m) ==
    \A k \in DOMAIN HeldBy(m) :
        /\ k \in DOMAIN batch => HeldBy(m)[k].seq = batch[k].seq
        /\ k \notin DOMAIN batch => k \in DOMAIN HeldBy(n) /\ HeldBy(m)[k] = HeldBy(n)[k]

(* So it is when a batch arrives.                                          *)
LEMMA AppliedAges ==
    ASSUME NEW n, NodeOk(n), NEW batch \in Maps(MessagesOf(Nat)), NEW m, m = Applied(n, batch)
    PROVE  AgesOf(n, batch, m)
<1>1. \A k \in DOMAIN batch : batch[k] \in MessagesOf(Nat)
  BY MapFacts
<1>2. CASE n.leaf
  <2> DEFINE e == n.entries
             f == apply_to_leaf(e, batch)
             after == [k \in DOMAIN batch |->
                    [seq |-> batch[k].seq, value |-> Effect(batch[k], ValueIn(e, k))]]
             gone == {k \in DOMAIN batch : after[k].value = NoValue}
             X == (DOMAIN e \cup DOMAIN batch) \ gone
  <2>1. n \in LeafNode
    BY <1>2 DEF NodeOk, InnerNode
  <2>2. f = [k \in X |-> IF k \in DOMAIN batch THEN after[k] ELSE e[k]]
    BY DEF apply_to_leaf
  <2>3. \A k \in DOMAIN batch : after[k].seq = batch[k].seq
    OBVIOUS
  <2>4. m = [n EXCEPT !.entries = f, !.dirty = TRUE]
    BY <1>2 DEF Applied
  <2>5. X \subseteq DOMAIN e \cup DOMAIN batch
    OBVIOUS
  <2> HIDE DEF f, after, X
  <2>6. m.leaf /\ m.entries = f
    BY <2>1, <2>4 DEF LeafNode
  <2>7. \A k \in DOMAIN f : /\ k \in DOMAIN batch => f[k].seq = batch[k].seq
                            /\ k \notin DOMAIN batch => k \in DOMAIN e /\ f[k] = e[k]
    BY <2>2, <2>3, <2>5
  <2>8. HeldBy(m) = f /\ HeldBy(n) = e
    BY <1>2, <2>6 DEF HeldBy
  <2> QED BY <2>7, <2>8 DEF AgesOf
<1>3. CASE ~n.leaf
  <2> DEFINE b == n.buffer
             f == coalesce_into(b, batch)
  <2>1. n \in InnerNode
    BY <1>3 DEF NodeOk, LeafNode
  <2>2. b \in Maps(MessagesOf(Nat))
    BY <2>1 DEF InnerNode
  <2>3. \A k \in DOMAIN b : b[k] \in MessagesOf(Nat)
    BY <2>2, MapFacts
  <2>4. /\ DOMAIN f = DOMAIN b \cup DOMAIN batch
        /\ \A k \in DOMAIN f : f[k] = IF k \notin DOMAIN batch THEN b[k]
                                      ELSE IF k \notin DOMAIN b THEN batch[k]
                                      ELSE coalesce(batch[k], b[k])
    BY DEF coalesce_into
  <2>5. m = [n EXCEPT !.buffer = f, !.dirty = TRUE]
    BY <1>3 DEF Applied
  <2> HIDE DEF f
  <2>6. ~m.leaf /\ m.buffer = f
    BY <2>1, <2>5 DEF InnerNode
  <2>7. HeldBy(m) = f /\ HeldBy(n) = b
    BY <1>3, <2>6 DEF HeldBy
  <2> HIDE DEF b
  <2>8. \A k \in DOMAIN f : /\ k \in DOMAIN batch => f[k].seq = batch[k].seq
                            /\ k \notin DOMAIN batch => k \in DOMAIN b /\ f[k] = b[k]
    <3>1. \A k \in DOMAIN b \cap DOMAIN batch : coalesce(batch[k], b[k]).seq = batch[k].seq
      BY <1>1, <2>3, CoalesceAge
    <3> QED BY <2>4, <3>1
  <2> QED BY <2>7, <2>8 DEF AgesOf
<1> QED BY <1>2, <1>3

(* A flush does not let a message pass a newer one, or fall behind an      *)
(* older one, for the same key.                                            *)
LEMMA FlushAged ==
    ASSUME NEW ns, NEW r, NEW L, L = Subtree(ns, r), NEW rk, NEW iv, Shape(ns, r, L, rk, iv),
           NEW P \in L, ~ns[P].leaf, NEW j \in 1 .. Len(ns[P].children),
           ~Barren(ns[ns[P].children[j]]), NEW s, Aged(ns, r, s),
           NEW f, f = Flushed(ns, P, j)
    PROVE  Aged(f, r, s)
<1> DEFINE C == ns[P].children[j]
           batch == Restrict(ns[P].buffer, Pending(ns[P], j))
<1>1. Arena(ns) /\ Ranked(ns, rk) /\ L \subseteq DOMAIN ns /\ r \in L
  BY DEF Shape, Tree
<1>2. Parented(ns, r, L, rk, P, j)
  BY ChildApart
<1>3. ns[P] \in InnerNode /\ P \in DOMAIN ns /\ C \in L /\ C \in DOMAIN ns /\ C # P
  BY <1>2 DEF Parented
<1>4. /\ f[P] = Drained(ns[P], j) /\ f[C] = Applied(ns[C], batch)
      /\ \A i \in DOMAIN ns \ {P, C} : f[i] = ns[i]
  BY <1>1, <1>3, FlushedNodes
<1>5. FlushKept(ns, r, L, rk, P, j)
  BY FlushKeeps
<1>6. PICK iv2 : Shape(f, r, L, rk, iv2)
  BY <1>5 DEF FlushKept
<1>7. LinksKept(ns, f) /\ Arena(f) /\ Ranked(f, rk)
  BY <1>5, <1>6 DEF FlushKept, Shape
<1>8. NodeOk(ns[P]) /\ NodeOk(ns[C])
  BY <1>1, <1>3 DEF Arena
<1>9. /\ batch \in Maps(MessagesOf(Nat)) /\ ~f[P].leaf
      /\ f[P].buffer = Restrict(ns[P].buffer, DOMAIN ns[P].buffer \ Pending(ns[P], j))
  <2>1. /\ batch \in Maps(MessagesOf(Nat)) /\ ~Drained(ns[P], j).leaf
        /\ Drained(ns[P], j).buffer =
              Restrict(ns[P].buffer, DOMAIN ns[P].buffer \ Pending(ns[P], j))
    BY <1>3, <1>8, DrainedShape
  <2> QED BY <2>1, <1>4
<1>10. /\ DOMAIN batch = Pending(ns[P], j) /\ Pending(ns[P], j) \subseteq DOMAIN ns[P].buffer
       /\ \A k \in DOMAIN batch : batch[k] = ns[P].buffer[k]
  BY DEF Restrict, Pending
<1>11. AgesOf(ns[C], batch, f[C])
  BY <1>4, <1>8, <1>9, AppliedAges
<1>12. HeldPart(ns[P], f[P]) /\ \A k \in DOMAIN batch : k \notin DOMAIN HeldBy(f[P])
  BY <1>9, <1>10 DEF HeldPart, HeldBy, Restrict
<1>13. \A k \in DOMAIN batch : k \in DOMAIN HeldBy(ns[P]) /\ HeldBy(ns[P])[k] = batch[k]
  BY <1>10 DEF HeldBy
<1>14. \A i \in DOMAIN ns : Subtree(f, i) = Subtree(ns, i) /\ Beneath(f, i) = Beneath(ns, i)
  BY <1>1, <1>7, LinksKeptBelow
<1>15. \A i \in L : C \in Beneath(ns, i) => i = P \/ P \in Beneath(ns, i)
  BY OnlyBeneath
<1>16. Subtree(ns, C) \subseteq Beneath(ns, P) /\ C \in Beneath(ns, P)
  <2>1. C \in Children(ns[P])
    BY <1>2 DEF Parented, Children, Range
  <2>2. Children(ns[P]) \subseteq Beneath(ns, P) /\ \A d \in Beneath(ns, P) : Subtree(ns, d) \subseteq Beneath(ns, P)
    BY <1>1, <1>3, SubtreeFacts
  <2> QED BY <2>1, <2>2
<1>17. ASSUME NEW i \in L PROVE i \notin Beneath(ns, i) /\ Beneath(ns, i) \subseteq L
  <2>1. i \in DOMAIN ns
    BY <1>1
  <2>2. i \notin Beneath(ns, i) /\ Beneath(ns, i) \subseteq Subtree(ns, i)
    BY <2>1, <1>1, SubtreeFacts
  <2>3. Subtree(ns, i) \subseteq Subtree(ns, r)
    BY <1>1, SubtreeFacts
  <2> QED BY <2>2, <2>3
<1>18. Beneath(ns, C) \subseteq Beneath(ns, P) /\ P \notin Beneath(ns, C)
  <2>1. Beneath(ns, C) \subseteq Subtree(ns, C)
    BY <1>1, <1>3, SubtreeFacts
  <2> QED BY <2>1, <1>16, <1>17
<1>19. \A i \in L : NoNewer(ns[i], s) /\ \A d \in Beneath(ns, i) : Newer(ns[i], ns[d])
  BY DEF Aged
<1> HIDE DEF C, batch
<1>20. ASSUME NEW i \in L PROVE NoNewer(f[i], s)
  <2>1. CASE i = P
    BY <2>1, <1>12, <1>19 DEF HeldPart, NoNewer
  <2>2. CASE i = C
    BY <2>2, <1>11, <1>13, <1>19 DEF AgesOf, NoNewer
  <2>3. CASE i \notin {P, C}
    BY <2>3, <1>1, <1>4, <1>19
  <2> QED BY <2>1, <2>2, <2>3
<1>21. ASSUME NEW i \in L, NEW d \in Beneath(ns, i) PROVE Newer(f[i], f[d])
  <2>1. d \in L /\ d # i /\ Newer(ns[i], ns[d])
    BY <1>17, <1>19
  <2>2. CASE d = C
    <3>1. ASSUME NEW k \in DOMAIN HeldBy(f[i]), k \in DOMAIN HeldBy(f[C])
          PROVE  HeldBy(f[C])[k].seq < HeldBy(f[i])[k].seq
      <4>1. k \in DOMAIN HeldBy(ns[i]) /\ HeldBy(f[i])[k] = HeldBy(ns[i])[k]
        BY <2>1, <2>2, <3>1, <1>1, <1>4, <1>12 DEF HeldPart
      <4>2. CASE k \in DOMAIN batch
        <5>1. i # P
          BY <3>1, <4>2, <1>12
        <5>2. P \in Beneath(ns, i)
          BY <2>2, <5>1, <1>15
        <5>3. HeldBy(ns[P])[k].seq < HeldBy(ns[i])[k].seq
          BY <5>2, <4>1, <4>2, <1>13, <1>19 DEF Newer
        <5> QED BY <5>3, <4>1, <4>2, <3>1, <1>11, <1>13 DEF AgesOf
      <4>3. CASE k \notin DOMAIN batch
        <5>1. k \in DOMAIN HeldBy(ns[C]) /\ HeldBy(f[C])[k] = HeldBy(ns[C])[k]
          BY <4>3, <3>1, <1>11 DEF AgesOf
        <5> QED BY <5>1, <4>1, <2>1, <2>2 DEF Newer
      <4> QED BY <4>2, <4>3
    <3> QED BY <2>2, <3>1 DEF Newer
  <2>3. CASE i = C
    <3>1. d # P /\ d # C /\ d \in Beneath(ns, P)
      BY <2>1, <2>3, <1>18
    <3>2. f[d] = ns[d]
      BY <3>1, <2>1, <1>1, <1>4
    <3>3. ASSUME NEW k \in DOMAIN HeldBy(f[C]), k \in DOMAIN HeldBy(ns[d])
          PROVE  HeldBy(ns[d])[k].seq < HeldBy(f[C])[k].seq
      <4>1. CASE k \in DOMAIN batch
        <5>1. HeldBy(ns[d])[k].seq < HeldBy(ns[P])[k].seq
          BY <3>1, <3>3, <4>1, <1>13, <1>19 DEF Newer
        <5> QED BY <5>1, <4>1, <3>3, <1>11, <1>13 DEF AgesOf
      <4>2. CASE k \notin DOMAIN batch
        <5>1. k \in DOMAIN HeldBy(ns[C]) /\ HeldBy(f[C])[k] = HeldBy(ns[C])[k]
          BY <4>2, <3>3, <1>11 DEF AgesOf
        <5> QED BY <5>1, <3>3, <2>1, <2>3 DEF Newer
      <4> QED BY <4>1, <4>2
    <3> QED BY <2>3, <3>2, <3>3 DEF Newer
  <2>4. CASE d # C /\ i # C
    <3>1. \A x \in L : x # C => HeldPart(ns[x], f[x])
      BY <1>1, <1>4, <1>12 DEF HeldPart
    <3>2. HeldPart(ns[i], f[i]) /\ HeldPart(ns[d], f[d])
      BY <2>1, <2>4, <3>1
    <3> QED BY <3>2, <2>1 DEF HeldPart, Newer
  <2> QED BY <2>2, <2>3, <2>4
<1>22. Subtree(f, r) = L /\ \A i \in L : Beneath(f, i) = Beneath(ns, i)
  BY <1>1, <1>14
<1> QED BY <1>20, <1>21, <1>22 DEF Aged

(* A split leaves the pieces where the whole was.                          *)
LEMMA IntegrateAged ==
    ASSUME NEW ns \in Seq(AnyNode), NEW r, NEW L, L = Subtree(ns, r), NEW rk, NEW iv,
           Shape(ns, r, L, rk, iv), NEW P \in L, ~ns[P].leaf,
           NEW j \in 1 .. Len(ns[P].children), NEW C, C = ns[P].children[j],
           NEW s, Aged(ns, r, s)
    PROVE  Aged(Integrated(ns, P, C), r, s)
<1> DEFINE ns2 == Integrated(ns, P, C)
           new == DOMAIN ns2 \ DOMAIN ns
           X == L \cup new
           from == [i \in X |-> IF i \in new THEN C ELSE i]
<1>1. IntegrateKept(ns, r, L, P, C, ns2)
  BY SplitKeeps
<1> HIDE DEF ns2
<1>2. PICK L2, rk2, iv2 : Shape(ns2, r, L2, rk2, iv2)
  BY <1>1 DEF IntegrateKept
<1>3. IntegrateNodes(ns, P, C, ns2)
  BY <1>1 DEF IntegrateKept
<1>4. /\ DOMAIN ns \subseteq DOMAIN ns2
      /\ \A i \in DOMAIN ns \ {P, C} : ns2[i] = ns[i]
      /\ ~ns2[P].leaf /\ ns2[P].buffer = ns[P].buffer
      /\ Children(ns2[P]) \subseteq Children(ns[P]) \cup new
      /\ \A i \in new \cup {C} : PieceOf(ns[C], ns2[i])
  BY <1>3 DEF IntegrateNodes
<1>5. Arena(ns) /\ Ranked(ns, rk) /\ L \subseteq DOMAIN ns /\ r \in L
  BY DEF Shape, Tree
<1>6. Arena(ns2) /\ Ranked(ns2, rk2) /\ X \in SUBSET DOMAIN ns2 /\ r \in X /\ r \in DOMAIN ns2
  BY <1>2, <1>4, <1>5 DEF Shape
<1>7. \A i \in L : Children(ns[i]) \subseteq L
  BY ShapeClosed
<1>8. Parented(ns, r, L, rk, P, j)
  BY ChildApart
<1>9. C \in L /\ C # P /\ C \in Children(ns[P])
  BY <1>8 DEF Parented, Children, Range
<1>10. new \cap L = {}
  BY <1>5
<1> HIDE DEF new
<1>11. \A i \in L : from[i] = i
  BY <1>10
<1>12. \A i \in new : from[i] = C
  OBVIOUS
<1> HIDE DEF from
<1>13. ASSUME NEW i \in X
       PROVE  /\ from[i] \in L /\ HeldPart(ns[from[i]], ns2[i])
              /\ \A c \in Children(ns2[i]) : c \in X /\ from[c] \in Children(ns[from[i]])
  <2>1. CASE i \in new \cup {C}
    <3>1. from[i] = C /\ PieceOf(ns[C], ns2[i])
      BY <2>1, <1>4, <1>9, <1>11, <1>12
    <3>2. HeldPart(ns[C], ns2[i]) /\ Children(ns2[i]) \subseteq Children(ns[C])
      BY <3>1 DEF PieceOf, PartlyAs, HeldPart
    <3>3. \A c \in Children(ns2[i]) : c \in L /\ from[c] = c
      BY <3>2, <1>7, <1>9, <1>11
    <3> QED BY <3>1, <3>2, <3>3, <1>9
  <2>2. CASE i = P
    <3>1. from[P] = P /\ HeldPart(ns[P], ns2[P])
      BY <1>4, <1>11 DEF HeldPart, HeldBy
    <3>2. ASSUME NEW c \in Children(ns2[P]) PROVE c \in X /\ from[c] \in Children(ns[P])
      <4>1. CASE c \in new
        BY <4>1, <1>9, <1>12
      <4>2. CASE c \in Children(ns[P])
        BY <4>2, <1>7, <1>11
      <4> QED BY <4>1, <4>2, <1>4
    <3> QED BY <2>2, <3>1, <3>2
  <2>3. CASE i \in L \ {P, C}
    <3>1. ns2[i] = ns[i] /\ from[i] = i
      BY <2>3, <1>4, <1>5, <1>11
    <3>2. HeldPart(ns[i], ns2[i]) /\ \A c \in Children(ns[i]) : c \in L /\ from[c] = c
      BY <2>3, <3>1, <1>7, <1>11 DEF HeldPart
    <3> QED BY <2>3, <3>1, <3>2
  <2> QED BY <2>1, <2>2, <2>3
<1>14. Stems(ns, r, ns2, X, from)
  BY <1>13 DEF Stems
<1>15. Subtree(ns, r) \subseteq DOMAIN ns
  BY <1>5
<1> HIDE DEF X
<1>16. Aged(ns2, r, s)
  BY <1>5, <1>6, <1>14, <1>15, AgedFrom
<1> QED BY <1>16 DEF ns2

(* Where every node is what it was, but for some children that have gone,  *)
(* ages are kept.                                                          *)
LEMMA SameAged ==
    ASSUME NEW ns, NEW rk, Arena(ns), Ranked(ns, rk), NEW r, Subtree(ns, r) \subseteq DOMAIN ns,
           NEW ns2, NEW rk2, Arena(ns2), Ranked(ns2, rk2), NEW X \in SUBSET DOMAIN ns2,
           NEW r2 \in X, X \subseteq Subtree(ns, r),
           \A i \in X : /\ HeldPart(ns[i], ns2[i]) /\ Children(ns2[i]) \subseteq Children(ns[i])
                        /\ Children(ns2[i]) \subseteq X,
           NEW s, Aged(ns, r, s)
    PROVE  Aged(ns2, r2, s)
<1> DEFINE from == [i \in X |-> i]
<1>1. \A i \in X : from[i] = i
  OBVIOUS
<1> HIDE DEF from
<1>2. Stems(ns, r, ns2, X, from)
  BY <1>1 DEF Stems
<1> QED BY <1>2, AgedFrom

(* A removal leaves what is left where it was.                             *)
LEMMA RemoveAged ==
    ASSUME NEW ns, NEW r, NEW L, L = Subtree(ns, r), NEW rk, NEW iv,
           Shape(ns, r, L, rk, iv), NEW P \in L, ~ns[P].leaf,
           NEW j \in 1 .. Len(ns[P].children), NEW C, C = ns[P].children[j],
           Hollow(ns[C]), Pending(ns[P], j) = {}, NEW s, Aged(ns, r, s)
    PROVE  Aged(remove_child(ns, P, C), r, s)
<1> DEFINE ns2 == remove_child(ns, P, C)
           X == L \ {C}
<1>1. RemoveKept(ns, r, L, rk, P, C, ns2)
  BY RemoveKeeps
<1>2. ns2 = [ns EXCEPT ![P] = Unlinked(ns[P], j)]
  BY RemovedNodes
<1> HIDE DEF ns2
<1>3. PICK iv2 : Shape(ns2, r, X, rk, iv2)
  BY <1>1 DEF RemoveKept
<1>4. Arena(ns) /\ Ranked(ns, rk) /\ L \subseteq DOMAIN ns
  BY DEF Shape, Tree
<1>5. Arena(ns2) /\ Ranked(ns2, rk) /\ X \in SUBSET DOMAIN ns2 /\ r \in X
  BY <1>3 DEF Shape, Tree
<1>6. \A i \in X : Children(ns2[i]) \subseteq X
  BY <1>3, ShapeClosed
<1>7. \A i \in L \ {P} : ns2[i] = ns[i]
  BY <1>2, <1>4
<1>8. HeldPart(ns[P], ns2[P]) /\ Children(ns2[P]) \subseteq Children(ns[P])
  <2>1. Parented(ns, r, L, rk, P, j)
    BY ChildApart
  <2>2. /\ ns[P] \in InnerNode /\ Sorted(ns[P].pivots) /\ Len(ns[P].children) = Len(ns[P].pivots) + 1
        /\ P \in DOMAIN ns /\ ns[P].children \in Seq(Nat)
    BY <2>1 DEF Parented
  <2>3. /\ ~Unlinked(ns[P], j).leaf /\ Unlinked(ns[P], j).children = RemoveAt(ns[P].children, j)
        /\ Unlinked(ns[P], j).buffer = ns[P].buffer
    BY <2>2, UnlinkedShape
  <2>4. ns2[P] = Unlinked(ns[P], j)
    BY <1>2, <2>2
  <2>5. Range(RemoveAt(ns[P].children, j)) \subseteq Range(ns[P].children)
    <3> DEFINE q == ns[P].children
    <3>1. /\ RemoveAt(q, j) \in Seq(Nat) /\ Len(RemoveAt(q, j)) = Len(q) - 1
          /\ \A x \in 1 .. (Len(q) - 1) : RemoveAt(q, j)[x] = IF x < j THEN q[x] ELSE q[x + 1]
      BY <2>2, RemoveAtFacts
    <3>2. ASSUME NEW x \in DOMAIN RemoveAt(q, j) PROVE RemoveAt(q, j)[x] \in Range(q)
      <4>1. x \in 1 .. (Len(q) - 1) /\ Len(q) \in Nat /\ DOMAIN q = 1 .. Len(q)
        BY <2>2, <3>1, SMTT(30)
      <4>2. x \in DOMAIN q /\ x + 1 \in DOMAIN q
        BY <4>1
      <4> QED BY <3>1, <4>1, <4>2 DEF Range
    <3> QED BY <3>2 DEF Range
  <2> QED BY <2>3, <2>4, <2>5 DEF HeldPart, HeldBy, Children
<1>9. \A i \in X : HeldPart(ns[i], ns2[i]) /\ Children(ns2[i]) \subseteq Children(ns[i])
  BY <1>7, <1>8 DEF HeldPart
<1>10. X \subseteq Subtree(ns, r) /\ Subtree(ns, r) \subseteq DOMAIN ns
  BY <1>4
<1> HIDE DEF X
<1>11. Aged(ns2, r, s)
  BY <1>4, <1>5, <1>6, <1>9, <1>10, SameAged
<1> QED BY <1>11 DEF ns2

(* However the delivery of a batch ends.                                   *)
LEMMA DeliverAged ==
    ASSUME NEW ns, NEW r, NEW st, Sound(ns, r, st), NEW s, Aged(ns, r, s), st # <<>>,
           NEW P, P = Last(st), NEW j \in 1 .. Len(ns[P].children), NEW C, C = ns[P].children[j],
           NEW f, f = Flushed(ns, P, j)
    PROVE  /\ Aged(f, r, s)
           /\ f[C].leaf /\ f[C].entries = Empty => Aged(remove_child(f, P, C), r, s)
           /\ Aged(Integrated(f, P, C), r, s)
<1> DEFINE L == Subtree(ns, r)
<1>1. PICK rk, iv : SoundBy(ns, r, st, L, rk, iv)
  BY LiveIs
<1>2. Shape(ns, r, L, rk, iv) /\ Arena(ns) /\ Ranked(ns, rk) /\ r \in DOMAIN ns /\ L \subseteq DOMAIN ns
  BY <1>1 DEF SoundBy, Shape, Tree
<1>3. L = Subtree(ns, r)
  OBVIOUS
<1> HIDE DEF L
<1>4. P \in L /\ ~ns[P].leaf
  BY <1>1, TopNode
<1>5. FlushSound(ns, r, st, L, rk, P, j)
  BY <1>1, TopFlushed
<1>6. PICK iv2 : SoundBy(f, r, st, L, rk, iv2)
  BY <1>5 DEF FlushSound
<1>7. LinksKept(ns, f) /\ Pending(f[P], j) = {} /\ \A i \in L : ~Barren(f[i])
  BY <1>5 DEF FlushSound
<1>8. /\ f \in Seq(AnyNode) /\ Shape(f, r, L, rk, iv2) /\ Arena(f) /\ Ranked(f, rk)
  BY <1>6 DEF SoundBy, Shape
<1>9. Parented(ns, r, L, rk, P, j)
  BY <1>2, <1>4, ChildApart
<1>10. C \in L
  BY <1>9 DEF Parented
<1>11. ~Barren(ns[C])
  BY <1>2, <1>7, <1>10 DEF Barren, LinksKept
<1>12. Aged(f, r, s)
  BY <1>2, <1>3, <1>4, <1>11, FlushAged
<1>13. Subtree(f, r) = L
  BY <1>2, <1>3, <1>7, <1>8, LinksKeptBelow
<1>14. ~f[P].leaf /\ f[P].children = ns[P].children
  BY <1>2, <1>4, <1>7 DEF LinksKept
<1>15. j \in 1 .. Len(f[P].children) /\ C = f[P].children[j] /\ L = Subtree(f, r)
  BY <1>13, <1>14
<1>16. Aged(Integrated(f, P, C), r, s)
  BY <1>4, <1>8, <1>12, <1>14, <1>15, IntegrateAged
<1>17. ASSUME f[C].leaf, f[C].entries = Empty PROVE Aged(remove_child(f, P, C), r, s)
  <2>1. Hollow(f[C])
    BY <1>17 DEF Hollow
  <2> QED BY <2>1, <1>4, <1>7, <1>8, <1>12, <1>14, <1>15, RemoveAged
<1> QED BY <1>12, <1>16, <1>17

(* A node leaves the stack.                                                *)
LEMMA SettleAged ==
    ASSUME NEW ns, NEW r, NEW st, Sound(ns, r, st), NEW s, Aged(ns, r, s), Len(st) > 1,
           NEW P, P = Last(Front(st)), NEW C, C = Last(st)
    PROVE  /\ ns[C].children = <<>> => Aged(remove_child(ns, P, C), r, s)
           /\ Aged(Integrated(ns, P, C), r, s)
<1> DEFINE L == Subtree(ns, r)
           N == Len(st) - 1
<1>1. PICK rk, iv : SoundBy(ns, r, st, L, rk, iv)
  BY LiveIs
<1>2. L = Subtree(ns, r)
  OBVIOUS
<1> HIDE DEF L
<1>3. st \in Seq(Nat) /\ Stacked(ns, r, L, st)
  BY <1>1 DEF SoundBy, Stacked
<1>4. Len(st) \in Nat /\ st # <<>> /\ N \in 1 .. Len(st) /\ N + 1 = Len(st) /\ N \in 1 .. (Len(st) - 1)
  BY <1>3
<1>5. C = st[N + 1] /\ ~ns[C].leaf
  BY <1>1, <1>4, TopNode
<1>6. P = st[N]
  <2>1. Front(st) = SubSeq(st, 1, N)
    BY DEF Front
  <2>2. Len(SubSeq(st, 1, N)) = N /\ SubSeq(st, 1, N)[N] = st[N]
    BY <1>3, <1>4
  <2> HIDE DEF N
  <2> QED BY <2>1, <2>2 DEF Last
<1> HIDE DEF N
<1>7. P \in L /\ ~ns[P].leaf
  BY <1>3, <1>4, <1>6 DEF Stacked
<1>8. PICK j \in 1 .. Len(ns[P].children) : ns[P].children[j] = C /\ Pending(ns[P], j) = {}
  <2>1. \E j \in 1 .. Len(ns[st[N]].children) :
           ns[st[N]].children[j] = st[N + 1] /\ Pending(ns[st[N]], j) = {}
    BY <1>3, <1>4 DEF Stacked, N
  <2> QED BY <2>1, <1>5, <1>6
<1>9. ns \in Seq(AnyNode) /\ Shape(ns, r, L, rk, iv)
  BY <1>1 DEF SoundBy
<1>10. ASSUME ns[C].children = <<>> PROVE Aged(remove_child(ns, P, C), r, s)
  <2>1. Hollow(ns[C])
    BY <1>5, <1>10 DEF Hollow
  <2> QED BY <2>1, <1>2, <1>7, <1>8, <1>9, RemoveAged
<1>11. Aged(Integrated(ns, P, C), r, s)
  BY <1>2, <1>7, <1>8, <1>9, IntegrateAged
<1> QED BY <1>10, <1>11

(* A new root holds nothing.                                               *)
LEMMA GrowAged ==
    ASSUME NEW ns, NEW r, NEW st, Sound(ns, r, st), NEW s, Aged(ns, r, s),
           split_if_needed(ns, r).promoted # <<>>,
           NEW ns2, ns2 = Grown(ns, r), NEW R, R = Len(split_if_needed(ns, r).nodes) + 1
    PROVE  Aged(ns2, R, s)
<1> DEFINE L == Subtree(ns, r)
           new == PieceIds(ns, ns2, R)
           X == L \cup new
           from == [i \in X |-> IF i \in new THEN r ELSE i]
<1>1. PICK rk, iv : SoundBy(ns, r, st, L, rk, iv)
  BY LiveIs
<1>2. L = Subtree(ns, r)
  OBVIOUS
<1> HIDE DEF L
<1>3. /\ ns \in Seq(AnyNode) /\ Shape(ns, r, L, rk, iv) /\ Arena(ns) /\ Ranked(ns, rk) /\ r \in L
      /\ L \subseteq DOMAIN ns
  BY <1>1 DEF SoundBy, Shape, Tree
<1>4. GrowKept(ns, r, L, ns2, R)
  BY <1>3, GrowKeeps
<1>5. PICK L2, rk2, iv2 : Shape(ns2, R, L2, rk2, iv2)
  BY <1>4 DEF GrowKept
<1>6. Arena(ns2) /\ Ranked(ns2, rk2) /\ R \in DOMAIN ns2
  BY <1>5 DEF Shape, Tree
<1>7. GrowNodes(ns, r, ns2, R)
  BY <1>4 DEF GrowKept
<1>8. /\ R \notin DOMAIN ns /\ DOMAIN ns \cup {R} \subseteq DOMAIN ns2
      /\ \A i \in DOMAIN ns \ {r} : ns2[i] = ns[i]
      /\ ~ns2[R].leaf /\ ns2[R].buffer = Empty
      /\ Children(ns2[R]) \subseteq {r} \cup new
      /\ \A i \in {r} \cup new : PieceOf(ns[r], ns2[i])
  BY <1>7 DEF GrowNodes
<1>9. new \subseteq DOMAIN ns2 /\ new \cap L = {}
  BY <1>3 DEF PieceIds
<1> HIDE DEF new
<1>10. (\A i \in L : from[i] = i) /\ (\A i \in new : from[i] = r)
  BY <1>9
<1> HIDE DEF from
<1>11. \A i \in L : Children(ns[i]) \subseteq L
  BY <1>3, ShapeClosed
<1>12. ASSUME NEW i \in X
       PROVE  /\ from[i] \in L /\ HeldPart(ns[from[i]], ns2[i])
              /\ \A c \in Children(ns2[i]) : c \in X /\ from[c] \in Children(ns[from[i]])
  <2>1. CASE i \in {r} \cup new
    <3>1. from[i] = r /\ PieceOf(ns[r], ns2[i])
      BY <2>1, <1>3, <1>8, <1>10
    <3>2. HeldPart(ns[r], ns2[i]) /\ Children(ns2[i]) \subseteq Children(ns[r])
      BY <3>1 DEF PieceOf, PartlyAs, HeldPart
    <3>3. \A c \in Children(ns2[i]) : c \in L /\ from[c] = c
      BY <3>2, <1>3, <1>10, <1>11
    <3> QED BY <3>1, <3>2, <3>3, <1>3
  <2>2. CASE i \in L \ {r}
    <3>1. ns2[i] = ns[i] /\ from[i] = i
      BY <2>2, <1>3, <1>8, <1>10
    <3>2. HeldPart(ns[i], ns2[i]) /\ \A c \in Children(ns[i]) : c \in L /\ from[c] = c
      BY <2>2, <3>1, <1>10, <1>11 DEF HeldPart
    <3> QED BY <2>2, <3>1, <3>2
  <2> QED BY <2>1, <2>2
<1>13. Stems(ns, r, ns2, X, from)
  BY <1>2, <1>12 DEF Stems
<1>14. X \in SUBSET DOMAIN ns2 /\ Subtree(ns, r) \subseteq DOMAIN ns
  BY <1>2, <1>3, <1>8, <1>9
<1>15. HeldBy(ns2[R]) = Empty /\ Children(ns2[R]) \subseteq X
  BY <1>3, <1>8 DEF HeldBy
<1>16. R \in X \/ (HeldBy(ns2[R]) = Empty /\ Children(ns2[R]) \subseteq X)
  BY <1>15
<1>17. Arena(ns) /\ Ranked(ns, rk) /\ Arena(ns2) /\ Ranked(ns2, rk2) /\ R \in DOMAIN ns2
  BY <1>3, <1>6
<1> HIDE DEF X
<1> QED BY <1>13, <1>14, <1>16, <1>17, AgedFrom

(* A part of an aged tree is aged.                                         *)
LEMMA CollapsedAged ==
    ASSUME NEW ns, NEW r, NEW st, Sound(ns, r, st), NEW s, Aged(ns, r, s),
           NEW r2, r2 = Collapsed(ns, r)
    PROVE  Aged(ns, r2, s)
<1>1. PICK rk, iv : SoundBy(ns, r, st, Subtree(ns, r), rk, iv)
  BY LiveIs
<1>2. Arena(ns) /\ Ranked(ns, rk) /\ r \in DOMAIN ns
  BY <1>1 DEF SoundBy, Shape, Tree
<1>3. Subtree(ns, r2) \subseteq Subtree(ns, r)
  BY <1>2, CollapsedBelow
<1> QED BY <1>3 DEF Aged

(* An empty leaf is.                                                       *)
LEMMA LeafAged ==
    ASSUME NEW ns, NEW rk, Arena(ns), Ranked(ns, rk), NEW R \in DOMAIN ns, ns[R] = Leaf(Empty),
           NEW r2, r2 = Collapsed(ns, R), NEW s
    PROVE  Aged(ns, r2, s)
<1>1. ns[R].leaf /\ HeldBy(ns[R]) = Empty
  BY DEF Leaf, HeldBy
<1>2. Subtree(ns, R) = {R} \cup Beneath(ns, R)
  BY SubtreeFacts
<1>3. Beneath(ns, R) = {}
  BY <1>1 DEF Beneath, Children
<1>4. NoNewer(ns[R], s)
  BY <1>1 DEF NoNewer, Empty
<1>5. Subtree(ns, r2) \subseteq Subtree(ns, R)
  BY CollapsedBelow
<1> QED BY <1>2, <1>3, <1>4, <1>5 DEF Aged

(* A new message is newer than all that is there.                          *)
LEMMA EnterAged ==
    ASSUME NEW ns, NEW r, Sound(ns, r, <<>>), NEW s \in Nat, Aged(ns, r, s), NEW k \in Keys,
           NEW m \in MessagesOf(Nat), m.seq = s + 1, NEW ns2, ns2 = WithMessage(ns, r, k, m)
    PROVE  Aged(ns2, r, s + 1)
<1> DEFINE L == Subtree(ns, r)
           batch == [key \in {k} |-> m]
<1>1. PICK rk, iv : SoundBy(ns, r, <<>>, L, rk, iv)
  BY LiveIs
<1>2. L = Subtree(ns, r)
  OBVIOUS
<1> HIDE DEF L
<1>3. /\ Shape(ns, r, L, rk, iv) /\ r \in L /\ ~Barren(ns[r]) /\ Arena(ns) /\ Ranked(ns, rk)
      /\ L \subseteq DOMAIN ns
  BY <1>1 DEF SoundBy, Shape, Tree, BarrenOnTop
<1>4. EnteredAs(ns, r, L, rk, k, m, ns2)
  BY <1>3, EnteredNodes
<1>5. PICK iv2 : Shape(ns2, r, L, rk, iv2)
  BY <1>4 DEF EnteredAs
<1>6. /\ \A i \in L \ {r} : ns2[i] = ns[i]
      /\ ns2[r] = Applied(ns[r], batch) /\ LinksKept(ns, ns2)
  BY <1>4 DEF EnteredAs
<1>7. batch \in Maps(MessagesOf(Nat)) /\ DOMAIN batch = {k} /\ batch[k] = m
  <2>1. /\ DOMAIN batch = {k} /\ batch[k] = m /\ batch = [x \in DOMAIN batch |-> batch[x]]
        /\ IsFiniteSet({k})
    BY FS_Singleton
  <2> HIDE DEF batch
  <2> QED BY <2>1, MapFacts
<1> HIDE DEF batch
<1>8. AgesOf(ns[r], batch, ns2[r])
  BY <1>3, <1>6, <1>7, AppliedAges DEF Arena
<1>9. Arena(ns2) /\ Ranked(ns2, rk)
  BY <1>5 DEF Shape
<1>10. \A i \in DOMAIN ns : Subtree(ns2, i) = Subtree(ns, i) /\ Beneath(ns2, i) = Beneath(ns, i)
  BY <1>3, <1>6, <1>9, LinksKeptBelow
<1>11. \A i \in L : NoNewer(ns[i], s) /\ \A d \in Beneath(ns, i) : Newer(ns[i], ns[d])
  BY <1>2 DEF Aged
<1>12. ASSUME NEW i \in L, NEW x \in DOMAIN HeldBy(ns[i])
       PROVE  HeldBy(ns[i])[x].seq \in Nat /\ HeldBy(ns[i])[x].seq <= s
  <2>1. NodeOk(ns[i])
    BY <1>3 DEF Arena
  <2>2. CASE ns[i].leaf
    <3>1. ns[i].entries \in Maps(Entries(Nat))
      BY <2>1, <2>2 DEF NodeOk, LeafNode, InnerNode
    <3>2. HeldBy(ns[i]) = ns[i].entries
      BY <2>2 DEF HeldBy
    <3>3. HeldBy(ns[i])[x] \in Entries(Nat)
      BY <3>1, <3>2, MapFacts
    <3> QED BY <3>3, <1>11 DEF NoNewer, Entries
  <2>3. CASE ~ns[i].leaf
    <3>1. ns[i].buffer \in Maps(MessagesOf(Nat))
      BY <2>1, <2>3 DEF NodeOk, LeafNode, InnerNode
    <3>2. HeldBy(ns[i]) = ns[i].buffer
      BY <2>3 DEF HeldBy
    <3>3. HeldBy(ns[i])[x] \in MessagesOf(Nat)
      BY <3>1, <3>2, MapFacts
    <3> QED BY <3>3, <1>11 DEF NoNewer, MessagesOf
  <2> QED BY <2>2, <2>3
<1>13. ASSUME NEW i \in L, NEW d \in Beneath(ns, i) PROVE d \in L \ {r}
  <2>1. /\ Subtree(ns, r) = {r} \cup Beneath(ns, r) /\ r \notin Beneath(ns, r)
        /\ \A x \in Beneath(ns, r) : Subtree(ns, x) \subseteq Beneath(ns, r)
    BY <1>3, SubtreeFacts
  <2>2. Beneath(ns, i) \subseteq Subtree(ns, i)
    BY <1>3, SubtreeFacts
  <2>3. Beneath(ns, i) \subseteq Beneath(ns, r)
    BY <2>1, <2>2, <1>2
  <2> QED BY <2>1, <2>3, <1>2
<1>14. ASSUME NEW i \in L PROVE NoNewer(ns2[i], s + 1)
  <2>1. CASE i = r
    <3>1. ASSUME NEW x \in DOMAIN HeldBy(ns2[r]) PROVE HeldBy(ns2[r])[x].seq <= s + 1
      <4>1. CASE x = k
        BY <4>1, <1>7, <1>8 DEF AgesOf
      <4>2. CASE x # k
        <5>1. x \in DOMAIN HeldBy(ns[r]) /\ HeldBy(ns2[r])[x] = HeldBy(ns[r])[x]
          BY <4>2, <1>7, <1>8 DEF AgesOf
        <5>2. HeldBy(ns[r])[x].seq \in Nat /\ HeldBy(ns[r])[x].seq <= s
          BY <5>1, <1>3, <1>12
        <5> QED BY <5>1, <5>2
      <4> QED BY <4>1, <4>2
    <3> QED BY <2>1, <3>1 DEF NoNewer
  <2>2. CASE i # r
    <3>1. \A x \in DOMAIN HeldBy(ns[i]) : HeldBy(ns[i])[x].seq <= s + 1
      <4> SUFFICES ASSUME NEW x \in DOMAIN HeldBy(ns[i]) PROVE HeldBy(ns[i])[x].seq <= s + 1
        OBVIOUS
      <4>1. HeldBy(ns[i])[x].seq \in Nat /\ HeldBy(ns[i])[x].seq <= s
        BY <1>12
      <4> QED BY <4>1
    <3> QED BY <2>2, <3>1, <1>6 DEF NoNewer
  <2> QED BY <2>1, <2>2
<1>15. ASSUME NEW i \in L, NEW d \in Beneath(ns, i) PROVE Newer(ns2[i], ns2[d])
  <2>1. d \in L \ {r} /\ ns2[d] = ns[d] /\ Newer(ns[i], ns[d])
    BY <1>6, <1>11, <1>13
  <2>2. CASE i = r
    <3>1. ASSUME NEW x \in DOMAIN HeldBy(ns2[r]), x \in DOMAIN HeldBy(ns[d])
          PROVE  HeldBy(ns[d])[x].seq < HeldBy(ns2[r])[x].seq
      <4>1. CASE x = k
        <5>1. HeldBy(ns2[r])[x].seq = s + 1
          BY <4>1, <3>1, <1>7, <1>8 DEF AgesOf
        <5>2. HeldBy(ns[d])[x].seq \in Nat /\ HeldBy(ns[d])[x].seq <= s
          BY <2>1, <3>1, <1>12
        <5> QED BY <5>1, <5>2
      <4>2. CASE x # k
        <5>1. x \in DOMAIN HeldBy(ns[r]) /\ HeldBy(ns2[r])[x] = HeldBy(ns[r])[x]
          BY <4>2, <3>1, <1>7, <1>8 DEF AgesOf
        <5> QED BY <5>1, <2>1, <2>2, <3>1 DEF Newer
      <4> QED BY <4>1, <4>2
    <3> QED BY <2>1, <2>2, <3>1 DEF Newer
  <2>3. CASE i # r
    BY <2>1, <2>3, <1>6
  <2> QED BY <2>2, <2>3
<1>16. Subtree(ns2, r) = L /\ \A i \in L : Beneath(ns2, i) = Beneath(ns, i)
  BY <1>2, <1>3, <1>10
<1> QED BY <1>14, <1>15, <1>16 DEF Aged

(* A commit leaves ages alone.                                             *)
LEMMA CleanAged ==
    ASSUME NEW ns, NEW r, Sound(ns, r, <<>>), NEW s, Aged(ns, r, s), NEW D, NEW ns2,
           ns2 = [i \in DOMAIN ns |-> IF i \in D THEN [ns[i] EXCEPT !.dirty = FALSE] ELSE ns[i]]
    PROVE  Aged(ns2, r, s)
<1> DEFINE L == Subtree(ns, r)
<1>1. PICK rk, iv : SoundBy(ns, r, <<>>, L, rk, iv)
  BY LiveIs
<1>2. L = Subtree(ns, r)
  OBVIOUS
<1> HIDE DEF L
<1>3. /\ ns \in Seq(AnyNode) /\ Shape(ns, r, L, rk, iv) /\ r \in L /\ L \subseteq DOMAIN ns
      /\ Arena(ns) /\ Ranked(ns, rk)
  BY <1>1 DEF SoundBy, Shape, Tree
<1>4. /\ DOMAIN ns2 = DOMAIN ns /\ ns2 = [i \in DOMAIN ns |-> ns2[i]]
      /\ \A i \in DOMAIN ns : ns2[i] \in AnyNode /\ Alike(ns2[i], ns[i])
  BY <1>3, CleanedNodes
<1>5. Shape(ns2, r, L, rk, iv)
  BY <1>3, <1>4, AlikeKeeps
<1>6. Arena(ns2) /\ Ranked(ns2, rk) /\ L \in SUBSET DOMAIN ns2
  BY <1>5 DEF Shape, Tree
<1>7. \A i \in L : Children(ns2[i]) \subseteq L
  BY <1>5, ShapeClosed
<1>8. \A i \in L : HeldPart(ns[i], ns2[i]) /\ Children(ns2[i]) \subseteq Children(ns[i])
  BY <1>3, <1>4 DEF Alike, HeldPart, HeldBy, Children
<1>9. L \subseteq Subtree(ns, r) /\ Subtree(ns, r) \subseteq DOMAIN ns
  BY <1>2, <1>3
<1> QED BY <1>3, <1>6, <1>7, <1>8, <1>9, SameAged

(* No step of the engine puts an older message above a newer one.          *)
LEMMA AgeKept == ASSUME MapInv, AgeInv, [Next]_vars PROVE AgeInv'
<1>1. Aged(nodes, root, next_seq) /\ Sound(nodes, root, flushing) /\ next_seq \in Nat
  BY DEF AgeInv, MapInv
<1>2. ASSUME NEW k \in Keys, NEW m \in MessagesOf(Nat), m.seq = next_seq + 1, Mutation(k, m)
      PROVE  AgeInv'
  <2>1. flushing = <<>>
    BY <1>2 DEF Mutation, MapInv
  <2>2. nodes' = WithMessage(nodes, root, k, m) /\ root' = root /\ next_seq' = next_seq + 1
    BY <1>2, Zenon DEF Mutation, apply_root, Restore, WithMessage
  <2>3. Aged(nodes', root, next_seq + 1)
    BY <1>1, <1>2, <2>1, <2>2, EnterAged
  <2> QED BY <2>2, <2>3 DEF AgeInv
<1>3. ASSUME drain \/ Descend PROVE AgeInv'
  <2>1. nodes' = nodes /\ root' = root /\ next_seq' = next_seq
    BY <1>3 DEF drain, Restore, Descend
  <2> QED BY <2>1, <1>1 DEF AgeInv
<1>4. ASSUME simulate_commit PROVE AgeInv'
  <2>1. /\ flushing = <<>> /\ root' = root /\ next_seq' = next_seq
        /\ nodes' = [i \in DOMAIN nodes |->
                       IF i \in DirtyWalk THEN [nodes[i] EXCEPT !.dirty = FALSE] ELSE nodes[i]]
    BY <1>4 DEF simulate_commit, MapInv
  <2>2. Aged(nodes', root, next_seq)
    BY <1>1, <2>1, CleanAged
  <2> QED BY <2>1, <2>2 DEF AgeInv
<1>5. ASSUME Flushing, NEW i \in DOMAIN nodes[Top].children, Deliver(i) PROVE AgeInv'
  <2> DEFINE P == Top
             C == nodes[P].children[i]
             f == Flushed(nodes, P, i)
  <2>1. PICK L, rk, iv : SoundBy(nodes, root, flushing, L, rk, iv)
    BY <1>1 DEF Sound
  <2>2. flushing # <<>> /\ P = Last(flushing)
    BY <1>5 DEF Flushing, Top
  <2>3. i \in 1 .. Len(nodes[P].children)
    <3>1. Arena(nodes) /\ P \in DOMAIN nodes /\ ~nodes[P].leaf
      BY <2>1, <2>2, TopNode, SMTT(30) DEF SoundBy, Shape, Tree
    <3>2. nodes[P].children \in Seq(Nat)
      BY <3>1 DEF Arena, NodeOk, LeafNode, InnerNode
    <3> QED BY <1>5, <3>2
  <2>4. root' = root /\ next_seq' = next_seq
    BY <1>5 DEF Deliver
  <2>5. \/ nodes' = f
        \/ f[C].leaf /\ f[C].entries = Empty /\ nodes' = remove_child(f, P, C)
        \/ nodes' = Integrated(f, P, C)
    BY <1>5, Zenon DEF Deliver, Flushed, Integrated
  <2>6. f = Flushed(nodes, P, i) /\ C = nodes[P].children[i]
    OBVIOUS
  <2> HIDE DEF f, C, P
  <2>7. /\ Aged(f, root, next_seq)
        /\ f[C].leaf /\ f[C].entries = Empty => Aged(remove_child(f, P, C), root, next_seq)
        /\ Aged(Integrated(f, P, C), root, next_seq)
    BY <1>1, <2>2, <2>3, <2>6, DeliverAged
  <2> QED BY <2>4, <2>5, <2>7 DEF AgeInv
<1>6. ASSUME SettleChild PROVE AgeInv'
  <2> DEFINE P == Last(Front(flushing))
  <2>1. Len(flushing) > 1 /\ Top = Last(flushing) /\ P = Last(Front(flushing))
    BY <1>6 DEF SettleChild, Top
  <2>2. root' = root /\ next_seq' = next_seq
    BY <1>6 DEF SettleChild
  <2>3. \/ nodes[Top].children = <<>> /\ nodes' = remove_child(nodes, P, Top)
        \/ nodes' = Integrated(nodes, P, Top)
    BY <1>6, Zenon DEF SettleChild, TopRemoved, Integrated
  <2> HIDE DEF P
  <2>4. /\ nodes[Top].children = <<>> => Aged(remove_child(nodes, P, Top), root, next_seq)
        /\ Aged(Integrated(nodes, P, Top), root, next_seq)
    BY <1>1, <2>1, SettleAged
  <2> QED BY <2>2, <2>3, <2>4 DEF AgeInv
<1>7. ASSUME RestartEmpty PROVE AgeInv'
  <2> DEFINE R == Len(nodes) + 1
  <2>1. /\ flushing # <<>> /\ Len(flushing) = 1 /\ nodes[Last(flushing)].children = <<>>
        /\ nodes' = Append(nodes, Leaf(Empty)) /\ root' = Collapsed(nodes', R)
        /\ next_seq' = next_seq
    BY <1>7 DEF RestartEmpty, RootDone, RootRemoved, TopRemoved, Top, Finish
  <2>2. PICK L, rk, iv : SoundBy(nodes, root, flushing, L, rk, iv)
    BY <1>1 DEF Sound
  <2>3. nodes \in Seq(AnyNode) /\ Shape(nodes, root, L, rk, iv)
    BY <2>2 DEF SoundBy
  <2>4. Last(flushing) = root /\ ~nodes[root].leaf
    BY <2>1, <2>2, TopNode
  <2>5. Barren(nodes[root])
    BY <2>1, <2>4 DEF Barren
  <2>6. RestartKept(nodes, root, Append(nodes, Leaf(Empty)), Len(nodes) + 1)
    BY <2>3, <2>5, RestartKeeps
  <2>7. PICK rk2, iv2 : Shape(nodes', R, {R}, rk2, iv2)
    BY <2>1, <2>6 DEF RestartKept
  <2>8. nodes'[R] = Leaf(Empty)
    <3>1. Append(nodes, Leaf(Empty))[Len(nodes) + 1] = Leaf(Empty)
      BY <2>3
    <3> QED BY <2>1, <3>1
  <2> HIDE DEF R
  <2>9. Arena(nodes') /\ Ranked(nodes', rk2) /\ R \in DOMAIN nodes'
    BY <2>7 DEF Shape, Tree
  <2>10. Aged(nodes', root', next_seq)
    BY <2>1, <2>8, <2>9, LeafAged
  <2> QED BY <2>1, <2>10 DEF AgeInv
<1>8. ASSUME Grow PROVE AgeInv'
  <2>1. /\ next_seq' = next_seq /\ split_if_needed(nodes, root).promoted # <<>>
        /\ nodes' = Grown(nodes, root) /\ root' = Len(split_if_needed(nodes, root).nodes) + 1
    BY <1>8, Zenon DEF Grow, Restore, Grown, RootOver, RootSplit
  <2>2. Aged(nodes', root', next_seq)
    BY <1>1, <2>1, GrowAged
  <2> QED BY <2>1, <2>2 DEF AgeInv
<1>9. ASSUME Return PROVE AgeInv'
  <2>1. nodes' = nodes /\ root' = Collapsed(nodes, root) /\ next_seq' = next_seq
    BY <1>9 DEF Return, Finish
  <2>2. Aged(nodes, root', next_seq)
    BY <1>1, <2>1, CollapsedAged
  <2> QED BY <2>1, <2>2 DEF AgeInv
<1>10. ASSUME Cascade PROVE AgeInv'
  BY <1>3, <1>5, <1>6, <1>7, <1>8, <1>9, <1>10, Zenon DEF Cascade
<1>11. ASSUME UNCHANGED vars PROVE AgeInv'
  BY <1>11 DEF vars, AgeInv
<1> QED BY <1>2, <1>3, <1>4, <1>10, <1>11, StepIs

(* An empty leaf holds nothing.                                            *)
LEMMA StartsAged == ASSUME Init PROVE AgeInv
<1>1. PICK L, rk, iv : SoundBy(nodes, root, flushing, L, rk, iv)
  BY StartsEmpty DEF MapInv, Sound
<1>2. nodes[root] = Leaf(Empty)
  BY DEF Init
<1>3. Arena(nodes) /\ Ranked(nodes, rk) /\ root \in DOMAIN nodes
  BY <1>1 DEF SoundBy, Shape, Tree
<1>4. PICK to \in [DOMAIN nodes -> DOMAIN nodes] :
         /\ \A i \in DOMAIN nodes : to[i] = IF GivesWay(nodes[i]) THEN to[nodes[i].children[1]] ELSE i
         /\ \A i \in DOMAIN nodes : Collapsed(nodes, i) = to[i]
  BY <1>3, CollapsedIs
<1>5. root = Collapsed(nodes, root)
  BY <1>2, <1>3, <1>4 DEF GivesWay, Leaf
<1> QED BY <1>2, <1>3, <1>5, LeafAged DEF AgeInv

-----------------------------------------------------------------------------
(* The path that routing takes                                             *)

(* path gives the path of key k from every node.                           *)
Routes(ns, k, path) ==
    /\ path \in [DOMAIN ns -> Seq(DOMAIN ns)]
    /\ \A i \in DOMAIN ns :
          path[i] = <<i>> \o (IF AtEnd(ns[i]) THEN <<>> ELSE path[Child(ns[i], k)])

(* PathOf meets its definition.                                            *)
LEMMA PathIs ==
    ASSUME NEW rk, Arena(nodes), Ranked(nodes, rk), root \in DOMAIN nodes, NEW k \in Nat
    PROVE  \E path : Routes(nodes, k, path) /\ PathOf(k) = path[root]
<1> DEFINE D == DOMAIN nodes
           V == Seq(D)
           G(f) == [i \in D |-> <<i>> \o (IF AtEnd(nodes[i]) THEN <<>> ELSE f[Child(nodes[i], k)])]
<1>0. rk \in [D -> Nat]
  BY DEF Ranked
<1>1. PICK H \in Nat : \A i \in D : rk[i] <= H
  BY DEF Ranked
<1>2. ASSUME NEW i \in D, ~AtEnd(nodes[i])
      PROVE  Child(nodes[i], k) \in D /\ rk[Child(nodes[i], k)] < rk[i]
  <2>1. Routable(nodes, rk, i, k)
    BY <1>2, ChildFacts DEF AtEnd
  <2>2. /\ Child(nodes[i], k) \in D /\ rk[i] = rk[Child(nodes[i], k)] + 1
        /\ rk[Child(nodes[i], k)] \in Nat
    BY <2>1 DEF Routable
  <2> QED BY <2>2
<1>3. ASSUME NEW i \in D, NEW v \in V PROVE <<i>> \o v \in V /\ <<i>> \o <<>> \in V
  <2>1. <<i>> \in V /\ <<>> \in V
    OBVIOUS
  <2> QED BY <2>1
<1>4. PICK h : h = G(h)
  <2> DEFINE F == [x \in D \X [D -> V] |->
                     <<x[1]>> \o (IF AtEnd(nodes[x[1]]) THEN <<>> ELSE x[2][Child(nodes[x[1]], k)])]
  <2>1. F \in [D \X [D -> V] -> V]
    <3>1. ASSUME NEW x \in D \X [D -> V]
          PROVE  (<<x[1]>> \o (IF AtEnd(nodes[x[1]]) THEN <<>> ELSE x[2][Child(nodes[x[1]], k)])) \in V
      <4>1. x[1] \in D /\ x[2] \in [D -> V]
        OBVIOUS
      <4> HIDE DEF D, V
      <4>2. CASE AtEnd(nodes[x[1]])
        <5>1. <<>> \in V
          BY DEF V
        <5> QED BY <4>1, <4>2, <5>1, <1>3
      <4>3. CASE ~AtEnd(nodes[x[1]])
        <5>1. x[2][Child(nodes[x[1]], k)] \in V
          BY <4>1, <4>3, <1>2
        <5> QED BY <4>1, <4>3, <5>1, <1>3
      <4> QED BY <4>2, <4>3
    <3> QED BY <3>1
  <2>2. ASSUME NEW i \in D, NEW f \in [D -> V]
        PROVE  F[<<i, f>>] = <<i>> \o (IF AtEnd(nodes[i]) THEN <<>> ELSE f[Child(nodes[i], k)])
    <3>1. <<i, f>> \in D \X [D -> V] /\ <<i, f>>[1] = i /\ <<i, f>>[2] = f
      OBVIOUS
    <3> QED BY <3>1, Zenon
  <2> HIDE DEF F
  <2>3. ASSUME NEW i \in D, NEW f \in [D -> V], NEW g \in [D -> V],
               \A c \in D : rk[c] < rk[i] => f[c] = g[c]
        PROVE  F[<<i, f>>] = F[<<i, g>>]
    <3>1. ~AtEnd(nodes[i]) => f[Child(nodes[i], k)] = g[Child(nodes[i], k)]
      BY <2>3, <1>2
    <3>2. (IF AtEnd(nodes[i]) THEN <<>> ELSE f[Child(nodes[i], k)])
            = (IF AtEnd(nodes[i]) THEN <<>> ELSE g[Child(nodes[i], k)])
      BY <3>1, Zenon
    <3> QED BY <3>2, <2>2
  <2>4. <<>> \in V
    OBVIOUS
  <2>5. PICK f \in [D -> V] : \A i \in D : f[i] = F[<<i, f>>]
    <3> HIDE DEF D, V
    <3>1. Local(D, rk, V, F)
      BY <2>3, Zenon DEF Local
    <3>2. Recursive(D, V, F)
      BY <1>0, <1>1, <2>1, <2>4, <3>1, RankRecursion
    <3> QED BY <3>2, Zenon DEF Recursive
  <2>6. f = G(f)
    <3>1. \A i \in D : f[i] = <<i>> \o (IF AtEnd(nodes[i]) THEN <<>> ELSE f[Child(nodes[i], k)])
      BY <2>2, <2>5
    <3>2. f = [i \in D |-> f[i]]
      OBVIOUS
    <3> QED BY <3>1, <3>2, Zenon
  <2> QED BY <2>6, Zenon
<1> DEFINE path == CHOOSE f : f = G(f)
<1>5. path = G(path)
  <2> HIDE DEF G
  <2> QED BY <1>4, Zenon
<1>6. PathOf(k) = path[root]
  BY Zenon DEF PathOf
<1> HIDE DEF path
<1>7. \A i \in D : path[i] = <<i>> \o (IF AtEnd(nodes[i]) THEN <<>> ELSE path[Child(nodes[i], k)])
  BY <1>5, Zenon
<1>8. path \in [D -> V]
  <2> DEFINE S == {i \in D : path[i] \in V}
  <2>1. ASSUME NEW i \in D, \A c \in D : rk[c] < rk[i] => c \in S PROVE i \in S
    <3>1. CASE AtEnd(nodes[i])
      <4>1. path[i] = <<i>> \o <<>>
        <5> HIDE DEF V
        <5> QED BY <3>1, <1>7
      <4>2. <<>> \in V
        OBVIOUS
      <4> HIDE DEF V
      <4> QED BY <4>1, <4>2, <1>3
    <3>2. CASE ~AtEnd(nodes[i])
      <4>1. path[Child(nodes[i], k)] \in V
        BY <3>2, <1>2, <2>1
      <4>2. path[i] = <<i>> \o path[Child(nodes[i], k)]
        BY <3>2, <1>7
      <4> HIDE DEF V
      <4> QED BY <4>1, <4>2, <1>3
    <3> QED BY <3>1, <3>2
  <2>2. \A i \in D : i \in S
    <3> HIDE DEF S, D, V
    <3> QED BY <1>0, <2>1, RankInduction
  <2>3. path = [i \in D |-> path[i]]
    BY <1>5, Zenon
  <2> QED BY <2>2, <2>3
<1> QED BY <1>6, <1>7, <1>8, Zenon DEF Routes

(* A path from a node begins there and goes on with a path from a child.   *)
LEMMA PathStep ==
    ASSUME NEW ns, NEW rk, Arena(ns), Ranked(ns, rk), NEW k \in Nat, NEW path, Routes(ns, k, path),
           NEW i \in DOMAIN ns
    PROVE  /\ path[i] \in Seq(DOMAIN ns) /\ Len(path[i]) \in Nat /\ Len(path[i]) >= 1
           /\ path[i][1] = i
           /\ AtEnd(ns[i]) => Len(path[i]) = 1
           /\ ~AtEnd(ns[i]) =>
                 LET c == Child(ns[i], k)
                 IN /\ c \in Children(ns[i]) /\ c \in DOMAIN ns /\ rk[c] < rk[i]
                    /\ Len(path[i]) = Len(path[c]) + 1
                    /\ \A x \in 1 .. Len(path[c]) : path[i][x + 1] = path[c][x]
<1> DEFINE c == Child(ns[i], k)
<1>1. path[i] \in Seq(DOMAIN ns) /\ \A x \in DOMAIN ns : path[x] \in Seq(DOMAIN ns)
  BY DEF Routes
<1>2. CASE AtEnd(ns[i])
  <2>1. path[i] = <<i>> \o <<>>
    BY <1>2 DEF Routes
  <2>2. <<i>> \o <<>> = <<i>>
    OBVIOUS
  <2> QED BY <2>1, <2>2, <1>1, <1>2
<1>3. CASE ~AtEnd(ns[i])
  <2>1. path[i] = <<i>> \o path[c]
    BY <1>3 DEF Routes
  <2>2. Routable(ns, rk, i, k)
    BY <1>3, ChildFacts DEF AtEnd
  <2>3. c \in Children(ns[i])
    <3>1. ~ns[i].leaf
      BY <1>3 DEF AtEnd
    <3>2. ns[i].children \in Seq(Nat)
      BY <3>1 DEF Arena, NodeOk, LeafNode, InnerNode
    <3>3. route(ns[i].pivots, k) \in DOMAIN ns[i].children
      BY <2>2, <3>2 DEF Routable
    <3> QED BY <3>1, <3>3 DEF Children, Child, Range
  <2>4. c \in DOMAIN ns /\ rk[c] < rk[i]
    BY <2>3, ChildrenLower
  <2> HIDE DEF c
  <2>5. path[c] \in Seq(DOMAIN ns) /\ <<i>> \in Seq(DOMAIN ns) /\ Len(<<i>>) = 1 /\ <<i>>[1] = i
    BY <1>1, <2>4
  <2>6. /\ Len(path[i]) = 1 + Len(path[c]) /\ path[i][1] = i /\ Len(path[c]) \in Nat
        /\ \A x \in 1 .. Len(path[c]) : path[i][1 + x] = path[c][x]
    <3> DEFINE a == <<i>>
               b == path[c]
    <3>1. /\ Len(a \o b) = Len(a) + Len(b) /\ \A x \in 1 .. Len(a) : (a \o b)[x] = a[x]
          /\ \A x \in 1 .. Len(b) : (a \o b)[Len(a) + x] = b[x]
      <4> HIDE DEF a, b
      <4>1. a \in Seq(DOMAIN ns) /\ b \in Seq(DOMAIN ns)
        BY <2>5 DEF a, b
      <4> QED BY <4>1
    <3> QED BY <3>1, <2>1, <2>5
  <2>7. Len(path[i]) \in Nat /\ Len(path[i]) >= 1 /\ Len(path[i]) = Len(path[c]) + 1
    BY <2>6
  <2>8. \A x \in 1 .. Len(path[c]) : path[i][x + 1] = path[c][x]
    <3>1. \A x \in 1 .. Len(path[c]) : 1 + x = x + 1
      BY <2>6
    <3> QED BY <3>1, <2>6
  <2> QED BY <1>1, <1>3, <2>3, <2>4, <2>6, <2>7, <2>8 DEF c
<1> QED BY <1>2, <1>3

(* Every node on a path but the first is beneath those before it.          *)
LEMMA PathDown ==
    ASSUME NEW ns, NEW rk, Arena(ns), Ranked(ns, rk), NEW k \in Nat, NEW path, Routes(ns, k, path)
    PROVE  \A i \in DOMAIN ns :
              /\ \A a \in 1 .. Len(path[i]) : path[i][a] \in Subtree(ns, i)
              /\ \A a, b \in 1 .. Len(path[i]) : a < b => path[i][b] \in Beneath(ns, path[i][a])
<1> DEFINE D == DOMAIN ns
           In(i) == \A a \in 1 .. Len(path[i]) : path[i][a] \in Subtree(ns, i)
           Down(i) == \A a, b \in 1 .. Len(path[i]) : a < b => path[i][b] \in Beneath(ns, path[i][a])
           G == {i \in D : In(i) /\ Down(i)}
<1>1. rk \in [D -> Nat]
  BY DEF Ranked
<1>2. \A i \in D : Subtree(ns, i) = {i} \cup Beneath(ns, i)
  BY SubtreeFacts
<1>3. ASSUME NEW i \in D, \A c \in D : rk[c] < rk[i] => c \in G PROVE i \in G
  <2>1. path[i][1] = i /\ Len(path[i]) \in Nat /\ (AtEnd(ns[i]) => Len(path[i]) = 1)
    BY PathStep
  <2>2. CASE AtEnd(ns[i])
    <3>1. Len(path[i]) = 1
      BY <2>1, <2>2
    <3>2. In(i)
      BY <2>1, <3>1, <1>2
    <3>3. Down(i)
      BY <3>1
    <3> QED BY <3>2, <3>3
  <2>3. CASE ~AtEnd(ns[i])
    <3> DEFINE c == Child(ns[i], k)
    <3>1. /\ c \in Children(ns[i]) /\ c \in D /\ rk[c] < rk[i] /\ Len(path[i]) = Len(path[c]) + 1
          /\ \A x \in 1 .. Len(path[c]) : path[i][x + 1] = path[c][x]
      BY <2>3, PathStep
    <3> HIDE DEF c
    <3>2. Len(path[c]) \in Nat
      BY <3>1, PathStep
    <3>3. In(c) /\ Down(c)
      BY <3>1, <1>3
    <3>4. Subtree(ns, c) \subseteq Beneath(ns, i)
      BY <3>1 DEF Beneath
    <3>5. ASSUME NEW a \in 1 .. Len(path[i]), a # 1
          PROVE  /\ a - 1 \in 1 .. Len(path[c]) /\ path[i][a] = path[c][a - 1]
                 /\ path[i][a] \in Beneath(ns, i)
      <4>1. a - 1 \in 1 .. Len(path[c]) /\ (a - 1) + 1 = a
        BY <3>1, <3>2, <3>5
      <4>2. path[i][a] = path[c][a - 1]
        BY <3>1, <4>1
      <4> QED BY <4>1, <4>2, <3>3, <3>4
    <3>6. In(i)
      BY <3>5, <2>1, <1>2
    <3>7. ASSUME NEW a \in 1 .. Len(path[i]), NEW b \in 1 .. Len(path[i]), a < b
          PROVE  path[i][b] \in Beneath(ns, path[i][a])
      <4>1. b # 1 /\ (a # 1 => a - 1 < b - 1)
        BY <3>7
      <4>2. CASE a = 1
        BY <4>1, <4>2, <3>5, <2>1
      <4>3. CASE a # 1
        <5>1. /\ a - 1 \in 1 .. Len(path[c]) /\ path[i][a] = path[c][a - 1]
              /\ b - 1 \in 1 .. Len(path[c]) /\ path[i][b] = path[c][b - 1]
          BY <4>1, <4>3, <3>5
        <5> QED BY <5>1, <4>1, <4>3, <3>3
      <4> QED BY <4>2, <4>3
    <3> HIDE DEF In, Down
    <3>8. Down(i)
      BY <3>7 DEF Down
    <3> QED BY <3>6, <3>8
  <2> QED BY <2>2, <2>3
<1>4. \A i \in D : i \in G
  <2> HIDE DEF G, D
  <2> QED BY <1>1, <1>3, RankInduction
<1> QED BY <1>4

(* A live node has a child that k is in the range of only if routing k     *)
(* leads to it: going down the tree to any node in whose range k is, one   *)
(* stays on the path of k.                                                 *)
LEMMA PathReaches ==
    ASSUME NEW ns, NEW r, NEW L, NEW rk, NEW iv, Shape(ns, r, L, rk, iv),
           NEW k \in Nat, NEW path, Routes(ns, k, path)
    PROVE  \A i \in L : \A d \in Subtree(ns, i) :
              k \in iv[d] => k \in iv[i] /\ \E a \in 1 .. Len(path[i]) : path[i][a] = d
<1> DEFINE D == DOMAIN ns
           On(i, d) == k \in iv[d] => k \in iv[i] /\ \E a \in 1 .. Len(path[i]) : path[i][a] = d
           G == {i \in D : i \in L => \A d \in Subtree(ns, i) : On(i, d)}
<1>0. Arena(ns) /\ Ranked(ns, rk) /\ Tree(ns, r, L) /\ Ranges(ns, r, L, iv) /\ L \subseteq D
  BY DEF Shape, Tree
<1>1. rk \in [D -> Nat]
  BY <1>0 DEF Ranked
<1>2. \A i \in D : Subtree(ns, i) = {i} \cup Beneath(ns, i)
  BY <1>0, SubtreeFacts
<1>3. ASSUME NEW i \in D, \A c \in D : rk[c] < rk[i] => c \in G PROVE i \in G
  <2> SUFFICES ASSUME i \in L, NEW d \in Subtree(ns, i), k \in iv[d]
               PROVE  k \in iv[i] /\ \E a \in 1 .. Len(path[i]) : path[i][a] = d
    OBVIOUS
  <2>1. path[i][1] = i /\ 1 \in 1 .. Len(path[i])
    <3>1. path[i][1] = i /\ Len(path[i]) \in Nat /\ Len(path[i]) >= 1
      BY <1>0, PathStep
    <3> QED BY <3>1
  <2>2. CASE d = i
    BY <2>1, <2>2
  <2>3. CASE d # i
    <3>1. PICK c \in Children(ns[i]) : d \in Subtree(ns, c)
      BY <2>3, <1>2 DEF Beneath
    <3>2. c \in D /\ rk[c] < rk[i] /\ ~ns[i].leaf /\ c \in L
      BY <1>0, ChildrenLower, ShapeClosed
    <3>3. PICK j \in 1 .. Len(ns[i].children) : c = ns[i].children[j]
      BY <1>0, ChildrenLower
    <3>4. On(c, d)
      BY <3>1, <3>2, <1>3
    <3>5. k \in iv[c] /\ \E a \in 1 .. Len(path[c]) : path[c][a] = d
      BY <3>4
    <3>6. k \in iv[i] /\ route(ns[i].pivots, k) = j
      BY <3>2, <3>3, <3>5, <1>0 DEF Ranges
    <3>7. Child(ns[i], k) = c
      BY <3>3, <3>6 DEF Child
    <3>8. ~AtEnd(ns[i])
      <4>1. ns[i].children # <<>>
        BY <3>3
      <4> QED BY <4>1, <3>2 DEF AtEnd
    <3>9. /\ Len(path[i]) = Len(path[c]) + 1
          /\ \A x \in 1 .. Len(path[c]) : path[i][x + 1] = path[c][x]
      BY <3>7, <3>8, <1>0, PathStep
    <3>10. Len(path[c]) \in Nat
      BY <3>2, <1>0, PathStep
    <3>11. PICK a \in 1 .. Len(path[c]) : path[c][a] = d
      BY <3>5
    <3>12. a + 1 \in 1 .. Len(path[i]) /\ path[i][a + 1] = d
      BY <3>9, <3>10, <3>11
    <3> QED BY <3>6, <3>12
  <2> QED BY <2>2, <2>3
<1>4. \A i \in D : i \in G
  <2> HIDE DEF G, D
  <2> QED BY <1>1, <1>3, RankInduction
<1> QED BY <1>0, <1>4

(* LeafDepths gives the height of the root over its leaves and no other.   *)
LEMMA LeafDepthsIs ==
    ASSUME NEW rk, Arena(nodes), Ranked(nodes, rk), root \in DOMAIN nodes
    PROVE  LeafDepths \subseteq {rk[root] + 1}
<1> DEFINE D == DOMAIN nodes
           V == SUBSET Nat
           G(f) == [i \in D |-> IF nodes[i].leaf THEN {1}
                                ELSE {1 + d : d \in UNION {f[c] : c \in Children(nodes[i])}}]
<1>0. rk \in [D -> Nat]
  BY DEF Ranked
<1>1. PICK H \in Nat : \A i \in D : rk[i] <= H
  BY DEF Ranked
<1>2. ASSUME NEW i \in D, NEW c \in Children(nodes[i])
      PROVE  c \in D /\ rk[c] < rk[i] /\ rk[i] = rk[c] + 1
  <2>1. c \in D /\ rk[c] < rk[i] /\ ~nodes[i].leaf
    BY ChildrenLower
  <2>2. PICK j \in 1 .. Len(nodes[i].children) : c = nodes[i].children[j]
    BY ChildrenLower
  <2>3. rk[i] = rk[nodes[i].children[j]] + 1
    BY <2>1, <2>2 DEF Ranked
  <2> QED BY <2>1, <2>2, <2>3
<1>3. PICK h : h = G(h)
  <2> DEFINE F == [x \in D \X [D -> V] |->
                     IF nodes[x[1]].leaf THEN {1}
                     ELSE {1 + d : d \in UNION {x[2][c] : c \in Children(nodes[x[1]])}}]
  <2>1. F \in [D \X [D -> V] -> V]
    <3>1. ASSUME NEW x \in D \X [D -> V]
          PROVE  (IF nodes[x[1]].leaf THEN {1}
                  ELSE {1 + d : d \in UNION {x[2][c] : c \in Children(nodes[x[1]])}}) \in V
      <4>1. x[1] \in D /\ x[2] \in [D -> V]
        OBVIOUS
      <4>2. \A c \in Children(nodes[x[1]]) : x[2][c] \in V
        <5> HIDE DEF D, V
        <5> QED BY <4>1, <1>2
      <4> DEFINE U == UNION {x[2][c] : c \in Children(nodes[x[1]])}
      <4>3. U \subseteq Nat
        BY <4>2
      <4> HIDE DEF U
      <4>4. {1 + d : d \in U} \in V
        <5>1. \A d \in U : 1 + d \in Nat
          BY <4>3
        <5>2. \A y \in {1 + d : d \in U} : y \in Nat
          BY <5>1
        <5> QED BY <5>2
      <4>5. {1} \in V
        OBVIOUS
      <4> HIDE DEF V
      <4> QED BY <4>4, <4>5 DEF U
    <3> QED BY <3>1
  <2>2. ASSUME NEW i \in D, NEW f \in [D -> V]
        PROVE  F[<<i, f>>] = IF nodes[i].leaf THEN {1}
                             ELSE {1 + d : d \in UNION {f[c] : c \in Children(nodes[i])}}
    <3>1. <<i, f>> \in D \X [D -> V] /\ <<i, f>>[1] = i /\ <<i, f>>[2] = f
      OBVIOUS
    <3> QED BY <3>1, Zenon
  <2> HIDE DEF F
  <2>3. ASSUME NEW i \in D, NEW f \in [D -> V], NEW g \in [D -> V],
               \A c \in D : rk[c] < rk[i] => f[c] = g[c]
        PROVE  F[<<i, f>>] = F[<<i, g>>]
    <3>1. \A c \in Children(nodes[i]) : f[c] = g[c]
      BY <2>3, <1>2
    <3>2. {f[c] : c \in Children(nodes[i])} = {g[c] : c \in Children(nodes[i])}
      BY <3>1
    <3> QED BY <3>2, <2>2
  <2>4. {} \in V
    OBVIOUS
  <2>5. PICK f \in [D -> V] : \A i \in D : f[i] = F[<<i, f>>]
    <3> HIDE DEF D, V
    <3>1. Local(D, rk, V, F)
      BY <2>3, Zenon DEF Local
    <3>2. Recursive(D, V, F)
      BY <1>0, <1>1, <2>1, <2>4, <3>1, RankRecursion
    <3> QED BY <3>2, Zenon DEF Recursive
  <2>6. f = G(f)
    <3>1. \A i \in D : f[i] = IF nodes[i].leaf THEN {1}
                              ELSE {1 + d : d \in UNION {f[c] : c \in Children(nodes[i])}}
      BY <2>2, <2>5
    <3>2. f = [i \in D |-> f[i]]
      OBVIOUS
    <3> QED BY <3>1, <3>2, Zenon
  <2> QED BY <2>6, Zenon
<1> DEFINE depths == CHOOSE f : f = G(f)
<1>4. depths = G(depths)
  <2> HIDE DEF G
  <2> QED BY <1>3, Zenon
<1>5. LeafDepths = depths[root]
  BY Zenon DEF LeafDepths
<1> HIDE DEF depths
<1>6. \A i \in D : depths[i] = IF nodes[i].leaf THEN {1}
                               ELSE {1 + d : d \in UNION {depths[c] : c \in Children(nodes[i])}}
  BY <1>4, Zenon
<1> DEFINE S == {i \in D : depths[i] \subseteq {rk[i] + 1}}
<1>7. ASSUME NEW i \in D, \A c \in D : rk[c] < rk[i] => c \in S PROVE i \in S
  <2>1. CASE nodes[i].leaf
    <3>1. depths[i] = {1}
      BY <2>1, <1>6
    <3>2. rk[i] = 0
      BY <2>1 DEF Ranked
    <3> QED BY <3>1, <3>2
  <2>2. CASE ~nodes[i].leaf
    <3>1. ASSUME NEW x \in depths[i] PROVE x = rk[i] + 1
      <4>1. PICK c \in Children(nodes[i]) : \E d \in depths[c] : x = 1 + d
        <5>1. depths[i] = {1 + d : d \in UNION {depths[c] : c \in Children(nodes[i])}}
          BY <2>2, <1>6
        <5>2. PICK d \in UNION {depths[c] : c \in Children(nodes[i])} : x = 1 + d
          BY <5>1, <3>1
        <5> QED BY <5>2
      <4>2. PICK d \in depths[c] : x = 1 + d
        BY <4>1
      <4>3. c \in D /\ rk[c] \in Nat /\ rk[i] = rk[c] + 1 /\ d = rk[c] + 1
        BY <1>0, <1>2, <1>7
      <4> QED BY <4>2, <4>3
    <3> QED BY <3>1
  <2> QED BY <2>1, <2>2
<1>8. \A i \in D : i \in S
  <2> HIDE DEF S, D
  <2> QED BY <1>0, <1>7, RankInduction
<1> QED BY <1>5, <1>8

(* A tree with its shape whose messages get older on the way down is       *)
(* ordered as check_tree demands.                                          *)
LEMMA OrderedIs == ASSUME MapInv, AgeInv PROVE OrderedThroughout
<1> DEFINE L == Subtree(nodes, root)
<1>1. PICK rk, iv : SoundBy(nodes, root, flushing, L, rk, iv)
  BY LiveIs DEF MapInv
<1>2. Shape(nodes, root, L, rk, iv)
  BY <1>1 DEF SoundBy
<1>3. /\ Arena(nodes) /\ Ranked(nodes, rk) /\ Tree(nodes, root, L) /\ Ranges(nodes, root, L, iv)
      /\ L \subseteq DOMAIN nodes /\ root \in L /\ root \in DOMAIN nodes
  BY <1>2 DEF Shape, Tree
<1>4. Reachable = L
  BY DEF Reachable
<1> HIDE DEF L
<1>5. ASSUME NEW k \in Nat, NEW d \in L, k \in iv[d] PROVE d \in Range(PathOf(k))
  <2>1. PICK path : Routes(nodes, k, path) /\ PathOf(k) = path[root]
    BY <1>3, PathIs
  <2>2. PICK a \in 1 .. Len(path[root]) : path[root][a] = d
    BY <1>2, <1>3, <1>5, <2>1, PathReaches DEF L
  <2>3. path[root] \in Seq(DOMAIN nodes)
    BY <2>1, <1>3 DEF Routes
  <2>4. a \in DOMAIN path[root]
    BY <2>2, <2>3
  <2> QED BY <2>1, <2>2, <2>4 DEF Range
<1>6. KeysInRange
  <2>1. ASSUME NEW i \in L, NEW k \in DOMAIN Held(nodes[i]) PROVE i \in Range(PathOf(k))
    <3>1. k \in iv[i] /\ iv[i] \in SUBSET Nat
      BY <1>3 DEF Ranges, Held, HeldBy
    <3> QED BY <3>1, <1>5
  <2>2. ASSUME NEW i \in L, ~nodes[i].leaf, NEW j \in DOMAIN nodes[i].pivots
        PROVE  i \in Range(PathOf(nodes[i].pivots[j]))
    <3>1. nodes[i].pivots \in Seq(Nat)
      BY <2>2, <1>3 DEF Arena, NodeOk, LeafNode, InnerNode
    <3>2. j \in 1 .. Len(nodes[i].pivots)
      BY <3>1
    <3>3. nodes[i].pivots[j] \in iv[i] /\ iv[i] \in SUBSET Nat
      BY <2>2, <3>2, <1>3 DEF Ranges
    <3> QED BY <3>3, <1>5
  <2> QED BY <1>4, <2>1, <2>2, Zenon DEF KeysInRange
<1>7. PivotsOrdered
  <2>1. ASSUME NEW i \in L, ~nodes[i].leaf
        PROVE  /\ \A j \in 2 .. Len(nodes[i].pivots) : nodes[i].pivots[j - 1] < nodes[i].pivots[j]
               /\ \/ Len(nodes[i].children) = Len(nodes[i].pivots) + 1
                  \/ nodes[i].children = <<>>
    <3>1. /\ nodes[i] \in InnerNode /\ Sorted(nodes[i].pivots)
          /\ Len(nodes[i].children) = Len(nodes[i].pivots) + 1 \/ nodes[i].children = <<>>
      <4>1. NodeOk(nodes[i])
        BY <1>3 DEF Arena
      <4> QED BY <4>1, <2>1 DEF NodeOk, LeafNode
    <3>2. Len(nodes[i].pivots) \in Nat
      BY <3>1 DEF InnerNode
    <3>3. ASSUME NEW j \in 2 .. Len(nodes[i].pivots)
          PROVE  nodes[i].pivots[j - 1] < nodes[i].pivots[j]
      <4>1. /\ j - 1 \in 1 .. Len(nodes[i].pivots) /\ j \in 1 .. Len(nodes[i].pivots)
            /\ j - 1 < j
        BY <3>2
      <4> QED BY <3>1, <4>1 DEF Sorted
    <3> QED BY <3>1, <3>3
  <2> QED BY <1>4, <2>1, Zenon DEF PivotsOrdered
<1>8. NewerAbove
  <2>1. ASSUME NEW k \in Keys, NEW i \in DOMAIN PathOf(k), NEW j \in DOMAIN PathOf(k), i < j,
               k \in DOMAIN Held(nodes[PathOf(k)[i]]), k \in DOMAIN Held(nodes[PathOf(k)[j]])
        PROVE  Held(nodes[PathOf(k)[j]])[k].seq < Held(nodes[PathOf(k)[i]])[k].seq
    <3>0. k \in Nat
      BY KeysAssumption
    <3>1. PICK path : Routes(nodes, k, path) /\ PathOf(k) = path[root]
      BY <3>0, <1>3, PathIs
    <3>2. path[root] \in Seq(DOMAIN nodes)
      BY <3>1, <1>3 DEF Routes
    <3>3. i \in 1 .. Len(path[root]) /\ j \in 1 .. Len(path[root])
      BY <3>1, <3>2
    <3>4. path[root][i] \in L /\ path[root][j] \in Beneath(nodes, path[root][i])
      BY <3>0, <3>1, <3>3, <1>3, <2>1, PathDown DEF L
    <3>5. Newer(nodes[path[root][i]], nodes[path[root][j]])
      BY <3>4 DEF AgeInv, Aged, L
    <3>6. \A n : Held(n) = HeldBy(n)
      BY DEF Held, HeldBy
    <3> QED BY <2>1, <3>1, <3>5, <3>6 DEF Newer
  <2> QED BY <2>1, Zenon DEF NewerAbove
<1>9. Cardinality(LeafDepths) <= 1
  <2>1. LeafDepths \subseteq {rk[root] + 1}
    BY <1>3, LeafDepthsIs
  <2>2. LeafDepths = {} \/ LeafDepths = {rk[root] + 1}
    BY <2>1
  <2>3. Cardinality({}) = 0
    BY FS_EmptySet
  <2>4. Cardinality({rk[root] + 1}) = 1
    BY FS_Singleton
  <2> QED BY <2>2, <2>3, <2>4
<1> QED BY <1>6, <1>7, <1>8, <1>9 DEF OrderedThroughout

(* I1, I2, I3 and I6 of check_invariants after every iteration of every    *)
(* cascade: keys are in the ranges of their nodes, pivots ascend, what is  *)
(* held for a key gets older on the way down, and the leaves are equally   *)
(* deep.  It rests on MapInv, which gives the ranges and heights, and on   *)
(* AgeInv, which compares a node with all that is beneath it.              *)
THEOREM OrderKept == Spec => []OrderedThroughout
<1>1. Init => MapInv /\ AgeInv
  BY StartsEmpty, StartsAged
<1>2. MapInv /\ AgeInv /\ [Next]_vars => (MapInv /\ AgeInv)'
  <2> SUFFICES ASSUME MapInv, AgeInv, [Next]_vars PROVE MapInv' /\ AgeInv'
    OBVIOUS
  <2>1. MapInv'
    BY StepRefines
  <2> QED BY <2>1, AgeKept
<1>3. MapInv /\ AgeInv => OrderedThroughout
  BY OrderedIs
<1> QED BY <1>1, <1>2, <1>3, PTL DEF Spec

-----------------------------------------------------------------------------
(* Scans                                                                   *)

(* Key k is within the range from lo to hi.                                *)
Within(k, lo, hi) == Above(k, lo) /\ Under(k, hi)

(* What a bound is.                                                        *)
LEMMA BoundIs ==
    ASSUME NEW b \in Bounds(Nat)
    PROVE  \/ b = Unbounded /\ b.kind = "Unbounded"
           \/ b # Unbounded /\ b.key \in Nat /\ b.kind = "Included"
           \/ b # Unbounded /\ b.key \in Nat /\ b.kind = "Excluded"
BY DEF Bounds, Unbounded

(* What a bound says of a key.                                             *)
LEMMA BoundMeans ==
    ASSUME NEW b, NEW k
    PROVE  /\ b.kind = "Included" => (Above(k, b) <=> b.key <= k) /\ (Under(k, b) <=> k <= b.key)
           /\ b.kind = "Excluded" => (Above(k, b) <=> b.key < k) /\ (Under(k, b) <=> k < b.key)
<1>1. ASSUME b.kind = "Included" PROVE Above(k, b) = (b.key <= k) /\ Under(k, b) = (k <= b.key)
  <2>1. b.kind # "Unbounded" /\ b.kind # "Excluded"
    BY <1>1
  <2> QED BY <1>1, <2>1, Zenon DEF Above, Under
<1>2. ASSUME b.kind = "Excluded" PROVE Above(k, b) = (b.key < k) /\ Under(k, b) = (k < b.key)
  <2>1. b.kind # "Unbounded" /\ b.kind # "Included"
    BY <1>2
  <2> QED BY <1>2, <2>1, Zenon DEF Above, Under
<1> QED BY <1>1, <1>2, Zenon

(* clip_lower leaves of a range what is at or right of the pivot.          *)
LEMMA ClippedLower ==
    ASSUME NEW lo \in Bounds(Nat), NEW p \in Nat
    PROVE  /\ clip_lower(lo, p) \in Bounds(Nat)
           /\ \A k \in Nat : Above(k, clip_lower(lo, p)) <=> Above(k, lo) /\ p <= k
<1>1. /\ Included(p) \in Bounds(Nat)
      /\ \A k \in Nat : Above(k, Included(p)) <=> p <= k
  BY DEF Included, Bounds, Above
<1>2. CASE lo = Unbounded
  BY <1>1, <1>2 DEF clip_lower, Above, Unbounded
<1>3. CASE lo # Unbounded
  <2>1. lo.key \in Nat /\ (lo.kind = "Included" \/ lo.kind = "Excluded")
    BY <1>3, BoundIs
  <2>2. CASE lo.key >= p
    <3>1. clip_lower(lo, p) = lo
      BY <1>3, <2>2 DEF clip_lower
    <3>2. \A k \in Nat : Above(k, lo) => p <= k
      BY <2>1, <2>2, BoundMeans
    <3> QED BY <3>1, <3>2
  <2>3. CASE ~(lo.key >= p)
    <3>1. clip_lower(lo, p) = Included(p)
      BY <2>3 DEF clip_lower
    <3>2. \A k \in Nat : p <= k => Above(k, lo)
      BY <2>1, <2>3, BoundMeans
    <3> QED BY <3>1, <3>2, <1>1
  <2> QED BY <2>2, <2>3
<1> QED BY <1>2, <1>3

(* clip_upper leaves of a range what is left of the pivot.                 *)
LEMMA ClippedUpper ==
    ASSUME NEW hi \in Bounds(Nat), NEW p \in Nat
    PROVE  /\ clip_upper(hi, p) \in Bounds(Nat)
           /\ \A k \in Nat : Under(k, clip_upper(hi, p)) <=> Under(k, hi) /\ k < p
<1>1. /\ Excluded(p) \in Bounds(Nat)
      /\ \A k \in Nat : Under(k, Excluded(p)) <=> k < p
  BY DEF Excluded, Bounds, Under
<1>2. CASE hi = Unbounded
  BY <1>1, <1>2 DEF clip_upper, Under, Unbounded
<1>3. CASE hi # Unbounded
  <2>1. hi.key \in Nat /\ (hi.kind = "Included" \/ hi.kind = "Excluded")
    BY <1>3, BoundIs
  <2>2. CASE hi.key < p
    <3>1. clip_upper(hi, p) = hi
      BY <1>3, <2>2 DEF clip_upper
    <3>2. \A k \in Nat : Under(k, hi) => k < p
      BY <2>1, <2>2, BoundMeans
    <3> QED BY <3>1, <3>2
  <2>3. CASE ~(hi.key < p)
    <3>1. clip_upper(hi, p) = Excluded(p)
      BY <2>3 DEF clip_upper
    <3>2. \A k \in Nat : k < p => Under(k, hi)
      BY <2>1, <2>3, BoundMeans
    <3> QED BY <3>1, <3>2, <1>1
  <2> QED BY <2>2, <2>3
<1> QED BY <1>2, <1>3

(* No key is in a range that range_is_empty takes for empty.               *)
LEMMA NothingWithin ==
    ASSUME NEW lo \in Bounds(Nat), NEW hi \in Bounds(Nat), range_is_empty(lo, hi), NEW k \in Nat
    PROVE  ~Within(k, lo, hi)
<1>1. /\ lo.key \in Nat /\ (lo.kind = "Included" \/ lo.kind = "Excluded")
      /\ hi.key \in Nat /\ (hi.kind = "Included" \/ hi.kind = "Excluded")
  BY BoundIs DEF range_is_empty
<1>2. lo.key > hi.key \/ (lo.key = hi.key /\ (lo.kind = "Excluded" \/ hi.kind = "Excluded"))
  BY DEF range_is_empty
<1>3. Above(k, lo) => lo.key <= k /\ (lo.kind = "Excluded" => lo.key < k)
  BY <1>1, BoundMeans
<1>4. Under(k, hi) => k <= hi.key /\ (hi.kind = "Excluded" => k < hi.key)
  BY <1>1, BoundMeans
<1> QED BY <1>1, <1>2, <1>3, <1>4 DEF Within

(* A child is asked for the keys of the range that routing leads to it.    *)
LEMMA ChildRange ==
    ASSUME NEW n \in InnerNode, Sorted(n.pivots), Len(n.children) = Len(n.pivots) + 1,
           NEW lo \in Bounds(Nat), NEW hi \in Bounds(Nat), NEW j \in 1 .. Len(n.children)
    PROVE  /\ ChildLow(n, lo, j) \in Bounds(Nat) /\ ChildHigh(n, hi, j) \in Bounds(Nat)
           /\ \A k \in Nat : Within(k, ChildLow(n, lo, j), ChildHigh(n, hi, j))
                               <=> Within(k, lo, hi) /\ route(n.pivots, k) = j
<1> DEFINE p == n.pivots
<1>1. p \in Seq(Nat) /\ Len(p) \in Nat /\ \A x \in 1 .. Len(p) : p[x] \in Nat
  BY DEF InnerNode
<1>2. j \in 1 .. (Len(p) + 1) /\ (j # 1 => j - 1 \in 1 .. Len(p))
      /\ (j # Len(n.children) => j \in 1 .. Len(p))
  BY <1>1
<1>3. /\ ChildLow(n, lo, j) \in Bounds(Nat)
      /\ \A k \in Nat : Above(k, ChildLow(n, lo, j)) <=> Above(k, lo) /\ (j # 1 => p[j - 1] <= k)
  BY <1>1, <1>2, ClippedLower DEF ChildLow
<1>4. /\ ChildHigh(n, hi, j) \in Bounds(Nat)
      /\ \A k \in Nat : Under(k, ChildHigh(n, hi, j))
                          <=> Under(k, hi) /\ (j # Len(n.children) => k < p[j])
  BY <1>1, <1>2, ClippedUpper DEF ChildHigh
<1> HIDE DEF p
<1>5. ASSUME NEW k \in Nat
      PROVE  ((j # 1 => p[j - 1] <= k) /\ (j # Len(n.children) => k < p[j])) <=> route(p, k) = j
  <2>1. /\ route(p, k) \in 1 .. (Len(p) + 1)
        /\ \A x \in 1 .. Len(p) : p[x] <= k <=> x < route(p, k)
    BY <1>1, Routed DEF p
  <2>2. ASSUME j # 1 => p[j - 1] <= k, j # Len(n.children) => k < p[j] PROVE route(p, k) = j
    <3>1. Sorted(p)
      BY DEF p
    <3>2. Len(n.children) = Len(p) + 1
      BY DEF p
    <3>3. (j > 1 => p[j - 1] <= k) /\ (j <= Len(p) => k < p[j])
      BY <1>1, <2>2, <3>2
    <3> QED BY <1>1, <1>2, <3>1, <3>3, RouteIs
  <2>3. ASSUME route(p, k) = j
        PROVE  (j # 1 => p[j - 1] <= k) /\ (j # Len(n.children) => k < p[j])
    <3>1. j # 1 => (j - 1 < j /\ p[j - 1] <= k)
      BY <1>2, <2>1, <2>3
    <3>2. j # Len(n.children) => ~(p[j] <= k) /\ p[j] \in Nat
      BY <1>1, <1>2, <2>1, <2>3
    <3> QED BY <3>1, <3>2
  <2> QED BY <2>2, <2>3
<1> QED BY <1>3, <1>4, <1>5 DEF Within, p

(* What g has for the keys within a range.                                 *)
PresentIn(g, lo, hi) ==
    [k \in {k \in Nat : g[k] # NoValue /\ Within(k, lo, hi)} |-> g[k]]

(* What get finds at node i, and below it, for each key.                   *)
Found(ns, i) == [k \in Nat |-> Get(ns, i, k)]
FoundBelow(ns, i) ==
    [k \in Nat |-> IF ns[i].children = <<>> THEN NoValue ELSE Get(ns, Child(ns[i], k), k)]

(* What get finds at a node by what it finds at the children.              *)
LEMMA FoundAt ==
    ASSUME NEW ns, NEW rk, Arena(ns), Ranked(ns, rk), NEW i \in DOMAIN ns, NEW k \in Nat
    PROVE  /\ ns[i].leaf => Found(ns, i)[k] = ValueIn(ns[i].entries, k)
           /\ ~ns[i].leaf => Found(ns, i)[k] = IF k \in DOMAIN ns[i].buffer
                                               THEN Effect(ns[i].buffer[k], FoundBelow(ns, i)[k])
                                               ELSE FoundBelow(ns, i)[k]
<1>1. PICK v : Vals(ns, k, v)
  BY ValsExist
<1>2. \A c \in DOMAIN ns : Get(ns, c, k) = v[c]
  BY <1>1, GetIs
<1>3. v[i] = ValueAt(ns[i], k, v) /\ Found(ns, i)[k] = v[i]
  BY <1>1, <1>2 DEF Vals, Found
<1>4. ASSUME ~ns[i].leaf PROVE FoundBelow(ns, i)[k] = Below(ns[i], k, v)
  <2>1. CASE ns[i].children = <<>>
    BY <2>1 DEF FoundBelow, Below
  <2>2. CASE ns[i].children # <<>>
    <3>1. Child(ns[i], k) \in DOMAIN ns
      BY <1>4, <2>2, ChildFacts DEF Routable
    <3> QED BY <2>2, <3>1, <1>2 DEF FoundBelow, Below
  <2> QED BY <2>1, <2>2
<1>5. CASE ns[i].leaf
  BY <1>3, <1>5 DEF ValueAt
<1>6. CASE ~ns[i].leaf
  BY <1>3, <1>4, <1>6 DEF ValueAt
<1> QED BY <1>5, <1>6

(* The entries of a leaf that are within the range.                        *)
LEMMA LeafScanned ==
    ASSUME NEW e \in Maps(Entries(Nat)), NEW lo, NEW hi, NEW g,
           \A k \in Nat : g[k] = ValueIn(e, k)
    PROVE  InRange([k \in DOMAIN e |-> e[k].value], lo, hi) = PresentIn(g, lo, hi)
<1>1. DOMAIN e \subseteq Nat /\ \A k \in DOMAIN e : e[k] \in Entries(Nat)
  BY MapFacts, KeysAssumption
<1>2. \A k \in DOMAIN e : e[k].value # NoValue
  BY <1>1, OpaqueAssumption DEF Entries, Values, Numbers
<1> DEFINE X == {k \in DOMAIN e : Above(k, lo) /\ Under(k, hi)}
           f == [k \in DOMAIN e |-> e[k].value]
<1>3. InRange(f, lo, hi) = [k \in X |-> f[k]]
  <2>1. DOMAIN f = DOMAIN e
    OBVIOUS
  <2> HIDE DEF f
  <2> QED BY <2>1 DEF InRange, RestrictDomain, Restrict
<1>4. X = {k \in Nat : g[k] # NoValue /\ Within(k, lo, hi)}
  BY <1>1, <1>2 DEF ValueIn, Within
<1>5. \A k \in X : f[k] = g[k]
  BY <1>1 DEF ValueIn
<1> HIDE DEF f, X
<1>6. [k \in X |-> f[k]] = [k \in X |-> g[k]]
  BY <1>5
<1>7. PresentIn(g, lo, hi) = [k \in X |-> g[k]]
  BY <1>4 DEF PresentIn
<1> QED BY <1>3, <1>6, <1>7 DEF f

(* A buffer folded onto what the children returned.                        *)
LEMMA BufferFolded ==
    ASSUME NEW b \in Maps(MessagesOf(Nat)), NEW lo, NEW hi, NEW g, NEW h,
           \A k \in Nat : h[k] = IF k \in DOMAIN b THEN Effect(b[k], g[k]) ELSE g[k]
    PROVE  Fold(InRange(b, lo, hi), PresentIn(g, lo, hi)) = PresentIn(h, lo, hi)
<1> DEFINE X == {k \in DOMAIN b : Above(k, lo) /\ Under(k, hi)}
           Y == {k \in Nat : g[k] # NoValue /\ Within(k, lo, hi)}
           Z == {k \in Nat : h[k] # NoValue /\ Within(k, lo, hi)}
           c == [k \in X |-> b[k]]
           acc == [k \in Y |-> g[k]]
           value == [k \in X |-> Effect(c[k], IF k \in Y THEN acc[k] ELSE NoValue)]
           gone == {k \in X : value[k] = NoValue}
<1>1. DOMAIN b \subseteq Nat
  BY MapFacts, KeysAssumption
<1>2. InRange(b, lo, hi) = c
  BY DEF InRange, RestrictDomain, Restrict
<1>3. PresentIn(g, lo, hi) = acc
  BY DEF PresentIn
<1>4. Fold(c, acc) = [k \in (Y \cup X) \ gone |-> IF k \in X THEN value[k] ELSE acc[k]]
  <2>1. DOMAIN c = X /\ DOMAIN acc = Y
    OBVIOUS
  <2> HIDE DEF c, acc, X, Y
  <2> QED BY <2>1, Zenon DEF Fold, value, gone
<1>5. ASSUME NEW k \in X PROVE value[k] = h[k] /\ k \in Nat /\ Within(k, lo, hi)
  <2>1. k \in Nat /\ k \in DOMAIN b /\ Within(k, lo, hi)
    BY <1>1 DEF Within
  <2>2. c[k] = b[k] /\ (IF k \in Y THEN acc[k] ELSE NoValue) = g[k]
    BY <2>1
  <2>3. value[k] = Effect(b[k], g[k])
    <3>1. value[k] = Effect(c[k], IF k \in Y THEN acc[k] ELSE NoValue)
      <4> HIDE DEF c, acc, Y, X
      <4> QED OBVIOUS
    <3> QED BY <3>1, <2>2, Zenon
  <2> HIDE DEF X, Y, value
  <2> QED BY <2>1, <2>3
<1>6. ASSUME NEW k \in Y, k \notin X PROVE acc[k] = h[k] /\ k \in Nat /\ Within(k, lo, hi)
  <2>1. k \in Nat /\ Within(k, lo, hi) /\ acc[k] = g[k]
    OBVIOUS
  <2>2. k \notin DOMAIN b
    BY <1>6, <2>1 DEF Within
  <2> QED BY <2>1, <2>2
<1>7. ASSUME NEW k \in Z, k \notin X PROVE k \in Y
  <2>1. k \in Nat /\ Within(k, lo, hi) /\ h[k] # NoValue
    OBVIOUS
  <2>2. k \notin DOMAIN b
    BY <1>7, <2>1 DEF Within
  <2>3. h[k] = g[k]
    BY <2>1, <2>2
  <2> QED BY <2>1, <2>3
<1>8. \A k \in Z : k \in Nat /\ h[k] # NoValue
  OBVIOUS
<1>9. \A k \in Nat : h[k] # NoValue /\ Within(k, lo, hi) => k \in Z
  OBVIOUS
<1>10. \A k \in Y : acc[k] # NoValue
  OBVIOUS
<1>11. \A k \in X : k \in gone <=> value[k] = NoValue
  OBVIOUS
<1>12. gone \subseteq X
  OBVIOUS
<1>13. PresentIn(h, lo, hi) = [k \in Z |-> h[k]]
  BY DEF PresentIn
<1> HIDE DEF X, Y, Z, c, acc, value, gone
<1>14. (Y \cup X) \ gone = Z
  BY <1>5, <1>6, <1>7, <1>8, <1>9, <1>10, <1>11, <1>12
<1>15. \A k \in Z : (IF k \in X THEN value[k] ELSE acc[k]) = h[k]
  BY <1>5, <1>6, <1>7
<1>16. [k \in Z |-> IF k \in X THEN value[k] ELSE acc[k]] = [k \in Z |-> h[k]]
  BY <1>15
<1> QED BY <1>2, <1>3, <1>4, <1>13, <1>14, <1>16

(* Functions that agree with g add up to g on what they cover.             *)
LEMMA UnionCovers ==
    ASSUME NEW fs, NEW X, NEW g, \A f \in fs : \A k \in DOMAIN f : k \in X /\ f[k] = g[k],
           \A k \in X : \E f \in fs : k \in DOMAIN f
    PROVE  Union(fs) = Restrict(g, X)
<1>1. UNION {DOMAIN f : f \in fs} = X
  OBVIOUS
<1>2. ASSUME NEW k \in X PROVE (CHOOSE f \in fs : k \in DOMAIN f)[k] = g[k]
  <2>1. PICK f0 \in fs : k \in DOMAIN f0
    OBVIOUS
  <2> DEFINE f1 == CHOOSE f \in fs : k \in DOMAIN f
  <2>2. f1 \in fs /\ k \in DOMAIN f1
    BY <2>1, Zenon
  <2> HIDE DEF f1
  <2>3. f1[k] = g[k]
    BY <2>2
  <2> QED BY <2>3 DEF f1
<1>3. Union(fs) = [k \in X |-> (CHOOSE f \in fs : k \in DOMAIN f)[k]]
  BY <1>1, Zenon DEF Union
<1> QED BY <1>2, <1>3, Zenon DEF Restrict

(* What the visited children of a node return when S has it.               *)
Returned(n, S, lo, hi) == Union({S[n.children[j]][ChildLow(n, lo, j)][ChildHigh(n, hi, j)]
                                 : j \in Visited(n, lo, hi)})

(* What the node itself then returns.                                      *)
ScanNode(n, S, lo, hi) ==
    IF n.leaf THEN InRange([k \in DOMAIN n.entries |-> n.entries[k].value], lo, hi)
    ELSE Fold(InRange(n.buffer, lo, hi), Returned(n, S, lo, hi))

(* S returns for node i and any range what get finds there.                *)
Scanned(ns, S, i) ==
    \A lo, hi \in Bounds(Nat) : S[i][lo][hi] = PresentIn(Found(ns, i), lo, hi)

(* What the children return is what get finds below the node: a key in     *)
(* the range is in the part of exactly one child, which is visited.        *)
LEMMA ChildrenScanned ==
    ASSUME NEW ns, NEW rk, Arena(ns), Ranked(ns, rk), NEW i \in DOMAIN ns, ~ns[i].leaf,
           NEW S, \A c \in DOMAIN ns : rk[c] < rk[i] => Scanned(ns, S, c),
           NEW lo \in Bounds(Nat), NEW hi \in Bounds(Nat)
    PROVE  Returned(ns[i], S, lo, hi) = PresentIn(FoundBelow(ns, i), lo, hi)
<1> DEFINE n == ns[i]
           R(j) == S[n.children[j]][ChildLow(n, lo, j)][ChildHigh(n, hi, j)]
           fs == {R(j) : j \in Visited(n, lo, hi)}
           g == FoundBelow(ns, i)
           X == {k \in Nat : g[k] # NoValue /\ Within(k, lo, hi)}
<1>0. n \in InnerNode /\ n.children \in Seq(Nat) /\ DOMAIN n.children = 1 .. Len(n.children)
  <2>1. NodeOk(n) /\ ~n.leaf
    BY DEF Arena
  <2> HIDE DEF n
  <2>2. n \in InnerNode
    BY <2>1 DEF NodeOk, LeafNode
  <2>3. n.children \in Seq(Nat)
    BY <2>2 DEF InnerNode
  <2> QED BY <2>2, <2>3
<1>1. PresentIn(g, lo, hi) = Restrict(g, X)
  BY DEF PresentIn, Restrict
<1>2. CASE n.children = <<>>
  <2>1. Visited(n, lo, hi) = {}
    <3>1. DOMAIN n.children = {}
      BY <1>2
    <3> QED BY <3>1 DEF Visited
  <2>2. fs = {}
    BY <2>1
  <2>3. X = {}
    <3>1. \A k \in Nat : g[k] = NoValue
      BY <1>2 DEF FoundBelow
    <3> QED BY <3>1
  <2> HIDE DEF fs, X, g, R
  <2>4. Union(fs) = Restrict(g, X)
    <3>1. /\ \A f \in fs : \A k \in DOMAIN f : k \in X /\ f[k] = g[k]
          /\ \A k \in X : \E f \in fs : k \in DOMAIN f
      BY <2>2, <2>3
    <3> QED BY <3>1, UnionCovers
  <2>5. Union(fs) = Returned(n, S, lo, hi)
    BY Zenon DEF Returned, fs, R
  <2> QED BY <1>1, <2>4, <2>5 DEF g
<1>3. CASE n.children # <<>>
  <2>1. Sorted(n.pivots) /\ Len(n.children) = Len(n.pivots) + 1
    BY <1>3 DEF Arena, NodeOk, LeafNode
  <2>2. ASSUME NEW j \in 1 .. Len(n.children)
        PROVE  /\ ChildLow(n, lo, j) \in Bounds(Nat) /\ ChildHigh(n, hi, j) \in Bounds(Nat)
               /\ \A k \in Nat : Within(k, ChildLow(n, lo, j), ChildHigh(n, hi, j))
                                   <=> Within(k, lo, hi) /\ route(n.pivots, k) = j
    <3> HIDE DEF n
    <3> QED BY <1>0, <2>1, ChildRange
  <2>3. ASSUME NEW j \in 1 .. Len(n.children)
        PROVE  R(j) = PresentIn(Found(ns, n.children[j]), ChildLow(n, lo, j), ChildHigh(n, hi, j))
    <3>1. n.children[j] \in DOMAIN ns /\ rk[i] = rk[n.children[j]] + 1
      BY DEF Ranked
    <3>2. rk \in [DOMAIN ns -> Nat]
      BY DEF Ranked
    <3>3. rk[n.children[j]] < rk[i]
      BY <3>1, <3>2
    <3>4. Scanned(ns, S, n.children[j])
      BY <3>1, <3>3
    <3> QED BY <3>4, <2>2 DEF Scanned
  <2>4. ASSUME NEW k \in Nat, NEW j \in 1 .. Len(n.children), route(n.pivots, k) = j
        PROVE  g[k] = Found(ns, n.children[j])[k]
    BY <1>3, <2>4 DEF FoundBelow, Found, Child
  <2>5. ASSUME NEW j \in Visited(n, lo, hi), NEW k \in DOMAIN R(j)
        PROVE  k \in X /\ R(j)[k] = g[k]
    <3>1. j \in 1 .. Len(n.children)
      BY <1>0 DEF Visited
    <3> DEFINE h == Found(ns, n.children[j])
               a == ChildLow(n, lo, j)
               b == ChildHigh(n, hi, j)
    <3> HIDE DEF h, a, b, n, g
    <3>2. R(j) = PresentIn(h, a, b)
      BY <3>1, <2>3 DEF h, a, b
    <3>3. DOMAIN PresentIn(h, a, b) = {x \in Nat : h[x] # NoValue /\ Within(x, a, b)}
      BY DEF PresentIn
    <3>4. k \in Nat /\ h[k] # NoValue /\ Within(k, a, b)
      BY <3>2, <3>3
    <3>5. PresentIn(h, a, b)[k] = h[k]
      BY <3>4 DEF PresentIn
    <3>6. Within(k, lo, hi) /\ route(n.pivots, k) = j
      BY <3>1, <3>4, <2>2 DEF a, b
    <3>7. g[k] = h[k]
      BY <3>1, <3>4, <3>6, <2>4 DEF h
    <3> HIDE DEF R
    <3> QED BY <3>2, <3>4, <3>5, <3>6, <3>7
  <2>6. ASSUME NEW k \in X PROVE \E j \in Visited(n, lo, hi) : k \in DOMAIN R(j)
    <3>1. k \in Nat /\ g[k] # NoValue /\ Within(k, lo, hi)
      OBVIOUS
    <3> DEFINE j == route(n.pivots, k)
    <3>2. j \in 1 .. Len(n.children)
      BY <1>3, <3>1, ChildFacts DEF Routable
    <3> DEFINE h == Found(ns, n.children[j])
               a == ChildLow(n, lo, j)
               b == ChildHigh(n, hi, j)
    <3>3. Within(k, a, b) /\ a \in Bounds(Nat) /\ b \in Bounds(Nat)
      BY <3>1, <3>2, <2>2
    <3>4. h[k] # NoValue
      BY <3>1, <3>2, <2>4
    <3>5. R(j) = PresentIn(h, a, b)
      BY <3>2, <2>3
    <3>6. ~range_is_empty(a, b)
      <4> HIDE DEF a, b
      <4> QED BY <3>1, <3>3, NothingWithin
    <3>7. j \in Visited(n, lo, hi)
      BY <3>2, <3>6, <1>0 DEF Visited
    <3> HIDE DEF h, a, b, j, n, g, R
    <3>8. DOMAIN PresentIn(h, a, b) = {x \in Nat : h[x] # NoValue /\ Within(x, a, b)}
      BY DEF PresentIn
    <3>9. k \in DOMAIN R(j)
      BY <3>1, <3>3, <3>4, <3>5, <3>8
    <3> QED BY <3>7, <3>9
  <2> HIDE DEF X, g, R, n
  <2>7. \A f \in fs : \A k \in DOMAIN f : k \in X /\ f[k] = g[k]
    BY <2>5
  <2>8. \A k \in X : \E f \in fs : k \in DOMAIN f
    BY <2>6
  <2> HIDE DEF fs
  <2>9. Union(fs) = Restrict(g, X)
    BY <2>7, <2>8, UnionCovers
  <2>10. Union(fs) = Returned(n, S, lo, hi)
    BY Zenon DEF Returned, fs, R
  <2> QED BY <1>1, <2>9, <2>10 DEF g, n
<1> QED BY <1>2, <1>3

(* So the node returns what get finds there.                               *)
LEMMA NodeScanned ==
    ASSUME NEW ns, NEW rk, Arena(ns), Ranked(ns, rk), NEW i \in DOMAIN ns,
           NEW S, \A c \in DOMAIN ns : rk[c] < rk[i] => Scanned(ns, S, c),
           NEW lo \in Bounds(Nat), NEW hi \in Bounds(Nat)
    PROVE  ScanNode(ns[i], S, lo, hi) = PresentIn(Found(ns, i), lo, hi)
<1>1. CASE ns[i].leaf
  <2>1. ns[i].entries \in Maps(Entries(Nat))
    BY <1>1 DEF Arena, NodeOk, LeafNode, InnerNode
  <2>2. \A k \in Nat : Found(ns, i)[k] = ValueIn(ns[i].entries, k)
    BY <1>1, FoundAt
  <2>3. InRange([k \in DOMAIN ns[i].entries |-> ns[i].entries[k].value], lo, hi)
          = PresentIn(Found(ns, i), lo, hi)
    BY <2>1, <2>2, LeafScanned
  <2> QED BY <1>1, <2>3 DEF ScanNode
<1>2. CASE ~ns[i].leaf
  <2>1. ns[i].buffer \in Maps(MessagesOf(Nat))
    BY <1>2 DEF Arena, NodeOk, LeafNode, InnerNode
  <2>2. \A k \in Nat : Found(ns, i)[k] = IF k \in DOMAIN ns[i].buffer
                                         THEN Effect(ns[i].buffer[k], FoundBelow(ns, i)[k])
                                         ELSE FoundBelow(ns, i)[k]
    BY <1>2, FoundAt
  <2>3. Fold(InRange(ns[i].buffer, lo, hi), PresentIn(FoundBelow(ns, i), lo, hi))
          = PresentIn(Found(ns, i), lo, hi)
    BY <2>1, <2>2, BufferFolded
  <2>4. Returned(ns[i], S, lo, hi) = PresentIn(FoundBelow(ns, i), lo, hi)
    BY <1>2, ChildrenScanned
  <2> QED BY <1>2, <2>3, <2>4, Zenon DEF ScanNode
<1> QED BY <1>1, <1>2

(* A scan returns what get finds at its root.                              *)
LEMMA ScanIs ==
    ASSUME NEW ns, NEW rk, Arena(ns), Ranked(ns, rk), NEW r \in DOMAIN ns,
           NEW low \in Bounds(Nat), NEW high \in Bounds(Nat)
    PROVE  Scan(ns, r, low, high) = PresentIn(Found(ns, r), low, high)
<1> DEFINE D == DOMAIN ns
           B == Bounds(Nat)
           G(S) == [i \in D |-> [lo \in B |-> [hi \in B |-> ScanNode(ns[i], S, lo, hi)]]]
           w == [i \in D |-> [lo \in B |-> [hi \in B |-> PresentIn(Found(ns, i), lo, hi)]]]
           scan == CHOOSE S : S = G(S)
<1>0. rk \in [D -> Nat]
  BY DEF Ranked
<1>1. w = G(w)
  <2>1. \A i \in D : Scanned(ns, w, i)
    BY Zenon DEF Scanned
  <2>2. \A i \in D : \A lo \in B : \A hi \in B :
           ScanNode(ns[i], w, lo, hi) = PresentIn(Found(ns, i), lo, hi)
    <3> HIDE DEF w
    <3> QED BY <2>1, NodeScanned
  <2> QED BY <2>2, Zenon
<1>2. scan = G(scan)
  <2> HIDE DEF G, w
  <2> QED BY <1>1, Zenon
<1>3. Scan(ns, r, low, high) = IF range_is_empty(low, high) THEN Empty ELSE scan[r][low][high]
  BY Zenon DEF Scan, ScanNode, Returned
<1> HIDE DEF scan, w
<1>4. \A i \in D : \A lo \in B : \A hi \in B : scan[i][lo][hi] = ScanNode(ns[i], scan, lo, hi)
  <2> SUFFICES ASSUME NEW i \in D, NEW lo \in B, NEW hi \in B
               PROVE  scan[i][lo][hi] = ScanNode(ns[i], scan, lo, hi)
    BY Zenon
  <2>1. scan[i] = G(scan)[i]
    <3> HIDE DEF G
    <3> QED BY <1>2
  <2> HIDE DEF D, B
  <2>2. G(scan)[i][lo][hi] = ScanNode(ns[i], scan, lo, hi)
    BY Zenon
  <2> HIDE DEF G
  <2> QED BY <2>1, <2>2
<1> DEFINE T == {i \in D : Scanned(ns, scan, i)}
<1>5. ASSUME NEW i \in D, \A c \in D : rk[c] < rk[i] => c \in T PROVE i \in T
  <2>1. \A c \in D : rk[c] < rk[i] => Scanned(ns, scan, c)
    BY <1>5
  <2>2. \A lo \in B : \A hi \in B : ScanNode(ns[i], scan, lo, hi) = PresentIn(Found(ns, i), lo, hi)
    BY <2>1, NodeScanned
  <2>3. Scanned(ns, scan, i)
    BY <1>4, <2>2, Zenon DEF Scanned
  <2> QED BY <2>3
<1>6. \A i \in D : i \in T
  <2> HIDE DEF T, D
  <2> QED BY <1>0, <1>5, RankInduction
<1>7. scan[r][low][high] = PresentIn(Found(ns, r), low, high)
  BY <1>6 DEF Scanned
<1>8. CASE range_is_empty(low, high)
  <2>1. \A k \in Nat : ~Within(k, low, high)
    BY <1>8, NothingWithin
  <2>2. {k \in Nat : Found(ns, r)[k] # NoValue /\ Within(k, low, high)} = {}
    BY <2>1
  <2>3. PresentIn(Found(ns, r), low, high) = Empty
    BY <2>2 DEF PresentIn, Empty
  <2> QED BY <1>3, <1>8, <2>3
<1>9. CASE ~range_is_empty(low, high)
  BY <1>3, <1>7, <1>9
<1> QED BY <1>8, <1>9

(* No node holds what is not a key.                                        *)
LEMMA NoOtherKeys ==
    ASSUME NEW ns, NEW rk, Arena(ns), Ranked(ns, rk), NEW k \in Nat, k \notin Keys
    PROVE  \A i \in DOMAIN ns : Get(ns, i, k) = NoValue
<1> DEFINE D == DOMAIN ns
           T == {i \in D : Get(ns, i, k) = NoValue}
<1>0. rk \in [D -> Nat]
  BY DEF Ranked
<1>1. ASSUME NEW i \in D, \A c \in D : rk[c] < rk[i] => c \in T PROVE i \in T
  <2>1. CASE ns[i].leaf
    <3>1. ns[i].entries \in Maps(Entries(Nat))
      BY <2>1 DEF Arena, NodeOk, LeafNode, InnerNode
    <3>2. k \notin DOMAIN ns[i].entries
      BY <3>1, MapFacts
    <3>3. Found(ns, i)[k] = NoValue
      BY <2>1, <3>2, FoundAt DEF ValueIn
    <3> QED BY <3>3 DEF Found
  <2>2. CASE ~ns[i].leaf
    <3>1. ns[i].buffer \in Maps(MessagesOf(Nat))
      BY <2>2 DEF Arena, NodeOk, LeafNode, InnerNode
    <3>2. k \notin DOMAIN ns[i].buffer
      BY <3>1, MapFacts
    <3>3. Found(ns, i)[k] = FoundBelow(ns, i)[k]
      BY <2>2, <3>2, FoundAt
    <3>4. FoundBelow(ns, i)[k] = NoValue
      <4>1. CASE ns[i].children = <<>>
        BY <4>1 DEF FoundBelow
      <4>2. CASE ns[i].children # <<>>
        <5>1. /\ Child(ns[i], k) \in D /\ rk[i] = rk[Child(ns[i], k)] + 1
              /\ rk[Child(ns[i], k)] \in Nat
          BY <2>2, <4>2, ChildFacts DEF Routable
        <5>2. Get(ns, Child(ns[i], k), k) = NoValue
          BY <5>1, <1>1
        <5> QED BY <4>2, <5>2 DEF FoundBelow
      <4> QED BY <4>1, <4>2
    <3> QED BY <3>3, <3>4 DEF Found
  <2> QED BY <2>1, <2>2
<1>2. \A i \in D : i \in T
  <2> HIDE DEF T, D
  <2> QED BY <1>0, <1>1, RankInduction
<1> QED BY <1>2

(* In the middle of a cascade, too, a scan finds what get finds.           *)
LEMMA ScanFinds == ASSUME MapInv PROVE ScanAgrees
<1>1. PICK L, rk, iv : SoundBy(nodes, root, flushing, L, rk, iv)
  BY DEF MapInv, Sound
<1>2. Arena(nodes) /\ Ranked(nodes, rk) /\ root \in DOMAIN nodes
  BY <1>1 DEF SoundBy, Shape, Tree
<1> DEFINE present == RestrictValues(Contents, LAMBDA v : v # NoValue)
           X == {k \in Keys : Get(nodes, root, k) # NoValue}
<1>3. present = [k \in X |-> Get(nodes, root, k)]
  <2>1. DOMAIN Contents = Keys /\ \A k \in Keys : Contents[k] = Get(nodes, root, k)
    BY DEF Contents
  <2>2. present = [k \in {k \in DOMAIN Contents : Contents[k] # NoValue} |-> Contents[k]]
    BY Zenon DEF RestrictValues, Restrict
  <2>3. {k \in DOMAIN Contents : Contents[k] # NoValue} = X
    BY <2>1
  <2>4. \A k \in X : Contents[k] = Get(nodes, root, k)
    BY <2>1
  <2> HIDE DEF present, X
  <2> QED BY <2>2, <2>3, <2>4, Zenon
<1> HIDE DEF present
<1>4. ASSUME NEW lo \in Bounds(Keys), NEW hi \in Bounds(Keys)
      PROVE  Scan(nodes, root, lo, hi) = InRange(present, lo, hi)
  <2>1. lo \in Bounds(Nat) /\ hi \in Bounds(Nat)
    BY KeysAssumption DEF Bounds
  <2>2. Scan(nodes, root, lo, hi) = PresentIn(Found(nodes, root), lo, hi)
    BY <1>2, <2>1, ScanIs
  <2> DEFINE g == Found(nodes, root)
             Y == {k \in Nat : g[k] # NoValue /\ Within(k, lo, hi)}
             Z == {k \in DOMAIN present : Above(k, lo) /\ Under(k, hi)}
  <2>3. \A k \in Nat : g[k] = Get(nodes, root, k)
    BY DEF Found
  <2>4. \A k \in Nat : k \notin Keys => g[k] = NoValue
    BY <1>2, <2>3, NoOtherKeys
  <2>5. InRange(present, lo, hi) = [k \in Z |-> present[k]]
    BY DEF InRange, RestrictDomain, Restrict
  <2>6. PresentIn(g, lo, hi) = [k \in Y |-> g[k]]
    BY DEF PresentIn
  <2> HIDE DEF g
  <2>7. \A k : k \in DOMAIN present <=> k \in Keys /\ Get(nodes, root, k) # NoValue
    BY <1>3
  <2>8. Y = Z
    BY <2>3, <2>4, <2>7, KeysAssumption DEF Within
  <2>9. \A k \in Z : present[k] = g[k]
    <3>1. \A k \in Z : k \in X /\ k \in Nat
      BY <2>7, KeysAssumption
    <3> QED BY <3>1, <1>3, <2>3
  <2> HIDE DEF Y, Z
  <2>10. [k \in Z |-> present[k]] = [k \in Y |-> g[k]]
    BY <2>8, <2>9
  <2> QED BY <2>2, <2>5, <2>6, <2>10 DEF g
<1> QED BY <1>4, Zenon DEF ScanAgrees, present

(* Between calls, a scan of any range returns exactly the keys in it that  *)
(* get finds, with the values get finds: clipping the range at the pivots  *)
(* neither loses nor repeats a key, and folding messages upwards from the  *)
(* oldest agrees with adding upserts up on the way down from the newest.   *)
THEOREM ScansAgree == Spec => []ScanAgrees
<1>1. MapInv => ScanAgrees
  BY ScanFinds
<1> QED BY <1>1, TreeSound, PTL


-----------------------------------------------------------------------------
(* Dirty nodes                                                             *)

(* Above a dirty live node all nodes are dirty.                            *)
DirtyDown(ns, r) ==
    \A i \in Subtree(ns, r) : \A c \in Children(ns[i]) : ns[c].dirty => ns[i].dirty

DirtyStack(ns, st) == \A i \in Range(st) : ns[i].dirty

(* Without drain, whatever is on the stack of a cascade has been changed   *)
(* since the last commit: a mutation entered the root, and each node above *)
(* it on the stack has been given messages by the one below.               *)
DirtyInv == mode # "drain" /\ DirtyDown(nodes, root) /\ DirtyStack(nodes, flushing)

(* No node of ns is cleaned.                                               *)
StillDirty(ns, ns2) ==
    DOMAIN ns \subseteq DOMAIN ns2 /\ \A i \in DOMAIN ns : ns[i].dirty => ns2[i].dirty

(* It is enough to look at a set of nodes that has all their children.     *)
LEMMA DirtyFrom ==
    ASSUME NEW ns, NEW rk, Arena(ns), Ranked(ns, rk), NEW X \in SUBSET DOMAIN ns, NEW r \in X,
           \A i \in X : \A c \in Children(ns[i]) : c \in X /\ (ns[c].dirty => ns[i].dirty)
    PROVE  DirtyDown(ns, r)
<1>1. \A i \in X : Children(ns[i]) \subseteq X
  OBVIOUS
<1>2. Subtree(ns, r) \subseteq X
  BY <1>1, SubtreeWithin
<1> QED BY <1>2 DEF DirtyDown

(* A live node has one parent.                                             *)
LEMMA OneParent ==
    ASSUME NEW ns, NEW r, NEW L, NEW rk, NEW iv, Shape(ns, r, L, rk, iv),
           NEW P \in L, ~ns[P].leaf, NEW j \in 1 .. Len(ns[P].children),
           NEW C, C = ns[P].children[j], NEW i \in L, C \in Children(ns[i])
    PROVE  i = P
<1>1. Arena(ns) /\ Ranked(ns, rk) /\ Tree(ns, r, L) /\ i \in DOMAIN ns
  BY DEF Shape, Tree
<1>2. ~ns[i].leaf /\ \E y \in 1 .. Len(ns[i].children) : C = ns[i].children[y]
  BY <1>1, ChildrenLower
<1> QED BY <1>1, <1>2 DEF Tree

(* Taking a batch out of a buffer, and putting one into a node, dirties.   *)
LEMMA FlushDirty ==
    ASSUME NEW ns, NEW r, NEW L, L = Subtree(ns, r), NEW rk, NEW iv, Shape(ns, r, L, rk, iv),
           NEW P \in L, ~ns[P].leaf, NEW j \in 1 .. Len(ns[P].children), NEW C,
           C = ns[P].children[j], ~Barren(ns[C]), DirtyDown(ns, r), ns[P].dirty,
           NEW f, f = Flushed(ns, P, j)
    PROVE  DirtyDown(f, r) /\ StillDirty(ns, f) /\ f[P].dirty /\ f[C].dirty
<1> DEFINE batch == Restrict(ns[P].buffer, Pending(ns[P], j))
<1>1. Arena(ns) /\ Ranked(ns, rk) /\ L \subseteq DOMAIN ns /\ r \in L
  BY DEF Shape, Tree
<1>2. Parented(ns, r, L, rk, P, j)
  BY ChildApart
<1>3. ns[P] \in InnerNode /\ P \in DOMAIN ns /\ C \in L /\ C \in DOMAIN ns /\ C # P
  BY <1>2 DEF Parented
<1>4. /\ f[P] = Drained(ns[P], j) /\ f[C] = Applied(ns[C], batch)
      /\ \A i \in DOMAIN ns \ {P, C} : f[i] = ns[i]
  BY <1>1, <1>3, FlushedNodes
<1>5. FlushKept(ns, r, L, rk, P, j)
  BY <1>3, FlushKeeps
<1>6. PICK iv2 : Shape(f, r, L, rk, iv2)
  BY <1>5 DEF FlushKept
<1>7. LinksKept(ns, f) /\ Arena(f) /\ Ranked(f, rk) /\ L \in SUBSET DOMAIN f /\ DOMAIN f = DOMAIN ns
  BY <1>5, <1>6 DEF FlushKept, Shape, Tree, LinksKept
<1> HIDE DEF batch
<1>8. f[P].dirty
  BY <1>3, <1>4 DEF Drained, InnerNode
<1>9. f[C].dirty
  <2> DEFINE n == ns[C]
  <2>1. n \in LeafNode \/ n \in InnerNode
    BY <1>1, <1>3 DEF Arena, NodeOk
  <2> HIDE DEF n
  <2>2. Applied(n, batch).dirty
    BY <2>1 DEF Applied, LeafNode, InnerNode
  <2> QED BY <2>2, <1>4 DEF n
<1>10. \A i \in DOMAIN ns : Children(f[i]) = Children(ns[i])
  BY <1>7 DEF LinksKept, Children
<1>11. \A i \in L : Children(f[i]) \subseteq L
  BY <1>6, ShapeClosed
<1>12. ASSUME NEW i \in L, NEW c \in Children(f[i]), f[c].dirty PROVE f[i].dirty
  <2>1. CASE i \in {P, C}
    BY <2>1, <1>8, <1>9
  <2>2. CASE i \notin {P, C}
    <3>1. f[i] = ns[i] /\ c \in Children(ns[i]) /\ c \in L
      BY <2>2, <1>1, <1>4, <1>10, <1>11, <1>12
    <3>2. c # C
      BY <2>2, <3>1, OneParent
    <3>3. ns[c].dirty
      <4>1. CASE c = P
        BY <4>1
      <4>2. CASE c # P
        <5>1. f[c] = ns[c]
          BY <4>2, <3>1, <3>2, <1>1, <1>4
        <5> QED BY <5>1, <1>12
      <4> QED BY <4>1, <4>2
    <3> QED BY <3>1, <3>3 DEF DirtyDown
  <2> QED BY <2>1, <2>2
<1>13. DirtyDown(f, r)
  BY <1>1, <1>7, <1>11, <1>12, DirtyFrom
<1>14. StillDirty(ns, f)
  BY <1>4, <1>7, <1>8, <1>9 DEF StillDirty
<1> QED BY <1>8, <1>9, <1>13, <1>14

(* The pieces of a split are new, and so is the dirty flag of each.        *)
SplitDirtyAs(ns, id, S) ==
    /\ S.nodes \in Seq(AnyNode) /\ DOMAIN ns \subseteq DOMAIN S.nodes
    /\ \A i \in DOMAIN ns \ {id} : S.nodes[i] = ns[i]
    /\ \A i \in (DOMAIN S.nodes \ DOMAIN ns) \cup {id} : S.nodes[i].dirty
    /\ Len(S.promoted) \in Nat

(* A node that is too full is cut into new, dirty nodes.                   *)
LEMMA SplitDirty ==
    ASSUME NEW ns \in Seq(AnyNode), NEW id \in DOMAIN ns, NodeOk(ns[id]), Overfull(ns[id])
    PROVE  SplitDirtyAs(ns, id, split_if_needed(ns, id))
<1>1. PICK M, rest, piece, sep, cut : CutInto(ns, id, M, rest, piece, sep, cut)
  BY SplitIs
<1>2. /\ Cuts(ns[id], M, rest, piece, sep, cut) /\ piece \in Seq(AnyNode) /\ Len(piece) = M
      /\ DOMAIN sep = 1 .. (M - 1) /\ split_if_needed(ns, id) = Split(ns, id, piece, sep)
      /\ \A t \in 1 .. M : piece[t].dirty
  BY <1>1 DEF CutInto
<1>3. M \in Nat /\ M >= 2
  BY <1>2, CutPieces
<1> DEFINE S == Split(ns, id, piece, sep)
           Q == Len(ns)
<1>4. Q \in Nat /\ DOMAIN ns = 1 .. Q /\ id \in 1 .. Q
  OBVIOUS
<1>5. SplitPlaces(ns, id, M, piece, sep, S)
  BY <1>2, <1>3, <1>4, SplitNodes
<1> HIDE DEF S
<1>6. /\ S.nodes \in Seq(AnyNode) /\ Len(S.nodes) = Q + (M - 1)
      /\ S.nodes[id] = piece[1]
      /\ \A i \in 1 .. Q : i # id => S.nodes[i] = ns[i]
      /\ \A t \in 1 .. (M - 1) : S.nodes[Q + t] = piece[t + 1]
      /\ Len(S.promoted) = M - 1
  BY <1>5 DEF SplitPlaces
<1> HIDE DEF Q
<1>7. DOMAIN S.nodes = 1 .. Q + (M - 1)
  BY <1>6
<1>8. ASSUME NEW i \in (DOMAIN S.nodes \ DOMAIN ns) \cup {id} PROVE S.nodes[i].dirty
  <2>1. CASE i = id
    <3>1. 1 \in 1 .. M
      BY <1>3
    <3> QED BY <2>1, <3>1, <1>2, <1>6
  <2>2. CASE i # id
    <3> DEFINE t == i - Q
    <3>1. i \in 1 .. Q + (M - 1) /\ i \notin 1 .. Q
      BY <2>2, <1>4, <1>7
    <3>2. t \in 1 .. (M - 1) /\ t + 1 \in 1 .. M /\ i = Q + t
      BY <3>1, <1>3, <1>4
    <3> HIDE DEF t
    <3> QED BY <3>2, <1>2, <1>6
  <2> QED BY <2>1, <2>2
<1>9. DOMAIN ns \subseteq DOMAIN S.nodes
  BY <1>3, <1>4, <1>7
<1>10. Len(S.promoted) \in Nat
  BY <1>3, <1>6
<1>11. SplitDirtyAs(ns, id, S)
  BY <1>4, <1>6, <1>8, <1>9, <1>10 DEF SplitDirtyAs
<1> QED BY <1>2, <1>11 DEF S


(* A node that takes promoted pieces stays dirty.                          *)
LEMMA MergeDirty ==
    ASSUME NEW ns, NEW P, ns[P] \in InnerNode, ns[P].dirty, NEW promoted, NEW N \in Nat,
           NEW f, MergedAs(ns, P, promoted, N, f)
    PROVE  f[N].dirty
<1> DEFINE S == {i \in 0 .. N : "dirty" \in DOMAIN f[i] /\ f[i].dirty}
<1>1. f[0] = ns[P] /\ \A i \in 1 .. N : f[i] = Promote(f[i - 1], promoted[i])
  BY DEF MergedAs
<1>2. 0 \in S
  <2>1. "dirty" \in DOMAIN ns[P]
    BY DEF InnerNode
  <2>2. 0 \in 0 .. N
    OBVIOUS
  <2> QED BY <2>1, <2>2, <1>1
<1>3. ASSUME NEW i \in 0 .. N - 1, i \in S PROVE i + 1 \in S
  <2>1. i + 1 \in 1 .. N /\ i + 1 \in 0 .. N /\ (i + 1) - 1 = i
    OBVIOUS
  <2>2. f[i + 1] = Promote(f[i], promoted[i + 1])
    BY <2>1, <1>1
  <2>3. ASSUME NEW n, "dirty" \in DOMAIN n, NEW p
        PROVE  "dirty" \in DOMAIN Promote(n, p) /\ Promote(n, p).dirty
    BY <2>3 DEF Promote
  <2>4. "dirty" \in DOMAIN f[i]
    BY <1>3
  <2> QED BY <2>1, <2>2, <2>3, <2>4
<1>4. \A i \in 0 .. N : i \in S
  <2> HIDE DEF S
  <2> QED BY <1>2, <1>3, BoundedInduction
<1> QED BY <1>4

(* Of the nodes ns, ns2 has the split child and its parent dirty.          *)
IntegrateDirtyAs(ns, P, C, ns2) ==
    /\ ns2[P].dirty
    /\ \A i \in DOMAIN ns2 \ DOMAIN ns : ns2[i].dirty
    /\ ns2[C].dirty \/ ns2[C] = ns[C]

(* A child of P splits, if it has to, and its pieces are dirty.            *)
LEMMA IntegrateDirtyNodes ==
    ASSUME NEW ns \in Seq(AnyNode), NEW P \in DOMAIN ns, ns[P] \in InnerNode, ns[P].dirty,
           NEW C \in DOMAIN ns, C # P, NodeOk(ns[C])
    PROVE  IntegrateDirtyAs(ns, P, C, Integrated(ns, P, C))
<1> DEFINE S == split_if_needed(ns, C)
           ss == S.nodes
           promoted == S.promoted
           N == Len(promoted)
<1>1. /\ N \in Nat /\ DOMAIN ns \subseteq DOMAIN ss /\ ss[P] = ns[P]
      /\ \A i \in DOMAIN ss \ DOMAIN ns : ss[i].dirty
      /\ ss[C].dirty \/ ss[C] = ns[C]
  <2>1. CASE Overfull(ns[C])
    <3>1. SplitDirtyAs(ns, C, S)
      BY <2>1, SplitDirty
    <3> HIDE DEF S
    <3> QED BY <3>1 DEF SplitDirtyAs
  <2>2. CASE ~Overfull(ns[C])
    <3>1. S.nodes = ns /\ S.promoted = <<>>
      BY <2>2 DEF split_if_needed
    <3>2. Len(<<>>) = 0
      OBVIOUS
    <3> HIDE DEF S
    <3> QED BY <3>1, <3>2
  <2> QED BY <2>1, <2>2
<1>2. Integrated(ns, P, C) = integrate_splits(ss, P, promoted)
  BY DEF Integrated
<1>3. Len(promoted) = N
  OBVIOUS
<1> HIDE DEF S, ss, promoted, N
<1>4. PICK f : MergedAs(ss, P, promoted, N, f)
  BY <1>1, <1>3, MergeLoop, Zenon
<1>5. f[N].dirty
  BY <1>1, <1>4, MergeDirty
<1> DEFINE ns2 == integrate_splits(ss, P, promoted)
<1>6. ns2 = [ss EXCEPT ![P] = f[N]]
  BY <1>4 DEF MergedAs
<1> HIDE DEF ns2
<1>7. /\ DOMAIN ns2 = DOMAIN ss /\ ns2[P] = f[N] /\ \A i \in DOMAIN ss : i # P => ns2[i] = ss[i]
  BY <1>1, <1>6
<1>8. IntegrateDirtyAs(ns, P, C, ns2)
  BY <1>1, <1>5, <1>7 DEF IntegrateDirtyAs
<1> QED BY <1>2, <1>8 DEF ns2

(* A split leaves no clean node above a dirty one.                         *)
LEMMA IntegrateDirty ==
    ASSUME NEW ns \in Seq(AnyNode), NEW r, NEW L, L = Subtree(ns, r), NEW rk, NEW iv,
           Shape(ns, r, L, rk, iv), NEW P \in L, ~ns[P].leaf,
           NEW j \in 1 .. Len(ns[P].children), NEW C, C = ns[P].children[j],
           DirtyDown(ns, r), ns[P].dirty
    PROVE  DirtyDown(Integrated(ns, P, C), r) /\ StillDirty(ns, Integrated(ns, P, C))
<1> DEFINE ns2 == Integrated(ns, P, C)
           new == DOMAIN ns2 \ DOMAIN ns
           X == L \cup new
<1>1. IntegrateKept(ns, r, L, P, C, ns2)
  BY SplitKeeps
<1>2. Parented(ns, r, L, rk, P, j)
  BY ChildApart
<1>3. /\ ns[P] \in InnerNode /\ P \in DOMAIN ns /\ C \in DOMAIN ns /\ C # P /\ C \in L
      /\ Arena(ns) /\ L \subseteq DOMAIN ns /\ r \in L /\ NodeOk(ns[C])
  BY <1>2 DEF Parented, Shape, Tree, Arena
<1>4. IntegrateDirtyAs(ns, P, C, ns2)
  BY <1>3, IntegrateDirtyNodes
<1> HIDE DEF ns2
<1>5. /\ ns2[P].dirty /\ \A i \in new : ns2[i].dirty
      /\ ns2[C].dirty \/ ns2[C] = ns[C]
  BY <1>4 DEF IntegrateDirtyAs
<1>6. PICK L2, rk2, iv2 : Shape(ns2, r, L2, rk2, iv2)
  BY <1>1 DEF IntegrateKept
<1>7. IntegrateNodes(ns, P, C, ns2)
  BY <1>1 DEF IntegrateKept
<1>8. /\ DOMAIN ns \subseteq DOMAIN ns2
      /\ \A i \in DOMAIN ns \ {P, C} : ns2[i] = ns[i]
      /\ Children(ns2[P]) \subseteq Children(ns[P]) \cup new
      /\ \A i \in new \cup {C} : PieceOf(ns[C], ns2[i])
  BY <1>7 DEF IntegrateNodes
<1>9. Arena(ns2) /\ Ranked(ns2, rk2)
  BY <1>6 DEF Shape
<1>10. \A i \in L : Children(ns[i]) \subseteq L
  BY ShapeClosed
<1>11. X \in SUBSET DOMAIN ns2 /\ r \in X
  BY <1>3, <1>8
<1> HIDE DEF new
<1>12. ASSUME NEW i \in X, NEW c \in Children(ns2[i])
       PROVE  c \in X /\ (ns2[c].dirty => ns2[i].dirty)
  <2>1. CASE i = P
    BY <2>1, <1>5, <1>8, <1>10, <1>12
  <2>2. CASE i \in new
    <3>1. Children(ns2[i]) \subseteq Children(ns[C])
      BY <2>2, <1>8 DEF PieceOf, PartlyAs
    <3> QED BY <2>2, <3>1, <1>3, <1>5, <1>10, <1>12
  <2>3. CASE i = C
    <3>1. Children(ns2[C]) \subseteq Children(ns[C])
      BY <1>8 DEF PieceOf, PartlyAs
    <3>2. c \in Children(ns[C]) /\ c \in L
      BY <2>3, <3>1, <1>3, <1>10, <1>12
    <3>3. c # C /\ c # P
      <4>1. rk[c] < rk[C] /\ rk[C] < rk[P] /\ rk \in [DOMAIN ns -> Nat]
        <5>1. Ranked(ns, rk) /\ C \in Children(ns[P])
          BY <1>2 DEF Shape, Parented, Children, Range
        <5>2. Arena(ns) /\ C \in DOMAIN ns /\ P \in DOMAIN ns
          BY <1>3
        <5>3. c \in Children(ns[C])
          BY <3>2
        <5>4. rk[c] < rk[C]
          BY <5>1, <5>2, <5>3, ChildrenLower
        <5>5. rk[C] < rk[P]
          BY <5>1, <5>2, ChildrenLower
        <5>6. rk \in [DOMAIN ns -> Nat]
          BY <5>1 DEF Ranked
        <5> QED BY <5>4, <5>5, <5>6
      <4> QED BY <4>1, <3>2, <1>3
    <3>4. ns2[c] = ns[c]
      BY <3>2, <3>3, <1>3, <1>8
    <3>5. ns[c].dirty => ns[C].dirty
      BY <3>2, <1>3 DEF DirtyDown
    <3> QED BY <2>3, <3>2, <3>4, <3>5, <1>5
  <2>4. CASE i \in L \ {P, C}
    <3>1. ns2[i] = ns[i] /\ c \in Children(ns[i]) /\ c \in L
      BY <2>4, <1>3, <1>8, <1>10, <1>12
    <3>2. c # C
      BY <2>4, <3>1, OneParent
    <3>3. ns[c].dirty => ns[i].dirty
      BY <2>4, <3>1 DEF DirtyDown
    <3>4. c # P => ns2[c] = ns[c]
      BY <3>1, <3>2, <1>3, <1>8
    <3> QED BY <3>1, <3>3, <3>4
  <2> QED BY <2>1, <2>2, <2>3, <2>4
<1> HIDE DEF X
<1>13. DirtyDown(ns2, r)
  BY <1>9, <1>11, <1>12, DirtyFrom
<1>14. StillDirty(ns, ns2)
  BY <1>3, <1>5, <1>8 DEF StillDirty
<1> QED BY <1>13, <1>14 DEF ns2


(* Unlinking a child dirties the parent.                                   *)
LEMMA RemoveDirty ==
    ASSUME NEW ns, NEW r, NEW L, L = Subtree(ns, r), NEW rk, NEW iv,
           Shape(ns, r, L, rk, iv), NEW P \in L, ~ns[P].leaf,
           NEW j \in 1 .. Len(ns[P].children), NEW C, C = ns[P].children[j],
           Hollow(ns[C]), Pending(ns[P], j) = {}, DirtyDown(ns, r), ns[P].dirty
    PROVE  DirtyDown(remove_child(ns, P, C), r) /\ StillDirty(ns, remove_child(ns, P, C))
<1> DEFINE ns2 == remove_child(ns, P, C)
           X == L \ {C}
<1>1. RemoveKept(ns, r, L, rk, P, C, ns2)
  BY RemoveKeeps
<1>2. ns2 = [ns EXCEPT ![P] = Unlinked(ns[P], j)]
  BY RemovedNodes
<1> HIDE DEF ns2
<1>3. PICK iv2 : Shape(ns2, r, X, rk, iv2)
  BY <1>1 DEF RemoveKept
<1>4. Arena(ns2) /\ Ranked(ns2, rk) /\ X \in SUBSET DOMAIN ns2 /\ r \in X
  BY <1>3 DEF Shape, Tree
<1>5. \A i \in X : Children(ns2[i]) \subseteq X
  BY <1>3, ShapeClosed
<1>6. Parented(ns, r, L, rk, P, j)
  BY ChildApart
<1>7. P \in DOMAIN ns /\ ns[P] \in InnerNode /\ L \subseteq DOMAIN ns
  BY <1>6 DEF Parented, Shape, Tree
<1>8. DOMAIN ns2 = DOMAIN ns /\ \A i \in DOMAIN ns \ {P} : ns2[i] = ns[i]
  BY <1>2, <1>7
<1>9. ns2[P].dirty
  <2>1. Unlinked(ns[P], j).dirty
    BY <1>7 DEF Unlinked, InnerNode
  <2> QED BY <2>1, <1>2, <1>7
<1>10. ASSUME NEW i \in X, NEW c \in Children(ns2[i]), ns2[c].dirty PROVE ns2[i].dirty
  <2>1. CASE i = P
    BY <2>1, <1>9
  <2>2. CASE i # P
    <3>1. ns2[i] = ns[i] /\ c \in L
      BY <2>2, <1>5, <1>7, <1>8, <1>10
    <3>2. ns[c].dirty
      BY <3>1, <1>7, <1>8, <1>10
    <3> QED BY <3>1, <3>2, <1>10 DEF DirtyDown
  <2> QED BY <2>1, <2>2
<1> HIDE DEF X
<1>11. DirtyDown(ns2, r)
  BY <1>4, <1>5, <1>10, DirtyFrom
<1>12. StillDirty(ns, ns2)
  BY <1>8, <1>9 DEF StillDirty
<1> QED BY <1>11, <1>12 DEF ns2

(* However the delivery of a batch ends.                                   *)
LEMMA DeliverDirty ==
    ASSUME NEW ns, NEW r, NEW st, Sound(ns, r, st), DirtyDown(ns, r), st # <<>>,
           NEW P, P = Last(st), ns[P].dirty,
           NEW j \in 1 .. Len(ns[P].children), NEW C, C = ns[P].children[j],
           NEW f, f = Flushed(ns, P, j), NEW ns2,
           \/ ns2 = f
           \/ f[C].leaf /\ f[C].entries = Empty /\ ns2 = remove_child(f, P, C)
           \/ ns2 = Integrated(f, P, C)
    PROVE  DirtyDown(ns2, r) /\ StillDirty(ns, ns2) /\ f[C].dirty /\ C \in Nat
<1> DEFINE L == Subtree(ns, r)
<1>1. PICK rk, iv : SoundBy(ns, r, st, L, rk, iv)
  BY LiveIs
<1>2. Shape(ns, r, L, rk, iv) /\ Arena(ns) /\ Ranked(ns, rk) /\ r \in DOMAIN ns /\ L \subseteq DOMAIN ns
  BY <1>1 DEF SoundBy, Shape, Tree
<1>3. L = Subtree(ns, r)
  OBVIOUS
<1> HIDE DEF L
<1>4. P \in L /\ ~ns[P].leaf
  BY <1>1, TopNode
<1>5. FlushSound(ns, r, st, L, rk, P, j)
  BY <1>1, TopFlushed
<1>6. PICK iv2 : SoundBy(f, r, st, L, rk, iv2)
  BY <1>5 DEF FlushSound
<1>7. LinksKept(ns, f) /\ Pending(f[P], j) = {} /\ \A i \in L : ~Barren(f[i])
  BY <1>5 DEF FlushSound
<1>8. f \in Seq(AnyNode) /\ Shape(f, r, L, rk, iv2) /\ Arena(f) /\ Ranked(f, rk)
  BY <1>6 DEF SoundBy, Shape
<1>9. Parented(ns, r, L, rk, P, j)
  BY <1>2, <1>4, ChildApart
<1>10. C \in L /\ C \in Nat
  <2>1. C \in L /\ ns[P].children \in Seq(Nat)
    BY <1>9 DEF Parented
  <2> QED BY <2>1
<1>11. ~Barren(ns[C])
  BY <1>2, <1>7, <1>10 DEF Barren, LinksKept
<1>12. DirtyDown(f, r) /\ StillDirty(ns, f) /\ f[P].dirty /\ f[C].dirty
  BY <1>2, <1>3, <1>4, <1>11, FlushDirty
<1>13. Subtree(f, r) = L
  BY <1>2, <1>3, <1>7, <1>8, LinksKeptBelow
<1>14. ~f[P].leaf /\ f[P].children = ns[P].children
  BY <1>2, <1>4, <1>7 DEF LinksKept
<1>15. j \in 1 .. Len(f[P].children) /\ C = f[P].children[j] /\ L = Subtree(f, r)
  BY <1>13, <1>14
<1>16. DirtyDown(Integrated(f, P, C), r) /\ StillDirty(f, Integrated(f, P, C))
  BY <1>4, <1>8, <1>12, <1>14, <1>15, IntegrateDirty
<1>17. ASSUME f[C].leaf, f[C].entries = Empty
       PROVE  DirtyDown(remove_child(f, P, C), r) /\ StillDirty(f, remove_child(f, P, C))
  <2>1. Hollow(f[C])
    BY <1>17 DEF Hollow
  <2> QED BY <2>1, <1>4, <1>7, <1>8, <1>12, <1>14, <1>15, RemoveDirty
<1>18. \A x : StillDirty(f, x) => StillDirty(ns, x)
  BY <1>12 DEF StillDirty
<1> QED BY <1>10, <1>12, <1>16, <1>17, <1>18

(* A node leaves the stack.                                                *)
LEMMA SettleDirty ==
    ASSUME NEW ns, NEW r, NEW st, Sound(ns, r, st), DirtyDown(ns, r), Len(st) > 1,
           NEW P, P = Last(Front(st)), ns[P].dirty, NEW C, C = Last(st), NEW ns2,
           \/ ns[C].children = <<>> /\ ns2 = remove_child(ns, P, C)
           \/ ns2 = Integrated(ns, P, C)
    PROVE  DirtyDown(ns2, r) /\ StillDirty(ns, ns2)
<1> DEFINE L == Subtree(ns, r)
           N == Len(st) - 1
<1>1. PICK rk, iv : SoundBy(ns, r, st, L, rk, iv)
  BY LiveIs
<1>2. L = Subtree(ns, r)
  OBVIOUS
<1> HIDE DEF L
<1>3. st \in Seq(Nat) /\ Stacked(ns, r, L, st)
  BY <1>1 DEF SoundBy, Stacked
<1>4. Len(st) \in Nat /\ st # <<>> /\ N \in 1 .. Len(st) /\ N + 1 = Len(st) /\ N \in 1 .. (Len(st) - 1)
  BY <1>3
<1>5. C = st[N + 1] /\ ~ns[C].leaf
  BY <1>1, <1>4, TopNode
<1>6. P = st[N]
  <2>1. Front(st) = SubSeq(st, 1, N)
    BY DEF Front
  <2>2. Len(SubSeq(st, 1, N)) = N /\ SubSeq(st, 1, N)[N] = st[N]
    BY <1>3, <1>4
  <2> HIDE DEF N
  <2> QED BY <2>1, <2>2 DEF Last
<1> HIDE DEF N
<1>7. P \in L /\ ~ns[P].leaf
  BY <1>3, <1>4, <1>6 DEF Stacked
<1>8. PICK j \in 1 .. Len(ns[P].children) : ns[P].children[j] = C /\ Pending(ns[P], j) = {}
  <2>1. \E j \in 1 .. Len(ns[st[N]].children) :
           ns[st[N]].children[j] = st[N + 1] /\ Pending(ns[st[N]], j) = {}
    BY <1>3, <1>4 DEF Stacked, N
  <2> QED BY <2>1, <1>5, <1>6
<1>9. ns \in Seq(AnyNode) /\ Shape(ns, r, L, rk, iv)
  BY <1>1 DEF SoundBy
<1>10. ASSUME ns[C].children = <<>>
       PROVE  DirtyDown(remove_child(ns, P, C), r) /\ StillDirty(ns, remove_child(ns, P, C))
  <2>1. Hollow(ns[C])
    BY <1>5, <1>10 DEF Hollow
  <2> QED BY <2>1, <1>2, <1>7, <1>8, <1>9, RemoveDirty
<1>11. DirtyDown(Integrated(ns, P, C), r) /\ StillDirty(ns, Integrated(ns, P, C))
  BY <1>2, <1>7, <1>8, <1>9, IntegrateDirty
<1> QED BY <1>10, <1>11


(* A new root is dirty, and so are the pieces of the old one.              *)
LEMMA GrowDirty ==
    ASSUME NEW ns, NEW r, NEW st, Sound(ns, r, st), DirtyDown(ns, r),
           split_if_needed(ns, r).promoted # <<>>,
           NEW ns2, ns2 = Grown(ns, r), NEW R, R = Len(split_if_needed(ns, r).nodes) + 1
    PROVE  DirtyDown(ns2, R) /\ ns2[R].dirty
<1> DEFINE L == Subtree(ns, r)
           new == PieceIds(ns, ns2, R)
           X == L \cup new \cup {R}
           S == split_if_needed(ns, r)
<1>1. PICK rk, iv : SoundBy(ns, r, st, L, rk, iv)
  BY LiveIs
<1>2. L = Subtree(ns, r)
  OBVIOUS
<1> HIDE DEF L
<1>3. /\ ns \in Seq(AnyNode) /\ Shape(ns, r, L, rk, iv) /\ Arena(ns) /\ Ranked(ns, rk) /\ r \in L
      /\ L \subseteq DOMAIN ns /\ r \in DOMAIN ns /\ NodeOk(ns[r])
  BY <1>1 DEF SoundBy, Shape, Tree, Arena
<1>4. GrowKept(ns, r, L, ns2, R)
  BY <1>3, GrowKeeps
<1>5. PICK L2, rk2, iv2 : Shape(ns2, R, L2, rk2, iv2)
  BY <1>4 DEF GrowKept
<1>6. Arena(ns2) /\ Ranked(ns2, rk2) /\ R \in DOMAIN ns2
  BY <1>5 DEF Shape, Tree
<1>7. GrowNodes(ns, r, ns2, R)
  BY <1>4 DEF GrowKept
<1>8. /\ R \notin DOMAIN ns /\ DOMAIN ns \cup {R} \subseteq DOMAIN ns2
      /\ \A i \in DOMAIN ns \ {r} : ns2[i] = ns[i]
      /\ Children(ns2[R]) \subseteq {r} \cup new
      /\ \A i \in {r} \cup new : PieceOf(ns[r], ns2[i])
  BY <1>7 DEF GrowNodes
<1>9. new \subseteq DOMAIN ns2 /\ new \cap L = {} /\ new = DOMAIN ns2 \ (DOMAIN ns \cup {R})
  BY <1>3 DEF PieceIds
<1> HIDE DEF new
<1>10. Overfull(ns[r])
  BY DEF split_if_needed
<1>11. SplitDirtyAs(ns, r, S)
  BY <1>3, <1>10, SplitDirty
<1>12. ns2 = Append(S.nodes, RootOver(r, S.promoted)) /\ R = Len(S.nodes) + 1
  BY DEF Grown
<1> HIDE DEF S
<1>13. /\ S.nodes \in Seq(AnyNode) /\ DOMAIN ns \subseteq DOMAIN S.nodes
       /\ \A i \in (DOMAIN S.nodes \ DOMAIN ns) \cup {r} : S.nodes[i].dirty
  BY <1>11 DEF SplitDirtyAs
<1>14. RootOver(r, S.promoted).dirty
  BY DEF RootOver, Internal
<1>15. /\ ns2[R] = RootOver(r, S.promoted)
       /\ \A i \in DOMAIN ns2 : i # R => i \in DOMAIN S.nodes /\ ns2[i] = S.nodes[i]
  <2> DEFINE v == RootOver(r, S.promoted)
             s == S.nodes
  <2>1. /\ Append(s, v)[Len(s) + 1] = v
        /\ \A i \in DOMAIN Append(s, v) : i # Len(s) + 1 => i \in DOMAIN s /\ Append(s, v)[i] = s[i]
    <3>1. s \in Seq(AnyNode)
      BY <1>13
    <3> HIDE DEF s, v
    <3>2. /\ Len(s) \in Nat /\ DOMAIN s = 1 .. Len(s) /\ DOMAIN Append(s, v) = 1 .. (Len(s) + 1)
          /\ Append(s, v)[Len(s) + 1] = v /\ \A i \in 1 .. Len(s) : Append(s, v)[i] = s[i]
      BY <3>1
    <3> QED BY <3>2
  <2> QED BY <2>1, <1>12
<1>16. ns2[R].dirty
  BY <1>14, <1>15
<1>17. \A i \in new \cup {r} : ns2[i].dirty
  <2>1. r # R /\ r \in DOMAIN ns2
    BY <1>3, <1>8
  <2> QED BY <2>1, <1>9, <1>13, <1>15
<1>18. \A i \in L : Children(ns[i]) \subseteq L
  BY <1>3, ShapeClosed
<1>19. ASSUME NEW i \in X, NEW c \in Children(ns2[i])
       PROVE  c \in X /\ (ns2[c].dirty => ns2[i].dirty)
  <2>1. CASE i = R
    BY <2>1, <1>3, <1>8, <1>16, <1>19
  <2>2. CASE i \in {r} \cup new
    <3>1. Children(ns2[i]) \subseteq Children(ns[r])
      BY <2>2, <1>8 DEF PieceOf, PartlyAs
    <3> QED BY <2>2, <3>1, <1>3, <1>17, <1>18, <1>19
  <2>3. CASE i \in L \ {r}
    <3>1. ns2[i] = ns[i] /\ c \in Children(ns[i]) /\ c \in L
      BY <2>3, <1>3, <1>8, <1>18, <1>19
    <3>2. c # r
      <4>1. \E y \in 1 .. Len(ns[i].children) : ~ns[i].leaf /\ c = ns[i].children[y]
        BY <3>1, <2>3, <1>3, ChildrenLower
      <4> QED BY <4>1, <2>3, <1>3 DEF Shape, Tree
    <3>3. ns2[c] = ns[c]
      BY <3>1, <3>2, <1>3, <1>8
    <3> QED BY <2>3, <3>1, <3>3, <1>2 DEF DirtyDown
  <2> QED BY <2>1, <2>2, <2>3
<1>20. X \in SUBSET DOMAIN ns2 /\ R \in X
  BY <1>3, <1>8, <1>9
<1> HIDE DEF X
<1>21. DirtyDown(ns2, R)
  BY <1>6, <1>19, <1>20, DirtyFrom
<1> QED BY <1>16, <1>21

(* So it is in a part of the tree.                                         *)
LEMMA CollapsedDirty ==
    ASSUME NEW ns, NEW r, NEW st, Sound(ns, r, st), DirtyDown(ns, r),
           NEW r2, r2 = Collapsed(ns, r)
    PROVE  DirtyDown(ns, r2)
<1>1. PICK rk, iv : SoundBy(ns, r, st, Subtree(ns, r), rk, iv)
  BY LiveIs
<1>2. Arena(ns) /\ Ranked(ns, rk) /\ r \in DOMAIN ns
  BY <1>1 DEF SoundBy, Shape, Tree
<1>3. Subtree(ns, r2) \subseteq Subtree(ns, r)
  BY <1>2, CollapsedBelow
<1> QED BY <1>3 DEF DirtyDown

(* And in a single leaf.                                                   *)
LEMMA LeafDirty ==
    ASSUME NEW ns, NEW rk, Arena(ns), Ranked(ns, rk), NEW R \in DOMAIN ns, ns[R] = Leaf(Empty),
           NEW r2, r2 = Collapsed(ns, R)
    PROVE  DirtyDown(ns, r2)
<1>1. Children(ns[R]) = {}
  BY DEF Leaf, Children
<1>2. Subtree(ns, R) = {R} \cup Beneath(ns, R)
  BY SubtreeFacts
<1>3. Beneath(ns, R) = {}
  BY <1>1 DEF Beneath
<1>4. Subtree(ns, r2) \subseteq Subtree(ns, R)
  BY CollapsedBelow
<1> QED BY <1>1, <1>2, <1>3, <1>4 DEF DirtyDown

(* A mutation dirties the root.                                            *)
LEMMA EnterDirty ==
    ASSUME NEW ns, NEW r, Sound(ns, r, <<>>), DirtyDown(ns, r), NEW k \in Keys,
           NEW m \in MessagesOf(Nat), NEW ns2, ns2 = WithMessage(ns, r, k, m)
    PROVE  DirtyDown(ns2, r) /\ ns2[r].dirty
<1> DEFINE L == Subtree(ns, r)
           batch == [key \in {k} |-> m]
<1>1. PICK rk, iv : SoundBy(ns, r, <<>>, L, rk, iv)
  BY LiveIs
<1>2. L = Subtree(ns, r)
  OBVIOUS
<1> HIDE DEF L
<1>3. /\ Shape(ns, r, L, rk, iv) /\ r \in L /\ ~Barren(ns[r]) /\ L \subseteq DOMAIN ns
      /\ Arena(ns) /\ Ranked(ns, rk) /\ NodeOk(ns[r])
  BY <1>1 DEF SoundBy, Shape, Tree, BarrenOnTop, Arena
<1>4. EnteredAs(ns, r, L, rk, k, m, ns2)
  BY <1>3, EnteredNodes
<1>5. PICK iv2 : Shape(ns2, r, L, rk, iv2)
  BY <1>4 DEF EnteredAs
<1>6. /\ \A i \in L \ {r} : ns2[i] = ns[i]
      /\ ns2[r] = Applied(ns[r], batch)
  BY <1>4 DEF EnteredAs
<1> HIDE DEF batch
<1>7. ns2[r].dirty
  <2> DEFINE n == ns[r]
  <2>1. n \in LeafNode \/ n \in InnerNode
    BY <1>3 DEF NodeOk
  <2> HIDE DEF n
  <2>2. Applied(n, batch).dirty
    BY <2>1 DEF Applied, LeafNode, InnerNode
  <2> QED BY <2>2, <1>6 DEF n
<1>8. Arena(ns2) /\ Ranked(ns2, rk) /\ L \in SUBSET DOMAIN ns2
  BY <1>5 DEF Shape, Tree
<1>9. \A i \in L : Children(ns2[i]) \subseteq L
  BY <1>5, ShapeClosed
<1>10. ASSUME NEW i \in L, NEW c \in Children(ns2[i]), ns2[c].dirty PROVE ns2[i].dirty
  <2>1. CASE i = r
    BY <2>1, <1>7
  <2>2. CASE i # r
    <3>1. ns2[i] = ns[i] /\ c \in L /\ c \in Children(ns[i])
      BY <2>2, <1>6, <1>9, <1>10
    <3>2. c # r
      <4>1. \E y \in 1 .. Len(ns[i].children) : ~ns[i].leaf /\ c = ns[i].children[y]
        BY <3>1, <1>3, ChildrenLower
      <4> QED BY <4>1, <1>3 DEF Shape, Tree
    <3>3. ns2[c] = ns[c]
      BY <3>1, <3>2, <1>6
    <3> QED BY <3>1, <3>3, <1>2, <1>10 DEF DirtyDown
  <2> QED BY <2>1, <2>2
<1>11. DirtyDown(ns2, r)
  BY <1>3, <1>8, <1>9, <1>10, DirtyFrom
<1> QED BY <1>7, <1>11


(* walk meets the recursion of DirtyWalk.                                  *)
Walks(ns, walk) ==
    \A i \in DOMAIN ns :
        walk[i] = IF ns[i].dirty THEN {i} \cup UNION {walk[c] : c \in Children(ns[i])} ELSE {}

(* DirtyWalk is what its recursion says.                                   *)
LEMMA WalkIs ==
    ASSUME NEW rk, Arena(nodes), Ranked(nodes, rk)
    PROVE  \E walk : Walks(nodes, walk) /\ DirtyWalk = walk[root]
<1> DEFINE D == DOMAIN nodes
           V == SUBSET D
           G(f) == [i \in D |-> IF nodes[i].dirty THEN {i} \cup UNION {f[c] : c \in Children(nodes[i])}
                                                  ELSE {}]
<1>0. rk \in [D -> Nat]
  BY DEF Ranked
<1>1. PICK H \in Nat : \A i \in D : rk[i] <= H
  BY DEF Ranked
<1>2. ASSUME NEW i \in D, NEW c \in Children(nodes[i]) PROVE c \in D /\ rk[c] < rk[i]
  BY ChildrenLower
<1>3. PICK h : h = G(h)
  <2> DEFINE CleanBelow(i, f) == IF nodes[i].dirty THEN {i} \cup UNION {f[c] : c \in Children(nodes[i])} ELSE {}
             F == [x \in D \X [D -> V] |-> CleanBelow(x[1], x[2])]
  <2>1. F \in [D \X [D -> V] -> V]
    <3>1. ASSUME NEW i \in D, NEW f \in [D -> V] PROVE CleanBelow(i, f) \in V
      <4>1. \A c \in Children(nodes[i]) : f[c] \in V
        <5> HIDE DEF D, V
        <5> QED BY <1>2, <3>1
      <4>2. ({i} \cup UNION {f[c] : c \in Children(nodes[i])}) \in V
        BY <4>1
      <4>3. {} \in V
        OBVIOUS
      <4> QED BY <4>2, <4>3
    <3> HIDE DEF CleanBelow, V, D
    <3> QED BY <3>1
  <2>2. ASSUME NEW i \in D, NEW f \in [D -> V] PROVE F[<<i, f>>] = CleanBelow(i, f)
    <3>1. <<i, f>> \in D \X [D -> V] /\ <<i, f>>[1] = i /\ <<i, f>>[2] = f
      OBVIOUS
    <3> HIDE DEF CleanBelow
    <3> QED BY <3>1, Zenon
  <2> HIDE DEF F
  <2>3. ASSUME NEW i \in D, NEW f \in [D -> V], NEW g \in [D -> V],
               \A c \in D : rk[c] < rk[i] => f[c] = g[c]
        PROVE  F[<<i, f>>] = F[<<i, g>>]
    <3>1. \A c \in Children(nodes[i]) : f[c] = g[c]
      BY <2>3, <1>2
    <3>2. {f[c] : c \in Children(nodes[i])} = {g[c] : c \in Children(nodes[i])}
      BY <3>1
    <3>3. CleanBelow(i, f) = CleanBelow(i, g)
      BY <3>2
    <3> QED BY <3>3, <2>2
  <2>4. {} \in V
    OBVIOUS
  <2>5. PICK f \in [D -> V] : \A i \in D : f[i] = F[<<i, f>>]
    <3> HIDE DEF D, V
    <3>1. Local(D, rk, V, F)
      BY <2>3, Zenon DEF Local
    <3>2. Recursive(D, V, F)
      BY <1>0, <1>1, <2>1, <2>4, <3>1, RankRecursion
    <3> QED BY <3>2, Zenon DEF Recursive
  <2>6. f = G(f)
    <3>1. \A i \in D : f[i] = CleanBelow(i, f)
      BY <2>2, <2>5
    <3>2. f = [i \in D |-> f[i]]
      OBVIOUS
    <3> QED BY <3>1, <3>2, Zenon
  <2> QED BY <2>6, Zenon
<1> DEFINE walk == CHOOSE f : f = G(f)
<1>4. walk = G(walk)
  <2> HIDE DEF G
  <2> QED BY <1>3, Zenon
<1>5. DirtyWalk = walk[root]
  BY Zenon DEF DirtyWalk
<1> HIDE DEF walk
<1>6. Walks(nodes, walk)
  BY <1>4, Zenon DEF Walks
<1> QED BY <1>5, <1>6

(* Where the nodes above a dirty one are dirty, the walk reaches it.       *)
LEMMA WalkReaches ==
    ASSUME NEW ns, NEW rk, Arena(ns), Ranked(ns, rk), NEW r \in DOMAIN ns, DirtyDown(ns, r),
           NEW walk, Walks(ns, walk)
    PROVE  \A d \in Subtree(ns, r) : ns[d].dirty => d \in walk[r]
<1> DEFINE D == DOMAIN ns
           G == {i \in D : i \in Subtree(ns, r) => \A d \in Subtree(ns, i) : ns[d].dirty => d \in walk[i]}
<1>1. rk \in [D -> Nat]
  BY DEF Ranked
<1>2. ASSUME NEW i \in D, \A c \in D : rk[c] < rk[i] => c \in G PROVE i \in G
  <2> SUFFICES ASSUME i \in Subtree(ns, r), NEW d \in Subtree(ns, i), ns[d].dirty PROVE d \in walk[i]
    OBVIOUS
  <2>1. Subtree(ns, i) = {i} \cup Beneath(ns, i) /\ Children(ns[i]) \subseteq Beneath(ns, i)
    BY SubtreeFacts
  <2>2. walk[i] = IF ns[i].dirty THEN {i} \cup UNION {walk[c] : c \in Children(ns[i])} ELSE {}
    BY DEF Walks
  <2>3. CASE d = i
    BY <2>2, <2>3
  <2>4. CASE d # i
    <3>1. PICK c \in Children(ns[i]) : d \in Subtree(ns, c)
      BY <2>1, <2>4 DEF Beneath
    <3>2. c \in D /\ rk[c] < rk[i]
      BY <3>1, ChildrenLower
    <3>3. c \in Subtree(ns, r)
      <4>1. Subtree(ns, i) \subseteq Subtree(ns, r)
        BY SubtreeFacts
      <4> QED BY <4>1, <3>1, <2>1
    <3>4. d \in walk[c]
      BY <3>1, <3>2, <3>3, <1>2
    <3>5. walk[c] = IF ns[c].dirty THEN {c} \cup UNION {walk[x] : x \in Children(ns[c])} ELSE {}
      BY <3>2 DEF Walks
    <3>6. ns[c].dirty
      BY <3>4, <3>5
    <3>7. ns[i].dirty
      BY <3>1, <3>6 DEF DirtyDown
    <3> QED BY <3>1, <3>4, <3>7, <2>2
  <2> QED BY <2>3, <2>4
<1>3. \A i \in D : i \in G
  <2> HIDE DEF G, D
  <2> QED BY <1>1, <1>2, RankInduction
<1>4. r \in Subtree(ns, r)
  <2>1. Subtree(ns, r) = {r} \cup Beneath(ns, r)
    BY SubtreeFacts
  <2> QED BY <2>1
<1> QED BY <1>3, <1>4

(* A commit leaves no live node dirty.                                     *)
LEMMA CleanDirty ==
    ASSUME Sound(nodes, root, <<>>), DirtyDown(nodes, root), NEW ns2,
           ns2 = [i \in DOMAIN nodes |->
                    IF i \in DirtyWalk THEN [nodes[i] EXCEPT !.dirty = FALSE] ELSE nodes[i]]
    PROVE  DirtyDown(ns2, root)
<1> DEFINE L == Subtree(nodes, root)
<1>1. PICK rk, iv : SoundBy(nodes, root, <<>>, L, rk, iv)
  BY LiveIs
<1>2. L = Subtree(nodes, root)
  OBVIOUS
<1> HIDE DEF L
<1>3. /\ nodes \in Seq(AnyNode) /\ Shape(nodes, root, L, rk, iv) /\ root \in L /\ L \subseteq DOMAIN nodes
      /\ Arena(nodes) /\ Ranked(nodes, rk)
  BY <1>1 DEF SoundBy, Shape, Tree
<1>4. /\ DOMAIN ns2 = DOMAIN nodes /\ ns2 = [i \in DOMAIN nodes |-> ns2[i]]
      /\ \A i \in DOMAIN nodes : ns2[i] \in AnyNode /\ Alike(ns2[i], nodes[i])
  BY <1>3, CleanedNodes
<1>5. Shape(ns2, root, L, rk, iv)
  BY <1>3, <1>4, AlikeKeeps
<1>6. Arena(ns2) /\ Ranked(ns2, rk) /\ L \in SUBSET DOMAIN ns2
  BY <1>5 DEF Shape, Tree
<1>7. \A i \in L : Children(ns2[i]) \subseteq L
  BY <1>5, ShapeClosed
<1>8. PICK walk : Walks(nodes, walk) /\ DirtyWalk = walk[root]
  BY <1>3, WalkIs
<1>9. \A d \in L : nodes[d].dirty => d \in DirtyWalk
  <2>1. \A d \in Subtree(nodes, root) : nodes[d].dirty => d \in walk[root]
    BY <1>3, <1>8, WalkReaches
  <2> QED BY <2>1, <1>2, <1>8
<1>10. ASSUME NEW i \in L PROVE ~ns2[i].dirty
  <2>1. CASE i \in DirtyWalk
    <3> DEFINE n == nodes[i]
    <3>1. ns2[i] = [n EXCEPT !.dirty = FALSE]
      BY <2>1, <1>3
    <3>2. n \in LeafNode \/ n \in InnerNode
      BY <1>3 DEF Arena, NodeOk
    <3> HIDE DEF n
    <3>3. "dirty" \in DOMAIN n
      BY <3>2 DEF LeafNode, InnerNode
    <3> QED BY <3>1, <3>3
  <2>2. CASE i \notin DirtyWalk
    <3>1. ns2[i] = nodes[i]
      BY <2>2, <1>3
    <3> QED BY <3>1, <2>2, <1>9
  <2> QED BY <2>1, <2>2
<1>11. \A i \in L : \A c \in Children(ns2[i]) : c \in L /\ (ns2[c].dirty => ns2[i].dirty)
  BY <1>7, <1>10
<1> QED BY <1>3, <1>6, <1>11, DirtyFrom


(* What is on the stack after a push and after a pop.                      *)
LEMMA StackParts ==
    ASSUME NEW st \in Seq(Nat)
    PROVE  /\ \A c \in Nat : Range(Append(st, c)) \subseteq Range(st) \cup {c}
           /\ Len(st) > 1 => Range(Front(st)) \subseteq Range(st)
<1>1. Len(st) \in Nat /\ DOMAIN st = 1 .. Len(st)
  OBVIOUS
<1>2. ASSUME NEW c \in Nat PROVE Range(Append(st, c)) \subseteq Range(st) \cup {c}
  <2> DEFINE t == Append(st, c)
  <2>1. /\ DOMAIN t = 1 .. (Len(st) + 1) /\ t[Len(st) + 1] = c
        /\ \A m \in 1 .. Len(st) : t[m] = st[m]
    BY <1>1
  <2> HIDE DEF t
  <2>2. \A m \in DOMAIN t : m \in 1 .. Len(st) \/ m = Len(st) + 1
    BY <2>1, <1>1
  <2>3. Range(t) \subseteq Range(st) \cup {c}
    BY <2>1, <2>2, <1>1 DEF Range
  <2> QED BY <2>3 DEF t
<1>3. ASSUME Len(st) > 1 PROVE Range(Front(st)) \subseteq Range(st)
  <2> DEFINE N == Len(st) - 1
             t == Front(st)
  <2>1. N \in Nat /\ \A m \in 1 .. N : m \in 1 .. Len(st)
    BY <1>1, <1>3
  <2>2. t = SubSeq(st, 1, N)
    BY DEF Front
  <2>3. DOMAIN t = 1 .. N /\ \A m \in 1 .. N : t[m] = st[m]
    BY <2>1, <2>2, <1>1
  <2> HIDE DEF t, N
  <2>4. Range(t) \subseteq Range(st)
    BY <2>1, <2>3, <1>1 DEF Range
  <2> QED BY <2>4 DEF t
<1> QED BY <1>2, <1>3

(* Where no node is cleaned, what was on the stack stays dirty.            *)
LEMMA StackStays ==
    ASSUME NEW ns, NEW r, NEW st, Sound(ns, r, st), DirtyStack(ns, st), NEW ns2,
           StillDirty(ns, ns2)
    PROVE  DirtyStack(ns2, st) /\ st \in Seq(Nat)
<1>1. PICK L, rk, iv : SoundBy(ns, r, st, L, rk, iv)
  BY DEF Sound
<1>2. /\ st \in Seq(Nat) /\ (\A m \in 1 .. Len(st) : st[m] \in L) /\ L \subseteq DOMAIN ns
  BY <1>1 DEF SoundBy, Stacked, Shape, Tree
<1>3. Range(st) \subseteq DOMAIN ns
  BY <1>2 DEF Range
<1> QED BY <1>2, <1>3 DEF DirtyStack, StillDirty

(* An iteration of restore_root_with begins on a dirty root.               *)
LEMMA RestoreDirty ==
    ASSUME NEW ns, NEW r, Restore(ns, r), DirtyDown(ns, r), ns[r].dirty, mode' # "drain"
    PROVE  DirtyInv'
<1>1. nodes' = ns /\ root' = r /\ flushing' = IF ns[r].leaf THEN <<>> ELSE <<r>>
  BY DEF Restore
<1>2. Range(<<>>) = {} /\ Range(<<r>>) = {r}
  BY DEF Range
<1>3. DirtyStack(ns, flushing')
  <2>1. Range(flushing') \subseteq {r}
    BY <1>1, <1>2
  <2> QED BY <2>1 DEF DirtyStack
<1> QED BY <1>1, <1>3 DEF DirtyInv

(* Without drain, no step of the engine puts a clean node above a dirty    *)
(* one.                                                                    *)
LEMMA DirtyKept == ASSUME UseDrain = FALSE, MapInv, DirtyInv, [Next]_vars PROVE DirtyInv'
<1>1. /\ mode # "drain" /\ DirtyDown(nodes, root) /\ DirtyStack(nodes, flushing)
      /\ Sound(nodes, root, flushing)
  BY DEF DirtyInv, MapInv
<1>2. ASSUME NEW k \in Keys, NEW m \in MessagesOf(Nat), Mutation(k, m) PROVE DirtyInv'
  <2> DEFINE ns == WithMessage(nodes, root, k, m)
  <2>1. flushing = <<>> /\ mode' = "op"
    BY <1>2 DEF Mutation, apply_root, MapInv
  <2>2. Restore(ns, root)
    BY <1>2, Zenon DEF Mutation, apply_root, WithMessage
  <2> HIDE DEF ns
  <2>3. DirtyDown(ns, root) /\ ns[root].dirty
    BY <1>1, <1>2, <2>1, EnterDirty DEF ns
  <2> QED BY <2>1, <2>2, <2>3, RestoreDirty
<1>3. ~drain /\ ~Descend
  BY <1>1 DEF drain, Descend, Undrained
<1>4. ASSUME simulate_commit PROVE DirtyInv'
  <2>1. /\ flushing = <<>> /\ root' = root /\ flushing' = flushing /\ mode' = mode
        /\ nodes' = [i \in DOMAIN nodes |->
                       IF i \in DirtyWalk THEN [nodes[i] EXCEPT !.dirty = FALSE] ELSE nodes[i]]
    BY <1>4 DEF simulate_commit, MapInv
  <2>2. DirtyDown(nodes', root)
    BY <1>1, <2>1, CleanDirty
  <2>3. DirtyStack(nodes', <<>>)
    BY DEF DirtyStack, Range
  <2> QED BY <2>1, <2>2, <2>3, <1>1 DEF DirtyInv
<1>5. ASSUME Flushing, NEW i \in DOMAIN nodes[Top].children, Deliver(i) PROVE DirtyInv'
  <2> DEFINE P == Top
             C == nodes[P].children[i]
             f == Flushed(nodes, P, i)
  <2>1. PICK L, rk, iv : SoundBy(nodes, root, flushing, L, rk, iv)
    BY <1>1 DEF Sound
  <2>2. flushing # <<>> /\ P = Last(flushing)
    BY <1>5 DEF Flushing, Top
  <2>3. i \in 1 .. Len(nodes[P].children)
    <3>1. Arena(nodes) /\ P \in DOMAIN nodes /\ ~nodes[P].leaf
      BY <2>1, <2>2, TopNode, SMTT(30) DEF SoundBy, Shape, Tree
    <3>2. nodes[P].children \in Seq(Nat)
      BY <3>1 DEF Arena, NodeOk, LeafNode, InnerNode
    <3> QED BY <1>5, <3>2
  <2>4. root' = root /\ mode' = mode
    BY <1>5 DEF Deliver
  <2>5. \/ nodes' = f /\ flushing' = Append(flushing, C)
        \/ f[C].leaf /\ f[C].entries = Empty /\ nodes' = remove_child(f, P, C) /\ flushing' = flushing
        \/ nodes' = Integrated(f, P, C) /\ flushing' = flushing
    BY <1>5, Zenon DEF Deliver, Flushed, Integrated
  <2>6. f = Flushed(nodes, P, i) /\ C = nodes[P].children[i]
    OBVIOUS
  <2> HIDE DEF f, C, P
  <2>7. \/ nodes' = f
        \/ f[C].leaf /\ f[C].entries = Empty /\ nodes' = remove_child(f, P, C)
        \/ nodes' = Integrated(f, P, C)
    BY <2>5
  <2>8. flushing \in Seq(Nat)
    BY <2>1 DEF SoundBy, Stacked
  <2>9. nodes[P].dirty
    <3>1. P \in Range(flushing)
      BY <2>2, <2>8, StackRange
    <3> QED BY <3>1, <1>1 DEF DirtyStack
  <2>10. DirtyDown(nodes', root) /\ StillDirty(nodes, nodes') /\ f[C].dirty /\ C \in Nat
    BY <1>1, <2>2, <2>3, <2>6, <2>7, <2>9, DeliverDirty
  <2>11. DirtyStack(nodes', flushing)
    BY <1>1, <2>10, StackStays
  <2>12. DirtyStack(nodes', flushing')
    <3>1. CASE flushing' = flushing
      BY <3>1, <2>11
    <3>2. CASE nodes' = f /\ flushing' = Append(flushing, C)
      <4>1. Range(flushing') \subseteq Range(flushing) \cup {C}
        BY <3>2, <2>8, <2>10, StackParts
      <4> QED BY <3>2, <4>1, <2>10, <2>11 DEF DirtyStack
    <3> QED BY <3>1, <3>2, <2>5
  <2> QED BY <2>4, <2>10, <2>12, <1>1 DEF DirtyInv
<1>6. ASSUME SettleChild PROVE DirtyInv'
  <2> DEFINE P == Last(Front(flushing))
  <2>1. Len(flushing) > 1 /\ Top = Last(flushing) /\ P = Last(Front(flushing))
    BY <1>6 DEF SettleChild, Top
  <2>2. root' = root /\ mode' = mode /\ flushing' = Front(flushing)
    BY <1>6 DEF SettleChild
  <2>3. \/ nodes[Top].children = <<>> /\ nodes' = remove_child(nodes, P, Top)
        \/ nodes' = Integrated(nodes, P, Top)
    BY <1>6, Zenon DEF SettleChild, TopRemoved, Integrated
  <2> HIDE DEF P
  <2>4. flushing \in Seq(Nat) /\ flushing # <<>>
    <3>1. flushing \in Seq(Nat)
      BY <1>1 DEF Sound, SoundBy, Stacked
    <3> QED BY <3>1, <2>1
  <2>5. Range(Front(flushing)) \subseteq Range(flushing)
    BY <2>1, <2>4, StackParts
  <2>6. nodes[P].dirty
    <3>1. P \in Range(Front(flushing))
      BY <2>1, <2>4, StackRange
    <3> QED BY <3>1, <2>5, <1>1 DEF DirtyStack
  <2>7. DirtyDown(nodes', root) /\ StillDirty(nodes, nodes')
    BY <1>1, <2>1, <2>3, <2>6, SettleDirty
  <2>8. DirtyStack(nodes', flushing)
    BY <1>1, <2>7, StackStays
  <2>9. DirtyStack(nodes', flushing')
    BY <2>2, <2>5, <2>8 DEF DirtyStack
  <2> QED BY <2>2, <2>7, <2>9, <1>1 DEF DirtyInv
<1>7. ASSUME RestartEmpty PROVE DirtyInv'
  <2> DEFINE R == Len(nodes) + 1
  <2>1. /\ flushing # <<>> /\ Len(flushing) = 1 /\ nodes[Last(flushing)].children = <<>>
        /\ nodes' = Append(nodes, Leaf(Empty)) /\ root' = Collapsed(nodes', R)
        /\ mode' = "rest" /\ flushing' = <<>>
    BY <1>7 DEF RestartEmpty, RootDone, RootRemoved, TopRemoved, Top, Finish
  <2>2. PICK L, rk, iv : SoundBy(nodes, root, flushing, L, rk, iv)
    BY <1>1 DEF Sound
  <2>3. nodes \in Seq(AnyNode) /\ Shape(nodes, root, L, rk, iv)
    BY <2>2 DEF SoundBy
  <2>4. Last(flushing) = root /\ ~nodes[root].leaf
    BY <2>1, <2>2, TopNode
  <2>5. Barren(nodes[root])
    BY <2>1, <2>4 DEF Barren
  <2>6. RestartKept(nodes, root, Append(nodes, Leaf(Empty)), Len(nodes) + 1)
    BY <2>3, <2>5, RestartKeeps
  <2>7. PICK rk2, iv2 : Shape(nodes', R, {R}, rk2, iv2)
    BY <2>1, <2>6 DEF RestartKept
  <2>8. nodes'[R] = Leaf(Empty)
    <3>1. Append(nodes, Leaf(Empty))[Len(nodes) + 1] = Leaf(Empty)
      BY <2>3
    <3> QED BY <2>1, <3>1
  <2> HIDE DEF R
  <2>9. Arena(nodes') /\ Ranked(nodes', rk2) /\ R \in DOMAIN nodes'
    BY <2>7 DEF Shape, Tree
  <2>10. DirtyDown(nodes', root')
    BY <2>1, <2>8, <2>9, LeafDirty
  <2>11. DirtyStack(nodes', <<>>)
    BY DEF DirtyStack, Range
  <2> QED BY <2>1, <2>10, <2>11 DEF DirtyInv
<1>8. ASSUME Grow PROVE DirtyInv'
  <2> DEFINE ns == Grown(nodes, root)
             R == Len(split_if_needed(nodes, root).nodes) + 1
  <2>1. /\ split_if_needed(nodes, root).promoted # <<>> /\ Restore(ns, R) /\ mode' = mode
    BY <1>8, Zenon DEF Grow, Grown, RootOver, RootSplit
  <2>2. ns = Grown(nodes, root) /\ R = Len(split_if_needed(nodes, root).nodes) + 1
    OBVIOUS
  <2> HIDE DEF ns, R
  <2>3. DirtyDown(ns, R) /\ ns[R].dirty
    BY <1>1, <2>1, <2>2, GrowDirty
  <2> QED BY <2>1, <2>3, <1>1, RestoreDirty
<1>9. ASSUME Return PROVE DirtyInv'
  <2>1. nodes' = nodes /\ root' = Collapsed(nodes, root) /\ mode' = "rest" /\ flushing' = <<>>
    BY <1>9 DEF Return, Finish
  <2>2. DirtyDown(nodes, root')
    BY <1>1, <2>1, CollapsedDirty
  <2>3. DirtyStack(nodes, <<>>)
    BY DEF DirtyStack, Range
  <2> QED BY <2>1, <2>2, <2>3 DEF DirtyInv
<1>10. ASSUME Cascade PROVE DirtyInv'
  BY <1>3, <1>5, <1>6, <1>7, <1>8, <1>9, <1>10, Zenon DEF Cascade
<1>11. ASSUME UNCHANGED vars PROVE DirtyInv'
  BY <1>11 DEF vars, DirtyInv
<1> QED BY <1>2, <1>3, <1>4, <1>10, <1>11, StepIs

(* A single leaf has no children.                                          *)
LEMMA StartsDirty == ASSUME Init PROVE DirtyInv
<1>1. PICK L, rk, iv : SoundBy(nodes, root, flushing, L, rk, iv)
  BY StartsEmpty DEF MapInv, Sound
<1>2. nodes[root] = Leaf(Empty) /\ mode = "rest" /\ flushing = <<>>
  BY DEF Init
<1>3. Arena(nodes) /\ Ranked(nodes, rk) /\ root \in DOMAIN nodes
  BY <1>1 DEF SoundBy, Shape, Tree
<1>4. PICK to \in [DOMAIN nodes -> DOMAIN nodes] :
         /\ \A i \in DOMAIN nodes : to[i] = IF GivesWay(nodes[i]) THEN to[nodes[i].children[1]] ELSE i
         /\ \A i \in DOMAIN nodes : Collapsed(nodes, i) = to[i]
  BY <1>3, CollapsedIs
<1>5. root = Collapsed(nodes, root)
  BY <1>2, <1>3, <1>4 DEF GivesWay, Leaf
<1>6. DirtyDown(nodes, root)
  BY <1>2, <1>3, <1>5, LeafDirty
<1>7. DirtyStack(nodes, <<>>)
  BY DEF DirtyStack, Range
<1> QED BY <1>2, <1>6, <1>7 DEF DirtyInv

(* As long as drain is not called, the dirty nodes form a connected part   *)
(* of the tree at the root, which is what the walk of simulate_commit      *)
(* relies on.  (A drain descends through clean nodes: with it, this fails, *)
(* and run betree_drained shows how.)                                      *)
THEOREM CommitsReach == ASSUME UseDrain = FALSE PROVE Spec => []DirtyConnected
<1>1. Init => DirtyInv
  BY StartsDirty
<1>2. MapInv /\ DirtyInv /\ [Next]_vars => DirtyInv'
  BY DirtyKept
<1>3. DirtyInv => DirtyConnected
  BY DEF DirtyInv, DirtyDown, DirtyConnected, Reachable
<1> QED BY <1>1, <1>2, <1>3, TreeSound, PTL DEF Spec


-----------------------------------------------------------------------------
(* The fork                                                                *)

(* What fork_for_sim visits from the children of node i, the last first.   *)
VisitBelow(ns, i, visit) == [j \in DOMAIN ns[i].children |-> visit[Reverse(ns[i].children)[j]]]

(* visit meets the recursion of ForkOrder.                                 *)
Visits(ns, visit) ==
    /\ visit \in [DOMAIN ns -> Seq(DOMAIN ns)]
    /\ \A i \in DOMAIN ns :
          visit[i] = <<i>> \o (IF ns[i].leaf THEN <<>> ELSE FlattenSeq(VisitBelow(ns, i, visit)))

(* The places of the children in reverse order.                            *)
LEMMA ReversePlaces ==
    ASSUME NEW q \in Seq(Nat)
    PROVE  /\ DOMAIN Reverse(q) = DOMAIN q /\ DOMAIN q = 1 .. Len(q) /\ Len(q) \in Nat
           /\ \A j \in 1 .. Len(q) : /\ (Len(q) - j) + 1 \in 1 .. Len(q)
                                     /\ Reverse(q)[j] = q[(Len(q) - j) + 1]
                                     /\ (Len(q) - ((Len(q) - j) + 1)) + 1 = j
<1>1. DOMAIN q = 1 .. Len(q) /\ Len(q) \in Nat
  OBVIOUS
<1>2. DOMAIN Reverse(q) = 1 .. Len(q) /\ \A j \in 1 .. Len(q) : Reverse(q)[j] = q[(Len(q) - j) + 1]
  BY DEF Reverse
<1>3. \A n \in Nat : \A j \in 1 .. n : (n - j) + 1 \in 1 .. n /\ (n - ((n - j) + 1)) + 1 = j
  OBVIOUS
<1> QED BY <1>1, <1>2, <1>3

(* What the children are visited with is a sequence of sequences.          *)
LEMMA VisitParts ==
    ASSUME NEW ns, NEW rk, Arena(ns), Ranked(ns, rk), NEW i \in DOMAIN ns, ~ns[i].leaf,
           NEW V, NEW visit \in [DOMAIN ns -> V]
    PROVE  /\ VisitBelow(ns, i, visit) \in Seq(V)
           /\ Len(VisitBelow(ns, i, visit)) = Len(ns[i].children)
           /\ \A j \in 1 .. Len(ns[i].children) :
                 VisitBelow(ns, i, visit)[j] = visit[ns[i].children[(Len(ns[i].children) - j) + 1]]
<1> DEFINE q == ns[i].children
           b == VisitBelow(ns, i, visit)
<1>1. q \in Seq(Nat) /\ \A j \in 1 .. Len(q) : q[j] \in DOMAIN ns
  BY DEF Arena, NodeOk, LeafNode, InnerNode, Ranked
<1>2. b = [j \in DOMAIN q |-> visit[Reverse(q)[j]]]
  BY DEF VisitBelow
<1> HIDE DEF q, b
<1>3. /\ DOMAIN Reverse(q) = DOMAIN q /\ DOMAIN q = 1 .. Len(q) /\ Len(q) \in Nat
      /\ \A j \in 1 .. Len(q) : (Len(q) - j) + 1 \in 1 .. Len(q) /\ Reverse(q)[j] = q[(Len(q) - j) + 1]
  BY <1>1, ReversePlaces
<1>4. \A j \in 1 .. Len(q) : Reverse(q)[j] \in DOMAIN ns /\ visit[Reverse(q)[j]] \in V
  BY <1>1, <1>3
<1>5. b \in [1 .. Len(q) -> V]
  BY <1>2, <1>3, <1>4
<1>6. b \in Seq(V) /\ Len(b) = Len(q)
  BY <1>3, <1>5
<1>7. \A j \in 1 .. Len(q) : b[j] = visit[q[(Len(q) - j) + 1]]
  BY <1>2, <1>3
<1> QED BY <1>6, <1>7 DEF b, q

(* ForkOrder is what its recursion says.                                   *)
LEMMA VisitIs ==
    ASSUME NEW ns, NEW rk, Arena(ns), Ranked(ns, rk)
    PROVE  \E visit : Visits(ns, visit) /\ \A i \in DOMAIN ns : ForkOrder(ns, i) = visit[i]
<1> DEFINE D == DOMAIN ns
           V == Seq(D)
           At(i, f) == <<i>> \o (IF ns[i].leaf THEN <<>> ELSE FlattenSeq(VisitBelow(ns, i, f)))
           G(f) == [i \in D |-> <<i>> \o (IF ns[i].leaf THEN <<>>
                                 ELSE FlattenSeq([j \in DOMAIN ns[i].children |-> f[Reverse(ns[i].children)[j]]]))]
<1>0. rk \in [D -> Nat]
  BY DEF Ranked
<1>1. PICK H \in Nat : \A i \in D : rk[i] <= H
  BY DEF Ranked
<1>2. \A f : G(f) = [i \in D |-> At(i, f)]
  BY DEF VisitBelow
<1>3. ASSUME NEW i \in D, NEW f \in [D -> V] PROVE At(i, f) \in V
  <2>1. <<i>> \in Seq(D) /\ <<>> \in Seq(D)
    OBVIOUS
  <2>2. ASSUME ~ns[i].leaf PROVE FlattenSeq(VisitBelow(ns, i, f)) \in Seq(D)
    <3>1. VisitBelow(ns, i, f) \in Seq(Seq(D))
      BY <1>3, <2>2, VisitParts
    <3> QED BY <3>1, FlattenTyped
  <2> DEFINE rest == IF ns[i].leaf THEN <<>> ELSE FlattenSeq(VisitBelow(ns, i, f))
  <2>3. rest \in Seq(D)
    BY <2>1, <2>2
  <2> HIDE DEF rest
  <2>4. (<<i>> \o rest) \in Seq(D)
    BY <2>1, <2>3
  <2> QED BY <2>4 DEF rest
<1>4. ASSUME NEW i \in D, NEW f \in [D -> V], NEW g \in [D -> V],
             \A c \in D : rk[c] < rk[i] => f[c] = g[c]
      PROVE  At(i, f) = At(i, g)
  <2> SUFFICES ASSUME ~ns[i].leaf PROVE VisitBelow(ns, i, f) = VisitBelow(ns, i, g)
    OBVIOUS
  <2> DEFINE q == ns[i].children
  <2>1. q \in Seq(Nat) /\ \A j \in 1 .. Len(q) : q[j] \in D /\ rk[i] = rk[q[j]] + 1
    BY DEF Arena, NodeOk, LeafNode, InnerNode, Ranked
  <2>2. \A j \in 1 .. Len(q) : f[q[j]] = g[q[j]]
    BY <2>1, <1>0, <1>4, SMTT(30)
  <2>3. /\ DOMAIN q = 1 .. Len(q)
        /\ \A j \in 1 .. Len(q) : (Len(q) - j) + 1 \in 1 .. Len(q) /\ Reverse(q)[j] = q[(Len(q) - j) + 1]
    BY <2>1, ReversePlaces
  <2> HIDE DEF q
  <2>4. \A j \in DOMAIN q : f[Reverse(q)[j]] = g[Reverse(q)[j]]
    <3> SUFFICES ASSUME NEW j \in 1 .. Len(q) PROVE f[Reverse(q)[j]] = g[Reverse(q)[j]]
      BY <2>3
    <3> DEFINE p == (Len(q) - j) + 1
    <3>1. p \in 1 .. Len(q) /\ Reverse(q)[j] = q[p]
      BY <2>3
    <3> HIDE DEF p
    <3> QED BY <3>1, <2>2
  <2> USE DEF q
  <2> QED BY <2>4 DEF VisitBelow
<1> HIDE DEF At
<1>5. PICK h : h = G(h)
  <2> DEFINE F == [x \in D \X [D -> V] |-> At(x[1], x[2])]
  <2>1. F \in [D \X [D -> V] -> V]
    <3> HIDE DEF D, V
    <3> QED BY <1>3
  <2>2. ASSUME NEW i \in D, NEW f \in [D -> V] PROVE F[<<i, f>>] = At(i, f)
    <3>1. <<i, f>> \in D \X [D -> V] /\ <<i, f>>[1] = i /\ <<i, f>>[2] = f
      OBVIOUS
    <3> QED BY <3>1, Zenon
  <2> HIDE DEF F
  <2>3. ASSUME NEW i \in D, NEW f \in [D -> V], NEW g \in [D -> V],
               \A c \in D : rk[c] < rk[i] => f[c] = g[c]
        PROVE  F[<<i, f>>] = F[<<i, g>>]
    <3>1. At(i, f) = At(i, g)
      BY <2>3, <1>4
    <3> QED BY <3>1, <2>2
  <2>4. <<>> \in V
    OBVIOUS
  <2>5. PICK f \in [D -> V] : \A i \in D : f[i] = F[<<i, f>>]
    <3> HIDE DEF D, V
    <3>1. Local(D, rk, V, F)
      BY <2>3, Zenon DEF Local
    <3>2. Recursive(D, V, F)
      BY <1>0, <1>1, <2>1, <2>4, <3>1, RankRecursion
    <3> QED BY <3>2, Zenon DEF Recursive
  <2>6. f = G(f)
    <3>1. \A i \in D : f[i] = At(i, f)
      BY <2>2, <2>5
    <3>2. f = [i \in D |-> f[i]]
      OBVIOUS
    <3>3. f = [i \in D |-> At(i, f)]
      BY <3>1, <3>2
    <3> HIDE DEF G
    <3> QED BY <3>3, <1>2
  <2> QED BY <2>6, Zenon
<1> DEFINE visit == CHOOSE f : f = G(f)
<1>6. visit = G(visit)
  <2> HIDE DEF G
  <2> QED BY <1>5, Zenon
<1>7. \A i : ForkOrder(ns, i) = visit[i]
  BY Zenon DEF ForkOrder
<1> HIDE DEF visit
<1>8. visit = [i \in D |-> At(i, visit)]
  <2> HIDE DEF G
  <2> QED BY <1>2, <1>6
<1>9. \A i \in D : visit[i] = At(i, visit)
  BY <1>8
<1> DEFINE K == {i \in D : visit[i] \in V}
<1>10. ASSUME NEW i \in D, \A c \in D : rk[c] < rk[i] => c \in K PROVE i \in K
  <2> DEFINE g == [c \in D |-> IF rk[c] < rk[i] THEN visit[c] ELSE <<>>]
  <2>1. g \in [D -> V]
    <3>1. <<>> \in V /\ \A c \in D : rk[c] < rk[i] => visit[c] \in V
      BY <1>10
    <3> HIDE DEF V, D
    <3> QED BY <3>1
  <2>2. At(i, g) \in V
    BY <2>1, <1>3
  <2>3. At(i, visit) = At(i, g)
    <3> SUFFICES ASSUME ~ns[i].leaf PROVE VisitBelow(ns, i, visit) = VisitBelow(ns, i, g)
      BY DEF At
    <3> DEFINE q == ns[i].children
    <3>1. q \in Seq(Nat) /\ \A j \in 1 .. Len(q) : q[j] \in D /\ rk[i] = rk[q[j]] + 1
      BY DEF Arena, NodeOk, LeafNode, InnerNode, Ranked
    <3>2. \A j \in 1 .. Len(q) : visit[q[j]] = g[q[j]]
      BY <3>1, <1>0
    <3> HIDE DEF g
    <3>3. /\ DOMAIN q = 1 .. Len(q)
          /\ \A j \in 1 .. Len(q) : (Len(q) - j) + 1 \in 1 .. Len(q) /\ Reverse(q)[j] = q[(Len(q) - j) + 1]
      BY <3>1, ReversePlaces
    <3> HIDE DEF q
    <3>4. \A j \in DOMAIN q : visit[Reverse(q)[j]] = g[Reverse(q)[j]]
      <4> SUFFICES ASSUME NEW j \in 1 .. Len(q) PROVE visit[Reverse(q)[j]] = g[Reverse(q)[j]]
        BY <3>3
      <4> DEFINE p == (Len(q) - j) + 1
      <4>1. p \in 1 .. Len(q) /\ Reverse(q)[j] = q[p]
        BY <3>3
      <4> HIDE DEF p
      <4> QED BY <4>1, <3>2
    <3> USE DEF q
    <3> QED BY <3>4 DEF VisitBelow
  <2> QED BY <2>2, <2>3, <1>9
<1>11. \A i \in D : i \in K
  <2> HIDE DEF K, D
  <2> QED BY <1>0, <1>10, RankInduction
<1>12. visit \in [D -> V]
  BY <1>8, <1>11
<1>13. Visits(ns, visit)
  BY <1>9, <1>12 DEF Visits, At
<1> QED BY <1>7, <1>13


(* Nothing is below two live nodes of the same height.                     *)
LEMMA SubtreesApart ==
    ASSUME NEW ns, NEW r, NEW L, NEW rk, NEW iv, Shape(ns, r, L, rk, iv)
    PROVE  \A a, b \in L : rk[a] = rk[b] /\ a # b => Subtree(ns, a) \cap Subtree(ns, b) = {}
<1> DEFINE D == DOMAIN ns
           G == {a \in D : a \in L => \A b \in L : rk[a] = rk[b] /\ a # b =>
                                         Subtree(ns, a) \cap Subtree(ns, b) = {}}
<1>1. Arena(ns) /\ Ranked(ns, rk) /\ Tree(ns, r, L) /\ L \subseteq D /\ rk \in [D -> Nat]
  BY DEF Shape, Tree, Ranked
<1>2. \A i \in L : Children(ns[i]) \subseteq L
  BY ShapeClosed
<1>3. \A i \in D : \A c \in Children(ns[i]) : c \in D /\ rk[c] < rk[i] /\ rk[i] = rk[c] + 1
  <2> SUFFICES ASSUME NEW i \in D, NEW c \in Children(ns[i])
               PROVE  c \in D /\ rk[c] < rk[i] /\ rk[i] = rk[c] + 1
    OBVIOUS
  <2>1. /\ c \in D /\ rk[c] < rk[i] /\ ~ns[i].leaf
        /\ \E j \in 1 .. Len(ns[i].children) : c = ns[i].children[j]
    BY <1>1, ChildrenLower
  <2> QED BY <2>1, <1>1 DEF Ranked
<1>4. ASSUME NEW a \in D, \A c \in D : rk[c] < rk[a] => c \in G PROVE a \in G
  <2> SUFFICES ASSUME a \in L, NEW b \in L, rk[a] = rk[b], a # b,
                      NEW d \in Subtree(ns, a), d \in Subtree(ns, b)
               PROVE  FALSE
    OBVIOUS
  <2>1. \A i \in D : /\ Subtree(ns, i) = {i} \cup Beneath(ns, i)
                     /\ \A x \in Beneath(ns, i) : x \in D /\ rk[x] < rk[i]
    BY <1>1, SubtreeFacts
  <2>2. a \in D /\ b \in D /\ rk[a] \in Nat /\ rk[b] \in Nat
    BY <1>1
  <2>3. d \in Beneath(ns, a) /\ d \in Beneath(ns, b)
    <3>1. d # a
      <4>1. a \notin Beneath(ns, b)
        BY <2>1, <2>2
      <4> QED BY <4>1, <2>1, <2>2
    <3>2. d # b
      <4>1. b \notin Beneath(ns, a)
        BY <2>1, <2>2
      <4> QED BY <4>1, <2>1, <2>2
    <3> QED BY <3>1, <3>2, <2>1, <2>2
  <2>4. PICK x \in Children(ns[a]) : d \in Subtree(ns, x)
    BY <2>3 DEF Beneath
  <2>5. PICK y \in Children(ns[b]) : d \in Subtree(ns, y)
    BY <2>3 DEF Beneath
  <2>6. /\ x \in L /\ y \in L /\ x \in D /\ y \in D /\ rk[x] < rk[a] /\ rk[a] = rk[x] + 1 /\ rk[b] = rk[y] + 1
    BY <2>2, <2>4, <2>5, <1>2, <1>3
  <2>7. rk[x] = rk[y]
    <3>1. rk[x] \in Nat /\ rk[y] \in Nat
      BY <2>6, <1>1
    <3>2. rk[x] + 1 = rk[y] + 1
      BY <2>6
    <3>3. \A u, v \in Nat : u + 1 = v + 1 => u = v
      OBVIOUS
    <3> QED BY <3>1, <3>2, <3>3
  <2>8. x = y
    BY <2>4, <2>5, <2>6, <2>7, <1>4
  <2>9. /\ ~ns[a].leaf /\ ~ns[b].leaf
        /\ \E j \in 1 .. Len(ns[a].children) : x = ns[a].children[j]
        /\ \E j \in 1 .. Len(ns[b].children) : y = ns[b].children[j]
    BY <2>2, <2>4, <2>5, <1>1, ChildrenLower
  <2> QED BY <2>8, <2>9, <1>1 DEF Tree
<1>5. \A i \in D : i \in G
  <2> HIDE DEF G, D
  <2> QED BY <1>1, <1>4, RankInduction
<1> QED BY <1>1, <1>5

(* The nodes below i, each once, and i first.                              *)
VisitOk(ns, i, v) == v \in Seq(DOMAIN ns) /\ v # <<>> /\ v[1] = i /\ Range(v) = Subtree(ns, i)

(* A visit meets the nodes below a node, and a live node once only.        *)
LEMMA VisitFacts ==
    ASSUME NEW ns, NEW r, NEW L, NEW rk, NEW iv, Shape(ns, r, L, rk, iv), NEW visit, Visits(ns, visit)
    PROVE  \A i \in DOMAIN ns : VisitOk(ns, i, visit[i]) /\ (i \in L => IsInjective(visit[i]))
<1> DEFINE D == DOMAIN ns
           G == {i \in D : VisitOk(ns, i, visit[i]) /\ (i \in L => IsInjective(visit[i]))}
<1>1. Arena(ns) /\ Ranked(ns, rk) /\ Tree(ns, r, L) /\ L \subseteq D /\ rk \in [D -> Nat]
  BY DEF Shape, Tree, Ranked
<1>2. /\ visit \in [D -> Seq(D)]
      /\ \A i \in D : visit[i] = <<i>> \o (IF ns[i].leaf THEN <<>> ELSE FlattenSeq(VisitBelow(ns, i, visit)))
  BY DEF Visits
<1>3. ASSUME NEW i \in D, \A c \in D : rk[c] < rk[i] => c \in G PROVE i \in G
  <2> DEFINE q == ns[i].children
             b == VisitBelow(ns, i, visit)
             rest == IF ns[i].leaf THEN <<>> ELSE FlattenSeq(b)
  <2>1. visit[i] = <<i>> \o rest /\ visit[i] \in Seq(D)
    BY <1>2
  <2>2. Subtree(ns, i) = {i} \cup Beneath(ns, i) /\ i \notin Beneath(ns, i)
    BY <1>1, SubtreeFacts
  <2>3. rest \in Seq(D) /\ Range(rest) = Beneath(ns, i) /\ (i \in L => IsInjective(rest))
    <3>1. CASE ns[i].leaf
      <4>1. rest = <<>> /\ Beneath(ns, i) = {}
        BY <3>1 DEF Beneath, Children
      <4>2. <<>> \in Seq(D) /\ Range(<<>>) = {} /\ IsInjective(<<>>)
        BY DEF Range, IsInjective
      <4> HIDE DEF rest
      <4> QED BY <4>1, <4>2
    <3>2. CASE ~ns[i].leaf
      <4>1. rest = FlattenSeq(b)
        BY <3>2
      <4>2. q \in Seq(Nat) /\ \A j \in 1 .. Len(q) : q[j] \in D /\ rk[i] = rk[q[j]] + 1
        BY <3>2, <1>1 DEF Arena, NodeOk, LeafNode, InnerNode, Ranked
      <4>3. b \in Seq(Seq(D)) /\ Len(b) = Len(q) /\ \A j \in 1 .. Len(q) : b[j] = visit[q[(Len(q) - j) + 1]]
        <5> DEFINE V == Seq(D)
        <5>1. visit \in [DOMAIN ns -> V] /\ i \in DOMAIN ns
          BY <1>2
        <5> HIDE DEF V
        <5>2. /\ VisitBelow(ns, i, visit) \in Seq(V)
              /\ Len(VisitBelow(ns, i, visit)) = Len(ns[i].children)
              /\ \A j \in 1 .. Len(ns[i].children) :
                    VisitBelow(ns, i, visit)[j] = visit[ns[i].children[(Len(ns[i].children) - j) + 1]]
          BY <3>2, <1>1, <5>1, VisitParts, ZenonT(60)
        <5> QED BY <5>2 DEF V
      <4>4. \A j \in 1 .. Len(q) : /\ (Len(q) - j) + 1 \in 1 .. Len(q)
                                   /\ (Len(q) - ((Len(q) - j) + 1)) + 1 = j
        BY <4>2, ReversePlaces
      <4>5. Children(ns[i]) = {q[j] : j \in 1 .. Len(q)}
        BY <3>2, <4>2 DEF Children, Range
      <4> HIDE DEF b, rest, q
      <4>6. ASSUME NEW j \in 1 .. Len(q) PROVE VisitOk(ns, q[j], visit[q[j]]) /\ (q[j] \in L => IsInjective(visit[q[j]]))
        <5>1. q[j] \in D /\ rk[q[j]] < rk[i]
          BY <4>2, <1>1
        <5> QED BY <5>1, <1>3
      <4>7. Range(rest) = UNION {Range(b[j]) : j \in 1 .. Len(b)} /\ rest \in Seq(D)
        BY <4>1, <4>3, FlattenRange, FlattenTyped
      <4>8. Range(rest) = Beneath(ns, i)
        <5>1. \A j \in 1 .. Len(q) : Range(b[j]) = Subtree(ns, q[(Len(q) - j) + 1])
          BY <4>3, <4>4, <4>6 DEF VisitOk
        <5>2. ASSUME NEW d \in Range(rest) PROVE d \in Beneath(ns, i)
          <6>1. PICK j \in 1 .. Len(q) : d \in Range(b[j])
            BY <4>3, <4>7, <5>2
          <6>2. q[(Len(q) - j) + 1] \in Children(ns[i]) /\ d \in Subtree(ns, q[(Len(q) - j) + 1])
            BY <6>1, <5>1, <4>4, <4>5
          <6> QED BY <6>2 DEF Beneath
        <5>3. ASSUME NEW d \in Beneath(ns, i) PROVE d \in Range(rest)
          <6>1. PICK j \in 1 .. Len(q) : d \in Subtree(ns, q[j])
            BY <5>3, <4>5 DEF Beneath
          <6> DEFINE p == (Len(q) - j) + 1
          <6>2. p \in 1 .. Len(q) /\ (Len(q) - p) + 1 = j
            BY <4>4
          <6> HIDE DEF p
          <6>3. d \in Range(b[p])
            BY <6>1, <6>2, <5>1
          <6> QED BY <6>2, <6>3, <4>3, <4>7
        <5> QED BY <5>2, <5>3
      <4>9. ASSUME i \in L PROVE IsInjective(rest)
        <5>1. \A j \in 1 .. Len(q) : q[j] \in L
          BY <4>9, <3>2, <1>1 DEF Tree, q
        <5>2. \A j \in 1 .. Len(b) : IsInjective(b[j])
          BY <4>3, <4>4, <4>6, <5>1
        <5>3. ASSUME NEW m \in 1 .. Len(b), NEW n \in 1 .. Len(b), m # n
              PROVE  Range(b[m]) \cap Range(b[n]) = {}
          <6> DEFINE x == (Len(q) - m) + 1
                     y == (Len(q) - n) + 1
          <6>1. x \in 1 .. Len(q) /\ y \in 1 .. Len(q) /\ (Len(q) - x) + 1 = m /\ (Len(q) - y) + 1 = n
            BY <4>3, <4>4
          <6>2. b[m] = visit[q[x]] /\ b[n] = visit[q[y]]
            BY <4>3
          <6> HIDE DEF x, y
          <6>3. x # y
            BY <6>1, <5>3
          <6>4. q[x] # q[y]
            <7>1. \A u, v \in 1 .. Len(q) : q[u] = q[v] => v = u
              BY <4>9, <3>2, <1>1 DEF Tree, q
            <7> QED BY <7>1, <6>1, <6>3
          <6>5. q[x] \in L /\ q[y] \in L /\ rk[q[x]] = rk[q[y]]
            <7>1. rk[q[x]] \in Nat /\ rk[q[y]] \in Nat /\ rk[i] = rk[q[x]] + 1 /\ rk[i] = rk[q[y]] + 1
              BY <4>2, <6>1, <1>1
            <7> QED BY <7>1, <5>1, <6>1, SMTT(30)
          <6>6. Subtree(ns, q[x]) \cap Subtree(ns, q[y]) = {}
            BY <6>4, <6>5, SubtreesApart
          <6> QED BY <6>1, <6>2, <6>6, <4>6 DEF VisitOk
        <5> QED BY <5>2, <5>3, <4>1, <4>3, FlattenRange
      <4> QED BY <4>7, <4>8, <4>9
    <3> QED BY <3>1, <3>2
  <2> HIDE DEF rest
  <2>4. <<i>> \in Seq(D) /\ Range(<<i>>) = {i} /\ IsInjective(<<i>>)
    BY DEF Range, IsInjective
  <2>5. visit[i] # <<>> /\ visit[i][1] = i
    BY <2>1, <2>3
  <2> DEFINE one == <<i>>
  <2>6. one \in Seq(D) /\ Range(one) = {i} /\ IsInjective(one) /\ visit[i] = one \o rest
    BY <2>1, <2>4
  <2> HIDE DEF one, D
  <2>7. /\ Range(one \o rest) = Range(one) \cup Range(rest)
        /\ IsInjective(one) /\ IsInjective(rest) /\ Range(one) \cap Range(rest) = {} => IsInjective(one \o rest)
    BY <2>3, <2>6, ConcatRange
  <2>8. Range(visit[i]) = {i} \cup Range(rest) /\ (i \in L => IsInjective(visit[i]))
    BY <2>2, <2>3, <2>6, <2>7
  <2> USE DEF D
  <2> QED BY <2>1, <2>2, <2>3, <2>5, <2>8 DEF VisitOk
<1>4. \A i \in D : i \in G
  <2> HIDE DEF G, D
  <2> QED BY <1>1, <1>3, RankInduction
<1> QED BY <1>4


(* The place that Compacted gives a node id, and the copy of a node.       *)
PlaceOf(order, id) == SelectInSeq(order, LAMBDA i : i = id)

CopyOf(order, n) ==
    IF n.leaf THEN n ELSE [n EXCEPT !.children = [j \in DOMAIN @ |-> PlaceOf(order, @[j])]]

(* An id that is in the order once has the place where it is.              *)
LEMMA PlacedOnce ==
    ASSUME NEW order \in Seq(Nat), IsInjective(order), NEW p \in DOMAIN order
    PROVE  PlaceOf(order, order[p]) = p
<1> DEFINE I == {i \in 1 .. Len(order) : order[i] = order[p]}
<1>1. I = {p}
  BY DEF IsInjective
<1>2. PlaceOf(order, order[p]) = IF I # {} THEN Min(I) ELSE 0
  BY DEF PlaceOf, SelectInSeq
<1>3. Min({p}) = p
  <2>1. p \in Nat
    OBVIOUS
  <2>2. \A x : x \in {p} /\ (\A y \in {p} : x <= y) <=> x = p
    BY <2>1
  <2> QED BY <2>2, Zenon DEF Min
<1> HIDE DEF I
<1> QED BY <1>1, <1>2, <1>3

(* The copies link to each other as the nodes do.                          *)
CopiedAs(ns, order, fk, rk2) ==
    /\ DOMAIN fk = DOMAIN order
    /\ Arena(fk) /\ Ranked(fk, rk2)
    /\ \A p \in DOMAIN order :
          /\ fk[p] = CopyOf(order, ns[order[p]])
          /\ Children(fk[p]) = {PlaceOf(order, c) : c \in Children(ns[order[p]])}
          /\ \A c \in Children(ns[order[p]]) : PlaceOf(order, c) \in DOMAIN order /\ order[PlaceOf(order, c)] = c

(* A compacted set of nodes that has the children of its members is an     *)
(* arena.                                                                  *)
LEMMA CompactedIs ==
    ASSUME NEW ns, NEW rk, Arena(ns), Ranked(ns, rk), NEW order \in Seq(DOMAIN ns), IsInjective(order),
           \A i \in Range(order) : Children(ns[i]) \subseteq Range(order)
    PROVE  \E rk2 : CopiedAs(ns, order, Compacted(ns, order), rk2)
<1> DEFINE D == DOMAIN order
           fk == Compacted(ns, order)
           rk2 == [p \in D |-> rk[order[p]]]
<1>1. fk = [p \in D |-> CopyOf(order, ns[order[p]])]
  BY DEF Compacted, CopyOf, PlaceOf
<1> HIDE DEF fk
<1>2. /\ D \subseteq Nat /\ order \in Seq(Nat) /\ (\A p \in D : order[p] \in DOMAIN ns)
      /\ DOMAIN ns \subseteq Nat /\ rk \in [DOMAIN ns -> Nat]
  <2>1. DOMAIN ns \subseteq Nat /\ rk \in [DOMAIN ns -> Nat]
    BY DEF Arena, Ranked
  <2> QED BY <2>1
<1>3. \A p \in D : PlaceOf(order, order[p]) = p
  BY <1>2, PlacedOnce
<1>4. \A id \in Range(order) : PlaceOf(order, id) \in D /\ order[PlaceOf(order, id)] = id
  BY <1>3 DEF Range
<1>5. ASSUME NEW p \in D, ~ns[order[p]].leaf
      PROVE  LET n == ns[order[p]]
             IN /\ n \in InnerNode /\ ~fk[p].leaf /\ fk[p] \in InnerNode
                /\ n.children \in Seq(Nat) /\ fk[p].children \in Seq(Nat)
                /\ Len(fk[p].children) = Len(n.children)
                /\ fk[p].pivots = n.pivots /\ fk[p].buffer = n.buffer
                /\ \A j \in 1 .. Len(n.children) :
                      /\ n.children[j] \in Range(order) /\ n.children[j] \in DOMAIN ns
                      /\ rk[order[p]] = rk[n.children[j]] + 1
                      /\ fk[p].children[j] = PlaceOf(order, n.children[j])
  <2> DEFINE n == ns[order[p]]
             q == n.children
             t == [j \in DOMAIN q |-> PlaceOf(order, q[j])]
  <2>1. order[p] \in DOMAIN ns /\ order[p] \in Range(order)
    BY <1>2 DEF Range
  <2>2. n \in InnerNode /\ q \in Seq(Nat) /\ DOMAIN q = 1 .. Len(q) /\ Len(q) \in Nat
    <3>1. n \in InnerNode
      BY <1>5, <2>1 DEF Arena, NodeOk, LeafNode
    <3>2. q \in Seq(Nat)
      BY <3>1 DEF InnerNode
    <3> QED BY <3>1, <3>2
  <2>3. \A j \in 1 .. Len(q) : q[j] \in DOMAIN ns /\ rk[order[p]] = rk[q[j]] + 1
    BY <1>5, <2>1 DEF Ranked
  <2>4. \A j \in 1 .. Len(q) : q[j] \in Range(order)
    <3>1. Children(n) \subseteq Range(order)
      BY <2>1
    <3>2. \A j \in 1 .. Len(q) : q[j] \in Children(n)
      BY <1>5, <2>2 DEF Children, Range
    <3> QED BY <3>1, <3>2
  <2>5. fk[p] = [n EXCEPT !.children = t]
    BY <1>1, <1>5 DEF CopyOf
  <2>6. \A j \in 1 .. Len(q) : PlaceOf(order, q[j]) \in Nat
    BY <2>4, <1>2, <1>4
  <2>7. t \in [1 .. Len(q) -> Nat]
    BY <2>2, <2>6
  <2>8. t \in Seq(Nat) /\ Len(t) = Len(q) /\ \A j \in 1 .. Len(q) : t[j] = PlaceOf(order, q[j])
    BY <2>2, <2>7
  <2> HIDE DEF t
  <2>9. /\ ~fk[p].leaf /\ fk[p] \in InnerNode /\ fk[p].children = t
        /\ fk[p].pivots = n.pivots /\ fk[p].buffer = n.buffer
    <3> HIDE DEF n
    <3> QED BY <2>2, <2>5, <2>8 DEF InnerNode
  <2> QED BY <2>2, <2>3, <2>4, <2>8, <2>9
<1>6. ASSUME NEW p \in D, ns[order[p]].leaf PROVE fk[p] = ns[order[p]]
  BY <1>1, <1>6 DEF CopyOf
<1>7. \A p \in D : fk[p].leaf <=> ns[order[p]].leaf
  BY <1>5, <1>6
<1>8. ASSUME NEW p \in D PROVE NodeOk(fk[p])
  <2>1. NodeOk(ns[order[p]])
    BY <1>2 DEF Arena
  <2>2. CASE ns[order[p]].leaf
    BY <2>1, <2>2, <1>6
  <2>3. CASE ~ns[order[p]].leaf
    <3> DEFINE n == ns[order[p]]
               m == fk[p]
    <3>1. /\ n \in InnerNode /\ m \in InnerNode /\ n.children \in Seq(Nat) /\ m.children \in Seq(Nat)
          /\ Len(m.children) = Len(n.children) /\ m.pivots = n.pivots /\ m.buffer = n.buffer /\ ~n.leaf
      BY <2>3, <1>5
    <3>2. NodeOk(n)
      BY <2>1
    <3> HIDE DEF n, m
    <3>3. /\ Sorted(n.pivots)
          /\ \/ Len(n.children) = Len(n.pivots) + 1
             \/ n.children = <<>> /\ n.pivots = <<>> /\ n.buffer = Empty
      BY <3>1, <3>2 DEF NodeOk, LeafNode
    <3>4. n.children = <<>> => m.children = <<>>
      BY <3>1
    <3>5. NodeOk(m)
      BY <3>1, <3>3, <3>4 DEF NodeOk
    <3> QED BY <3>5 DEF m
  <2> QED BY <2>2, <2>3
<1>9. DOMAIN fk = D /\ fk = [p \in D |-> fk[p]]
  BY <1>1
<1>10. Arena(fk)
  BY <1>2, <1>8, <1>9 DEF Arena
<1>11. ASSUME NEW p \in D
       PROVE  /\ Children(fk[p]) = {PlaceOf(order, c) : c \in Children(ns[order[p]])}
              /\ \A c \in Children(ns[order[p]]) : PlaceOf(order, c) \in D /\ order[PlaceOf(order, c)] = c
  <2>1. order[p] \in Range(order)
    BY DEF Range
  <2>2. \A c \in Children(ns[order[p]]) : PlaceOf(order, c) \in D /\ order[PlaceOf(order, c)] = c
    BY <2>1, <1>4
  <2>3. CASE ns[order[p]].leaf
    BY <2>2, <2>3, <1>6 DEF Children
  <2>4. CASE ~ns[order[p]].leaf
    <3> DEFINE q == ns[order[p]].children
               t == fk[p].children
    <3>1. /\ q \in Seq(Nat) /\ t \in Seq(Nat) /\ Len(t) = Len(q) /\ ~fk[p].leaf
          /\ \A j \in 1 .. Len(q) : t[j] = PlaceOf(order, q[j])
      BY <2>4, <1>5
    <3>2. Children(ns[order[p]]) = Range(q) /\ Children(fk[p]) = Range(t)
      BY <2>4, <3>1 DEF Children
    <3> HIDE DEF q, t
    <3>3. Range(q) = {q[j] : j \in 1 .. Len(q)} /\ Range(t) = {t[j] : j \in 1 .. Len(q)}
      <4>1. DOMAIN q = 1 .. Len(q) /\ DOMAIN t = 1 .. Len(q)
        BY <3>1
      <4> QED BY <4>1, Zenon DEF Range
    <3>4. {t[j] : j \in 1 .. Len(q)} = {PlaceOf(order, q[j]) : j \in 1 .. Len(q)}
      BY <3>1
    <3>5. {PlaceOf(order, c) : c \in Range(q)} = {PlaceOf(order, q[j]) : j \in 1 .. Len(q)}
      BY <3>3
    <3>6. Children(fk[p]) = {PlaceOf(order, c) : c \in Children(ns[order[p]])}
      BY <3>2, <3>3, <3>4, <3>5
    <3> QED BY <3>6, <2>2
  <2> QED BY <2>3, <2>4
<1>12. Ranked(fk, rk2)
  <2>1. rk2 \in [D -> Nat] /\ \A p \in D : rk2[p] = rk[order[p]]
    BY <1>2
  <2> HIDE DEF rk2
  <2>2. \E H \in Nat : \A p \in D : rk2[p] <= H
    <3>1. PICK H \in Nat : \A i \in DOMAIN ns : rk[i] <= H
      BY DEF Ranked
    <3>2. \A p \in D : rk2[p] <= H
      BY <2>1, <3>1, <1>2
    <3> QED BY <3>2
  <2>3. \A p \in D : fk[p].leaf <=> rk2[p] = 0
    <3>1. \A i \in DOMAIN ns : ns[i].leaf <=> rk[i] = 0
      BY DEF Ranked
    <3> QED BY <3>1, <2>1, <1>2, <1>7
  <2>4. ASSUME NEW p \in D, ~fk[p].leaf, NEW j \in 1 .. Len(fk[p].children)
        PROVE  fk[p].children[j] \in D /\ rk2[p] = rk2[fk[p].children[j]] + 1
    <3> DEFINE q == ns[order[p]].children
    <3>1. /\ q[j] \in Range(order) /\ rk[order[p]] = rk[q[j]] + 1 /\ fk[p].children[j] = PlaceOf(order, q[j])
      BY <2>4, <1>5, <1>7
    <3> HIDE DEF q
    <3>2. PlaceOf(order, q[j]) \in D /\ order[PlaceOf(order, q[j])] = q[j]
      BY <3>1, <1>4
    <3> QED BY <3>1, <3>2, <2>1
  <2> QED BY <2>1, <2>2, <2>3, <2>4, <1>9 DEF Ranked
<1>13. CopiedAs(ns, order, fk, rk2)
  <2>1. \A p \in D : fk[p] = CopyOf(order, ns[order[p]])
    BY <1>1
  <2> HIDE DEF rk2
  <2> QED BY <2>1, <1>9, <1>10, <1>11, <1>12 DEF CopiedAs
<1> QED BY <1>13 DEF fk


(* tree meets the recursion of Unfolded.                                   *)
UnfoldAt(n, tree) == IF n.leaf THEN n ELSE [n EXCEPT !.children = [j \in DOMAIN @ |-> tree[@[j]]]]

Unfolds(ns, tree) == \A i \in DOMAIN ns : tree[i] = UnfoldAt(ns[i], tree)

(* What a node unfolds into depends on its children only.                  *)
LEMMA UnfoldLocal ==
    ASSUME NEW ns, NEW rk, Arena(ns), Ranked(ns, rk), NEW i \in DOMAIN ns, NEW f, NEW g,
           \A c \in DOMAIN ns : rk[c] < rk[i] => f[c] = g[c]
    PROVE  UnfoldAt(ns[i], f) = UnfoldAt(ns[i], g)
<1>1. CASE ns[i].leaf
  BY <1>1 DEF UnfoldAt
<1>2. CASE ~ns[i].leaf
  <2> DEFINE q == ns[i].children
  <2>1. q \in Seq(Nat) /\ \A j \in 1 .. Len(q) : q[j] \in DOMAIN ns /\ rk[i] = rk[q[j]] + 1
    BY <1>2 DEF Arena, NodeOk, LeafNode, InnerNode, Ranked
  <2>2. rk \in [DOMAIN ns -> Nat] /\ DOMAIN q = 1 .. Len(q)
    BY <2>1 DEF Ranked
  <2>3. \A j \in DOMAIN q : f[q[j]] = g[q[j]]
    BY <2>1, <2>2
  <2>4. [j \in DOMAIN q |-> f[q[j]]] = [j \in DOMAIN q |-> g[q[j]]]
    BY <2>3
  <2> QED BY <2>4, <1>2 DEF UnfoldAt
<1> QED BY <1>1, <1>2

(* Unfolded is what its recursion says.                                    *)
LEMMA UnfoldIs ==
    ASSUME NEW ns, NEW rk, Arena(ns), Ranked(ns, rk)
    PROVE  \E tree : Unfolds(ns, tree) /\ \A i \in DOMAIN ns : Unfolded(ns, i) = tree[i]
<1> DEFINE D == DOMAIN ns
           G(f) == [i \in D |-> IF ns[i].leaf THEN ns[i]
                                ELSE [ns[i] EXCEPT !.children = [j \in DOMAIN @ |-> f[@[j]]]]]
           Upto(f, n) == \A i \in D : rk[i] < n => f[i] = UnfoldAt(ns[i], f)
           S == {n \in Nat : \E f : Upto(f, n)}
<1>0. rk \in [D -> Nat]
  BY DEF Ranked
<1>1. PICK H \in Nat : \A i \in D : rk[i] <= H
  BY DEF Ranked
<1>2. \A f : G(f) = [i \in D |-> UnfoldAt(ns[i], f)]
  BY DEF UnfoldAt
<1>3. 0 \in S
  <2>1. \A i \in D : ~(rk[i] < 0)
    BY <1>0
  <2>2. Upto(<<>>, 0)
    BY <2>1
  <2> HIDE DEF Upto
  <2> QED BY <2>2
<1>4. ASSUME NEW n \in Nat, n \in S PROVE n + 1 \in S
  <2>1. PICK f : Upto(f, n)
    BY <1>4
  <2> DEFINE g == [i \in D |-> IF rk[i] < n THEN f[i] ELSE UnfoldAt(ns[i], f)]
  <2>2. ASSUME NEW i \in D, rk[i] < n + 1 PROVE g[i] = UnfoldAt(ns[i], g)
    <3>1. ASSUME NEW c \in D, rk[c] < rk[i] PROVE f[c] = g[c]
      <4>1. rk[c] < n
        BY <2>2, <3>1, <1>0
      <4> QED BY <4>1
    <3>2. g[i] = UnfoldAt(ns[i], f)
      <4>1. CASE rk[i] < n
        BY <4>1, <2>1
      <4>2. CASE ~(rk[i] < n)
        BY <4>2
      <4> QED BY <4>1, <4>2
    <3> HIDE DEF g
    <3>3. UnfoldAt(ns[i], f) = UnfoldAt(ns[i], g)
      BY <3>1, UnfoldLocal
    <3> QED BY <3>2, <3>3
  <2> HIDE DEF g
  <2>3. Upto(g, n + 1)
    BY <2>2
  <2> HIDE DEF Upto
  <2> QED BY <2>3
<1>5. H + 1 \in S
  <2>1. H + 1 \in Nat
    OBVIOUS
  <2> HIDE DEF S
  <2> QED BY <2>1, <1>3, <1>4, SetInduction
<1>6. PICK f : Upto(f, H + 1)
  BY <1>5
<1>7. PICK h : h = G(h)
  <2> DEFINE g == [i \in D |-> f[i]]
  <2>1. \A i \in D : g[i] = f[i]
    OBVIOUS
  <2>2. ASSUME NEW i \in D PROVE g[i] = UnfoldAt(ns[i], g)
    <3>1. rk[i] < H + 1
      BY <1>0, <1>1
    <3>2. f[i] = UnfoldAt(ns[i], f)
      BY <3>1, <1>6
    <3>3. \A c \in DOMAIN ns : rk[c] < rk[i] => f[c] = g[c]
      BY <2>1
    <3> HIDE DEF g
    <3>4. UnfoldAt(ns[i], f) = UnfoldAt(ns[i], g)
      BY <3>3, UnfoldLocal
    <3> QED BY <3>2, <3>4, <2>1
  <2>3. g = [i \in D |-> g[i]]
    OBVIOUS
  <2> HIDE DEF g
  <2>4. g = [i \in D |-> UnfoldAt(ns[i], g)]
    BY <2>2, <2>3
  <2>5. g = G(g)
    <3> HIDE DEF G
    <3> QED BY <2>4, <1>2
  <2> QED BY <2>5, Zenon
<1> DEFINE tree == CHOOSE t : t = G(t)
<1>8. tree = G(tree)
  <2> HIDE DEF G
  <2> QED BY <1>7, Zenon
<1>9. \A i : Unfolded(ns, i) = tree[i]
  BY Zenon DEF Unfolded
<1> HIDE DEF tree
<1>10. tree = [i \in D |-> UnfoldAt(ns[i], tree)]
  <2> HIDE DEF G
  <2> QED BY <1>2, <1>8
<1>11. Unfolds(ns, tree)
  BY <1>10 DEF Unfolds
<1> QED BY <1>9, <1>11

(* A copy unfolds into what the node does.                                 *)
LEMMA CopyUnfolds ==
    ASSUME NEW ns, NEW rk, Arena(ns), Ranked(ns, rk), NEW order \in Seq(DOMAIN ns),
           NEW fk, NEW rk2, CopiedAs(ns, order, fk, rk2)
    PROVE  \A p \in DOMAIN order : Unfolded(fk, p) = Unfolded(ns, order[p])
<1> DEFINE D == DOMAIN order
<1>1. DOMAIN fk = D /\ Arena(fk) /\ Ranked(fk, rk2)
  BY DEF CopiedAs
<1>2. \A p \in D : /\ fk[p] = CopyOf(order, ns[order[p]])
                   /\ \A c \in Children(ns[order[p]]) : PlaceOf(order, c) \in D /\ order[PlaceOf(order, c)] = c
  BY DEF CopiedAs
<1>3. PICK t1 : Unfolds(ns, t1) /\ \A i \in DOMAIN ns : Unfolded(ns, i) = t1[i]
  BY UnfoldIs
<1>4. PICK t2 : Unfolds(fk, t2) /\ \A i \in DOMAIN fk : Unfolded(fk, i) = t2[i]
  BY <1>1, UnfoldIs
<1> DEFINE G == {p \in D : t2[p] = t1[order[p]]}
<1>5. rk2 \in [D -> Nat]
  BY <1>1 DEF Ranked
<1>6. ASSUME NEW p \in D, \A c \in D : rk2[c] < rk2[p] => c \in G PROVE p \in G
  <2> DEFINE n == ns[order[p]]
  <2>1. order[p] \in DOMAIN ns
    OBVIOUS
  <2>2. t2[p] = UnfoldAt(fk[p], t2) /\ t1[order[p]] = UnfoldAt(n, t1) /\ fk[p] = CopyOf(order, n)
    BY <2>1, <1>1, <1>2, <1>3, <1>4 DEF Unfolds
  <2>3. CASE n.leaf
    BY <2>2, <2>3 DEF UnfoldAt, CopyOf
  <2>4. CASE ~n.leaf
    <3> DEFINE q == n.children
               s == [j \in DOMAIN q |-> PlaceOf(order, q[j])]
    <3>1. n \in InnerNode /\ q \in Seq(Nat)
      <4>1. n \in InnerNode
        BY <2>1, <2>4 DEF Arena, NodeOk, LeafNode
      <4> QED BY <4>1 DEF InnerNode
    <3>2. fk[p] = [n EXCEPT !.children = s]
      BY <2>2, <2>4 DEF CopyOf
    <3>3. ~fk[p].leaf /\ fk[p].children = s /\ DOMAIN s = DOMAIN q
      <4>1. DOMAIN s = DOMAIN q
        OBVIOUS
      <4> HIDE DEF n, s
      <4> QED BY <3>1, <3>2, <4>1 DEF InnerNode
    <3>4. ASSUME NEW j \in DOMAIN q PROVE t2[s[j]] = t1[q[j]]
      <4>1. q[j] \in Children(n)
        BY <2>4, <3>1 DEF Children, Range
      <4>2. s[j] = PlaceOf(order, q[j])
        OBVIOUS
      <4>3. s[j] \in D /\ order[s[j]] = q[j]
        BY <4>1, <4>2, <1>2
      <4>4. rk2[s[j]] < rk2[p]
        <5>1. s[j] \in Children(fk[p])
          BY <3>3 DEF Children, Range
        <5> QED BY <5>1, <1>1, ChildrenLower
      <4>5. s[j] \in G
        BY <4>3, <4>4, <1>6
      <4> QED BY <4>3, <4>5
    <3> HIDE DEF s
    <3>5. [j \in DOMAIN s |-> t2[s[j]]] = [j \in DOMAIN q |-> t1[q[j]]]
      BY <3>3, <3>4
    <3>6. UnfoldAt(fk[p], t2) = [fk[p] EXCEPT !.children = [j \in DOMAIN s |-> t2[s[j]]]]
      BY <3>3 DEF UnfoldAt
    <3>7. UnfoldAt(n, t1) = [n EXCEPT !.children = [j \in DOMAIN q |-> t1[q[j]]]]
      BY <2>4 DEF UnfoldAt
    <3> DEFINE v == [j \in DOMAIN q |-> t1[q[j]]]
    <3>8. [fk[p] EXCEPT !.children = v] = [n EXCEPT !.children = v]
      <4> HIDE DEF v, n
      <4> QED BY <3>1, <3>2 DEF InnerNode
    <3> QED BY <2>2, <3>5, <3>6, <3>7, <3>8
  <2> QED BY <2>3, <2>4
<1>7. \A p \in D : p \in G
  <2> HIDE DEF G, D
  <2> QED BY <1>5, <1>6, RankInduction
<1>8. \A p \in D : order[p] \in DOMAIN ns
  OBVIOUS
<1> QED BY <1>1, <1>3, <1>4, <1>7, <1>8


(* A copy reaches the copies of what the node reaches.                     *)
LEMMA CopyReaches ==
    ASSUME NEW ns, NEW rk, Arena(ns), Ranked(ns, rk), NEW order \in Seq(DOMAIN ns), IsInjective(order),
           NEW fk, NEW rk2, CopiedAs(ns, order, fk, rk2)
    PROVE  \A p \in DOMAIN order : \A d \in Subtree(ns, order[p]) : PlaceOf(order, d) \in Subtree(fk, p)
<1> DEFINE D == DOMAIN order
           G == {p \in D : \A d \in Subtree(ns, order[p]) : PlaceOf(order, d) \in Subtree(fk, p)}
<1>1. DOMAIN fk = D /\ Arena(fk) /\ Ranked(fk, rk2) /\ rk2 \in [D -> Nat]
  BY DEF CopiedAs, Ranked
<1>2. \A p \in D : /\ Children(fk[p]) = {PlaceOf(order, c) : c \in Children(ns[order[p]])}
                   /\ \A c \in Children(ns[order[p]]) : PlaceOf(order, c) \in D /\ order[PlaceOf(order, c)] = c
  BY DEF CopiedAs
<1>3. order \in Seq(Nat) /\ \A p \in D : order[p] \in DOMAIN ns
  <2>1. DOMAIN ns \subseteq Nat
    BY DEF Arena
  <2>2. \A p \in D : order[p] \in DOMAIN ns
    OBVIOUS
  <2> QED BY <2>1, <2>2
<1>4. ASSUME NEW p \in D, \A c \in D : rk2[c] < rk2[p] => c \in G PROVE p \in G
  <2> SUFFICES ASSUME NEW d \in Subtree(ns, order[p]) PROVE PlaceOf(order, d) \in Subtree(fk, p)
    OBVIOUS
  <2>1. Subtree(ns, order[p]) = {order[p]} \cup UNION {Subtree(ns, c) : c \in Children(ns[order[p]])}
    BY <1>3, SubtreeIs
  <2>2. Subtree(fk, p) = {p} \cup UNION {Subtree(fk, c) : c \in Children(fk[p])}
    BY <1>1, SubtreeIs
  <2>3. CASE d = order[p]
    <3>1. PlaceOf(order, d) = p
      BY <2>3, <1>3, PlacedOnce
    <3> QED BY <3>1, <2>2
  <2>4. CASE d # order[p]
    <3>1. PICK c \in Children(ns[order[p]]) : d \in Subtree(ns, c)
      BY <2>1, <2>4
    <3> DEFINE s == PlaceOf(order, c)
    <3>2. s \in D /\ order[s] = c /\ s \in Children(fk[p])
      BY <3>1, <1>2
    <3> HIDE DEF s
    <3>3. rk2[s] < rk2[p]
      BY <3>2, <1>1, ChildrenLower
    <3>4. PlaceOf(order, d) \in Subtree(fk, s)
      BY <3>1, <3>2, <3>3, <1>4
    <3> QED BY <3>2, <3>4, <2>2
  <2> QED BY <2>3, <2>4
<1>5. \A p \in D : p \in G
  <2> HIDE DEF G, D
  <2> QED BY <1>1, <1>4, RankInduction
<1> QED BY <1>5

(* The invariant makes every fork of a resting engine faithful.            *)
LEMMA ForkIs == ASSUME MapInv PROVE ForkFaithful
<1> SUFFICES ASSUME mode = "rest"
             PROVE  /\ Unfolded(fork_for_sim.nodes, fork_for_sim.root) = Unfolded(nodes, root)
                    /\ fork_for_sim.next_seq = next_seq
                    /\ fork_for_sim.ops_since_commit = ops_since_commit
                    /\ Subtree(fork_for_sim.nodes, fork_for_sim.root) = DOMAIN fork_for_sim.nodes
  BY Zenon DEF ForkFaithful
<1> DEFINE L == Subtree(nodes, root)
           order == ForkOrder(nodes, root)
           fk == Compacted(nodes, order)
<1>1. PICK rk, iv : SoundBy(nodes, root, flushing, L, rk, iv)
  BY LiveIs DEF MapInv
<1>2. /\ Arena(nodes) /\ Ranked(nodes, rk) /\ root \in DOMAIN nodes
      /\ L \subseteq DOMAIN nodes /\ root \in L /\ Shape(nodes, root, L, rk, iv)
  BY <1>1 DEF SoundBy, Shape, Tree
<1>3. PICK visit : Visits(nodes, visit) /\ \A i \in DOMAIN nodes : ForkOrder(nodes, i) = visit[i]
  BY <1>2, VisitIs
<1>4. VisitOk(nodes, root, order) /\ IsInjective(order)
  <2> HIDE DEF L
  <2>1. VisitOk(nodes, root, visit[root]) /\ IsInjective(visit[root])
    BY <1>2, <1>3, VisitFacts
  <2>2. order = visit[root]
    BY <1>2, <1>3
  <2> HIDE DEF order
  <2> QED BY <2>1, <2>2
<1>5. order \in Seq(DOMAIN nodes) /\ order # <<>> /\ order[1] = root /\ Range(order) = L
  BY <1>4 DEF VisitOk
<1>6. \A i \in Range(order) : Children(nodes[i]) \subseteq Range(order)
  <2> HIDE DEF L, order
  <2> QED BY <1>2, <1>5, ShapeClosed
<1>7. /\ fork_for_sim.nodes = fk /\ fork_for_sim.root = 1 /\ fork_for_sim.next_seq = next_seq
      /\ fork_for_sim.ops_since_commit = ops_since_commit
  BY DEF fork_for_sim
<1> HIDE DEF order
<1>8. PICK rk2 : CopiedAs(nodes, order, fk, rk2)
  BY <1>2, <1>4, <1>5, <1>6, CompactedIs
<1> HIDE DEF fk, L
<1>9. 1 \in DOMAIN order
  BY <1>5
<1>10. Unfolded(fk, 1) = Unfolded(nodes, root)
  BY <1>2, <1>5, <1>8, <1>9, CopyUnfolds
<1>11. DOMAIN fk = DOMAIN order /\ Arena(fk) /\ Ranked(fk, rk2)
  BY <1>8 DEF CopiedAs
<1>12. Subtree(fk, 1) \subseteq DOMAIN fk
  <2>1. \A i \in DOMAIN fk : /\ Subtree(fk, i) = {i} \cup Beneath(fk, i)
                             /\ \A d \in Beneath(fk, i) : d \in DOMAIN fk
    BY <1>11, SubtreeFacts
  <2> QED BY <2>1, <1>9, <1>11
<1>13. ASSUME NEW p \in DOMAIN fk PROVE p \in Subtree(fk, 1)
  <2>1. order[p] \in Subtree(nodes, order[1])
    BY <1>5, <1>11 DEF Range, L
  <2>2. PlaceOf(order, order[p]) \in Subtree(fk, 1)
    BY <2>1, <1>2, <1>4, <1>5, <1>8, <1>9, CopyReaches
  <2>3. order \in Seq(Nat)
    <3>1. DOMAIN nodes \subseteq Nat
      BY <1>2 DEF Arena
    <3> QED BY <3>1, <1>5
  <2>4. PlaceOf(order, order[p]) = p
    BY <2>3, <1>4, <1>11, PlacedOnce
  <2> QED BY <2>2, <2>4
<1> QED BY <1>7, <1>10, <1>12, <1>13

(* The tree that fork_for_sim returns between two calls is the engine's    *)
(* own, dirty flags and counters included, and it holds no node that the   *)
(* root does not reach: the copies keep the shape because a visit meets    *)
(* each live node once, so that a child has one place in the copy.         *)
THEOREM ForksFaithful == Spec => []ForkFaithful
<1>1. MapInv => ForkFaithful
  BY ForkIs
<1> QED BY <1>1, TreeSound, PTL
=============================================================================
