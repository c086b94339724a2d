---------------------------- MODULE OracleProofs ----------------------------
(***************************************************************************)
(* Theorems about the rollout oracle (module Oracle): for every run length,*)
(* commit interval, rollout window and set of sampled decisions, the state *)
(* rebuilt from a checkpoint is the state of the run, the script replays   *)
(* the run, the records are the sampled decisions of the run, and a run    *)
(* whose rollouts reach the end costs no more than the greedy one.         *)
(***************************************************************************)
EXTENDS Oracle, SequenceTheorems, WellFoundedInduction, TLAPS

-----------------------------------------------------------------------------
(* Induction over the natural numbers, for sets of them                    *)

(* A set of natural numbers that is not empty has a least element.         *)
LEMMA Least ==
    ASSUME NEW T, T \subseteq Nat, T # {}
    PROVE  \E x \in T : \A y \in T : x <= y
<1>1. IsWellFoundedOn(OpToRel(<, Nat), Nat)
  BY NatLessThanWellFounded, Zenon
<1>2. PICK x \in T : \A y \in T : ~ (<<y, x>> \in OpToRel(<, Nat))
  BY <1>1, WFMin, Zenon
<1>3. \A y \in T : ~(y < x)
  BY <1>2, Zenon DEF OpToRel
<1> QED BY <1>3

(* A set that has 0 and is closed under successor has every number.        *)
LEMMA SetInduction ==
    ASSUME NEW S, 0 \in S, \A n \in Nat : n \in S => n + 1 \in S
    PROVE  \A n \in Nat : n \in S
<1> SUFFICES ASSUME Nat \ S # {} PROVE FALSE
  OBVIOUS
<1>1. PICK x \in Nat \ S : \A y \in Nat \ S : x <= y
  BY Least
<1>2. x # 0 /\ x - 1 \in Nat /\ x - 1 \notin Nat \ S
  BY <1>1
<1> QED BY <1>2

(* The same up to a bound.                                                 *)
LEMMA BoundedInduction ==
    ASSUME NEW N \in Nat, NEW S, 0 \in S, \A n \in 0 .. N - 1 : n \in S => n + 1 \in S
    PROVE  \A n \in 0 .. N : n \in S
<1> DEFINE T == {n \in Nat : n <= N => n \in S}
<1>1. \A n \in Nat : n \in T => n + 1 \in T
  OBVIOUS
<1>2. 0 \in T
  OBVIOUS
<1>3. \A n \in Nat : n \in T
  <2> HIDE DEF T
  <2> QED BY <1>1, <1>2, SetInduction
<1> QED BY <1>3

(* A function on 0 .. N that starts with start and goes on with step.      *)
Recursion(N, V, start, step) ==
    \E f \in [0 .. N -> V] :
        f[0] = start /\ \A j \in 1 .. N : f[j] = step[<<j, f[j - 1]>>]

(* A recursion over 0 .. N that starts at a value of V, and takes a value  *)
(* of V to one of V at every index, is met by a function.                  *)
LEMMA RecursionExists ==
    ASSUME NEW N \in Nat, NEW V, NEW start \in V, NEW step \in [(1 .. N) \X V -> V]
    PROVE  Recursion(N, V, start, step)
<1> DEFINE Meets(f, n) == f[0] = start /\ \A j \in 1 .. n : f[j] = step[<<j, f[j - 1]>>]
           S == {n \in Nat : \E f \in [0 .. n -> V] : Meets(f, n)}
<1>1. 0 \in S
  <2>1. [j \in 0 .. 0 |-> start] \in [0 .. 0 -> V] /\ Meets([j \in 0 .. 0 |-> start], 0)
    OBVIOUS
  <2> QED BY <2>1
<1>2. ASSUME NEW n \in 0 .. N - 1, n \in S PROVE n + 1 \in S
  <2>1. PICK f \in [0 .. n -> V] : Meets(f, n)
    BY <1>2
  <2> DEFINE g == [j \in 0 .. n + 1 |-> IF j <= n THEN f[j] ELSE step[<<n + 1, f[n]>>]]
  <2>2. <<n + 1, f[n]>> \in (1 .. N) \X V
    OBVIOUS
  <2>3. g \in [0 .. n + 1 -> V]
    BY <2>2
  <2>4. \A j \in 0 .. n : g[j] = f[j]
    OBVIOUS
  <2>5. g[n + 1] = step[<<n + 1, g[n]>>]
    <3>1. n + 1 \in 0 .. n + 1 /\ ~(n + 1 <= n) /\ n \in 0 .. n
      OBVIOUS
    <3>2. g[n + 1] = step[<<n + 1, f[n]>>]
      BY <3>1, Zenon
    <3> HIDE DEF g
    <3> QED BY <3>1, <3>2, <2>4, Zenon
  <2>6. ASSUME NEW j \in 1 .. n + 1 PROVE g[j] = step[<<j, g[j - 1]>>]
    <3>1. CASE j <= n
      <4>1. j \in 1 .. n /\ j - 1 \in 0 .. n /\ j \in 0 .. n
        BY <3>1
      <4> HIDE DEF g
      <4> QED BY <4>1, <2>1, <2>4
    <3>2. CASE j = n + 1
      <4>1. j - 1 = n
        BY <3>2
      <4> HIDE DEF g
      <4> QED BY <4>1, <3>2, <2>5
    <3> QED BY <3>1, <3>2
  <2>7. g[0] = start
    BY <2>1
  <2> HIDE DEF g
  <2> QED BY <2>3, <2>6, <2>7
<1>3. N \in S
  <2> HIDE DEF S
  <2> QED BY <1>1, <1>2, BoundedInduction
<1> QED BY <1>3 DEF Recursion

(* fl gives what each prefix of s flattens into.                           *)
Flattens(s, T, fl) ==
    /\ fl \in [1 .. Len(s) -> Seq(T)]
    /\ \A n \in 1 .. Len(s) : fl[n] = IF n = 1 THEN s[n] ELSE fl[n - 1] \o s[n]
    /\ FlattenSeq(s) = fl[Len(s)]

(* FlattenSeq concatenates one sequence after the other.                   *)
LEMMA FlattenIs ==
    ASSUME NEW T, NEW s \in Seq(Seq(T)), Len(s) # 0
    PROVE  \E fl : Flattens(s, T, fl)
<1> DEFINE G(f) == [n \in 1 .. Len(s) |-> IF n = 1 THEN s[n] ELSE f[n - 1] \o s[n]]
           fl == CHOOSE f : f = G(f)
           step == [x \in (1 .. Len(s)) \X Seq(T) |-> x[2] \o s[x[1]]]
<1>1. Len(s) \in Nat /\ \A n \in 1 .. Len(s) : s[n] \in Seq(T)
  OBVIOUS
<1>2. step \in [(1 .. Len(s)) \X Seq(T) -> Seq(T)]
  BY <1>1
<1>3. \A n \in 1 .. Len(s), x \in Seq(T) : step[<<n, x>>] = x \o s[n]
  OBVIOUS
<1>4. <<>> \in Seq(T)
  OBVIOUS
<1>5. Recursion(Len(s), Seq(T), <<>>, step)
  <2> HIDE DEF step
  <2> QED BY <1>1, <1>2, <1>4, RecursionExists
<1>6. PICK h \in [0 .. Len(s) -> Seq(T)] :
           h[0] = <<>> /\ \A n \in 1 .. Len(s) : h[n] = step[<<n, h[n - 1]>>]
  BY <1>5, Zenon DEF Recursion
<1>7. \A n \in 1 .. Len(s) : h[n - 1] \in Seq(T) /\ h[n] = h[n - 1] \o s[n]
  <2> SUFFICES ASSUME NEW n \in 1 .. Len(s)
               PROVE  h[n - 1] \in Seq(T) /\ h[n] = h[n - 1] \o s[n]
    OBVIOUS
  <2>1. n - 1 \in 0 .. Len(s)
    BY <1>1
  <2>2. h[n - 1] \in Seq(T)
    BY <2>1
  <2> HIDE DEF step
  <2> QED BY <2>2, <1>3, <1>6
<1> DEFINE r == [n \in 1 .. Len(s) |-> h[n]]
<1>8. r = G(r)
  <2> SUFFICES ASSUME NEW n \in 1 .. Len(s)
               PROVE  h[n] = IF n = 1 THEN s[n] ELSE r[n - 1] \o s[n]
    OBVIOUS
  <2>1. CASE n = 1
    <3>1. n - 1 = 0
      BY <2>1
    <3>2. h[n] = <<>> \o s[n]
      BY <3>1, <1>6, <1>7
    <3> QED BY <3>2, <2>1, <1>1
  <2>2. CASE n # 1
    <3>1. n - 1 \in 1 .. Len(s)
      BY <2>2, <1>1
    <3>2. r[n - 1] = h[n - 1]
      BY <3>1, Zenon
    <3> QED BY <3>2, <2>2, <1>7
  <2> QED BY <2>1, <2>2
<1>9. fl = G(fl)
  <2> HIDE DEF G, r
  <2> QED BY <1>8, Zenon
<1>10. \A n \in 1 .. Len(s) : fl[n] = IF n = 1 THEN s[n] ELSE fl[n - 1] \o s[n]
  <2> HIDE DEF fl
  <2> QED BY <1>9
<1>11. FlattenSeq(s) = fl[Len(s)]
  BY Zenon DEF FlattenSeq
<1>12. fl = [n \in 1 .. Len(s) |-> fl[n]]
  <2> HIDE DEF fl
  <2> QED BY <1>9
<1> HIDE DEF fl, G
<1> DEFINE S == {n \in Nat : n + 1 <= Len(s) => fl[n + 1] \in Seq(T)}
<1>13. 0 \in S
  <2>1. 1 \in 1 .. Len(s) /\ s[1] \in Seq(T)
    BY <1>1
  <2>2. fl[1] = s[1]
    BY <2>1, <1>10
  <2> QED BY <2>1, <2>2
<1>14. ASSUME NEW n \in Nat, n \in S PROVE n + 1 \in S
  <2> SUFFICES ASSUME n + 2 <= Len(s) PROVE fl[n + 2] \in Seq(T)
    OBVIOUS
  <2>1. fl[n + 1] \in Seq(T) /\ s[n + 2] \in Seq(T)
    BY <1>14, <1>1
  <2>2. n + 2 \in 1 .. Len(s) /\ n + 2 # 1 /\ (n + 2) - 1 = n + 1
    BY <1>1
  <2>3. fl[n + 2] = fl[n + 1] \o s[n + 2]
    BY <2>2, <1>10
  <2> QED BY <2>1, <2>3
<1>15. \A n \in Nat : n \in S
  <2> HIDE DEF S
  <2> QED BY <1>13, <1>14, SetInduction
<1>16. ASSUME NEW n \in 1 .. Len(s) PROVE fl[n] \in Seq(T)
  <2>1. n - 1 \in Nat /\ (n - 1) + 1 = n /\ n <= Len(s)
    BY <1>1
  <2>2. n - 1 \in S
    BY <2>1, <1>15
  <2> QED BY <2>1, <2>2
<1> QED BY <1>10, <1>11, <1>12, <1>16 DEF Flattens

(* A sequence of sequences flattens into a sequence.                       *)
LEMMA FlattenTyped ==
    ASSUME NEW T, NEW s \in Seq(Seq(T))
    PROVE  FlattenSeq(s) \in Seq(T)
<1>1. CASE Len(s) = 0
  <2>1. s = <<>>
    BY <1>1
  <2> QED BY <2>1, <1>1 DEF FlattenSeq
<1>2. CASE Len(s) # 0
  <2>1. PICK fl : Flattens(s, T, fl)
    BY <1>2, FlattenIs
  <2>2. Len(s) \in 1 .. Len(s)
    BY <1>2
  <2> QED BY <2>1, <2>2 DEF Flattens
<1> QED BY <1>1, <1>2

Trees == Seq(Seq(Nat))

Contexts == [Children -> 0 .. 2]

Decisions == [ctx : Contexts, choice : Children]

Configurations ==
    [seed : Seeds, commit_interval : Intervals, window : Windows, sampled : Samples]

-----------------------------------------------------------------------------
(* Hashes and contexts have values                                         *)

(* A sequence over a set is one over a larger set.                         *)
LEMMA SeqWider ==
    ASSUME NEW A, NEW B, A \subseteq B, NEW s \in Seq(A)
    PROVE  s \in Seq(B)
<1>1. Len(s) \in Nat /\ \A n \in 1 .. Len(s) : s[n] \in B
  OBVIOUS
<1>2. s = [n \in 1 .. Len(s) |-> s[n]]
  OBVIOUS
<1>3. [n \in 1 .. Len(s) |-> s[n]] \in Seq(B)
  BY <1>1
<1> QED BY <1>2, <1>3, Zenon

(* A tree flattens into a sequence of numbers.                             *)
LEMMA FlattenTree ==
    ASSUME NEW s \in Trees
    PROVE  FlattenSeq(s) \in Seq(Nat)
BY FlattenTyped DEF Trees

(* The greatest of some of the first k numbers.                            *)
LEMMA Greatest ==
    ASSUME NEW k \in Nat, NEW S \in SUBSET (1 .. k), S # {}
    PROVE  Max(S) \in S /\ \A x \in S : Max(S) >= x
<1> DEFINE T == {k - x : x \in S}
<1>0. \A x \in S : k - x \in Nat
  OBVIOUS
<1>1. T \subseteq Nat /\ T # {}
  BY <1>0, Zenon
<1>2. PICK y \in T : \A z \in T : y <= z
  <2> HIDE DEF T
  <2> QED BY <1>1, Least
<1>3. PICK x \in S : y = k - x
  OBVIOUS
<1>4. \A z \in S : x >= z
  <2> SUFFICES ASSUME NEW z \in S PROVE x >= z
    OBVIOUS
  <2>1. k - z \in T
    OBVIOUS
  <2>2. k - x <= k - z
    BY <2>1, <1>2, <1>3
  <2> QED BY <2>2
<1> QED BY <1>4, Zenon DEF Max

(* A mixed number is a number.                                             *)
LEMMA MixTyped ==
    ASSUME NEW x \in Nat, NEW y \in Nat
    PROVE  Mix(x, y) \in Nat
  BY DEF Mix

(* Hashing a sequence of numbers from a number gives a number.             *)
LEMMA FoldTyped ==
    ASSUME NEW seed \in Nat, NEW s \in Seq(Nat)
    PROVE  FoldLeft(Mix, seed, s) \in Nat
<1> DEFINE Rest(f, S) == Mix(f[S \ {Max(S)}], s[Max(S)])
           Meets(f, k) == \A S \in SUBSET (1 .. k) : f[S] = IF S = {} THEN seed ELSE Rest(f, S)
           G(f) == [S \in SUBSET DOMAIN s |-> IF S = {} THEN seed ELSE Rest(f, S)]
           fl == CHOOSE f : f = G(f)
           K == {k \in Nat : \E f : Meets(f, k)}
<1>0. Len(s) \in Nat /\ DOMAIN s = 1 .. Len(s) /\ \A n \in 1 .. Len(s) : s[n] \in Nat
  OBVIOUS
<1>1. 0 \in K
  <2>1. Meets([S \in SUBSET (1 .. 0) |-> seed], 0)
    OBVIOUS
  <2> QED BY <2>1, Zenon
<1>2. ASSUME NEW k \in Nat, k \in K PROVE k + 1 \in K
  <2>1. PICK f : Meets(f, k)
    BY <1>2, Zenon
  <2> DEFINE g == [S \in SUBSET (1 .. k + 1) |->
                      IF k + 1 \in S THEN Mix(f[S \ {k + 1}], s[k + 1]) ELSE f[S]]
  <2>2. ASSUME NEW S \in SUBSET (1 .. k) PROVE g[S] = f[S]
    <3>1. S \in SUBSET (1 .. k + 1) /\ k + 1 \notin S
      OBVIOUS
    <3> QED BY <3>1, Zenon
  <2>3. ASSUME NEW S \in SUBSET (1 .. k + 1), k + 1 \in S
        PROVE  g[S] = Mix(f[S \ {k + 1}], s[k + 1])
    BY <2>3
  <2> HIDE DEF g
  <2>4. ASSUME NEW S \in SUBSET (1 .. k + 1) PROVE g[S] = IF S = {} THEN seed ELSE Rest(g, S)
    <3>1. CASE k + 1 \in S
      <4>1. S # {} /\ k + 1 \in Nat
        BY <3>1
      <4>2. Max(S) \in S /\ Max(S) >= k + 1
        BY <4>1, <3>1, Greatest
      <4>3. Max(S) = k + 1
        <5>1. Max(S) \in 1 .. k + 1
          BY <4>2, Zenon
        <5> QED BY <5>1, <4>2
      <4>4. S \ {k + 1} \in SUBSET (1 .. k)
        OBVIOUS
      <4>5. g[S \ {k + 1}] = f[S \ {k + 1}]
        BY <4>4, <2>2, Zenon
      <4> QED BY <4>1, <4>3, <4>5, <3>1, <2>3, Zenon
    <3>2. CASE k + 1 \notin S
      <4>1. S \in SUBSET (1 .. k) /\ S \ {Max(S)} \in SUBSET (1 .. k)
        <5>1. \A x \in S : x \in 1 .. k
          BY <3>2
        <5> QED BY <5>1, Zenon
      <4>2. g[S] = f[S] /\ g[S \ {Max(S)}] = f[S \ {Max(S)}]
        BY <4>1, <2>2, Zenon
      <4>3. f[S] = IF S = {} THEN seed ELSE Rest(f, S)
        BY <4>1, <2>1, Zenon
      <4> QED BY <4>2, <4>3, Zenon
    <3> QED BY <3>1, <3>2
  <2>5. Meets(g, k + 1)
    BY <2>4, Zenon
  <2>6. k + 1 \in Nat
    OBVIOUS
  <2> QED BY <2>5, <2>6, Zenon
<1>3. Len(s) \in K
  <2> HIDE DEF K
  <2> QED BY <1>0, <1>1, <1>2, SetInduction
<1>4. PICK f : Meets(f, Len(s))
  BY <1>3, Zenon
<1> DEFINE r == [S \in SUBSET DOMAIN s |-> f[S]]
<1>5. r = G(r)
  <2>1. ASSUME NEW S \in SUBSET DOMAIN s
        PROVE  f[S] = IF S = {} THEN seed ELSE Rest(r, S)
    <3>1. S \in SUBSET (1 .. Len(s))
      BY <1>0
    <3>2. S \ {Max(S)} \in SUBSET DOMAIN s
      OBVIOUS
    <3>3. r[S \ {Max(S)}] = f[S \ {Max(S)}]
      BY <3>2, Zenon
    <3> QED BY <3>1, <3>3, <1>4, Zenon
  <2> QED BY <2>1, Zenon
<1>6. fl = G(fl)
  <2> HIDE DEF G, r
  <2> QED BY <1>5, Zenon
<1>7. ASSUME NEW S \in SUBSET (1 .. Len(s)) PROVE fl[S] = IF S = {} THEN seed ELSE Rest(fl, S)
  <2>1. S \in SUBSET DOMAIN s
    BY <1>0
  <2> HIDE DEF fl
  <2> QED BY <2>1, <1>6, Zenon
<1>8. FoldLeft(Mix, seed, s) = fl[DOMAIN s]
  BY Zenon DEF FoldLeft, MapThenFoldSet
<1> HIDE DEF fl
<1> DEFINE N == {k \in Nat : k <= Len(s) => fl[1 .. k] \in Nat}
<1>9. 0 \in N
  <2>1. 1 .. 0 = {}
    OBVIOUS
  <2> QED BY <2>1, <1>7
<1>10. ASSUME NEW k \in Nat, k \in N PROVE k + 1 \in N
  <2> SUFFICES ASSUME k + 1 <= Len(s) PROVE fl[1 .. k + 1] \in Nat
    OBVIOUS
  <2>1. fl[1 .. k] \in Nat /\ s[k + 1] \in Nat
    BY <1>10, <1>0
  <2>2. k + 1 \in 1 .. k + 1 /\ k + 1 \in Nat
    OBVIOUS
  <2>3. Max(1 .. k + 1) \in 1 .. k + 1 /\ Max(1 .. k + 1) >= k + 1
    BY <2>2, Greatest, Zenon
  <2>4. Max(1 .. k + 1) = k + 1
    BY <2>3
  <2>5. (1 .. k + 1) \ {k + 1} = 1 .. k
    OBVIOUS
  <2>6. 1 .. k + 1 \in SUBSET (1 .. Len(s))
    BY <1>0
  <2>7. fl[1 .. k + 1] = Mix(fl[1 .. k], s[k + 1])
    BY <2>2, <2>4, <2>5, <2>6, <1>7, Zenon
  <2> QED BY <2>1, <2>7, MixTyped
<1>11. Len(s) \in N
  <2> HIDE DEF N
  <2> QED BY <1>0, <1>9, <1>10, SetInduction
<1> QED BY <1>0, <1>8, <1>11


(* The hash of a tree is a number.                                         *)
LEMMA HashTyped ==
    ASSUME cfg \in Configurations, NEW tree \in Trees, NEW more \in Seq(Nat)
    PROVE  Hash(tree, more) \in Nat
<1>1. cfg.seed \in Nat
  BY OracleAssumption DEF Configurations
<1>2. FlattenSeq(tree) \o more \in Seq(Nat)
  BY FlattenTree
<1>3. FoldLeft(Mix, cfg.seed, FlattenSeq(tree) \o more) \in Nat
  BY <1>1, <1>2, FoldTyped
<1> QED BY <1>3 DEF Hash

(* How many messages wait is never negative, and nothing waits any more    *)
(* after the last decision.                                                *)
LEMMA ContextTyped ==
    ASSUME cfg \in Configurations, NEW tree \in Trees, NEW m \in Nat, NEW choices \in Seq(Children)
    PROVE  /\ Context(tree, m, choices) \in Contexts
           /\ Len(choices) = MaxDecisions => Legal(Context(tree, m, choices)) = {}
<1> DEFINE before == Hash(tree, <<m>> \o choices)
           wait(c) == IF Len(choices) = MaxDecisions THEN 0
                      ELSE Max({0, (Mix(before, c) % 4) - 1})
<1>1. before \in Nat
  <2>1. choices \in Seq(Nat)
    BY OracleAssumption, SeqWider
  <2>2. <<m>> \o choices \in Seq(Nat)
    BY <2>1
  <2> QED BY <2>2, HashTyped
<1> HIDE DEF before
<1>2. ASSUME NEW c \in Children PROVE wait(c) \in 0 .. 2
  <2>1. Mix(before, c) \in Nat
    BY <1>1, OracleAssumption, MixTyped
  <2> DEFINE w == (Mix(before, c) % 4) - 1
  <2>2. w \in {-1, 0, 1, 2}
    BY <2>1
  <2> HIDE DEF w
  <2>3. \E x \in {0, w} : \A y \in {0, w} : x >= y
    BY <2>2
  <2>4. Max({0, w}) \in {0, w} /\ Max({0, w}) >= 0
    BY <2>3, Zenon DEF Max
  <2>5. Max({0, w}) \in 0 .. 2
    BY <2>2, <2>4
  <2> QED BY <2>5 DEF w
<1>3. Context(tree, m, choices) = [c \in Children |-> wait(c)]
  BY Zenon DEF Context, before
<1> HIDE DEF wait
<1>4. Context(tree, m, choices) \in Contexts
  BY <1>2, <1>3 DEF Contexts
<1>5. ASSUME Len(choices) = MaxDecisions PROVE Legal(Context(tree, m, choices)) = {}
  <2>1. \A c \in Children : Context(tree, m, choices)[c] = 0
    BY <1>3, <1>5 DEF wait
  <2> QED BY <2>1 DEF Legal
<1> QED BY <1>4, <1>5

(* The least of some numbers.                                              *)
LEMMA MinIs ==
    ASSUME NEW S \in SUBSET Nat, S # {}
    PROVE  Min(S) \in S /\ \A x \in S : Min(S) <= x
<1>1. \E x \in S : \A y \in S : x <= y
  BY Least
<1> QED BY <1>1, Zenon DEF Min

(* The greedy choice is legal.                                             *)
LEMMA PickLegal ==
    ASSUME NEW ctx \in Contexts, Legal(ctx) # {}
    PROVE  pick(ctx) \in Legal(ctx) /\ pick(ctx) \in Children
<1> DEFINE T == {2 - ctx[c] : c \in Legal(ctx)}
           Full == {c \in Legal(ctx) : \A d \in Children : ctx[d] <= ctx[c]}
<1>1. \A c \in Children : ctx[c] \in 0 .. 2
  BY DEF Contexts
<1>2. \A c \in Legal(ctx) : c \in Children /\ ctx[c] > 0
  BY DEF Legal
<1>3. T \subseteq Nat /\ T # {}
  <2>1. \A c \in Legal(ctx) : 2 - ctx[c] \in Nat
    BY <1>1, <1>2
  <2> QED BY <2>1, Zenon
<1>4. PICK y \in T : \A z \in T : y <= z
  <2> HIDE DEF T
  <2> QED BY <1>3, Least
<1>5. PICK c \in Legal(ctx) : y = 2 - ctx[c]
  OBVIOUS
<1>6. ASSUME NEW d \in Children PROVE ctx[d] <= ctx[c]
  <2>1. CASE d \in Legal(ctx)
    <3>1. 2 - ctx[d] \in T
      BY <2>1
    <3>2. 2 - ctx[c] <= 2 - ctx[d]
      BY <3>1, <1>4, <1>5
    <3> QED BY <3>2, <1>1, <1>2
  <2>2. CASE d \notin Legal(ctx)
    <3>1. ~(ctx[d] > 0) /\ ctx[c] > 0
      BY <2>2, <1>2 DEF Legal
    <3> QED BY <3>1, <1>1, <1>2
  <2> QED BY <2>1, <2>2
<1>7. Full # {} /\ Full \in SUBSET Nat
  <2>1. c \in Full
    BY <1>6
  <2>2. \A d \in Full : d \in Nat
    BY <1>2, OracleAssumption
  <2> QED BY <2>1, <2>2, Zenon
<1>8. Min(Full) \in Full
  <2> HIDE DEF Full
  <2> QED BY <1>7, MinIs
<1> QED BY <1>8, <1>2 DEF pick


-----------------------------------------------------------------------------
(* The decisions of one operation                                          *)

(* The first k choices of some decisions.                                  *)
First(ds, k) == [n \in 1 .. k |-> ds[n].choice]

(* Decisions ds are as g forces them, and then greedy.                     *)
Follows(ds, g) ==
    \A j \in 1 .. Len(ds) : ds[j].choice = IF j <= Len(g) THEN g[j] ELSE pick(ds[j].ctx)

(* ds are decisions as run_op makes them: each in the context that the     *)
(* choices before it lead to, as forced and then greedy.                   *)
Made(tree, m, forced, ds) ==
    /\ ds \in Seq(Decisions)
    /\ \A j \in 1 .. Len(ds) :
          /\ ds[j].ctx = Context(tree, m, First(ds, j - 1))
          /\ Legal(ds[j].ctx) # {}
          /\ ds[j].choice = IF j <= Len(forced) THEN forced[j] ELSE pick(ds[j].ctx)

(* And no decision is left.                                                *)
Complete(tree, m, forced, ds) ==
    Made(tree, m, forced, ds) /\ Legal(Context(tree, m, Chosen(ds))) = {}

(* The choices of decisions are children, one for each decision.           *)
LEMMA ChosenIs ==
    ASSUME NEW ds \in Seq(Decisions)
    PROVE  /\ Chosen(ds) \in Seq(Children) /\ Len(Chosen(ds)) = Len(ds)
           /\ \A n \in 1 .. Len(ds) : Chosen(ds)[n] = ds[n].choice
           /\ Chosen(ds) = First(ds, Len(ds))
           /\ \A k \in 0 .. Len(ds) : First(ds, k) \in Seq(Children) /\ Len(First(ds, k)) = k
<1>1. Len(ds) \in Nat /\ DOMAIN ds = 1 .. Len(ds)
  OBVIOUS
<1>2. ASSUME NEW n \in 1 .. Len(ds) PROVE ds[n].choice \in Children
  <2>1. ds[n] \in Decisions
    OBVIOUS
  <2> QED BY <2>1 DEF Decisions
<1>3. ASSUME NEW k \in 0 .. Len(ds) PROVE First(ds, k) \in Seq(Children) /\ Len(First(ds, k)) = k
  <2>1. \A n \in 1 .. k : ds[n].choice \in Children
    BY <1>1, <1>2
  <2>2. k \in Nat
    BY <1>1
  <2> QED BY <2>1, <2>2 DEF First
<1>4. Chosen(ds) = First(ds, Len(ds))
  BY <1>1, Zenon DEF Chosen, First
<1>5. \A n \in 1 .. Len(ds) : Chosen(ds)[n] = ds[n].choice
  BY <1>1 DEF Chosen
<1>6. Len(ds) \in 0 .. Len(ds)
  BY <1>1
<1> QED BY <1>3, <1>4, <1>5, <1>6

(* The same choices are the same prefix.                                   *)
LEMMA FirstSame ==
    ASSUME NEW ds, NEW es, NEW k, \A n \in 1 .. k : ds[n].choice = es[n].choice
    PROVE  First(ds, k) = First(es, k)
  BY DEF First

(* One more decision.                                                      *)
LEMMA MadeNext ==
    ASSUME NEW tree, NEW m, NEW forced, NEW ds, Made(tree, m, forced, ds),
           NEW d \in Decisions, d.ctx = Context(tree, m, Chosen(ds)), Legal(d.ctx) # {},
           d.choice = IF Len(ds) + 1 <= Len(forced) THEN forced[Len(ds) + 1] ELSE pick(d.ctx)
    PROVE  Made(tree, m, forced, Append(ds, d))
<1> DEFINE es == Append(ds, d)
<1>1. ds \in Seq(Decisions)
  BY DEF Made
<1>2. /\ es \in Seq(Decisions) /\ Len(es) = Len(ds) + 1 /\ es[Len(ds) + 1] = d
      /\ \A n \in 1 .. Len(ds) : es[n] = ds[n]
  BY <1>1
<1>3. ASSUME NEW k \in 0 .. Len(ds) PROVE First(es, k) = First(ds, k)
  <2>1. \A n \in 1 .. k : es[n].choice = ds[n].choice
    BY <1>1, <1>2
  <2> QED BY <2>1, FirstSame
<1> HIDE DEF es
<1>4. ASSUME NEW j \in 1 .. Len(es)
      PROVE  /\ es[j].ctx = Context(tree, m, First(es, j - 1))
             /\ Legal(es[j].ctx) # {}
             /\ es[j].choice = IF j <= Len(forced) THEN forced[j] ELSE pick(es[j].ctx)
  <2>1. CASE j = Len(ds) + 1
    <3>1. j - 1 = Len(ds) /\ j - 1 \in 0 .. Len(ds)
      BY <2>1, <1>1
    <3>2. First(es, j - 1) = Chosen(ds)
      BY <3>1, <1>1, <1>3, ChosenIs
    <3> QED BY <3>2, <2>1, <1>2
  <2>2. CASE j # Len(ds) + 1
    <3>1. j \in 1 .. Len(ds) /\ j - 1 \in 0 .. Len(ds)
      BY <2>2, <1>1, <1>2
    <3>2. First(es, j - 1) = First(ds, j - 1) /\ es[j] = ds[j]
      BY <3>1, <1>2, <1>3
    <3> QED BY <3>1, <3>2 DEF Made
  <2> QED BY <2>1, <2>2
<1>5. Made(tree, m, forced, es)
  BY <1>2, <1>4 DEF Made
<1> QED BY <1>5 DEF es

(* What the loop of run_op does in one round.                              *)
Decide(tree, m, forced, n, ds) ==
    LET ctx == Context(tree, m, Chosen(ds))
    IN IF Len(ds) < n - 1 \/ Legal(ctx) = {} THEN ds
       ELSE Append(ds, [ctx |-> ctx, choice |-> IF n <= Len(forced) THEN forced[n] ELSE pick(ctx)])

(* A round keeps decisions decisions.                                      *)
LEMMA DecideMade ==
    ASSUME cfg \in Configurations, NEW tree \in Trees, NEW m \in Nat, NEW forced \in Seq(Children),
           NEW n \in Nat \ {0}, NEW ds \in Seq(Decisions), Len(ds) <= n - 1
    PROVE  LET es == Decide(tree, m, forced, n, ds)
           IN /\ es \in Seq(Decisions) /\ Len(es) <= n
              /\ Made(tree, m, forced, ds) => Made(tree, m, forced, es)
              /\ (Len(ds) < n - 1 => Legal(Context(tree, m, Chosen(ds))) = {})
                    => (Len(es) < n => Legal(Context(tree, m, Chosen(es))) = {})
<1> DEFINE ctx == Context(tree, m, Chosen(ds))
           choice == IF n <= Len(forced) THEN forced[n] ELSE pick(ctx)
           d == [ctx |-> ctx, choice |-> choice]
           es == Decide(tree, m, forced, n, ds)
<1>0. Len(ds) \in Nat
  OBVIOUS
<1>1. CASE Len(ds) < n - 1 \/ Legal(ctx) = {}
  <2>1. es = ds
    BY <1>1, Zenon DEF Decide
  <2> QED BY <2>1, <1>1, <1>0
<1>2. CASE ~(Len(ds) < n - 1 \/ Legal(ctx) = {})
  <2>1. es = Append(ds, d)
    BY <1>2, Zenon DEF Decide
  <2>2. ctx \in Contexts
    BY ChosenIs, ContextTyped
  <2>3. choice \in Children
    BY <2>2, <1>2, PickLegal
  <2>4. Len(ds) + 1 = n
    BY <1>0, <1>2
  <2> HIDE DEF ctx, choice
  <2>5. d \in Decisions /\ d.ctx = ctx /\ d.choice = choice
    BY <2>2, <2>3 DEF Decisions
  <2> HIDE DEF d, es
  <2>6. es \in Seq(Decisions) /\ Len(es) = n
    BY <2>1, <2>4, <2>5
  <2>7. ASSUME Made(tree, m, forced, ds) PROVE Made(tree, m, forced, es)
    <3>1. d.ctx = Context(tree, m, Chosen(ds)) /\ Legal(d.ctx) # {}
      BY <1>2, <2>5 DEF ctx
    <3>2. d.choice = IF Len(ds) + 1 <= Len(forced) THEN forced[Len(ds) + 1] ELSE pick(d.ctx)
      BY <2>4, <2>5 DEF choice
    <3> QED BY <3>1, <3>2, <2>1, <2>5, <2>7, MadeNext
  <2>8. es \in Seq(Decisions) /\ Len(es) <= n /\ ~(Len(es) < n)
    BY <2>6
  <2> QED BY <2>7, <2>8, Zenon DEF es
<1> QED BY <1>1, <1>2


(* The loop of run_op has a value after every round.                       *)
LEMMA RunOpLoop ==
    ASSUME NEW tree, NEW m, NEW forced
    PROVE  \E f : /\ f[0] = <<>>
                  /\ \A n \in 1 .. MaxDecisions : f[n] = Decide(tree, m, forced, n, f[n - 1])
                  /\ run_op(tree, m, forced) = f[MaxDecisions]
<1> DEFINE Meets(f, k) == /\ f[0] = <<>>
                          /\ \A n \in 1 .. k : f[n] = Decide(tree, m, forced, n, f[n - 1])
           S == {k \in Nat : \E f : Meets(f, k)}
           G(f) == [n \in 0 .. MaxDecisions |-> IF n = 0 THEN <<>>
                                                ELSE Decide(tree, m, forced, n, f[n - 1])]
<1>0. MaxDecisions \in Nat
  BY OracleAssumption
<1>1. 0 \in S
  <2>1. Meets([n \in 0 .. 0 |-> <<>>], 0)
    OBVIOUS
  <2> QED BY <2>1, Zenon
<1>2. ASSUME NEW k \in Nat, k \in S PROVE k + 1 \in S
  <2>1. PICK f : Meets(f, k)
    BY <1>2
  <2> DEFINE g == [n \in 0 .. k + 1 |-> IF n = k + 1 THEN Decide(tree, m, forced, n, f[k])
                                                     ELSE f[n]]
  <2>2. \A n \in 0 .. k : g[n] = f[n]
    OBVIOUS
  <2>3. g[k + 1] = Decide(tree, m, forced, k + 1, f[k])
    OBVIOUS
  <2> HIDE DEF g
  <2>4. g[0] = <<>>
    BY <2>1, <2>2
  <2>5. ASSUME NEW n \in 1 .. k + 1 PROVE g[n] = Decide(tree, m, forced, n, g[n - 1])
    <3>1. CASE n = k + 1
      <4>1. n - 1 = k /\ k \in 0 .. k
        BY <3>1
      <4> QED BY <3>1, <4>1, <2>2, <2>3
    <3>2. CASE n # k + 1
      <4>1. n \in 1 .. k /\ n \in 0 .. k /\ n - 1 \in 0 .. k
        BY <3>2
      <4>2. g[n] = f[n] /\ g[n - 1] = f[n - 1]
        BY <4>1, <2>2
      <4>3. f[n] = Decide(tree, m, forced, n, f[n - 1])
        BY <4>1, <2>1
      <4> QED BY <4>2, <4>3
    <3> QED BY <3>1, <3>2
  <2>6. Meets(g, k + 1) /\ k + 1 \in Nat
    BY <2>4, <2>5
  <2> QED BY <2>6, Zenon
<1>3. MaxDecisions \in S
  <2> HIDE DEF S
  <2> QED BY <1>0, <1>1, <1>2, SetInduction
<1>4. PICK f : Meets(f, MaxDecisions)
  BY <1>3
<1> DEFINE r == [n \in 0 .. MaxDecisions |-> f[n]]
           go == CHOOSE h : h = G(h)
<1>5. r = G(r)
  <2>1. ASSUME NEW n \in 0 .. MaxDecisions
        PROVE  f[n] = IF n = 0 THEN <<>> ELSE Decide(tree, m, forced, n, r[n - 1])
    <3>1. CASE n = 0
      BY <3>1, <1>4
    <3>2. CASE n # 0
      <4>1. n \in 1 .. MaxDecisions /\ n - 1 \in 0 .. MaxDecisions
        BY <3>2, <1>0
      <4>2. r[n - 1] = f[n - 1]
        BY <4>1, Zenon
      <4>3. f[n] = Decide(tree, m, forced, n, f[n - 1])
        BY <4>1, <1>4
      <4> QED BY <4>2, <4>3, <3>2, Zenon
    <3> QED BY <3>1, <3>2
  <2> QED BY <2>1, Zenon
<1>6. go = G(go)
  <2> HIDE DEF G, r
  <2> QED BY <1>5, Zenon
<1>7. run_op(tree, m, forced) = go[MaxDecisions]
  BY Zenon DEF run_op, Decide
<1> HIDE DEF go
<1>8. go[0] = <<>>
  <2>1. 0 \in 0 .. MaxDecisions
    BY <1>0
  <2> QED BY <2>1, <1>6, Zenon
<1>9. ASSUME NEW n \in 1 .. MaxDecisions PROVE go[n] = Decide(tree, m, forced, n, go[n - 1])
  <2>1. n \in 0 .. MaxDecisions /\ n # 0
    BY <1>0
  <2> QED BY <2>1, <1>6, Zenon
<1> QED BY <1>7, <1>8, <1>9

(* run_op makes decisions until none is left.                              *)
LEMMA RunOpComplete ==
    ASSUME cfg \in Configurations, NEW tree \in Trees, NEW m \in Nat, NEW forced \in Seq(Children)
    PROVE  Complete(tree, m, forced, run_op(tree, m, forced))
<1>1. PICK f : /\ f[0] = <<>>
               /\ \A n \in 1 .. MaxDecisions : f[n] = Decide(tree, m, forced, n, f[n - 1])
               /\ run_op(tree, m, forced) = f[MaxDecisions]
  BY RunOpLoop
<1> DEFINE Good(n) == /\ f[n] \in Seq(Decisions) /\ Len(f[n]) <= n
                      /\ Made(tree, m, forced, f[n])
                      /\ Len(f[n]) < n => Legal(Context(tree, m, Chosen(f[n]))) = {}
           S == {n \in Nat : n <= MaxDecisions => Good(n)}
<1>2. 0 \in S
  <2>1. Made(tree, m, forced, <<>>) /\ <<>> \in Seq(Decisions)
    BY DEF Made
  <2>2. Len(<<>>) <= 0 /\ ~(Len(<<>>) < 0) /\ 0 \in Nat
    OBVIOUS
  <2> QED BY <2>1, <2>2, <1>1, Zenon
<1>3. ASSUME NEW k \in Nat, k \in S PROVE k + 1 \in S
  <2> SUFFICES ASSUME k + 1 <= MaxDecisions PROVE Good(k + 1)
    OBVIOUS
  <2>1. Good(k)
    BY <1>3, OracleAssumption
  <2>2. k + 1 \in 1 .. MaxDecisions /\ (k + 1) - 1 = k /\ k + 1 \in Nat \ {0}
    BY OracleAssumption
  <2>3. f[k + 1] = Decide(tree, m, forced, k + 1, f[k])
    BY <2>2, <1>1
  <2> DEFINE ds == f[k]
  <2>4. ds \in Seq(Decisions) /\ Len(ds) <= (k + 1) - 1
    BY <2>1, <2>2
  <2> HIDE DEF ds
  <2>5. LET es == Decide(tree, m, forced, k + 1, ds)
        IN /\ es \in Seq(Decisions) /\ Len(es) <= k + 1
           /\ Made(tree, m, forced, ds) => Made(tree, m, forced, es)
           /\ (Len(ds) < (k + 1) - 1 => Legal(Context(tree, m, Chosen(ds))) = {})
                 => (Len(es) < k + 1 => Legal(Context(tree, m, Chosen(es))) = {})
    BY <2>2, <2>4, DecideMade
  <2> QED BY <2>1, <2>2, <2>3, <2>5, Zenon DEF ds
<1>4. Good(MaxDecisions)
  <2>1. MaxDecisions \in Nat /\ MaxDecisions <= MaxDecisions
    BY OracleAssumption
  <2>2. MaxDecisions \in S
    <3> HIDE DEF S
    <3> QED BY <2>1, <1>2, <1>3, SetInduction
  <2> QED BY <2>1, <2>2
<1> DEFINE ds == f[MaxDecisions]
<1>5. Legal(Context(tree, m, Chosen(ds))) = {}
  <2>1. CASE Len(ds) < MaxDecisions
    BY <2>1, <1>4
  <2>2. CASE ~(Len(ds) < MaxDecisions)
    <3>1. ds \in Seq(Decisions)
      BY <1>4
    <3>2. Len(ds) = MaxDecisions
      BY <3>1, <2>2, <1>4, OracleAssumption
    <3> HIDE DEF ds
    <3>3. Chosen(ds) \in Seq(Children) /\ Len(Chosen(ds)) = MaxDecisions
      BY <3>1, <3>2, ChosenIs
    <3> QED BY <3>3, ContextTyped
  <2> QED BY <2>1, <2>2
<1> QED BY <1>1, <1>4, <1>5 DEF Complete

(* Decisions ds are as g forces them, and then greedy, up to the k-th.     *)
Obeys(ds, g, k) ==
    \A n \in 1 .. k : ds[n].choice = IF n <= Len(g) THEN g[n] ELSE pick(ds[n].ctx)

(* Decisions es are ds up to the k-th, and go on in the same context.      *)
Starts(es, ds, k) ==
    /\ k <= Len(es) /\ \A n \in 1 .. k : ds[n] = es[n]
    /\ k + 1 <= Len(ds) => k + 1 <= Len(es) /\ es[k + 1].ctx = ds[k + 1].ctx

(* Decisions that agree in their first k choices agree in what follows     *)
(* from them.                                                              *)
LEMMA CompletePrefix ==
    ASSUME NEW tree, NEW m, NEW f, NEW g, NEW ds, NEW es,
           Complete(tree, m, f, ds), Complete(tree, m, g, es), NEW last \in 0 .. Len(ds),
           Obeys(ds, g, last)
    PROVE  Starts(es, ds, last)
<1>0. \A j \in 1 .. last : ds[j].choice = IF j <= Len(g) THEN g[j] ELSE pick(ds[j].ctx)
  BY DEF Obeys
<1>1. /\ ds \in Seq(Decisions) /\ es \in Seq(Decisions) /\ Len(ds) \in Nat /\ Len(es) \in Nat
      /\ Legal(Context(tree, m, Chosen(ds))) = {} /\ Legal(Context(tree, m, Chosen(es))) = {}
      /\ Chosen(ds) = First(ds, Len(ds)) /\ Chosen(es) = First(es, Len(es))
  BY ChosenIs DEF Complete, Made
<1>2. \A j \in 1 .. Len(ds) : /\ ds[j].ctx = Context(tree, m, First(ds, j - 1))
                              /\ Legal(ds[j].ctx) # {}
  BY DEF Complete, Made
<1>3. \A j \in 1 .. Len(es) : /\ es[j].ctx = Context(tree, m, First(es, j - 1))
                              /\ Legal(es[j].ctx) # {}
                              /\ es[j].choice = IF j <= Len(g) THEN g[j] ELSE pick(es[j].ctx)
  BY DEF Complete, Made
<1>4. ASSUME NEW k \in Nat, k + 1 <= Len(ds), k <= Len(es), \A j \in 1 .. k : ds[j] = es[j]
      PROVE  k + 1 \in 1 .. Len(ds) /\ k + 1 \in 1 .. Len(es) /\ es[k + 1].ctx = ds[k + 1].ctx
  <2>1. First(ds, k) = First(es, k)
    BY <1>4, FirstSame
  <2>2. k + 1 \in 1 .. Len(ds) /\ (k + 1) - 1 = k
    BY <1>1, <1>4
  <2>3. ds[k + 1].ctx = Context(tree, m, First(es, k)) /\ Legal(ds[k + 1].ctx) # {}
    BY <2>1, <2>2, <1>2
  <2>4. Len(es) # k
    BY <2>3, <1>1
  <2>5. k + 1 \in 1 .. Len(es)
    BY <2>4, <1>1, <1>4
  <2> QED BY <2>2, <2>3, <2>5, <1>3
<1> DEFINE Agree(k) == k <= last => k <= Len(es) /\ \A j \in 1 .. k : ds[j] = es[j]
           S == {k \in Nat : Agree(k)}
<1>5. 0 \in S
  BY <1>1
<1>6. ASSUME NEW k \in Nat, k \in S PROVE k + 1 \in S
  <2> SUFFICES ASSUME k + 1 <= last
               PROVE  k + 1 <= Len(es) /\ \A j \in 1 .. k + 1 : ds[j] = es[j]
    OBVIOUS
  <2>0. last \in Nat /\ last <= Len(ds)
    BY <1>1
  <2>1. k <= Len(es) /\ \A j \in 1 .. k : ds[j] = es[j]
    BY <2>0, <1>1, <1>6
  <2>2. k + 1 <= Len(ds) /\ k + 1 \in 1 .. last
    BY <2>0, <1>1
  <2>3. k + 1 \in 1 .. Len(ds) /\ k + 1 \in 1 .. Len(es) /\ es[k + 1].ctx = ds[k + 1].ctx
    BY <2>1, <2>2, <1>4
  <2>4. es[k + 1].choice = ds[k + 1].choice
    BY <2>2, <2>3, <1>0, <1>3
  <2>5. ds[k + 1] \in Decisions /\ es[k + 1] \in Decisions
    BY <2>3, <1>1
  <2>6. ds[k + 1] = es[k + 1]
    BY <2>3, <2>4, <2>5 DEF Decisions
  <2> QED BY <2>1, <2>3, <2>6
<1>7. last \in Nat
  BY <1>1
<1>8. last \in S
  <2> HIDE DEF S
  <2> QED BY <1>5, <1>6, <1>7, SetInduction
<1>9. last <= Len(es) /\ \A j \in 1 .. last : ds[j] = es[j]
  BY <1>7, <1>8
<1>10. last + 1 <= Len(ds) => last + 1 <= Len(es) /\ es[last + 1].ctx = ds[last + 1].ctx
  BY <1>1, <1>4, <1>7, <1>9
<1> QED BY <1>9, <1>10 DEF Starts

(* There is only one way to make them.                                     *)
LEMMA CompleteUnique ==
    ASSUME NEW tree, NEW m, NEW f, NEW g, NEW ds, NEW es,
           Complete(tree, m, f, ds), Complete(tree, m, g, es), Follows(ds, g)
    PROVE  ds = es
<1>1. /\ ds \in Seq(Decisions) /\ es \in Seq(Decisions) /\ Len(ds) \in Nat /\ Len(es) \in Nat
      /\ Legal(Context(tree, m, Chosen(ds))) = {} /\ Chosen(ds) = First(ds, Len(ds))
  BY ChosenIs DEF Complete, Made
<1>2. Len(ds) \in 0 .. Len(ds)
  BY <1>1
<1>3. Obeys(ds, g, Len(ds))
  BY DEF Follows, Obeys
<1>4. Len(ds) <= Len(es) /\ \A j \in 1 .. Len(ds) : ds[j] = es[j]
  <2>1. Starts(es, ds, Len(ds))
    BY <1>2, <1>3, CompletePrefix
  <2> QED BY <2>1 DEF Starts
<1>5. Len(ds) = Len(es)
  <2> SUFFICES ASSUME Len(ds) < Len(es) PROVE FALSE
    BY <1>1, <1>4
  <2>1. Len(ds) + 1 \in 1 .. Len(es) /\ (Len(ds) + 1) - 1 = Len(ds)
    BY <1>1
  <2>2. First(ds, Len(ds)) = First(es, Len(ds))
    BY <1>4, FirstSame
  <2>3. /\ es[Len(ds) + 1].ctx = Context(tree, m, First(es, Len(ds)))
        /\ Legal(es[Len(ds) + 1].ctx) # {}
    BY <2>1 DEF Complete, Made
  <2> QED BY <2>2, <2>3, <1>1
<1> QED BY <1>1, <1>4, <1>5

(* run_op makes the same decisions when what is forced says the same.      *)
LEMMA RunOpSame ==
    ASSUME cfg \in Configurations, NEW tree \in Trees, NEW m \in Nat,
           NEW f \in Seq(Children), NEW g \in Seq(Children),
           Follows(run_op(tree, m, f), g)
    PROVE  run_op(tree, m, g) = run_op(tree, m, f)
<1> DEFINE ds == run_op(tree, m, f)
           es == run_op(tree, m, g)
<1>1. Complete(tree, m, f, ds) /\ Complete(tree, m, g, es)
  BY RunOpComplete
<1>2. Follows(ds, g)
  OBVIOUS
<1> HIDE DEF ds, es
<1>3. ds = es
  BY <1>1, <1>2, CompleteUnique
<1> QED BY <1>3 DEF ds, es

-----------------------------------------------------------------------------
(* Runs                                                                    *)

(* One operation of a run, from the state before it.                       *)
OneOp(n, forced, before) ==
    LET ds == run_op(before.tree, n - 1, SubSeq(forced, Len(before.ds) + 1, Len(forced)))
        done == After(before.tree, n - 1, ds)
    IN [tree |-> Settle(done, n - 1),
        cost |-> before.cost + (IF CommitDue(n - 1) THEN simulate_commit(done) ELSE 0),
        ds   |-> before.ds \o ds]

Started(tree) == [tree |-> tree, cost |-> 0, ds |-> <<>>]

(* f is the run, operation by operation.                                   *)
Stages(f, tree, from, to, forced) ==
    /\ f[from] = Started(tree)
    /\ \A n \in from + 1 .. to : f[n] = OneOp(n, forced, f[n - 1])
    /\ Run(tree, from, to, forced) = f[to]

(* The loop of a run has a value after every operation.                    *)
LEMMA RunLoop ==
    ASSUME NEW tree, NEW from \in Nat, NEW to \in Nat, from <= to, NEW forced
    PROVE  \E f : Stages(f, tree, from, to, forced)
<1> DEFINE Meets(f, k) == /\ f[from] = Started(tree)
                          /\ \A n \in from + 1 .. from + k : f[n] = OneOp(n, forced, f[n - 1])
           S == {k \in Nat : \E f : Meets(f, k)}
           G(f) == [n \in from .. to |-> IF n = from THEN Started(tree)
                                         ELSE OneOp(n, forced, f[n - 1])]
<1>1. 0 \in S
  <2>1. Meets([n \in from .. from |-> Started(tree)], 0)
    OBVIOUS
  <2> QED BY <2>1, Zenon
<1>2. ASSUME NEW k \in Nat, k \in S PROVE k + 1 \in S
  <2>1. PICK f : Meets(f, k)
    BY <1>2
  <2> DEFINE last == from + k + 1
             g == [n \in from .. last |-> IF n = last THEN OneOp(n, forced, f[from + k])
                                                      ELSE f[n]]
  <2>2. \A n \in from .. from + k : g[n] = f[n]
    OBVIOUS
  <2>3. g[last] = OneOp(last, forced, f[from + k])
    OBVIOUS
  <2> HIDE DEF g
  <2>4. g[from] = Started(tree)
    BY <2>1, <2>2
  <2>5. ASSUME NEW n \in from + 1 .. last PROVE g[n] = OneOp(n, forced, g[n - 1])
    <3>1. CASE n = last
      <4>1. n - 1 = from + k /\ from + k \in from .. from + k
        BY <3>1
      <4> QED BY <3>1, <4>1, <2>2, <2>3
    <3>2. CASE n # last
      <4>1. n \in from + 1 .. from + k /\ n \in from .. from + k /\ n - 1 \in from .. from + k
        BY <3>2
      <4>2. g[n] = f[n] /\ g[n - 1] = f[n - 1]
        BY <4>1, <2>2
      <4>3. f[n] = OneOp(n, forced, f[n - 1])
        BY <4>1, <2>1
      <4> QED BY <4>2, <4>3
    <3> QED BY <3>1, <3>2
  <2>6. Meets(g, k + 1) /\ k + 1 \in Nat
    <3>1. last = from + (k + 1)
      OBVIOUS
    <3> HIDE DEF last
    <3> QED BY <3>1, <2>4, <2>5
  <2> QED BY <2>6, Zenon
<1>3. to - from \in Nat /\ from + (to - from) = to
  OBVIOUS
<1>4. to - from \in S
  <2> HIDE DEF S
  <2> QED BY <1>1, <1>2, <1>3, SetInduction
<1>5. PICK f : Meets(f, to - from)
  BY <1>4
<1>6. f[from] = Started(tree) /\ \A n \in from + 1 .. to : f[n] = OneOp(n, forced, f[n - 1])
  BY <1>3, <1>5
<1> HIDE DEF Meets
<1> DEFINE r == [n \in from .. to |-> f[n]]
           run == CHOOSE h : h = G(h)
<1>7. r = G(r)
  <2>1. ASSUME NEW n \in from .. to
        PROVE  f[n] = IF n = from THEN Started(tree) ELSE OneOp(n, forced, r[n - 1])
    <3>1. CASE n = from
      BY <3>1, <1>6
    <3>2. CASE n # from
      <4>1. n \in from + 1 .. to /\ n - 1 \in from .. to
        BY <3>2
      <4>2. r[n - 1] = f[n - 1]
        BY <4>1, Zenon
      <4>3. f[n] = OneOp(n, forced, f[n - 1])
        BY <4>1, <1>6
      <4> QED BY <4>2, <4>3, <3>2, Zenon
    <3> QED BY <3>1, <3>2
  <2> QED BY <2>1, Zenon
<1>8. run = G(run)
  <2> HIDE DEF G, r
  <2> QED BY <1>7, Zenon
<1>9. Run(tree, from, to, forced) = run[to]
  BY Zenon DEF Run, OneOp, Started
<1> HIDE DEF run
<1>10. run[from] = Started(tree)
  <2>1. from \in from .. to
    OBVIOUS
  <2> QED BY <2>1, <1>8, Zenon
<1>11. ASSUME NEW n \in from + 1 .. to PROVE run[n] = OneOp(n, forced, run[n - 1])
  <2>1. n \in from .. to /\ n # from
    OBVIOUS
  <2> QED BY <2>1, <1>8, Zenon
<1> QED BY <1>9, <1>10, <1>11 DEF Stages

(* A run of no operation.                                                  *)
LEMMA RunStart ==
    ASSUME NEW tree, NEW from \in Nat, NEW forced
    PROVE  Run(tree, from, from, forced) = Started(tree)
<1>1. from <= from
  OBVIOUS
<1>2. PICK f : Stages(f, tree, from, from, forced)
  BY <1>1, RunLoop
<1> QED BY <1>2 DEF Stages

(* A run of one operation more.                                            *)
LEMMA RunNext ==
    ASSUME NEW tree, NEW from \in Nat, NEW to \in Nat, from <= to, NEW forced
    PROVE  Run(tree, from, to + 1, forced) = OneOp(to + 1, forced, Run(tree, from, to, forced))
<1>1. PICK f : Stages(f, tree, from, to, forced)
  BY RunLoop
<1>2. to + 1 \in Nat /\ from <= to + 1
  OBVIOUS
<1>3. PICK g : Stages(g, tree, from, to + 1, forced)
  BY <1>2, RunLoop
<1> DEFINE S == {k \in Nat : from + k <= to => f[from + k] = g[from + k]}
<1>4. 0 \in S
  BY <1>1, <1>3 DEF Stages
<1>5. ASSUME NEW k \in Nat, k \in S PROVE k + 1 \in S
  <2> SUFFICES ASSUME from + (k + 1) <= to PROVE f[from + (k + 1)] = g[from + (k + 1)]
    OBVIOUS
  <2> DEFINE n == from + (k + 1)
  <2>1. n \in from + 1 .. to /\ n \in from + 1 .. to + 1 /\ n - 1 = from + k /\ from + k <= to
    OBVIOUS
  <2>2. f[n - 1] = g[n - 1]
    BY <2>1, <1>5
  <2> HIDE DEF n
  <2>3. f[n] = OneOp(n, forced, f[n - 1]) /\ g[n] = OneOp(n, forced, g[n - 1])
    BY <2>1, <1>1, <1>3 DEF Stages
  <2>4. f[n] = g[n]
    BY <2>2, <2>3
  <2> QED BY <2>4 DEF n
<1>6. to - from \in S
  <2>1. to - from \in Nat
    OBVIOUS
  <2> HIDE DEF S
  <2> QED BY <2>1, <1>4, <1>5, SetInduction
<1>7. f[to] = g[to]
  BY <1>6
<1>8. to + 1 \in from + 1 .. to + 1 /\ (to + 1) - 1 = to
  OBVIOUS
<1> QED BY <1>1, <1>3, <1>7, <1>8 DEF Stages


Runs == [tree : Trees, cost : Nat, ds : Seq(Decisions)]

(* What is forced after the first k decisions.                             *)
Rest(forced, k) == SubSeq(forced, k + 1, Len(forced))

(* The rest of a sequence, which is empty when it ends before.             *)
LEMMA RestIs ==
    ASSUME NEW s \in Seq(Children), NEW k \in Nat
    PROVE  /\ Rest(s, k) \in Seq(Children)
           /\ Len(Rest(s, k)) = IF k <= Len(s) THEN Len(s) - k ELSE 0
           /\ \A n \in 1 .. Len(Rest(s, k)) : Rest(s, k)[n] = s[k + n]
<1>1. CASE k + 1 <= Len(s)
  BY <1>1 DEF Rest
<1>2. CASE ~(k + 1 <= Len(s))
  <2>1. Rest(s, k) = <<>>
    BY <1>2 DEF Rest
  <2> QED BY <1>2, <2>1
<1> QED BY <1>1, <1>2

(* Nothing is left of nothing.                                             *)
LEMMA RestEmpty ==
    ASSUME NEW s \in Seq(Children), NEW k \in Nat, Len(s) <= k
    PROVE  Rest(s, k) = <<>>
<1>1. Rest(s, k) \in Seq(Children) /\ Len(Rest(s, k)) = 0
  BY RestIs
<1> QED BY <1>1

(* The rest of the rest.                                                   *)
LEMMA RestRest ==
    ASSUME NEW s \in Seq(Children), NEW k \in Nat, NEW n \in Nat
    PROVE  Rest(Rest(s, k), n) = Rest(s, k + n)
<1> DEFINE u == Rest(s, k)
           v == Rest(u, n)
           w == Rest(s, k + n)
<1>1. k + n \in Nat /\ Len(s) \in Nat
  OBVIOUS
<1>2. /\ u \in Seq(Children) /\ Len(u) = IF k <= Len(s) THEN Len(s) - k ELSE 0
      /\ \A j \in 1 .. Len(u) : u[j] = s[k + j]
  BY RestIs
<1>3. /\ w \in Seq(Children) /\ Len(w) = IF k + n <= Len(s) THEN Len(s) - (k + n) ELSE 0
      /\ \A j \in 1 .. Len(w) : w[j] = s[(k + n) + j]
  BY <1>1, RestIs
<1> HIDE DEF u
<1>4. /\ v \in Seq(Children) /\ Len(v) = IF n <= Len(u) THEN Len(u) - n ELSE 0
      /\ \A j \in 1 .. Len(v) : v[j] = u[n + j]
  BY <1>2, RestIs
<1> HIDE DEF v, w
<1>5. Len(v) = Len(w)
  BY <1>1, <1>2, <1>3, <1>4
<1>6. ASSUME NEW j \in 1 .. Len(v) PROVE v[j] = w[j]
  <2>1. n + j \in 1 .. Len(u) /\ k + (n + j) = (k + n) + j
    BY <1>1, <1>2, <1>4
  <2>2. v[j] = s[(k + n) + j]
    BY <2>1, <1>2, <1>4
  <2> QED BY <2>2, <1>3, <1>5
<1>7. v = w
  <2>1. v = [j \in 1 .. Len(v) |-> v[j]] /\ w = [j \in 1 .. Len(w) |-> w[j]]
    BY <1>3, <1>4
  <2> QED BY <2>1, <1>5, <1>6
<1> QED BY <1>7 DEF u, v, w

(* The rest of a concatenation after its first part.                       *)
LEMMA RestOf ==
    ASSUME NEW a \in Seq(Children), NEW b \in Seq(Children)
    PROVE  Rest(a \o b, Len(a)) = b
<1> DEFINE s == a \o b
           u == Rest(s, Len(a))
<1>1. /\ s \in Seq(Children) /\ Len(s) = Len(a) + Len(b) /\ Len(a) \in Nat /\ Len(b) \in Nat
      /\ \A n \in 1 .. Len(b) : s[Len(a) + n] = b[n]
  OBVIOUS
<1> HIDE DEF s
<1>2. /\ u \in Seq(Children) /\ Len(u) = IF Len(a) <= Len(s) THEN Len(s) - Len(a) ELSE 0
      /\ \A n \in 1 .. Len(u) : u[n] = s[Len(a) + n]
  BY <1>1, RestIs
<1> HIDE DEF u
<1>3. Len(u) = Len(b)
  BY <1>1, <1>2
<1>4. u = b
  BY <1>1, <1>2, <1>3
<1> QED BY <1>4 DEF u, s

(* Decisions follow in two parts.                                          *)
LEMMA FollowsConcat ==
    ASSUME NEW a \in Seq(Decisions), NEW b \in Seq(Decisions), NEW g \in Seq(Children)
    PROVE  Follows(a \o b, g) <=> Follows(a, g) /\ Follows(b, Rest(g, Len(a)))
<1> DEFINE s == a \o b
           u == Rest(g, Len(a))
<1>1. /\ Len(s) = Len(a) + Len(b) /\ Len(a) \in Nat /\ Len(b) \in Nat /\ Len(g) \in Nat
      /\ \A n \in 1 .. Len(a) : s[n] = a[n]
      /\ \A n \in 1 .. Len(b) : s[Len(a) + n] = b[n]
  OBVIOUS
<1>2. /\ Len(u) = IF Len(a) <= Len(g) THEN Len(g) - Len(a) ELSE 0
      /\ \A n \in 1 .. Len(u) : u[n] = g[Len(a) + n]
  BY <1>1, RestIs
<1> HIDE DEF s, u
<1>3. ASSUME Follows(s, g) PROVE Follows(a, g)
  <2> SUFFICES ASSUME NEW j \in 1 .. Len(a)
               PROVE  a[j].choice = IF j <= Len(g) THEN g[j] ELSE pick(a[j].ctx)
    BY DEF Follows
  <2>1. j \in 1 .. Len(s) /\ s[j] = a[j]
    BY <1>1
  <2> QED BY <2>1, <1>3 DEF Follows
<1>4. ASSUME NEW j \in 1 .. Len(b)
      PROVE  /\ Len(a) + j \in 1 .. Len(s) /\ s[Len(a) + j] = b[j]
             /\ j <= Len(u) <=> Len(a) + j <= Len(g)
             /\ j <= Len(u) => u[j] = g[Len(a) + j]
  BY <1>1, <1>2
<1>5. ASSUME Follows(s, g) PROVE Follows(b, u)
  <2> SUFFICES ASSUME NEW j \in 1 .. Len(b)
               PROVE  b[j].choice = IF j <= Len(u) THEN u[j] ELSE pick(b[j].ctx)
    BY DEF Follows
  <2>1. s[Len(a) + j].choice = IF Len(a) + j <= Len(g) THEN g[Len(a) + j]
                               ELSE pick(s[Len(a) + j].ctx)
    BY <1>4, <1>5 DEF Follows
  <2> QED BY <2>1, <1>4
<1>6. ASSUME Follows(a, g), Follows(b, u) PROVE Follows(s, g)
  <2> SUFFICES ASSUME NEW n \in 1 .. Len(s)
               PROVE  s[n].choice = IF n <= Len(g) THEN g[n] ELSE pick(s[n].ctx)
    BY DEF Follows
  <2>1. CASE n <= Len(a)
    <3>1. n \in 1 .. Len(a) /\ s[n] = a[n]
      BY <2>1, <1>1
    <3> QED BY <3>1, <1>6 DEF Follows
  <2>2. CASE ~(n <= Len(a))
    <3> DEFINE j == n - Len(a)
    <3>1. j \in 1 .. Len(b) /\ Len(a) + j = n
      BY <2>2, <1>1
    <3> HIDE DEF j
    <3>2. b[j].choice = IF j <= Len(u) THEN u[j] ELSE pick(b[j].ctx)
      BY <3>1, <1>6 DEF Follows
    <3> QED BY <3>1, <3>2, <1>4
  <2> QED BY <2>1, <2>2
<1> QED BY <1>3, <1>5, <1>6 DEF s, u


(* An operation and the commit after it leave a tree.                      *)
LEMMA AfterTyped ==
    ASSUME NEW tree \in Trees, NEW m \in Nat, NEW ds \in Seq(Decisions)
    PROVE  /\ After(tree, m, ds) \in Trees /\ After(tree, m, ds) # <<>>
           /\ Settle(After(tree, m, ds), m) \in Trees
           /\ Front(After(tree, m, ds)) = tree
<1>1. Chosen(ds) \in Seq(Nat)
  BY ChosenIs, SeqWider, OracleAssumption
<1>2. <<m>> \o Chosen(ds) \in Seq(Nat) /\ Commit \in Seq(Nat)
  BY <1>1, OracleAssumption DEF Commit
<1> DEFINE e == <<m>> \o Chosen(ds)
           done == Append(tree, e)
<1>3. After(tree, m, ds) = done
  BY DEF After
<1> HIDE DEF e
<1>4. done \in Trees /\ done # <<>> /\ Front(done) = tree
  BY <1>2 DEF Trees, e, Front
<1> HIDE DEF done
<1>5. Settle(done, m) \in Trees
  BY <1>2, <1>4 DEF Settle, Trees
<1> QED BY <1>3, <1>4, <1>5

(* What a commit costs is a number, and 1 right after a commit.            *)
LEMMA CostTyped ==
    ASSUME cfg \in Configurations, NEW tree \in Trees
    PROVE  /\ simulate_commit(tree) \in Nat
           /\ simulate_commit(Append(tree, Commit)) = 1
<1>1. Hash(tree, <<>>) \in Nat
  <2>1. <<>> \in Seq(Nat)
    OBVIOUS
  <2> QED BY <2>1, HashTyped
<1>2. Hash(tree, <<>>) % 5 \in Nat
  BY <1>1
<1>3. Last(Append(tree, Commit)) = Commit
  BY DEF Last, Trees
<1> QED BY <1>2, <1>3 DEF simulate_commit

(* One operation takes a run to a run.                                     *)
LEMMA OneOpIs ==
    ASSUME cfg \in Configurations, NEW n \in Nat, NEW forced \in Seq(Children), NEW before \in Runs
    PROVE  LET ds == run_op(before.tree, n, Rest(forced, Len(before.ds)))
               done == After(before.tree, n, ds)
               next == OneOp(n + 1, forced, before)
           IN /\ ds \in Seq(Decisions) /\ next \in Runs
              /\ next.tree = Settle(done, n)
              /\ next.cost = before.cost + (IF CommitDue(n) THEN simulate_commit(done) ELSE 0)
              /\ next.ds = before.ds \o ds
<1> DEFINE rest == Rest(forced, Len(before.ds))
           ds == run_op(before.tree, n, rest)
           done == After(before.tree, n, ds)
           tree == Settle(done, n)
           cost == before.cost + (IF CommitDue(n) THEN simulate_commit(done) ELSE 0)
           next == OneOp(n + 1, forced, before)
<1>1. before.tree \in Trees /\ before.cost \in Nat /\ before.ds \in Seq(Decisions)
  BY DEF Runs
<1>2. rest \in Seq(Children)
  <2>1. Len(before.ds) \in Nat
    BY <1>1
  <2> QED BY <2>1, RestIs
<1>3. (n + 1) - 1 = n
  OBVIOUS
<1>4. next = [tree |-> tree, cost |-> cost, ds |-> before.ds \o ds]
  BY <1>3 DEF OneOp, Rest
<1> HIDE DEF rest, next
<1>5. ds \in Seq(Decisions)
  BY <1>1, <1>2, RunOpComplete DEF Complete, Made
<1> HIDE DEF ds
<1>6. done \in Trees /\ tree \in Trees
  BY <1>1, <1>5, AfterTyped
<1> HIDE DEF done
<1>7. simulate_commit(done) \in Nat
  BY <1>6, CostTyped
<1>8. cost \in Nat /\ before.ds \o ds \in Seq(Decisions)
  BY <1>1, <1>5, <1>7
<1> HIDE DEF tree, cost
<1>9. /\ next \in Runs /\ next.tree = tree /\ next.cost = cost /\ next.ds = before.ds \o ds
  BY <1>4, <1>6, <1>8 DEF Runs
<1> QED BY <1>5, <1>9, Zenon DEF rest, ds, done, tree, cost, next

(* Every run has a tree, a cost and decisions, the ones that were forced.  *)
LEMMA RunTyped ==
    ASSUME cfg \in Configurations, NEW tree \in Trees, NEW from \in Nat, NEW to \in Nat, from <= to,
           NEW forced \in Seq(Children)
    PROVE  Run(tree, from, to, forced) \in Runs /\ Follows(Run(tree, from, to, forced).ds, forced)
<1> DEFINE R(k) == Run(tree, from, from + k, forced)
           S == {k \in Nat : R(k) \in Runs /\ Follows(R(k).ds, forced)}
<1>1. 0 \in S
  <2>1. R(0) = Started(tree)
    <3>1. from + 0 = from
      OBVIOUS
    <3> QED BY <3>1, RunStart
  <2>2. Started(tree) \in Runs /\ Started(tree).ds = <<>>
    BY DEF Started, Runs
  <2>3. Follows(<<>>, forced)
    BY DEF Follows
  <2> HIDE DEF R
  <2> QED BY <2>1, <2>2, <2>3
<1>2. ASSUME NEW k \in Nat, k \in S PROVE k + 1 \in S
  <2> DEFINE before == R(k)
             n == from + k
             ds == run_op(before.tree, n, Rest(forced, Len(before.ds)))
  <2>1. before \in Runs /\ Follows(before.ds, forced)
    BY <1>2
  <2>2. R(k + 1) = OneOp(n + 1, forced, before)
    <3>1. from + (k + 1) = n + 1 /\ n \in Nat /\ from <= n
      OBVIOUS
    <3> HIDE DEF n
    <3>2. Run(tree, from, n + 1, forced) = OneOp(n + 1, forced, Run(tree, from, n, forced))
      BY <3>1, RunNext
    <3> QED BY <3>1, <3>2 DEF n
  <2>3. n \in Nat
    OBVIOUS
  <2> HIDE DEF R, before, n
  <2>4. ds \in Seq(Decisions) /\ OneOp(n + 1, forced, before) \in Runs
        /\ OneOp(n + 1, forced, before).ds = before.ds \o ds
    BY <2>1, <2>3, OneOpIs
  <2>5. before.tree \in Trees /\ before.ds \in Seq(Decisions)
    BY <2>1 DEF Runs
  <2>6. Rest(forced, Len(before.ds)) \in Seq(Children)
    <3>1. Len(before.ds) \in Nat
      BY <2>5
    <3> QED BY <3>1, RestIs
  <2>7. Follows(ds, Rest(forced, Len(before.ds)))
    <3>1. Complete(before.tree, n, Rest(forced, Len(before.ds)), ds)
      BY <2>3, <2>5, <2>6, RunOpComplete
    <3> HIDE DEF ds
    <3> QED BY <3>1 DEF Complete, Made, Follows
  <2> HIDE DEF ds
  <2>8. Follows(before.ds \o ds, forced)
    BY <2>1, <2>4, <2>5, <2>7, FollowsConcat
  <2>9. R(k + 1) \in Runs /\ Follows(R(k + 1).ds, forced)
    BY <2>2, <2>4, <2>8
  <2> QED BY <2>9
<1>3. to - from \in Nat /\ from + (to - from) = to
  OBVIOUS
<1>4. to - from \in S
  <2> HIDE DEF S
  <2> QED BY <1>1, <1>2, <1>3, SetInduction
<1> QED BY <1>3, <1>4


(* A run makes the same decisions, and costs the same, when what is forced *)
(* says the same.                                                          *)
LEMMA RunSame ==
    ASSUME cfg \in Configurations, NEW tree \in Trees, NEW from \in Nat, NEW to \in Nat, from <= to,
           NEW f \in Seq(Children), NEW g \in Seq(Children),
           Follows(Run(tree, from, to, f).ds, g)
    PROVE  Run(tree, from, to, g) = Run(tree, from, to, f)
<1> DEFINE R(k) == Run(tree, from, from + k, f)
           Q(k) == Run(tree, from, from + k, g)
           S == {k \in Nat : Follows(R(k).ds, g) => Q(k) = R(k)}
<1>1. 0 \in S
  <2>1. from + 0 = from
    OBVIOUS
  <2> QED BY <2>1, RunStart
<1>2. ASSUME NEW k \in Nat, k \in S PROVE k + 1 \in S
  <2> SUFFICES ASSUME Follows(R(k + 1).ds, g) PROVE Q(k + 1) = R(k + 1)
    OBVIOUS
  <2> DEFINE n == from + k
             before == R(k)
             rf == Rest(f, Len(before.ds))
             rg == Rest(g, Len(before.ds))
             ds == run_op(before.tree, n, rf)
  <2>1. n \in Nat /\ from <= n /\ from + (k + 1) = n + 1
    OBVIOUS
  <2>2. before \in Runs
    BY <2>1, RunTyped
  <2>3. R(k + 1) = OneOp(n + 1, f, before) /\ Q(k + 1) = OneOp(n + 1, g, Q(k))
    <3> HIDE DEF n
    <3>1. /\ Run(tree, from, n + 1, f) = OneOp(n + 1, f, Run(tree, from, n, f))
          /\ Run(tree, from, n + 1, g) = OneOp(n + 1, g, Run(tree, from, n, g))
      BY <2>1, RunNext
    <3> QED BY <3>1, <2>1 DEF n
  <2>4. k \in S
    BY <1>2
  <2> HIDE DEF n, before
  <2>5. before.tree \in Trees /\ before.ds \in Seq(Decisions) /\ Len(before.ds) \in Nat
    BY <2>2 DEF Runs
  <2>6. rf \in Seq(Children) /\ rg \in Seq(Children)
    BY <2>5, RestIs
  <2>7. ds \in Seq(Decisions) /\ OneOp(n + 1, f, before).ds = before.ds \o ds
    BY <2>1, <2>2, OneOpIs
  <2>8. Follows(before.ds, g) /\ Follows(ds, rg)
    <3>1. Follows(before.ds \o ds, g)
      BY <2>3, <2>7
    <3> HIDE DEF ds
    <3> QED BY <3>1, <2>5, <2>7, FollowsConcat
  <2>9. Q(k) = before
    BY <2>4, <2>8 DEF before
  <2>10. run_op(before.tree, n, rg) = ds
    <3> HIDE DEF rf, rg
    <3> QED BY <2>8, <2>1, <2>5, <2>6, RunOpSame
  <2>11. (n + 1) - 1 = n
    BY <2>1
  <2>12. OneOp(n + 1, g, before) = OneOp(n + 1, f, before)
    BY <2>10, <2>11 DEF OneOp, Rest
  <2> HIDE DEF R, Q
  <2> QED BY <2>3, <2>9, <2>12
<1>3. to - from \in Nat /\ from + (to - from) = to
  OBVIOUS
<1>4. to - from \in S
  <2> HIDE DEF S
  <2> QED BY <1>1, <1>2, <1>3, SetInduction
<1> QED BY <1>3, <1>4

(* One run after another.                                                  *)
Joined(a, b) == [tree |-> b.tree, cost |-> a.cost + b.cost, ds |-> a.ds \o b.ds]

(* A run can be cut at any operation: what comes after starts from the     *)
(* tree that was reached, with what is still forced.                       *)
LEMMA RunSplit ==
    ASSUME cfg \in Configurations, NEW tree \in Trees, NEW from \in Nat, NEW mid \in Nat, NEW to \in Nat,
           from <= mid, mid <= to, NEW f \in Seq(Children)
    PROVE  LET a == Run(tree, from, mid, f)
           IN Run(tree, from, to, f) = Joined(a, Run(a.tree, mid, to, Rest(f, Len(a.ds))))
<1> DEFINE a == Run(tree, from, mid, f)
           r == Rest(f, Len(a.ds))
           W(k) == Run(tree, from, mid + k, f)
           B(k) == Run(a.tree, mid, mid + k, r)
           S == {k \in Nat : W(k) = Joined(a, B(k))}
<1>0. a \in Runs
  BY RunTyped
<1>1. a.tree \in Trees /\ a.cost \in Nat /\ a.ds \in Seq(Decisions) /\ Len(a.ds) \in Nat
  BY <1>0 DEF Runs
<1>2. r \in Seq(Children)
  BY <1>1, RestIs
<1>3. 0 \in S
  <2>1. mid + 0 = mid
    OBVIOUS
  <2>2. B(0) = Started(a.tree) /\ W(0) = a
    BY <2>1, RunStart
  <2>3. Joined(a, Started(a.tree)) = a
    <3>1. a.cost + 0 = a.cost /\ a.ds \o <<>> = a.ds
      BY <1>1
    <3>2. a = [tree |-> a.tree, cost |-> a.cost, ds |-> a.ds]
      BY <1>0 DEF Runs
    <3> HIDE DEF a
    <3> QED BY <3>1, <3>2, Zenon DEF Joined, Started
  <2> HIDE DEF W, B, a
  <2> QED BY <2>2, <2>3
<1>4. ASSUME NEW k \in Nat, k \in S PROVE k + 1 \in S
  <2> DEFINE n == mid + k
             b == B(k)
             w == W(k)
  <2>1. n \in Nat /\ from <= n /\ mid <= n /\ mid + (k + 1) = n + 1
    OBVIOUS
  <2>2. w = Joined(a, b)
    BY <1>4
  <2>3. b \in Runs /\ w \in Runs
    BY <2>1, <1>1, <1>2, RunTyped
  <2>4. W(k + 1) = OneOp(n + 1, f, w) /\ B(k + 1) = OneOp(n + 1, r, b)
    <3> HIDE DEF n, a, r
    <3>1. /\ Run(tree, from, n + 1, f) = OneOp(n + 1, f, Run(tree, from, n, f))
          /\ Run(a.tree, mid, n + 1, r) = OneOp(n + 1, r, Run(a.tree, mid, n, r))
      BY <2>1, RunNext
    <3> QED BY <3>1, <2>1 DEF n
  <2> HIDE DEF n, w, b, W, B, a
  <2> DEFINE ds == run_op(b.tree, n, Rest(r, Len(b.ds)))
             done == After(b.tree, n, ds)
             more == IF CommitDue(n) THEN simulate_commit(done) ELSE 0
  <2>5. b.tree \in Trees /\ b.cost \in Nat /\ b.ds \in Seq(Decisions) /\ Len(b.ds) \in Nat
    BY <2>3 DEF Runs
  <2>6. w.tree = b.tree /\ w.cost = a.cost + b.cost /\ w.ds = a.ds \o b.ds
    BY <2>2 DEF Joined
  <2>7. Rest(f, Len(w.ds)) = Rest(r, Len(b.ds))
    <3>1. Len(w.ds) = Len(a.ds) + Len(b.ds)
      BY <2>5, <2>6, <1>1
    <3>2. Rest(Rest(f, Len(a.ds)), Len(b.ds)) = Rest(f, Len(a.ds) + Len(b.ds))
      BY <2>5, <1>1, RestRest
    <3> QED BY <3>1, <3>2
  <2>8. /\ ds \in Seq(Decisions) /\ OneOp(n + 1, r, b) \in Runs
        /\ OneOp(n + 1, r, b).tree = Settle(done, n)
        /\ OneOp(n + 1, r, b).cost = b.cost + more
        /\ OneOp(n + 1, r, b).ds = b.ds \o ds
    BY <2>1, <2>3, <1>2, OneOpIs
  <2>9. /\ OneOp(n + 1, f, w) \in Runs
        /\ OneOp(n + 1, f, w).tree = Settle(done, n)
        /\ OneOp(n + 1, f, w).cost = w.cost + more
        /\ OneOp(n + 1, f, w).ds = w.ds \o ds
    <3> DEFINE es == run_op(w.tree, n, Rest(f, Len(w.ds)))
    <3>1. /\ OneOp(n + 1, f, w) \in Runs
          /\ OneOp(n + 1, f, w).tree = Settle(After(w.tree, n, es), n)
          /\ OneOp(n + 1, f, w).cost
                = w.cost + (IF CommitDue(n) THEN simulate_commit(After(w.tree, n, es)) ELSE 0)
          /\ OneOp(n + 1, f, w).ds = w.ds \o es
      BY <2>1, <2>3, OneOpIs
    <3>2. es = ds
      BY <2>6, <2>7
    <3> HIDE DEF es
    <3> QED BY <3>1, <3>2, <2>6, Zenon
  <2>10. more \in Nat
    <3>1. done \in Trees
      BY <2>1, <2>5, <2>8, AfterTyped
    <3> HIDE DEF done
    <3> QED BY <3>1, CostTyped
  <2> DEFINE v == OneOp(n + 1, f, w)
             c == OneOp(n + 1, r, b)
  <2> HIDE DEF ds, more, done, r
  <2>11. v.cost = a.cost + c.cost
    BY <2>5, <2>6, <2>8, <2>9, <2>10, <1>1
  <2>12. v.ds = a.ds \o c.ds
    <3>1. (a.ds \o b.ds) \o ds = a.ds \o (b.ds \o ds)
      <4>1. a.ds \in Seq(Decisions) /\ b.ds \in Seq(Decisions) /\ ds \in Seq(Decisions)
        BY <2>5, <2>8, <1>1
      <4>2. \A x, y, z \in Seq(Decisions) : (x \o y) \o z = x \o (y \o z)
        BY ConcatAssociative
      <4> QED BY <4>1, <4>2, Zenon
    <3> QED BY <3>1, <2>6, <2>8, <2>9
  <2>13. v.tree = c.tree /\ v = [tree |-> v.tree, cost |-> v.cost, ds |-> v.ds]
    BY <2>8, <2>9 DEF Runs
  <2> HIDE DEF v, c
  <2>14. v = Joined(a, c)
    BY <2>11, <2>12, <2>13, Zenon DEF Joined
  <2>15. W(k + 1) = Joined(a, B(k + 1))
    BY <2>4, <2>14 DEF v, c
  <2> QED BY <2>15
<1>5. to - mid \in Nat /\ mid + (to - mid) = to
  OBVIOUS
<1>6. to - mid \in S
  <2> HIDE DEF S
  <2> QED BY <1>3, <1>4, <1>5, SetInduction
<1> HIDE DEF a, r
<1>7. Run(tree, from, to, f) = Joined(a, Run(a.tree, mid, to, r))
  BY <1>5, <1>6
<1> QED BY <1>7 DEF a, r


(* Decisions follow their own choices, whatever is forced after them.      *)
LEMMA FollowsChosen ==
    ASSUME NEW a \in Seq(Decisions), NEW z \in Seq(Children)
    PROVE  Follows(a, Chosen(a) \o z) /\ Follows(a, Chosen(a))
<1>1. /\ Chosen(a) \in Seq(Children) /\ Len(Chosen(a)) = Len(a) /\ Len(a) \in Nat
      /\ \A n \in 1 .. Len(a) : Chosen(a)[n] = a[n].choice
  BY ChosenIs
<1> DEFINE c == Chosen(a)
           s == c \o z
<1> HIDE DEF c
<1>2. Len(c) = Len(a) /\ c \in Seq(Children) /\ \A n \in 1 .. Len(a) : c[n] = a[n].choice
  BY <1>1 DEF c
<1>3. Len(s) >= Len(a) /\ \A n \in 1 .. Len(a) : s[n] = a[n].choice
  BY <1>1, <1>2
<1> HIDE DEF s
<1>4. Follows(a, s) /\ Follows(a, c)
  BY <1>1, <1>2, <1>3 DEF Follows
<1> QED BY <1>4 DEF s, c

(* The choices of two parts.                                               *)
LEMMA ChosenConcat ==
    ASSUME NEW a \in Seq(Decisions), NEW b \in Seq(Decisions)
    PROVE  Chosen(a \o b) = Chosen(a) \o Chosen(b)
<1> DEFINE x == Chosen(a)
           y == Chosen(b)
           ab == a \o b
           z == Chosen(ab)
<1>1. /\ x \in Seq(Children) /\ Len(x) = Len(a) /\ \A n \in 1 .. Len(a) : x[n] = a[n].choice
      /\ y \in Seq(Children) /\ Len(y) = Len(b) /\ \A n \in 1 .. Len(b) : y[n] = b[n].choice
      /\ Len(a) \in Nat /\ Len(b) \in Nat
  BY ChosenIs
<1>2. ab \in Seq(Decisions)
  OBVIOUS
<1>3. /\ Len(ab) = Len(a) + Len(b) /\ \A n \in 1 .. Len(a) : ab[n] = a[n]
      /\ \A n \in (Len(a) + 1) .. Len(ab) : ab[n] = b[n - Len(a)]
  OBVIOUS
<1> HIDE DEF ab, x, y
<1>4. z \in Seq(Children) /\ Len(z) = Len(ab) /\ \A n \in 1 .. Len(ab) : z[n] = ab[n].choice
  BY <1>2, ChosenIs
<1> HIDE DEF z
<1> DEFINE w == x \o y
<1>5. /\ w \in Seq(Children) /\ Len(w) = Len(ab) /\ \A n \in 1 .. Len(a) : w[n] = x[n]
      /\ \A n \in (Len(a) + 1) .. Len(ab) : w[n] = y[n - Len(a)]
  <2>1. x \in Seq(Children) /\ y \in Seq(Children)
    BY <1>1
  <2>2. /\ w \in Seq(Children) /\ Len(w) = Len(x) + Len(y) /\ \A n \in 1 .. Len(x) : w[n] = x[n]
        /\ \A n \in (Len(x) + 1) .. Len(x) + Len(y) : w[n] = y[n - Len(x)]
    BY <2>1
  <2> QED BY <2>2, <1>1, <1>3
<1> HIDE DEF w
<1>6. ASSUME NEW n \in 1 .. Len(ab) PROVE z[n] = w[n]
  <2>1. CASE n <= Len(a)
    <3>1. n \in 1 .. Len(a)
      BY <2>1, <1>1
    <3> QED BY <3>1, <1>1, <1>3, <1>4, <1>5
  <2>2. CASE ~(n <= Len(a))
    <3>1. n \in (Len(a) + 1) .. Len(ab) /\ n - Len(a) \in 1 .. Len(b)
      BY <2>2, <1>1, <1>3
    <3> QED BY <3>1, <1>1, <1>3, <1>4, <1>5
  <2> QED BY <2>1, <2>2
<1>7. z = [n \in 1 .. Len(z) |-> z[n]] /\ w = [n \in 1 .. Len(w) |-> w[n]]
  BY <1>4, <1>5
<1>8. z = w
  BY <1>4, <1>5, <1>6, <1>7
<1> QED BY <1>8 DEF z, w, x, y, ab

(* Running operation m from where the script has led, and adding what was  *)
(* chosen to the script: the longer script leads to where the run is.      *)
LEMMA ScriptNext ==
    ASSUME cfg \in Configurations, NEW m \in Nat, NEW s \in Seq(Children),
           Chosen(Run(<<>>, 0, m, s).ds) = s, NEW f \in Seq(Children)
    PROVE  LET p  == Run(<<>>, 0, m, s)
               ds == run_op(p.tree, m, f)
               q  == Run(<<>>, 0, m + 1, s \o Chosen(ds))
           IN /\ q.tree = Settle(After(p.tree, m, ds), m)
              /\ q.ds = p.ds \o ds
              /\ Chosen(q.ds) = s \o Chosen(ds)
<1> DEFINE p == Run(<<>>, 0, m, s)
           ds == run_op(p.tree, m, f)
           z == s \o Chosen(ds)
           q == Run(<<>>, 0, m + 1, z)
<1>1. <<>> \in Trees /\ 0 \in Nat /\ 0 <= m
  BY DEF Trees
<1>2. p \in Runs
  BY <1>1, RunTyped
<1>3. p.tree \in Trees /\ p.ds \in Seq(Decisions) /\ Chosen(p.ds) = s
  BY <1>2 DEF Runs
<1>4. ds \in Seq(Decisions)
  <2> HIDE DEF p
  <2> QED BY <1>3, RunOpComplete DEF Complete, Made
<1>5. Chosen(ds) \in Seq(Children) /\ Len(s) = Len(p.ds) /\ Len(s) \in Nat
  <2> HIDE DEF p, ds
  <2> QED BY <1>3, <1>4, ChosenIs
<1>6. z \in Seq(Children)
  BY <1>5
<1>7. Follows(p.ds, z)
  <2> HIDE DEF p, ds
  <2> QED BY <1>3, <1>5, FollowsChosen
<1>8. Run(<<>>, 0, m, z) = p
  <2> HIDE DEF z
  <2> QED BY <1>1, <1>6, <1>7, RunSame
<1>9. q = OneOp(m + 1, z, p)
  <2> HIDE DEF z, p
  <2> QED BY <1>1, <1>8, RunNext
<1>10. Rest(z, Len(p.ds)) = Chosen(ds)
  <2> HIDE DEF p, ds
  <2> QED BY <1>5, RestOf
<1>11. run_op(p.tree, m, Chosen(ds)) = ds
  <2> DEFINE g == Chosen(ds)
  <2>1. Follows(ds, g)
    <3> HIDE DEF ds, p
    <3> QED BY <1>4, <1>5, FollowsChosen
  <2> HIDE DEF g, p
  <2>2. g \in Seq(Children)
    BY <1>5 DEF g
  <2>3. run_op(p.tree, m, g) = ds
    BY <2>1, <2>2, <1>3, RunOpSame
  <2> QED BY <2>3 DEF g
<1> HIDE DEF z, p, q
<1> DEFINE es == run_op(p.tree, m, Rest(z, Len(p.ds)))
<1>12. es = ds
  BY <1>10, <1>11
<1>13. OneOp(m + 1, z, p).tree = Settle(After(p.tree, m, es), m)
       /\ OneOp(m + 1, z, p).ds = p.ds \o es
  BY <1>2, <1>6, OneOpIs
<1> HIDE DEF es, ds
<1>14. q.tree = Settle(After(p.tree, m, ds), m) /\ q.ds = p.ds \o ds
  BY <1>9, <1>12, <1>13
<1>15. Chosen(q.ds) = z
  BY <1>3, <1>4, <1>14, ChosenConcat DEF z
<1> QED BY <1>14, <1>15 DEF p, ds, z, q


(* The whole run, cut at operation m.                                      *)
LEMMA AheadJoined ==
    ASSUME cfg \in Configurations, NEW m \in Nat, m < Ops, NEW s \in Seq(Children),
           Chosen(Run(<<>>, 0, m, s).ds) = s, NEW f \in Seq(Children)
    PROVE  LET p == Run(<<>>, 0, m, s)
           IN Run(<<>>, 0, Ops, s \o f) = Joined(p, Run(p.tree, m, Ops, f))
<1> DEFINE p == Run(<<>>, 0, m, s)
           sf == s \o f
<1>1. <<>> \in Trees /\ 0 \in Nat /\ 0 <= m /\ Ops \in Nat /\ m <= Ops
  BY OracleAssumption DEF Trees
<1>2. p \in Runs
  BY <1>1, RunTyped
<1>3. p.ds \in Seq(Decisions) /\ Chosen(p.ds) = s
  BY <1>2 DEF Runs
<1>4. Len(s) = Len(p.ds) /\ Follows(p.ds, sf)
  <2> HIDE DEF p
  <2> QED BY <1>3, ChosenIs, FollowsChosen
<1>5. sf \in Seq(Children) /\ Rest(sf, Len(p.ds)) = f
  BY <1>4, RestOf
<1>6. Run(<<>>, 0, m, sf) = p
  <2> HIDE DEF sf
  <2> QED BY <1>1, <1>4, <1>5, RunSame
<1>7. Run(<<>>, 0, Ops, sf) = Joined(p, Run(p.tree, m, Ops, f))
  <2> HIDE DEF sf, p
  <2> QED BY <1>1, <1>5, <1>6, RunSplit
<1> QED BY <1>7

(* Forcing decisions of operation m in another way that says the same      *)
(* leaves the whole run as it is.                                          *)
LEMMA AheadSame ==
    ASSUME cfg \in Configurations, NEW m \in Nat, m < Ops, NEW s \in Seq(Children),
           Chosen(Run(<<>>, 0, m, s).ds) = s, NEW f \in Seq(Children), NEW z \in Seq(Children),
           NEW ds, ds = run_op(Run(<<>>, 0, m, s).tree, m, f),
           Len(f) <= Len(ds), Len(z) <= Len(ds), Follows(ds, z)
    PROVE  Run(<<>>, 0, Ops, s \o z) = Run(<<>>, 0, Ops, s \o f)
<1> DEFINE p == Run(<<>>, 0, m, s)
           sf == s \o f
           sz == s \o z
           w == Run(<<>>, 0, Ops, sf)
           b == Run(p.tree, m, Ops, f)
           one == Run(p.tree, m, m + 1, f)
           c == Run(one.tree, m + 1, Ops, <<>>)
<1>1. <<>> \in Trees /\ 0 \in Nat /\ 0 <= m /\ Ops \in Nat /\ 0 <= Ops /\ m <= Ops /\ m <= m + 1
      /\ m + 1 <= Ops /\ m + 1 \in Nat /\ <<>> \in Seq(Children) /\ m <= m
  BY OracleAssumption DEF Trees
<1>2. p \in Runs
  BY <1>1, RunTyped
<1>3. p.tree \in Trees /\ p.ds \in Seq(Decisions) /\ Chosen(p.ds) = s /\ Len(p.ds) \in Nat
  BY <1>2 DEF Runs
<1>4. Len(s) = Len(p.ds)
  <2> HIDE DEF p
  <2> QED BY <1>3, ChosenIs
<1>5. sf \in Seq(Children) /\ sz \in Seq(Children)
  OBVIOUS
<1>6. Follows(p.ds, sf) /\ Follows(p.ds, sz)
  <2> HIDE DEF p
  <2> QED BY <1>3, FollowsChosen
<1>7. Rest(sf, Len(p.ds)) = f /\ Rest(sz, Len(p.ds)) = z
  BY <1>4, RestOf
<1>9. w = Joined(p, b)
  BY AheadJoined
<1>10. ds \in Seq(Decisions) /\ Len(ds) \in Nat
  <2>1. Complete(p.tree, m, f, ds)
    BY <1>3, RunOpComplete
  <2> QED BY <2>1 DEF Complete, Made
<1>11. one \in Runs /\ one.ds = ds
  <2> HIDE DEF p
  <2>1. one = OneOp(m + 1, f, Started(p.tree))
    BY <1>1, RunStart, RunNext
  <2>2. /\ Started(p.tree) \in Runs /\ Started(p.tree).tree = p.tree /\ Started(p.tree).ds = <<>>
    BY <1>3 DEF Started, Runs
  <2> DEFINE st == Started(p.tree)
  <2> HIDE DEF st, one
  <2>3. /\ OneOp(m + 1, f, st) \in Runs
        /\ OneOp(m + 1, f, st).ds = st.ds \o run_op(st.tree, m, Rest(f, Len(st.ds)))
    BY <2>2, OneOpIs DEF st
  <2>4. Rest(f, 0) = f
    <3>1. <<>> \o f = f
      OBVIOUS
    <3>2. Len(<<>>) = 0 /\ <<>> \in Seq(Children)
      OBVIOUS
    <3> QED BY <3>1, <3>2, RestOf
  <2>5. st.ds = <<>> /\ Len(st.ds) = 0 /\ st.tree = p.tree
    BY <2>2 DEF st
  <2>6. run_op(st.tree, m, Rest(f, Len(st.ds))) = ds
    BY <2>4, <2>5 DEF p
  <2>7. OneOp(m + 1, f, st).ds = ds
    BY <2>3, <2>5, <2>6, <1>10
  <2> QED BY <2>1, <2>3, <2>7 DEF st
<1>12. b = Joined(one, c)
  <2>1. Rest(f, Len(one.ds)) = <<>>
    <3> HIDE DEF one
    <3> QED BY <1>10, <1>11, RestEmpty
  <2> DEFINE q == p.tree
             k == m + 1
  <2>2. /\ q \in Trees /\ k \in Nat /\ Ops \in Nat /\ m <= k /\ k <= Ops
        /\ b = Run(q, m, Ops, f) /\ one = Run(q, m, k, f)
        /\ c = Run(one.tree, k, Ops, Rest(f, Len(one.ds)))
    BY <2>1, <1>1, <1>3
  <2> HIDE DEF q, k, b, c, one
  <2>3. Run(q, m, Ops, f)
          = Joined(Run(q, m, k, f), Run(Run(q, m, k, f).tree, k, Ops, Rest(f, Len(Run(q, m, k, f).ds))))
    BY <2>2, RunSplit
  <2> QED BY <2>2, <2>3
<1>13. c \in Runs /\ Follows(c.ds, <<>>)
  <2>1. one.tree \in Trees
    BY <1>11 DEF Runs
  <2> HIDE DEF one
  <2> QED BY <2>1, <1>1, RunTyped
<1> HIDE DEF p, b, one, c
<1>14. c.ds \in Seq(Decisions)
  BY <1>13 DEF Runs
<1>15. b.ds = ds \o c.ds /\ b.ds \in Seq(Decisions)
  <2>1. b.ds = one.ds \o c.ds
    BY <1>12 DEF Joined
  <2> QED BY <2>1, <1>10, <1>11, <1>14
<1>16. Rest(z, Len(ds)) = <<>>
  BY <1>10, RestEmpty
<1>17. Follows(b.ds, z)
  BY <1>10, <1>13, <1>14, <1>15, <1>16, FollowsConcat
<1>18. Follows(w.ds, sz)
  <2>1. Follows(p.ds \o b.ds, sz)
    <3> HIDE DEF sz
    <3> QED BY <1>3, <1>5, <1>6, <1>7, <1>15, <1>17, FollowsConcat
  <2> HIDE DEF w
  <2> QED BY <2>1, <1>9 DEF Joined
<1> HIDE DEF sf, sz
<1>19. Run(<<>>, 0, Ops, sz) = Run(<<>>, 0, Ops, sf)
  BY <1>1, <1>5, <1>18, RunSame
<1> QED BY <1>19 DEF sf, sz


(* What a rollout that reaches the end of the run counts, from operation   *)
(* m on, tells the cost of the whole run: the one commit that it counts in *)
(* addition costs the same for every alternative.                          *)
LEMMA RolloutIs ==
    ASSUME cfg \in Configurations, NEW m \in Nat, m < Ops, cfg.window >= Ops - 1,
           NEW s \in Seq(Children), Chosen(Run(<<>>, 0, m, s).ds) = s, NEW f \in Seq(Children)
    PROVE  LET p == Run(<<>>, 0, m, s)
           IN /\ run_cost(s \o f) \in Nat /\ rollout_cost(p.tree, m, f) \in Nat
              /\ p.cost \in Nat
              /\ run_cost(s \o f) + (IF Ops % cfg.commit_interval # 0 THEN 0 ELSE 1)
                    = p.cost + rollout_cost(p.tree, m, f)
<1> DEFINE p == Run(<<>>, 0, m, s)
           b == Run(p.tree, m, Ops, f)
           w == Run(<<>>, 0, Ops, s \o f)
           last == Ops - 1
           e == Run(p.tree, m, last, f)
<1>1. <<>> \in Trees /\ 0 \in Nat /\ 0 <= m /\ Ops \in Nat /\ m <= Ops /\ last \in Nat
      /\ m <= last /\ last + 1 = Ops
  BY OracleAssumption DEF Trees
<1>2. p \in Runs
  BY <1>1, RunTyped
<1>3. p.tree \in Trees /\ p.cost \in Nat
  BY <1>2 DEF Runs
<1>4. w = Joined(p, b)
  BY AheadJoined
<1>5. b \in Runs /\ e \in Runs
  <2> HIDE DEF p, last
  <2> QED BY <1>1, <1>3, RunTyped
<1>6. b = OneOp(last + 1, f, e)
  <2> HIDE DEF last, p
  <2>1. Run(p.tree, m, last + 1, f) = OneOp(last + 1, f, Run(p.tree, m, last, f))
    BY <1>1, RunNext
  <2> QED BY <2>1, <1>1
<1> HIDE DEF last, e
<1>7. PICK ds \in Seq(Decisions) : b.tree = Settle(After(e.tree, last, ds), last)
  <2> DEFINE ds == run_op(e.tree, last, Rest(f, Len(e.ds)))
  <2>1. ds \in Seq(Decisions) /\ OneOp(last + 1, f, e).tree = Settle(After(e.tree, last, ds), last)
    BY <1>1, <1>5, OneOpIs
  <2> HIDE DEF ds, b
  <2> QED BY <2>1, <1>6
<1> HIDE DEF p, b
<1>8. b.tree \in Trees /\ b.cost \in Nat /\ e.tree \in Trees
  BY <1>5 DEF Runs
<1>9. simulate_commit(b.tree) \in Nat
  BY <1>8, CostTyped
<1>10. ASSUME ~(Ops % cfg.commit_interval # 0) PROVE simulate_commit(b.tree) = 1
  <2> DEFINE done == After(e.tree, last, ds)
  <2>1. done \in Trees
    BY <1>1, <1>7, <1>8, AfterTyped
  <2>2. CommitDue(last)
    BY <1>1, <1>10 DEF CommitDue
  <2> HIDE DEF done
  <2>3. b.tree = Append(done, Commit)
    BY <2>2, <1>7 DEF done, Settle
  <2> QED BY <2>1, <2>3, CostTyped
<1>11. w.tree = b.tree /\ w.cost = p.cost + b.cost
  BY <1>4 DEF Joined
<1>12. run_cost(s \o f)
         = w.cost + (IF Ops % cfg.commit_interval # 0 THEN simulate_commit(w.tree) ELSE 0)
  BY Zenon DEF run_cost
<1>13. rollout_cost(p.tree, m, f) = b.cost + simulate_commit(b.tree)
  <2> DEFINE S == {m + 1 + cfg.window, Ops}
  <2>1. cfg.window \in Nat
    BY OracleAssumption DEF Configurations
  <2>2. m + 1 + cfg.window \in Nat /\ m + 1 + cfg.window >= Ops
    BY <2>1, <1>1
  <2>3. S \in SUBSET Nat /\ S # {} /\ Ops \in S
    BY <2>2, <1>1
  <2>4. Min(S) \in S /\ Min(S) <= Ops
    <3> HIDE DEF S
    <3> QED BY <2>3, MinIs
  <2>5. Min(S) = Ops
    BY <2>2, <2>4, <1>1
  <2> QED BY <2>5, Zenon DEF rollout_cost, b
<1> HIDE DEF w
<1>14. CASE Ops % cfg.commit_interval # 0
  BY <1>14, <1>3, <1>8, <1>9, <1>11, <1>12, <1>13 DEF p
<1>15. CASE ~(Ops % cfg.commit_interval # 0)
  BY <1>15, <1>3, <1>8, <1>10, <1>11, <1>12, <1>13 DEF p
<1> QED BY <1>14, <1>15


-----------------------------------------------------------------------------
(* The configuration never changes, and with it what the operators mean    *)

(* What waits after some choices.                                          *)
LEMMA ContextFixed ==
    ASSUME cfg' = cfg
    PROVE  \A tree, m, choices : Context(tree, m, choices)' = Context(tree, m, choices)
  BY DEF Context, Hash

(* What one operation decides.                                             *)
LEMMA RunOpFixed ==
    ASSUME cfg' = cfg
    PROVE  \A tree, m, forced : run_op(tree, m, forced)' = run_op(tree, m, forced)
<1> SUFFICES ASSUME NEW CONSTANT tree, NEW CONSTANT m, NEW CONSTANT forced
             PROVE  run_op(tree, m, forced)' = run_op(tree, m, forced)
  OBVIOUS
<1> DEFINE G(f) == [n \in 0 .. MaxDecisions |-> IF n = 0 THEN <<>>
                                                ELSE Decide(tree, m, forced, n, f[n - 1])]
<1>1. \A n, ds : Decide(tree, m, forced, n, ds)' = Decide(tree, m, forced, n, ds)
  BY ContextFixed DEF Decide
<1>2. \A f : G(f)' = G(f)
  BY <1>1
<1>3. run_op(tree, m, forced) = (CHOOSE f : f = G(f))[MaxDecisions]
  BY Zenon DEF run_op, Decide
<1>4. run_op(tree, m, forced)' = (CHOOSE f : f = G(f)')[MaxDecisions]
  BY Zenon DEF run_op, Decide
<1> HIDE DEF G
<1>5. (CHOOSE f : f = G(f)) = (CHOOSE f : f = G(f)')
  BY <1>2, Zenon
<1> QED BY <1>3, <1>4, <1>5, Zenon

(* What a run does and costs.                                              *)
LEMMA RunFixed ==
    ASSUME cfg' = cfg
    PROVE  \A tree, from, to, forced : Run(tree, from, to, forced)' = Run(tree, from, to, forced)
<1> SUFFICES ASSUME NEW CONSTANT tree, NEW CONSTANT from, NEW CONSTANT to, NEW CONSTANT forced
             PROVE  Run(tree, from, to, forced)' = Run(tree, from, to, forced)
  OBVIOUS
<1> DEFINE G(f) == [n \in from .. to |-> IF n = from THEN Started(tree)
                                         ELSE OneOp(n, forced, f[n - 1])]
<1>1. \A n : CommitDue(n)' = CommitDue(n)
  BY DEF CommitDue
<1>2. \A x, n : Settle(x, n)' = Settle(x, n)
  BY <1>1 DEF Settle
<1>3. \A x : simulate_commit(x)' = simulate_commit(x)
  BY DEF simulate_commit, Hash
<1>4. \A n, before : OneOp(n, forced, before)' = OneOp(n, forced, before)
  BY <1>1, <1>2, <1>3, RunOpFixed DEF OneOp
<1>5. \A f : G(f)' = G(f)
  BY <1>4
<1>6. Run(tree, from, to, forced) = (CHOOSE f : f = G(f))[to]
  BY Zenon DEF Run, OneOp, Started
<1>7. Run(tree, from, to, forced)' = (CHOOSE f : f = G(f)')[to]
  BY Zenon DEF Run, OneOp, Started
<1> HIDE DEF G
<1>8. (CHOOSE f : f = G(f)) = (CHOOSE f : f = G(f)')
  BY <1>5, Zenon
<1> QED BY <1>6, <1>7, <1>8, Zenon

(* What the whole run costs.                                               *)
LEMMA RunCostFixed ==
    ASSUME cfg' = cfg
    PROVE  \A forced : run_cost(forced)' = run_cost(forced)
<1>1. \A x : simulate_commit(x)' = simulate_commit(x)
  BY DEF simulate_commit, Hash
<1> QED BY <1>1, RunFixed DEF run_cost

-----------------------------------------------------------------------------
(* The inductive invariant                                                 *)

Records ==
    [op_index : Nat, decision_index : Nat, ctx : Contexts,
     alternatives : UNION {[D -> Nat] : D \in SUBSET Children},
     chosen : Children, greedy_choice : Children]

Typed ==
    /\ cfg \in Configurations /\ i \in 0 .. Ops /\ t \in Trees
    /\ checkpoint \in Trees /\ checkpoint_at \in 0 .. i
    /\ script \in Seq(Children) /\ counter = Len(script)
    /\ records \in Seq(Records)
    /\ pre \in Trees /\ fixed \in Seq(Children)
    /\ resolving \in BOOLEAN /\ (resolving => i < Ops)

(* The state before the current operation, and its choices that are fixed. *)
Base == IF resolving THEN pre ELSE t

Fixed == IF resolving THEN fixed ELSE <<>>

(* The run that the script stands for.                                     *)
Past == Run(<<>>, 0, i, script)

AllLegal(ds) == \A j \in 1 .. Len(ds) : ds[j].choice \in Legal(ds[j].ctx)

(* The state before the current operation is what the checkpoint leads to. *)
Rebuilds ==
    /\ Base = Run(checkpoint, checkpoint_at, i, <<>>).tree
    /\ resolving => t = After(pre, i, run_op(pre, i, <<>>))

(* And it is what the script leads to; the fixed choices are made.         *)
Replays ==
    /\ Past.tree = Base /\ Chosen(Past.ds) = script /\ AllLegal(Past.ds)
    /\ Len(Fixed) <= Len(run_op(Base, i, Fixed)) /\ AllLegal(run_op(Base, i, Fixed))

(* The decisions so far, and those of the current operation as it stands.  *)
Known == Past.ds \o run_op(Base, i, Fixed)

(* The records are those of the sampled decisions, up to the fixed ones.   *)
Recorded ==
    /\ {records[r].decision_index : r \in DOMAIN records}
          = {g \in cfg.sampled : g < counter + Len(Fixed)}
    /\ \A r \in 2 .. Len(records) : records[r - 1].decision_index < records[r].decision_index
    /\ \A r \in DOMAIN records :
          /\ Known[records[r].decision_index + 1].ctx = records[r].ctx
          /\ Known[records[r].decision_index + 1].choice = records[r].chosen
    /\ \A g \in 1 .. counter + Len(Fixed) :
          g - 1 \notin cfg.sampled => Known[g].choice = pick(Known[g].ctx)

(* Going on greedily from here is the greedy run, or cheaper.              *)
Cheaper ==
    cfg.window >= Ops - 1 =>
        \/ Run(<<>>, 0, Ops, script \o Fixed) = Run(<<>>, 0, Ops, <<>>)
        \/ run_cost(script \o Fixed) < run_cost(<<>>)

IndInv == Typed /\ Rebuilds /\ Replays /\ Recorded /\ Cheaper

(* What is not forced is legal.                                            *)
LEMMA LegalMade ==
    ASSUME NEW tree, NEW m, NEW f, NEW ds, Complete(tree, m, f, ds),
           \A j \in 1 .. Len(ds) : j <= Len(f) => ds[j].choice \in Legal(ds[j].ctx)
    PROVE  AllLegal(ds)
<1> SUFFICES ASSUME NEW j \in 1 .. Len(ds) PROVE ds[j].choice \in Legal(ds[j].ctx)
  BY DEF AllLegal
<1>1. CASE j <= Len(f)
  BY <1>1
<1>2. CASE ~(j <= Len(f))
  <2>1. ds \in Seq(Decisions) /\ Legal(ds[j].ctx) # {} /\ ds[j].choice = pick(ds[j].ctx)
    BY <1>2 DEF Complete, Made
  <2>2. ds[j] \in Decisions
    BY <2>1
  <2>3. ds[j].ctx \in Contexts
    BY <2>2 DEF Decisions
  <2> QED BY <2>1, <2>3, PickLegal
<1> QED BY <1>1, <1>2

(* A greedy operation makes legal choices.                                 *)
LEMMA GreedyLegal ==
    ASSUME cfg \in Configurations, NEW tree \in Trees, NEW m \in Nat
    PROVE  /\ AllLegal(run_op(tree, m, <<>>)) /\ run_op(tree, m, <<>>) \in Seq(Decisions)
           /\ Len(<<>>) <= Len(run_op(tree, m, <<>>)) /\ Follows(run_op(tree, m, <<>>), <<>>)
<1> DEFINE ds == run_op(tree, m, <<>>)
<1>1. Complete(tree, m, <<>>, ds)
  <2>1. <<>> \in Seq(Children)
    OBVIOUS
  <2> QED BY <2>1, RunOpComplete
<1> HIDE DEF ds
<1>2. ds \in Seq(Decisions) /\ Follows(ds, <<>>)
  BY <1>1 DEF Complete, Made, Follows
<1>3. \A j \in 1 .. Len(ds) : ~(j <= Len(<<>>))
  OBVIOUS
<1>4. AllLegal(ds)
  BY <1>1, <1>3, LegalMade
<1>5. Len(<<>>) <= Len(ds)
  BY <1>2
<1> QED BY <1>2, <1>4, <1>5 DEF ds

(* The first k choices, cut from all of them.                              *)
LEMMA FirstIs ==
    ASSUME NEW ds \in Seq(Decisions), NEW k \in 0 .. Len(ds), NEW f, Follows(ds, f),
           Len(f) \in Nat, Len(f) <= k
    PROVE  /\ SubSeq(Chosen(ds), 1, k) = First(ds, k)
           /\ First(ds, k) \in Seq(Children) /\ Len(First(ds, k)) = k
           /\ \A n \in 1 .. k : First(ds, k)[n] = ds[n].choice
           /\ Follows(ds, First(ds, k))
<1> DEFINE c == Chosen(ds)
           s == First(ds, k)
<1>1. /\ c \in Seq(Children) /\ Len(c) = Len(ds) /\ \A n \in 1 .. Len(ds) : c[n] = ds[n].choice
      /\ s \in Seq(Children) /\ Len(s) = k /\ Len(ds) \in Nat
  BY ChosenIs
<1>2. \A n \in 1 .. k : s[n] = ds[n].choice
  BY DEF First
<1> HIDE DEF c, s
<1>3. \A n \in 1 .. k : n \in 1 .. Len(ds)
  BY <1>1
<1>4. SubSeq(c, 1, k) \in Seq(Children) /\ Len(SubSeq(c, 1, k)) = k
      /\ \A n \in 1 .. k : SubSeq(c, 1, k)[n] = c[n]
  BY <1>1
<1> DEFINE u == SubSeq(c, 1, k)
<1> HIDE DEF u
<1>5. u = s
  <2>1. u \in Seq(Children) /\ Len(u) = k /\ \A n \in 1 .. k : u[n] = c[n]
    BY <1>4 DEF u
  <2>2. u = [n \in 1 .. k |-> u[n]] /\ s = [n \in 1 .. k |-> s[n]]
    BY <2>1, <1>1
  <2>3. \A n \in 1 .. k : u[n] = s[n]
    BY <2>1, <1>1, <1>2, <1>3
  <2> QED BY <2>2, <2>3
<1>6. Follows(ds, s)
  <2> SUFFICES ASSUME NEW j \in 1 .. Len(ds)
               PROVE  ds[j].choice = IF j <= Len(s) THEN s[j] ELSE pick(ds[j].ctx)
    BY DEF Follows
  <2>1. CASE j <= k
    <3>1. j \in 1 .. k
      BY <2>1, <1>1
    <3> QED BY <3>1, <2>1, <1>1, <1>2
  <2>2. CASE ~(j <= k)
    <3>1. ~(j <= Len(f))
      BY <2>2, <1>1
    <3> QED BY <3>1, <2>2, <1>1 DEF Follows
  <2> QED BY <2>1, <2>2
<1> QED BY <1>1, <1>2, <1>5, <1>6 DEF c, s, u

(* The invariant holds at the start.                                       *)
LEMMA InitInv == Init => IndInv
<1> SUFFICES ASSUME Init PROVE IndInv
  OBVIOUS
<1>1. Typed
  <2>1. <<>> \in Trees /\ Len(<<>>) = 0 /\ <<>> \in Seq(Children) /\ <<>> \in Seq(Records)
    BY DEF Trees
  <2>2. cfg \in Configurations
    BY DEF Init, Configurations
  <2>3. 0 \in 0 .. Ops /\ 0 \in 0 .. 0
    BY OracleAssumption
  <2> QED BY <2>1, <2>2, <2>3, Zenon DEF Init, Typed
<1>2. /\ i = 0 /\ t = <<>> /\ checkpoint = <<>> /\ checkpoint_at = 0 /\ counter = 0
      /\ script = <<>> /\ records = <<>> /\ ~resolving
  BY DEF Init
<1>3. Run(<<>>, 0, 0, <<>>) = Started(<<>>)
  BY RunStart
<1>4. Started(<<>>).tree = <<>> /\ Started(<<>>).ds = <<>>
  BY DEF Started
<1>5. Rebuilds
  BY <1>2, <1>3, <1>4 DEF Rebuilds, Base
<1>6. Replays
  <2>1. Chosen(<<>>) = <<>> /\ AllLegal(<<>>)
    BY DEF Chosen, AllLegal
  <2>2. Past = Started(<<>>)
    BY <1>2, <1>3 DEF Past
  <2>3. Base = <<>> /\ Fixed = <<>> /\ <<>> \in Trees
    BY <1>2 DEF Base, Fixed, Trees
  <2>4. AllLegal(run_op(Base, i, Fixed)) /\ Len(Fixed) <= Len(run_op(Base, i, Fixed))
    BY <2>3, <1>1, <1>2, GreedyLegal DEF Typed
  <2> QED BY <2>1, <2>2, <2>3, <2>4, <1>2, <1>4 DEF Replays
<1>7. Recorded
  <2>1. Fixed = <<>> /\ counter + Len(Fixed) = 0
    BY <1>2 DEF Fixed
  <2>2. \A g \in cfg.sampled : ~(g < 0)
    BY <1>1, OracleAssumption DEF Typed, Configurations
  <2>3. {g \in cfg.sampled : g < 0} = {}
    BY <2>2
  <2> QED BY <2>1, <2>3, <1>2 DEF Recorded
<1>8. Cheaper
  <2>1. script \o Fixed = <<>>
    BY <1>2 DEF Fixed
  <2> QED BY <2>1 DEF Cheaper
<1> QED BY <1>1, <1>5, <1>6, <1>7, <1>8 DEF IndInv


(* What the invariant says about the state before the current operation.   *)
LEMMA Here ==
    ASSUME IndInv
    PROVE  /\ cfg \in Configurations /\ i \in Nat /\ Ops \in Nat /\ i <= Ops /\ counter \in Nat
           /\ Past \in Runs /\ Past.ds \in Seq(Decisions) /\ Len(Past.ds) = counter
           /\ counter = Len(script) /\ Past.tree = Base /\ Base \in Trees
           /\ Chosen(Past.ds) = script /\ AllLegal(Past.ds) /\ script \in Seq(Children)
           /\ Fixed \in Seq(Children) /\ Len(Fixed) \in Nat
           /\ cfg.sampled \subseteq Nat
<1>1. /\ cfg \in Configurations /\ i \in Nat /\ Ops \in Nat /\ i <= Ops /\ script \in Seq(Children)
      /\ counter = Len(script) /\ counter \in Nat
  BY OracleAssumption DEF IndInv, Typed
<1>2. <<>> \in Trees /\ 0 \in Nat /\ 0 <= i /\ <<>> \in Seq(Children)
  BY <1>1 DEF Trees
<1>3. Past \in Runs
  BY <1>1, <1>2, RunTyped DEF Past
<1>4. Past.ds \in Seq(Decisions)
  BY <1>3 DEF Runs
<1>5. Past.tree = Base /\ Chosen(Past.ds) = script /\ AllLegal(Past.ds)
  BY DEF IndInv, Replays
<1>6. Len(Past.ds) = counter
  BY <1>1, <1>4, <1>5, ChosenIs
<1>7. Base \in Trees /\ Fixed \in Seq(Children) /\ Len(Fixed) \in Nat
  <2>1. Base \in Trees
    BY DEF IndInv, Typed, Base
  <2>2. Fixed \in Seq(Children)
    BY <1>2 DEF IndInv, Typed, Fixed
  <2> QED BY <2>1, <2>2
<1>8. cfg.sampled \subseteq Nat
  BY <1>1, OracleAssumption DEF Configurations
<1> QED BY <1>1, <1>3, <1>4, <1>5, <1>6, <1>7, <1>8

(* The decisions of the current operation as it stands.                    *)
LEMMA Standing ==
    ASSUME IndInv, NEW ds, ds = run_op(Base, i, Fixed)
    PROVE  /\ ds \in Seq(Decisions) /\ Len(ds) \in Nat /\ Complete(Base, i, Fixed, ds)
           /\ Follows(ds, Fixed) /\ Len(Fixed) <= Len(ds) /\ AllLegal(ds)
           /\ \A n \in 1 .. counter : Known[n] = Past.ds[n]
           /\ \A n \in 1 .. Len(ds) : Known[counter + n] = ds[n]
<1>1. Complete(Base, i, Fixed, ds)
  BY Here, RunOpComplete
<1>2. ds \in Seq(Decisions) /\ Len(ds) \in Nat /\ Follows(ds, Fixed)
  BY <1>1 DEF Complete, Made, Follows
<1>3. Len(Fixed) <= Len(ds) /\ AllLegal(ds)
  BY DEF IndInv, Replays
<1>4. Known = Past.ds \o ds
  BY DEF Known
<1>5. Past.ds \in Seq(Decisions) /\ Len(Past.ds) = counter /\ counter \in Nat
  BY Here
<1> DEFINE a == Past.ds
<1> HIDE DEF a
<1>6. a \in Seq(Decisions) /\ Len(a) = counter
  BY <1>5 DEF a
<1>7. (\A n \in 1 .. Len(a) : (a \o ds)[n] = a[n]) /\ (\A n \in 1 .. Len(ds) : (a \o ds)[Len(a) + n] = ds[n])
  BY <1>2, <1>6
<1>8. (\A n \in 1 .. counter : Known[n] = a[n]) /\ (\A n \in 1 .. Len(ds) : Known[counter + n] = ds[n])
  BY <1>4, <1>6, <1>7 DEF a
<1> QED BY <1>1, <1>2, <1>3, <1>8 DEF a

(* The parts of a longer sequence of decisions.                            *)
LEMMA Parts ==
    ASSUME NEW x \in Seq(Decisions), NEW y \in Seq(Decisions), NEW z \in Seq(Decisions),
           NEW all, all = (x \o y) \o z
    PROVE  /\ \A n \in 1 .. Len(x) : all[n] = x[n]
           /\ \A n \in 1 .. Len(y) : all[Len(x) + n] = y[n]
<1> DEFINE xy == x \o y
<1>1. /\ xy \in Seq(Decisions) /\ Len(xy) = Len(x) + Len(y) /\ Len(x) \in Nat /\ Len(y) \in Nat
      /\ \A n \in 1 .. Len(x) : xy[n] = x[n]
      /\ \A n \in 1 .. Len(y) : xy[Len(x) + n] = y[n]
  OBVIOUS
<1> HIDE DEF xy
<1>2. \A n \in 1 .. Len(xy) : (xy \o z)[n] = xy[n]
  BY <1>1
<1>3. all = xy \o z
  BY DEF xy
<1> QED BY <1>1, <1>2, <1>3


(* The current operation is done: the script stands for the longer run.    *)
LEMMA DoneReplays ==
    ASSUME IndInv, i < Ops, NEW STATE ds, ds = run_op(Base, i, Fixed), Done(Base, ds),
           cfg' = cfg, ~resolving'
    PROVE  /\ Replays' /\ Past'.ds = Past.ds \o ds /\ script' = script \o Chosen(ds)
           /\ i' = i + 1 /\ t' \in Trees /\ script' \in Seq(Children)
           /\ counter' = Len(script') /\ counter' = counter + Len(ds)
           /\ run_op(Base, i, Fixed)' \in Seq(Decisions)
<1>1. /\ t' = Settle(After(Base, i, ds), i) /\ counter' = counter + Len(ds)
      /\ script' = script \o Chosen(ds) /\ i' = i + 1
  BY DEF Done, Record
<1>2. ds \in Seq(Decisions) /\ Len(ds) \in Nat /\ AllLegal(ds)
  BY Standing
<1>3. Chosen(ds) \in Seq(Children) /\ Len(Chosen(ds)) = Len(ds)
  BY <1>2, ChosenIs
<1>4. t' \in Trees
  BY <1>1, <1>2, Here, AfterTyped
<1>5. script' \in Seq(Children) /\ counter' = Len(script')
  <2>1. script \in Seq(Children) /\ counter = Len(script)
    BY Here
  <2> DEFINE c == Chosen(ds)
  <2> HIDE DEF c
  <2>2. script \o c \in Seq(Children) /\ Len(script \o c) = counter + Len(ds)
    BY <2>1, <1>2, <1>3 DEF c
  <2> QED BY <2>2, <1>1 DEF c
<1> DEFINE q == Run(<<>>, 0, i + 1, script \o Chosen(ds))
<1>6. /\ q.tree = Settle(After(Base, i, ds), i) /\ q.ds = Past.ds \o ds
      /\ Chosen(q.ds) = script \o Chosen(ds)
  <2>1. Chosen(Run(<<>>, 0, i, script).ds) = script /\ Run(<<>>, 0, i, script).tree = Base
    BY Here DEF Past
  <2>2. run_op(Run(<<>>, 0, i, script).tree, i, Fixed) = ds
    BY <2>1
  <2>3. i \in Nat /\ cfg \in Configurations /\ script \in Seq(Children) /\ Fixed \in Seq(Children)
    BY Here
  <2>4. LET p  == Run(<<>>, 0, i, script)
            es == run_op(p.tree, i, Fixed)
            r  == Run(<<>>, 0, i + 1, script \o Chosen(es))
        IN /\ r.tree = Settle(After(p.tree, i, es), i)
           /\ r.ds = p.ds \o es
           /\ Chosen(r.ds) = script \o Chosen(es)
    BY <2>1, <2>3, ScriptNext
  <2> QED BY <2>1, <2>2, <2>4, Zenon DEF Past
<1>7. Past' = q
  <2>1. Past' = Run(<<>>, 0, i', script')
    BY RunFixed DEF Past
  <2> QED BY <2>1, <1>1
<1> HIDE DEF q
<1>8. Base' = t' /\ Fixed' = <<>>
  BY DEF Base, Fixed
<1>9. run_op(Base, i, Fixed)' = run_op(t', i', <<>>)
  <2>1. run_op(Base, i, Fixed)' = run_op(Base', i', Fixed')
    BY RunOpFixed
  <2> QED BY <2>1, <1>8
<1>10. /\ AllLegal(run_op(t', i', <<>>)) /\ run_op(t', i', <<>>) \in Seq(Decisions)
       /\ Len(<<>>) <= Len(run_op(t', i', <<>>))
  <2>1. i' \in Nat /\ cfg \in Configurations
    BY <1>1, Here
  <2> QED BY <2>1, <1>4, GreedyLegal
<1>11. AllLegal(Past.ds \o ds)
  <2> DEFINE a == Past.ds
             s == a \o ds
  <2>1. a \in Seq(Decisions) /\ AllLegal(a)
    BY Here
  <2> HIDE DEF a
  <2>2. /\ Len(s) = Len(a) + Len(ds) /\ Len(a) \in Nat
        /\ \A n \in 1 .. Len(a) : s[n] = a[n]
        /\ \A n \in Len(a) + 1 .. Len(s) : s[n] = ds[n - Len(a)]
    BY <2>1, <1>2
  <2> HIDE DEF s
  <2>3. ASSUME NEW n \in 1 .. Len(s) PROVE s[n].choice \in Legal(s[n].ctx)
    <3>1. CASE n <= Len(a)
      <4>1. n \in 1 .. Len(a)
        BY <3>1, <2>2
      <4> QED BY <4>1, <2>1, <2>2 DEF AllLegal
    <3>2. CASE ~(n <= Len(a))
      <4>1. n \in Len(a) + 1 .. Len(s) /\ n - Len(a) \in 1 .. Len(ds)
        BY <3>2, <2>2, <1>2
      <4> QED BY <4>1, <2>2, <1>2 DEF AllLegal
    <3> QED BY <3>1, <3>2
  <2>4. AllLegal(s)
    BY <2>3 DEF AllLegal
  <2> QED BY <2>4 DEF s, a
<1>12. Replays'
  <2>1. Past'.tree = Base' /\ Chosen(Past'.ds) = script' /\ AllLegal(Past'.ds)
    BY <1>1, <1>6, <1>7, <1>8, <1>11
  <2>2. /\ Len(Fixed') <= Len(run_op(Base, i, Fixed)') /\ AllLegal(run_op(Base, i, Fixed)')
    BY <1>8, <1>9, <1>10
  <2>3. \A x : AllLegal(x)' = AllLegal(x)
    BY DEF AllLegal
  <2>4. \A x : Chosen(x)' = Chosen(x)
    BY DEF Chosen
  <2> QED BY <2>1, <2>2, <2>3, <2>4 DEF Replays
<1> QED BY <1>1, <1>4, <1>5, <1>6, <1>7, <1>9, <1>10, <1>12


Below(S, n) == {g \in S : g < n}

(* Two sets of sampled decisions are the same when no decision between     *)
(* their bounds is sampled.                                                *)
LEMMA NoneBetween ==
    ASSUME NEW S \in SUBSET Nat, NEW a \in Nat, NEW x \in Nat, NEW y \in Nat, x <= y,
           \A j \in x + 1 .. y : a + j - 1 \notin S
    PROVE  Below(S, a + x) = Below(S, a + y)
<1> SUFFICES ASSUME NEW g \in S PROVE g < a + x <=> g < a + y
  BY DEF Below
<1>1. ASSUME ~(g < a + x), g < a + y PROVE FALSE
  <2>1. (g - a) + 1 \in x + 1 .. y /\ a + ((g - a) + 1) - 1 = g
    BY <1>1
  <2> QED BY <2>1
<1> QED BY <1>1

(* The current operation is done: its sampled decisions are recorded.      *)
LEMMA DoneRecorded ==
    ASSUME IndInv, i < Ops, NEW STATE ds, ds = run_op(Base, i, Fixed), Done(Base, ds),
           cfg' = cfg, ~resolving', records' = records,
           \A j \in Len(Fixed) + 1 .. Len(ds) : counter + j - 1 \notin cfg.sampled
    PROVE  Recorded'
<1> DEFINE next == run_op(Base, i, Fixed)'
           n1 == counter + Len(Fixed)
           n2 == counter + Len(ds)
<1>1. /\ Past'.ds = Past.ds \o ds /\ counter' = n2 /\ next \in Seq(Decisions)
  BY DoneReplays
<1>2. /\ Past.ds \in Seq(Decisions) /\ Len(Past.ds) = counter /\ counter \in Nat
      /\ Len(Fixed) \in Nat /\ cfg.sampled \subseteq Nat
  BY Here
<1>3. /\ ds \in Seq(Decisions) /\ Len(ds) \in Nat /\ Follows(ds, Fixed) /\ Len(Fixed) <= Len(ds)
      /\ \A n \in 1 .. counter : Known[n] = Past.ds[n]
      /\ \A n \in 1 .. Len(ds) : Known[counter + n] = ds[n]
  BY Standing
<1>4. Known' = (Past.ds \o ds) \o next
  BY <1>1 DEF Known
<1> HIDE DEF next
<1>5. /\ \A n \in 1 .. counter : Known'[n] = Past.ds[n]
      /\ \A n \in 1 .. Len(ds) : Known'[counter + n] = ds[n]
  <2> DEFINE a == Past.ds
             all == Known'
  <2>1. /\ a \in Seq(Decisions) /\ ds \in Seq(Decisions) /\ next \in Seq(Decisions)
        /\ all = (a \o ds) \o next /\ Len(a) = counter
    BY <1>1, <1>2, <1>3, <1>4
  <2> HIDE DEF a, all
  <2>2. /\ \A n \in 1 .. Len(a) : all[n] = a[n]
        /\ \A n \in 1 .. Len(ds) : all[Len(a) + n] = ds[n]
    BY <2>1, Parts
  <2> QED BY <2>1, <2>2 DEF a, all
<1>6. ASSUME NEW n \in 1 .. n2 PROVE Known'[n] = Known[n]
  <2>1. CASE n <= counter
    <3>1. n \in 1 .. counter
      BY <2>1, <1>2
    <3> QED BY <3>1, <1>3, <1>5
  <2>2. CASE ~(n <= counter)
    <3>1. n - counter \in 1 .. Len(ds) /\ counter + (n - counter) = n
      BY <2>2, <1>2, <1>3
    <3>2. Known'[counter + (n - counter)] = Known[counter + (n - counter)]
      BY <3>1, <1>3, <1>5
    <3> QED BY <3>1, <3>2
  <2> QED BY <2>1, <2>2
<1>7. /\ {records[r].decision_index : r \in DOMAIN records} = {g \in cfg.sampled : g < n1}
      /\ \A r \in 2 .. Len(records) : records[r - 1].decision_index < records[r].decision_index
      /\ \A r \in DOMAIN records :
            /\ Known[records[r].decision_index + 1].ctx = records[r].ctx
            /\ Known[records[r].decision_index + 1].choice = records[r].chosen
      /\ \A g \in 1 .. n1 : g - 1 \notin cfg.sampled => Known[g].choice = pick(Known[g].ctx)
  BY DEF IndInv, Recorded
<1>8. {g \in cfg.sampled : g < n1} = {g \in cfg.sampled : g < n2}
  <2>1. Below(cfg.sampled, counter + Len(Fixed)) = Below(cfg.sampled, counter + Len(ds))
    <3>1. cfg.sampled \in SUBSET Nat /\ counter \in Nat /\ Len(Fixed) \in Nat /\ Len(ds) \in Nat
          /\ Len(Fixed) <= Len(ds)
      BY <1>2, <1>3
    <3> QED BY <3>1, NoneBetween
  <2> QED BY <2>1, Zenon DEF Below
<1>9. Fixed' = <<>> /\ counter' + Len(Fixed') = n2
  <2>1. Fixed' = <<>>
    BY DEF Fixed
  <2>2. n2 + 0 = n2 /\ Len(<<>>) = 0
    BY <1>2, <1>3
  <2> QED BY <2>1, <2>2, <1>1
<1>10. ASSUME NEW r \in DOMAIN records
       PROVE  /\ Known'[records[r].decision_index + 1].ctx = records[r].ctx
              /\ Known'[records[r].decision_index + 1].choice = records[r].chosen
  <2> DEFINE d == records[r].decision_index
  <2>1. d \in {g \in cfg.sampled : g < n2}
    BY <1>7, <1>8, Zenon
  <2> HIDE DEF d
  <2>2. d \in Nat /\ d < n2
    BY <2>1, <1>2
  <2>3. d + 1 \in 1 .. n2
    BY <2>2, <1>2, <1>3
  <2>4. Known'[d + 1] = Known[d + 1]
    BY <2>3, <1>6
  <2> QED BY <2>4, <1>7 DEF d
<1>11. ASSUME NEW g \in 1 .. n2, g - 1 \notin cfg.sampled
       PROVE  Known'[g].choice = pick(Known'[g].ctx)
  <2>1. Known'[g] = Known[g]
    BY <1>6
  <2>2. CASE g <= n1
    <3>1. g \in 1 .. n1
      BY <2>2, <1>2, <1>3
    <3> QED BY <3>1, <2>1, <1>7, <1>11
  <2>3. CASE ~(g <= n1)
    <3> DEFINE j == g - counter
    <3>1. j \in 1 .. Len(ds) /\ counter + j = g /\ ~(j <= Len(Fixed))
      BY <2>3, <1>2, <1>3
    <3> HIDE DEF j
    <3>2. ds[j].choice = pick(ds[j].ctx)
      BY <3>1, <1>3 DEF Follows
    <3> QED BY <3>1, <3>2, <1>5
  <2> QED BY <2>2, <2>3
<1> HIDE DEF n1, n2
<1>12. {records[r].decision_index : r \in DOMAIN records} = {g \in cfg.sampled : g < n2}
  BY <1>7, <1>8
<1>13. \A x : pick(x)' = pick(x)
  BY DEF pick, Legal
<1> QED BY <1>7, <1>9, <1>10, <1>11, <1>12, <1>13 DEF Recorded

(* The current operation is done: nothing changes in what is to come.      *)
LEMMA DoneCheaper ==
    ASSUME IndInv, i < Ops, NEW STATE ds, ds = run_op(Base, i, Fixed), Done(Base, ds),
           cfg' = cfg, ~resolving'
    PROVE  Cheaper'
<1> DEFINE c == Chosen(ds)
<1>1. script' = script \o c /\ script' \in Seq(Children)
  BY DoneReplays
<1>2. Fixed' = <<>>
  BY DEF Fixed
<1>3. script' \o Fixed' = script \o c
  BY <1>1, <1>2
<1>4. ds \in Seq(Decisions) /\ Len(ds) \in Nat /\ Len(Fixed) <= Len(ds)
  BY Standing
<1>5. c \in Seq(Children) /\ Len(c) <= Len(ds) /\ Follows(ds, c)
  <2>1. c \in Seq(Children) /\ Len(c) = Len(ds)
    BY <1>4, ChosenIs
  <2>2. Follows(ds, c)
    BY <2>1, <1>4, FollowsChosen
  <2> QED BY <2>1, <2>2, <1>4
<1> HIDE DEF c
<1>6. Run(<<>>, 0, Ops, script \o c) = Run(<<>>, 0, Ops, script \o Fixed)
  <2>1. Chosen(Run(<<>>, 0, i, script).ds) = script /\ Run(<<>>, 0, i, script).tree = Base
    BY Here DEF Past
  <2>2. ds = run_op(Run(<<>>, 0, i, script).tree, i, Fixed)
    BY <2>1
  <2>3. i \in Nat /\ cfg \in Configurations /\ script \in Seq(Children) /\ Fixed \in Seq(Children)
    BY Here
  <2> QED BY <2>1, <2>2, <2>3, <1>4, <1>5, AheadSame
<1>7. run_cost(script \o c) = run_cost(script \o Fixed)
  BY <1>6, Zenon DEF run_cost
<1>8. Cheaper
  BY DEF IndInv
<1>9. /\ Run(<<>>, 0, Ops, script \o Fixed)' = Run(<<>>, 0, Ops, script' \o Fixed')
      /\ Run(<<>>, 0, Ops, <<>>)' = Run(<<>>, 0, Ops, <<>>)
      /\ run_cost(script \o Fixed)' = run_cost(script' \o Fixed')
      /\ run_cost(<<>>)' = run_cost(<<>>)
  BY RunFixed, RunCostFixed
<1> QED BY <1>3, <1>6, <1>7, <1>8, <1>9 DEF Cheaper


(* A greedy run of one operation more.                                     *)
LEMMA GreedyNext ==
    ASSUME cfg \in Configurations, NEW tree \in Trees, NEW from \in Nat, NEW m \in Nat, from <= m
    PROVE  LET b == Run(tree, from, m, <<>>).tree
           IN /\ b \in Trees
              /\ Run(tree, from, m + 1, <<>>).tree = Settle(After(b, m, run_op(b, m, <<>>)), m)
<1> DEFINE r == Run(tree, from, m, <<>>)
<1>1. <<>> \in Seq(Children)
  OBVIOUS
<1>2. r \in Runs
  BY <1>1, RunTyped
<1>3. r.tree \in Trees /\ r.ds \in Seq(Decisions) /\ Len(r.ds) \in Nat
  BY <1>2 DEF Runs
<1>4. Run(tree, from, m + 1, <<>>) = OneOp(m + 1, <<>>, r)
  BY RunNext
<1> HIDE DEF r
<1>5. Rest(<<>>, Len(r.ds)) = <<>>
  <2>1. Len(<<>>) <= Len(r.ds)
    BY <1>3
  <2> QED BY <2>1, <1>1, <1>3, RestEmpty
<1> DEFINE ds == run_op(r.tree, m, Rest(<<>>, Len(r.ds)))
<1>6. OneOp(m + 1, <<>>, r).tree = Settle(After(r.tree, m, ds), m)
  BY <1>1, <1>2, OneOpIs
<1>7. ds = run_op(r.tree, m, <<>>)
  BY <1>5
<1> HIDE DEF ds
<1> QED BY <1>3, <1>4, <1>6, <1>7 DEF r

(* An operation that has no sampled decision keeps the invariant.          *)
LEMMA RunOpDone ==
    ASSUME IndInv, ~resolving, i < Ops, Sampled(run_op(t, i, <<>>), 0) = {},
           Done(t, run_op(t, i, <<>>)),
           UNCHANGED <<pre, fixed, resolving, cfg, checkpoint, checkpoint_at, records>>
    PROVE  IndInv'
<1> DEFINE ds == run_op(t, i, <<>>)
<1>1. Base = t /\ Fixed = <<>> /\ Len(Fixed) = 0
  BY DEF Base, Fixed
<1>2. ds = run_op(Base, i, Fixed) /\ Done(Base, ds) /\ cfg' = cfg /\ ~resolving' /\ records' = records
  BY <1>1
<1>3. \A j \in Len(Fixed) + 1 .. Len(ds) : counter + j - 1 \notin cfg.sampled
  <2>1. \A j \in (0 + 1) .. Len(ds) : counter + j - 1 \notin cfg.sampled
    <3> HIDE DEF ds
    <3>1. Sampled(ds, 0) = {}
      BY DEF ds
    <3> QED BY <3>1, Zenon DEF Sampled
  <2> QED BY <2>1, <1>1
<1>4. t' = Settle(After(t, i, ds), i)
  BY DEF Done
<1> HIDE DEF ds
<1>5. /\ Replays' /\ i' = i + 1 /\ t' \in Trees /\ script' \in Seq(Children)
      /\ counter' = Len(script')
  BY <1>2, DoneReplays
<1>6. Recorded'
  BY <1>2, <1>3, DoneRecorded
<1>7. Cheaper'
  BY <1>2, DoneCheaper
<1>8. Typed
  BY DEF IndInv
<1>9. Typed'
  <2>1. i' \in 0 .. Ops /\ checkpoint_at' \in 0 .. i'
    BY <1>5, <1>8, OracleAssumption DEF Typed
  <2> QED BY <2>1, <1>2, <1>5, <1>8 DEF Typed, Configurations, Trees, Records, Contexts
<1>10. Rebuilds'
  <2> DEFINE b == Run(checkpoint, checkpoint_at, i, <<>>).tree
  <2>1. b = t
    BY <1>1 DEF IndInv, Rebuilds
  <2>2. /\ checkpoint \in Trees /\ checkpoint_at \in Nat /\ i \in Nat /\ checkpoint_at <= i
        /\ cfg \in Configurations
    BY <1>8 DEF Typed
  <2>3. Run(checkpoint, checkpoint_at, i + 1, <<>>).tree = Settle(After(b, i, run_op(b, i, <<>>)), i)
    BY <2>2, GreedyNext
  <2>4. Run(checkpoint, checkpoint_at, i + 1, <<>>).tree = t'
    <3> HIDE DEF b
    <3> QED BY <2>1, <2>3, <1>4 DEF ds
  <2>5. Run(checkpoint, checkpoint_at, i, <<>>)' = Run(checkpoint, checkpoint_at, i + 1, <<>>)
    <3>1. Run(checkpoint, checkpoint_at, i, <<>>)' = Run(checkpoint', checkpoint_at', i', <<>>)
      BY RunFixed
    <3> QED BY <3>1, <1>5
  <2>6. Base' = t'
    BY <1>2 DEF Base
  <2> QED BY <2>4, <2>5, <2>6, <1>2 DEF Rebuilds
<1> QED BY <1>5, <1>6, <1>7, <1>9, <1>10 DEF IndInv

(* Accepting what was resolved keeps the invariant.                        *)
LEMMA AcceptInv ==
    ASSUME IndInv, Accept
    PROVE  IndInv'
<1> DEFINE ds == run_op(pre, i, fixed)
<1>1. /\ resolving /\ Sampled(ds, Len(fixed)) = {} /\ Done(pre, ds)
      /\ checkpoint' = t' /\ checkpoint_at' = i + 1 /\ resolving' = FALSE
      /\ cfg' = cfg /\ records' = records /\ pre' = pre /\ fixed' = Chosen(ds)
  BY Zenon DEF Accept
<1>2. Base = pre /\ Fixed = fixed
  BY <1>1 DEF Base, Fixed
<1>3. ds = run_op(Base, i, Fixed) /\ Done(Base, ds) /\ ~resolving'
  BY <1>1, <1>2
<1>4. \A j \in Len(Fixed) + 1 .. Len(ds) : counter + j - 1 \notin cfg.sampled
  <2> HIDE DEF ds
  <2>1. Sampled(ds, Len(Fixed)) = {}
    BY <1>1, <1>2
  <2> QED BY <2>1, Zenon DEF Sampled
<1>5. Typed /\ i < Ops
  BY <1>1 DEF IndInv, Typed
<1> HIDE DEF ds
<1>6. /\ Replays' /\ i' = i + 1 /\ t' \in Trees /\ script' \in Seq(Children)
      /\ counter' = Len(script')
  BY <1>1, <1>3, <1>5, DoneReplays
<1>7. Recorded'
  BY <1>1, <1>3, <1>4, <1>5, DoneRecorded
<1>8. Cheaper'
  BY <1>1, <1>3, <1>5, DoneCheaper
<1>9. Typed'
  <2>1. i' \in 0 .. Ops /\ checkpoint_at' \in 0 .. i'
    BY <1>1, <1>5, <1>6, OracleAssumption DEF Typed
  <2>2. fixed' \in Seq(Children)
    <3>1. ds \in Seq(Decisions)
      BY <1>3, Standing
    <3> QED BY <3>1, <1>1, ChosenIs
  <2> QED BY <2>1, <2>2, <1>1, <1>5, <1>6 DEF Typed, Configurations, Trees, Records, Contexts
<1>10. Rebuilds'
  <2>1. i' \in Nat
    BY <1>5, <1>6 DEF Typed
  <2>2. Run(checkpoint, checkpoint_at, i, <<>>)' = Run(t', i', i', <<>>)
    <3>1. Run(checkpoint, checkpoint_at, i, <<>>)' = Run(checkpoint', checkpoint_at', i', <<>>)
      BY <1>1, RunFixed
    <3> QED BY <3>1, <1>1, <1>6
  <2>3. Run(t', i', i', <<>>) = Started(t')
    BY <2>1, RunStart
  <2>4. Started(t').tree = t'
    BY DEF Started
  <2>5. Base' = t'
    BY <1>1 DEF Base
  <2> QED BY <2>2, <2>3, <2>4, <2>5, <1>1 DEF Rebuilds
<1> QED BY <1>6, <1>7, <1>8, <1>9, <1>10 DEF IndInv


(* An operation that turns out to have a sampled decision is thrown away,  *)
(* and the state before it is rebuilt.                                     *)
LEMMA RunOpResolve ==
    ASSUME IndInv, ~resolving, i < Ops, NEW STATE ds, ds = run_op(t, i, <<>>),
           Sampled(ds, 0) # {}, t' = After(t, i, ds), pre' = Rebuild,
           fixed' = SubSeq(Chosen(ds), 1, Min(Sampled(ds, 0)) - 1), resolving' = TRUE,
           UNCHANGED <<i, counter, script, cfg, checkpoint, checkpoint_at, records>>
    PROVE  IndInv'
<1> DEFINE k == Min(Sampled(ds, 0)) - 1
           S == Sampled(ds, 0)
<1>1. Base = t /\ Fixed = <<>> /\ Len(Fixed) = 0
  BY DEF Base, Fixed
<1>2. ds = run_op(Base, i, Fixed)
  BY <1>1
<1>3. /\ ds \in Seq(Decisions) /\ Len(ds) \in Nat /\ Follows(ds, Fixed) /\ Len(Fixed) <= Len(ds)
      /\ AllLegal(ds)
      /\ \A n \in 1 .. counter : Known[n] = Past.ds[n]
      /\ \A n \in 1 .. Len(ds) : Known[counter + n] = ds[n]
  BY <1>2, Standing
<1>4. k \in 0 .. Len(ds) /\ \A j \in 0 + 1 .. k : counter + j - 1 \notin cfg.sampled
  <2>1. \A j : j \in S <=> j \in 0 + 1 .. Len(ds) /\ counter + j - 1 \in cfg.sampled
    BY Zenon DEF Sampled
  <2>2. S \in SUBSET Nat /\ S # {}
    <3>1. \A j \in 0 + 1 .. Len(ds) : j \in Nat
      BY <1>3
    <3> HIDE DEF S
    <3> QED BY <3>1, <2>1 DEF S
  <2> HIDE DEF S
  <2>3. Min(S) \in S /\ \A x \in S : Min(S) <= x
    BY <2>2, MinIs
  <2>4. Min(S) \in 1 .. Len(ds)
    BY <2>1, <2>3
  <2>5. k = Min(S) - 1
    BY DEF S
  <2>6. k \in 0 .. Len(ds)
    BY <2>4, <2>5, <1>3
  <2>7. ASSUME NEW j \in 0 + 1 .. k, counter + j - 1 \in cfg.sampled PROVE FALSE
    <3>1. j \in 0 + 1 .. Len(ds) /\ ~(Min(S) <= j)
      BY <2>4, <2>5, <1>3
    <3>2. j \in S
      BY <3>1, <2>1, <2>7, Zenon
    <3> QED BY <3>1, <3>2, <2>3
  <2> QED BY <2>6, <2>7
<1> HIDE DEF k
<1>5. fixed' = SubSeq(Chosen(ds), 1, k)
  BY DEF k
<1>6. /\ fixed' = First(ds, k) /\ fixed' \in Seq(Children) /\ Len(fixed') = k
      /\ Follows(ds, fixed')
  <2>1. Len(Fixed) \in Nat /\ Len(Fixed) <= k
    BY <1>1, <1>4
  <2>2. /\ SubSeq(Chosen(ds), 1, k) = First(ds, k)
        /\ First(ds, k) \in Seq(Children) /\ Len(First(ds, k)) = k
        /\ Follows(ds, First(ds, k))
    BY <2>1, <1>3, <1>4, FirstIs
  <2> QED BY <2>2, <1>5
<1>7. Typed /\ Rebuilds /\ Replays /\ Recorded /\ Cheaper
  BY DEF IndInv
<1>8. pre' = t
  BY <1>1, <1>7 DEF Rebuilds, Rebuild
<1>9. Base' = t /\ Fixed' = fixed' /\ Base' = pre'
  BY <1>8 DEF Base, Fixed
<1>10. i' = i /\ counter' = counter /\ script' = script /\ cfg' = cfg /\ checkpoint' = checkpoint
       /\ checkpoint_at' = checkpoint_at /\ records' = records
  OBVIOUS
<1>11. run_op(Base, i, Fixed)' = ds
  <2>1. run_op(Base, i, Fixed)' = run_op(t, i, fixed')
    <3>1. run_op(Base, i, Fixed)' = run_op(Base', i', Fixed')
      BY <1>10, RunOpFixed
    <3> QED BY <3>1, <1>9, <1>10
  <2>2. t \in Trees /\ i \in Nat /\ cfg \in Configurations /\ <<>> \in Seq(Children)
    BY <1>7 DEF Typed
  <2>3. run_op(t, i, fixed') = run_op(t, i, <<>>)
    BY <2>2, <1>6, RunOpSame
  <2> QED BY <2>1, <2>3
<1>12. Past' = Past
  <2>1. Past' = Run(<<>>, 0, i', script')
    BY <1>10, RunFixed DEF Past
  <2> QED BY <2>1, <1>10 DEF Past
<1>13. Typed'
  <2>1. t' \in Trees
    BY <1>3, <1>7, AfterTyped DEF Typed
  <2> QED BY <2>1, <1>6, <1>7, <1>8, <1>10 DEF Typed, Configurations, Trees, Records, Contexts
<1>14. Rebuilds'
  <2>1. Run(checkpoint, checkpoint_at, i, <<>>)' = Run(checkpoint, checkpoint_at, i, <<>>)
    BY <1>10, RunFixed
  <2>2. run_op(pre, i, <<>>)' = ds
    <3>1. run_op(pre, i, <<>>)' = run_op(pre', i', <<>>)
      BY <1>10, RunOpFixed
    <3> QED BY <3>1, <1>8, <1>10
  <2>3. After(pre, i, run_op(pre, i, <<>>))' = After(t, i, ds)
    BY <2>2, <1>8, <1>10 DEF After, Chosen
  <2>4. t = Run(checkpoint, checkpoint_at, i, <<>>).tree
    BY <1>1, <1>7 DEF Rebuilds
  <2> QED BY <2>1, <2>3, <2>4, <1>9 DEF Rebuilds
<1>15. Replays'
  <2>1. \A x : AllLegal(x)' = AllLegal(x)
    BY DEF AllLegal
  <2>2. \A x : Chosen(x)' = Chosen(x)
    BY DEF Chosen
  <2>3. Past.tree = t /\ Chosen(Past.ds) = script /\ AllLegal(Past.ds)
    BY <1>1, <1>7 DEF Replays
  <2>4. Len(Fixed') <= Len(ds)
    BY <1>3, <1>4, <1>6, <1>9
  <2> QED BY <2>1, <2>2, <2>3, <2>4, <1>3, <1>9, <1>10, <1>11, <1>12 DEF Replays
<1>16. Known' = Known
  BY <1>2, <1>11, <1>12 DEF Known
<1>17. Recorded'
  <2>1. counter \in Nat /\ cfg.sampled \subseteq Nat /\ k \in Nat /\ k <= Len(ds)
    BY <1>3, <1>4, Here
  <2>2. Below(cfg.sampled, counter + 0) = Below(cfg.sampled, counter + k)
    <3>1. 0 \in Nat /\ 0 <= k /\ cfg.sampled \in SUBSET Nat
      BY <2>1
    <3>2. \A j \in 0 + 1 .. k : counter + j - 1 \notin cfg.sampled
      BY <1>4
    <3> QED BY <3>1, <3>2, <2>1, NoneBetween
  <2>3. counter + Len(Fixed) = counter + 0 /\ (counter + Len(Fixed))' = counter + k
    BY <1>1, <1>6, <1>9, <1>10
  <2>4. {g \in cfg.sampled : g < counter + Len(Fixed)} = {g \in cfg.sampled : g < counter + k}
    BY <2>2, <2>3, Zenon DEF Below
  <2>5. ASSUME NEW g \in 1 .. counter + k, g - 1 \notin cfg.sampled
        PROVE  Known[g].choice = pick(Known[g].ctx)
    <3>1. CASE g <= counter
      <4>1. g \in 1 .. counter + Len(Fixed)
        BY <3>1, <2>1, <2>3
      <4> QED BY <4>1, <2>5, <1>7 DEF Recorded
    <3>2. CASE ~(g <= counter)
      <4> DEFINE j == g - counter
      <4>1. j \in 1 .. Len(ds) /\ counter + j = g /\ ~(j <= Len(Fixed))
        BY <3>2, <2>1, <1>1
      <4> HIDE DEF j
      <4>2. ds[j].choice = pick(ds[j].ctx)
        BY <4>1, <1>3 DEF Follows
      <4> QED BY <4>1, <4>2, <1>3
    <3> QED BY <3>1, <3>2
  <2>6. \A x : pick(x)' = pick(x)
    BY DEF pick, Legal
  <2>7. {records[r].decision_index : r \in DOMAIN records} = {g \in cfg.sampled : g < counter + k}
    BY <2>4, <1>7 DEF Recorded
  <2> QED BY <2>3, <2>5, <2>6, <2>7, <1>7, <1>10, <1>16 DEF Recorded
<1>18. Cheaper'
  <2>1. Chosen(Run(<<>>, 0, i, script).ds) = script /\ Run(<<>>, 0, i, script).tree = t
    BY <1>1, Here DEF Past
  <2>2. ds = run_op(Run(<<>>, 0, i, script).tree, i, Fixed)
    BY <2>1, <1>1
  <2>3. i \in Nat /\ cfg \in Configurations /\ script \in Seq(Children) /\ Fixed \in Seq(Children)
    BY Here
  <2>4. Len(fixed') <= Len(ds)
    BY <1>3, <1>4, <1>6
  <2>5. Run(<<>>, 0, Ops, script \o fixed') = Run(<<>>, 0, Ops, script \o Fixed)
    <3> DEFINE z == First(ds, k)
    <3>1. z \in Seq(Children) /\ Len(z) <= Len(ds) /\ Follows(ds, z)
      BY <2>4, <1>6
    <3> HIDE DEF z
    <3>2. Run(<<>>, 0, Ops, script \o z) = Run(<<>>, 0, Ops, script \o Fixed)
      <4>1. Len(Fixed) <= Len(ds)
        BY <1>3
      <4> QED BY <4>1, <3>1, <2>1, <2>2, <2>3, AheadSame
    <3> QED BY <3>2, <1>6 DEF z
  <2>6. run_cost(script \o fixed') = run_cost(script \o Fixed)
    BY <2>5, Zenon DEF run_cost
  <2>7. /\ Run(<<>>, 0, Ops, script \o Fixed)' = Run(<<>>, 0, Ops, script \o fixed')
        /\ Run(<<>>, 0, Ops, <<>>)' = Run(<<>>, 0, Ops, <<>>)
        /\ run_cost(script \o Fixed)' = run_cost(script \o fixed')
        /\ run_cost(<<>>)' = run_cost(<<>>)
    BY <1>9, <1>10, RunFixed, RunCostFixed
  <2> QED BY <2>5, <2>6, <2>7, <1>7, <1>10 DEF Cheaper
<1> QED BY <1>13, <1>14, <1>15, <1>17, <1>18 DEF IndInv


(* A rollout costs a number, whatever its window.                          *)
LEMMA RolloutTyped ==
    ASSUME cfg \in Configurations, NEW tree \in Trees, NEW m \in Nat, m < Ops, NEW f \in Seq(Children)
    PROVE  rollout_cost(tree, m, f) \in Nat
<1> DEFINE S == {m + 1 + cfg.window, Ops}
           to == Min(S)
           r == Run(tree, m, to, f)
<1>1. cfg.window \in Nat /\ Ops \in Nat
  BY OracleAssumption DEF Configurations
<1>2. m + 1 + cfg.window \in Nat /\ m <= m + 1 + cfg.window
  BY <1>1
<1>3. S \in SUBSET Nat /\ S # {}
  BY <1>1, <1>2
<1>4. to \in S
  <2> HIDE DEF S
  <2> QED BY <1>3, MinIs
<1>5. to \in Nat /\ m <= to
  BY <1>1, <1>2, <1>4
<1> HIDE DEF to
<1>6. r \in Runs
  BY <1>5, RunTyped
<1> HIDE DEF r
<1>7. r.tree \in Trees /\ r.cost \in Nat
  BY <1>6 DEF Runs
<1>8. simulate_commit(r.tree) \in Nat
  BY <1>7, CostTyped
<1>9. rollout_cost(tree, m, f) = r.cost + simulate_commit(r.tree)
  BY Zenon DEF rollout_cost, r, to
<1> QED BY <1>7, <1>8, <1>9

(* pick_argmin returns an alternative that costs the least, and another    *)
(* than the greedy one only when that costs more.                          *)
LEMMA ArgminIs ==
    ASSUME NEW D \in SUBSET Nat, NEW cost \in [D -> Nat], NEW greedy \in D
    PROVE  /\ pick_argmin(cost, greedy) \in D
           /\ \/ pick_argmin(cost, greedy) = greedy
              \/ cost[pick_argmin(cost, greedy)] < cost[greedy]
<1> DEFINE T == {cost[c] : c \in D}
           best == {c \in DOMAIN cost : \A d \in DOMAIN cost : cost[c] <= cost[d]}
<1>1. DOMAIN cost = D /\ \A c \in D : cost[c] \in Nat
  OBVIOUS
<1>2. T \subseteq Nat /\ T # {}
  BY <1>1, Zenon
<1>3. PICK y \in T : \A z \in T : y <= z
  <2> HIDE DEF T
  <2> QED BY <1>2, Least
<1>4. PICK c \in D : y = cost[c]
  BY Zenon
<1>5. \A d \in D : cost[c] <= cost[d]
  BY <1>3, <1>4, Zenon
<1>6. c \in best /\ \A b \in best : b \in D /\ \A d \in D : cost[b] <= cost[d]
  BY <1>1, <1>5, Zenon
<1>7. best \in SUBSET Nat /\ best # {}
  BY <1>6, Zenon
<1>8. pick_argmin(cost, greedy) = IF greedy \in best THEN greedy ELSE Min(best)
  BY Zenon DEF pick_argmin
<1>9. \A b \in D : b \in best <=> \A d \in D : cost[b] <= cost[d]
  BY <1>1, Zenon
<1> HIDE DEF best
<1>10. Min(best) \in best
  BY <1>7, MinIs
<1>11. CASE greedy \in best
  BY <1>8, <1>11
<1>12. CASE greedy \notin best
  <2>1. pick_argmin(cost, greedy) \in D /\ cost[Min(best)] <= cost[greedy]
    BY <1>6, <1>8, <1>10, <1>12
  <2>2. ~(cost[greedy] <= cost[Min(best)])
    <3> SUFFICES ASSUME cost[greedy] <= cost[Min(best)] PROVE FALSE
      OBVIOUS
    <3>1. ASSUME NEW d \in D PROVE cost[greedy] <= cost[d]
      <4>1. cost[Min(best)] <= cost[d] /\ Min(best) \in D
        BY <1>6, <1>10
      <4>2. cost[d] \in Nat /\ cost[greedy] \in Nat /\ cost[Min(best)] \in Nat
        BY <4>1, <1>1
      <4> QED BY <4>1, <4>2
    <3> QED BY <3>1, <1>9, <1>12
  <2>3. cost[Min(best)] \in Nat /\ cost[greedy] \in Nat
    BY <1>1, <1>6, <1>10
  <2>4. cost[Min(best)] < cost[greedy]
    BY <2>2, <2>3
  <2> QED BY <2>1, <2>4, <1>8, <1>12
<1> QED BY <1>11, <1>12

(* What a resolved decision changes in its operation: the decisions before *)
(* it stay, it is made in the same context, and what is chosen is done.    *)
LEMMA Forced ==
    ASSUME cfg \in Configurations, NEW tree \in Trees, NEW m \in Nat, NEW f \in Seq(Children),
           NEW ds, ds = run_op(tree, m, f), AllLegal(ds), NEW j \in 1 .. Len(ds), Len(f) <= j - 1,
           NEW c \in Legal(ds[j].ctx), NEW g, g = Append(First(ds, j - 1), c)
    PROVE  LET es == run_op(tree, m, g)
           IN /\ g \in Seq(Children) /\ Len(g) = j /\ es \in Seq(Decisions) /\ j <= Len(es)
              /\ \A n \in 1 .. j - 1 : es[n] = ds[n]
              /\ es[j].ctx = ds[j].ctx /\ es[j].choice = c
              /\ AllLegal(es)
<1> DEFINE es == run_op(tree, m, g)
           s == First(ds, j - 1)
           k == j - 1
<1>1. Complete(tree, m, f, ds)
  BY RunOpComplete
<1>2. ds \in Seq(Decisions) /\ Len(ds) \in Nat /\ Follows(ds, f)
  BY <1>1 DEF Complete, Made, Follows
<1>3. k \in 0 .. Len(ds) /\ Len(f) \in Nat /\ Len(f) <= k /\ k + 1 = j /\ k + 1 <= Len(ds) /\ j \in Nat
  BY <1>2
<1> HIDE DEF k
<1>4. s = First(ds, k)
  BY DEF k
<1>5. s \in Seq(Children) /\ Len(s) = k /\ \A n \in 1 .. k : s[n] = ds[n].choice
  BY <1>2, <1>3, <1>4, FirstIs
<1>6. c \in Children
  BY DEF Legal
<1> HIDE DEF s
<1>7. /\ g \in Seq(Children) /\ Len(g) = j /\ g[j] = c
      /\ \A n \in 1 .. k : g[n] = ds[n].choice
  <2>1. g = Append(s, c) /\ Len(s) + 1 = j
    BY <1>3, <1>5 DEF s
  <2>2. /\ Append(s, c) \in Seq(Children) /\ Len(Append(s, c)) = Len(s) + 1
        /\ Append(s, c)[Len(s) + 1] = c /\ \A n \in 1 .. Len(s) : Append(s, c)[n] = s[n]
    BY <1>5, <1>6
  <2> QED BY <2>1, <2>2, <1>5
<1>8. Complete(tree, m, g, es)
  BY <1>7, RunOpComplete
<1> HIDE DEF es
<1>9. Obeys(ds, g, k)
  BY <1>3, <1>7 DEF Obeys
<1>10. /\ k <= Len(es) /\ \A n \in 1 .. k : ds[n] = es[n]
       /\ k + 1 <= Len(es) /\ es[k + 1].ctx = ds[k + 1].ctx
  <2>1. k \in 0 .. Len(ds)
    BY <1>3
  <2>2. /\ k <= Len(es) /\ \A n \in 1 .. k : ds[n] = es[n]
        /\ k + 1 <= Len(ds) => k + 1 <= Len(es) /\ es[k + 1].ctx = ds[k + 1].ctx
    BY <2>1, <1>1, <1>8, <1>9, CompletePrefix DEF Starts
  <2> QED BY <2>2, <1>3
<1>11. es \in Seq(Decisions) /\ Follows(es, g) /\ Len(es) \in Nat
  <2>1. Made(tree, m, g, es)
    BY <1>8 DEF Complete
  <2>2. es \in Seq(Decisions)
    BY <2>1 DEF Made
  <2>3. Follows(es, g)
    BY <2>1 DEF Made, Follows
  <2> QED BY <2>2, <2>3
<1>12. es[j].choice = c /\ j \in 1 .. Len(es) /\ es[j].ctx = ds[j].ctx
  <2>1. j \in 1 .. Len(es) /\ j <= Len(g)
    BY <1>3, <1>7, <1>10, <1>11
  <2> QED BY <2>1, <1>3, <1>7, <1>10, <1>11 DEF Follows
<1>13. ASSUME NEW n \in 1 .. Len(es), n <= Len(g) PROVE es[n].choice \in Legal(es[n].ctx)
  <2>1. CASE n = j
    BY <2>1, <1>12
  <2>2. CASE n # j
    <3>1. n \in 1 .. k /\ n \in 1 .. Len(ds)
      BY <2>2, <1>2, <1>3, <1>7, <1>13
    <3> QED BY <3>1, <1>10 DEF AllLegal
  <2> QED BY <2>1, <2>2
<1>14. AllLegal(es)
  BY <1>8, <1>13, LegalMade
<1> QED BY <1>7, <1>10, <1>11, <1>12, <1>14 DEF es, k


(* A whole run costs a number.                                             *)
LEMMA RunCostTyped ==
    ASSUME cfg \in Configurations
    PROVE  run_cost(<<>>) \in Nat
<1> DEFINE r == Run(<<>>, 0, Ops, <<>>)
<1>1. <<>> \in Trees /\ 0 \in Nat /\ Ops \in Nat /\ 0 <= Ops /\ <<>> \in Seq(Children)
  BY OracleAssumption DEF Trees
<1>2. r \in Runs
  BY <1>1, RunTyped
<1> HIDE DEF r
<1>3. r.tree \in Trees /\ r.cost \in Nat
  BY <1>2 DEF Runs
<1>4. simulate_commit(r.tree) \in Nat
  BY <1>3, CostTyped
<1>5. run_cost(<<>>) = r.cost + (IF Ops % cfg.commit_interval # 0 THEN simulate_commit(r.tree) ELSE 0)
  BY Zenon DEF run_cost, r
<1> DEFINE due == Ops % cfg.commit_interval # 0
<1> HIDE DEF due
<1>6. run_cost(<<>>) = r.cost + (IF due THEN simulate_commit(r.tree) ELSE 0)
  BY <1>5 DEF due
<1> QED BY <1>3, <1>4, <1>6

Indices(rs) == {rs[r].decision_index : r \in DOMAIN rs}

(* One record more, and the decisions that the records are about.          *)
LEMMA IndicesNext ==
    ASSUME NEW rs \in Seq(Records), NEW x \in Records
    PROVE  Indices(Append(rs, x)) = Indices(rs) \cup {x.decision_index}
<1> DEFINE all == Append(rs, x)
<1>1. /\ DOMAIN all = 1 .. Len(rs) + 1 /\ DOMAIN rs = 1 .. Len(rs) /\ Len(rs) \in Nat
      /\ all[Len(rs) + 1] = x /\ \A r \in 1 .. Len(rs) : all[r] = rs[r]
  OBVIOUS
<1> HIDE DEF all
<1>2. ASSUME NEW y \in Indices(all) PROVE y \in Indices(rs) \cup {x.decision_index}
  <2>1. PICK r \in DOMAIN all : y = all[r].decision_index
    BY Zenon DEF Indices
  <2>2. r = Len(rs) + 1 \/ r \in 1 .. Len(rs)
    BY <1>1
  <2>3. CASE r = Len(rs) + 1
    BY <2>1, <2>3, <1>1
  <2>4. CASE r \in 1 .. Len(rs)
    <3>1. r \in DOMAIN rs /\ y = rs[r].decision_index
      BY <2>1, <2>4, <1>1
    <3> QED BY <3>1, Zenon DEF Indices
  <2> QED BY <2>2, <2>3, <2>4
<1>3. ASSUME NEW y \in Indices(rs) PROVE y \in Indices(all)
  <2>1. PICK r \in DOMAIN rs : y = rs[r].decision_index
    BY Zenon DEF Indices
  <2>2. r \in DOMAIN all /\ y = all[r].decision_index
    BY <2>1, <1>1
  <2> QED BY <2>2, Zenon DEF Indices
<1>4. x.decision_index \in Indices(all)
  <2>1. Len(rs) + 1 \in DOMAIN all /\ x.decision_index = all[Len(rs) + 1].decision_index
    BY <1>1
  <2> QED BY <2>1, Zenon DEF Indices
<1>5. Indices(all) = Indices(rs) \cup {x.decision_index}
  BY <1>2, <1>3, <1>4
<1> QED BY <1>5 DEF all

(* One sampled decision more.                                              *)
LEMMA BelowNext ==
    ASSUME NEW S \in SUBSET Nat, NEW n \in S
    PROVE  Below(S, n + 1) = Below(S, n) \cup {n}
<1> SUFFICES ASSUME NEW g \in S PROVE g < n + 1 <=> g < n \/ g = n
  BY DEF Below
<1> QED OBVIOUS

(* Resolving a decision keeps the invariant.                               *)
LEMMA ResolveInv ==
    ASSUME IndInv, Resolve
    PROVE  IndInv'
<1> DEFINE ds == run_op(pre, i, fixed)
           S == Sampled(ds, Len(fixed))
           j == Min(S)
           known == SubSeq(Chosen(ds), 1, j - 1)
           ctx == ds[j].ctx
           cost == [c \in Legal(ctx) |-> rollout_cost(pre, i, Append(known, c))]
           greedy == pick(ctx)
           chosen == pick_argmin(cost, greedy)
           new == [op_index |-> i, decision_index |-> counter + j - 1, ctx |-> ctx,
                   alternatives |-> cost, chosen |-> chosen, greedy_choice |-> greedy]
           g == Append(First(ds, j - 1), chosen)
           es == run_op(pre, i, g)
<1>1. /\ resolving /\ S # {} /\ records' = Append(records, new) /\ fixed' = Append(known, chosen)
      /\ cfg' = cfg /\ i' = i /\ t' = t /\ checkpoint' = checkpoint
      /\ checkpoint_at' = checkpoint_at /\ counter' = counter /\ script' = script
      /\ pre' = pre /\ resolving' = resolving
  BY Zenon DEF Resolve
<1>2. Base = pre /\ Fixed = fixed
  BY <1>1 DEF Base, Fixed
<1>3. Typed /\ Rebuilds /\ Replays /\ Recorded /\ Cheaper
  BY DEF IndInv
<1>4. /\ i \in Nat /\ i < Ops /\ cfg \in Configurations /\ pre \in Trees /\ counter \in Nat
      /\ fixed \in Seq(Children) /\ Len(fixed) \in Nat /\ cfg.sampled \subseteq Nat
      /\ script \in Seq(Children)
  BY <1>1, <1>2, <1>3, Here DEF Typed
<1>5. /\ ds \in Seq(Decisions) /\ Len(ds) \in Nat /\ Follows(ds, fixed) /\ Len(fixed) <= Len(ds)
      /\ AllLegal(ds) /\ Complete(pre, i, fixed, ds)
      /\ \A n \in 1 .. counter : Known[n] = Past.ds[n]
      /\ \A n \in 1 .. Len(ds) : Known[counter + n] = ds[n]
  BY <1>2, Standing
<1>6. /\ j \in Len(fixed) + 1 .. Len(ds) /\ counter + j - 1 \in cfg.sampled
      /\ \A n \in Len(fixed) + 1 .. j - 1 : counter + n - 1 \notin cfg.sampled
  <2> HIDE DEF ds
  <2>1. \A n : n \in S <=> n \in Len(fixed) + 1 .. Len(ds) /\ counter + n - 1 \in cfg.sampled
    BY Zenon DEF Sampled
  <2>2. \A n \in Len(fixed) + 1 .. Len(ds) : n \in Nat
    BY <1>4, <1>5
  <2> HIDE DEF S
  <2>3. S \in SUBSET Nat /\ S # {}
    BY <2>1, <2>2, <1>1
  <2>4. Min(S) \in S /\ \A x \in S : Min(S) <= x
    BY <2>3, MinIs
  <2>5. j \in Len(fixed) + 1 .. Len(ds) /\ counter + j - 1 \in cfg.sampled
    BY <2>1, <2>4
  <2>6. ASSUME NEW n \in Len(fixed) + 1 .. j - 1, counter + n - 1 \in cfg.sampled PROVE FALSE
    <3> HIDE DEF j
    <3>1. n \in Len(fixed) + 1 .. Len(ds) /\ ~(j <= n)
      BY <2>5, <1>4, <1>5
    <3>2. n \in S
      BY <3>1, <2>1, <2>6, Zenon
    <3> QED BY <3>1, <3>2, <2>4 DEF j
  <2> QED BY <2>5, <2>6
<1> HIDE DEF ds, S, j
<1>7. /\ j \in 1 .. Len(ds) /\ j - 1 \in 0 .. Len(ds) /\ Len(fixed) <= j - 1 /\ j \in Nat
      /\ j - 1 \in Nat
  BY <1>4, <1>5, <1>6
<1>8. known = First(ds, j - 1)
  BY <1>4, <1>5, <1>7, FirstIs
<1> HIDE DEF known
<1>9. ctx \in Contexts /\ Legal(ctx) # {}
  <2>1. ds[j] \in Decisions
    BY <1>5, <1>7
  <2>2. Legal(ds[j].ctx) # {}
    BY <1>5, <1>7 DEF Complete, Made
  <2> QED BY <2>1, <2>2 DEF Decisions
<1>10. Legal(ctx) \in SUBSET Nat /\ Legal(ctx) \in SUBSET Children
  BY OracleAssumption DEF Legal
<1>11. greedy \in Legal(ctx)
  BY <1>9, PickLegal
<1>12. ASSUME NEW c \in Legal(ctx)
       PROVE  /\ Append(known, c) \in Seq(Children) /\ cost[c] = rollout_cost(pre, i, Append(known, c))
              /\ cost[c] \in Nat
  <2>1. known \in Seq(Children)
    BY <1>5, <1>7, <1>8, ChosenIs
  <2>2. Append(known, c) \in Seq(Children)
    BY <2>1, <1>10
  <2> HIDE DEF ctx
  <2>3. rollout_cost(pre, i, Append(known, c)) \in Nat
    BY <2>2, <1>4, RolloutTyped
  <2> QED BY <2>2, <2>3
<1>13. cost \in [Legal(ctx) -> Nat]
  <2> HIDE DEF ctx
  <2>1. \A c \in Legal(ctx) : rollout_cost(pre, i, Append(known, c)) \in Nat
    BY <1>12
  <2> QED BY <2>1
<1> HIDE DEF cost, greedy
<1>14. chosen \in Legal(ctx) /\ (chosen = greedy \/ cost[chosen] < cost[greedy])
  BY <1>10, <1>11, <1>13, ArgminIs
<1> HIDE DEF chosen
<1>15. /\ g \in Seq(Children) /\ Len(g) = j /\ es \in Seq(Decisions) /\ j <= Len(es)
       /\ \A n \in 1 .. j - 1 : es[n] = ds[n]
       /\ es[j].ctx = ctx /\ es[j].choice = chosen /\ AllLegal(es)
  BY <1>4, <1>5, <1>7, <1>14, Forced DEF ds
<1>16. fixed' = g
  BY <1>1, <1>8
<1> HIDE DEF g
<1>17. Base' = pre /\ Fixed' = g /\ run_op(Base, i, Fixed)' = es
  <2>1. Base' = pre /\ Fixed' = g
    BY <1>1, <1>16 DEF Base, Fixed
  <2>2. run_op(Base, i, Fixed)' = run_op(Base', i', Fixed')
    BY <1>1, RunOpFixed
  <2> QED BY <2>1, <2>2, <1>1
<1> HIDE DEF es
<1>18. Past' = Past
  <2>1. Past' = Run(<<>>, 0, i', script')
    BY <1>1, RunFixed DEF Past
  <2> QED BY <2>1, <1>1 DEF Past
<1>18a. records \in Seq(Records) /\ new \in Records
  <2>1. cost \in UNION {[D -> Nat] : D \in SUBSET Children}
    BY <1>10, <1>13, Zenon
  <2>2. counter + j - 1 \in Nat
    BY <1>4, <1>7
  <2>3. chosen \in Children /\ greedy \in Children
    BY <1>10, <1>11, <1>14
  <2> HIDE DEF ctx
  <2>4. new \in Records
    BY <2>1, <2>2, <2>3, <1>4, <1>9 DEF Records
  <2> QED BY <2>4, <1>3 DEF Typed
<1>19. Typed'
  <2> HIDE DEF new
  <2>2. records' \in Seq(Records)
    BY <1>1, <1>18a
  <2>3. fixed' \in Seq(Children)
    BY <1>15, <1>16
  <2> QED BY <2>2, <2>3, <1>1, <1>3 DEF Typed, Configurations, Trees, Records, Contexts
<1>20. Rebuilds'
  <2>1. Run(checkpoint, checkpoint_at, i, <<>>)' = Run(checkpoint, checkpoint_at, i, <<>>)
    BY <1>1, RunFixed
  <2>2. run_op(pre, i, <<>>)' = run_op(pre, i, <<>>)
    BY <1>1, RunOpFixed
  <2>3. After(pre, i, run_op(pre, i, <<>>))' = After(pre, i, run_op(pre, i, <<>>))
    BY <2>2, <1>1 DEF After, Chosen
  <2> QED BY <2>1, <2>3, <1>1, <1>2, <1>3, <1>17 DEF Rebuilds
<1>21. Replays'
  <2>1. \A x : AllLegal(x)' = AllLegal(x)
    BY DEF AllLegal
  <2>2. \A x : Chosen(x)' = Chosen(x)
    BY DEF Chosen
  <2>3. Past.tree = pre /\ Chosen(Past.ds) = script /\ AllLegal(Past.ds)
    BY <1>2, <1>3 DEF Replays
  <2>4. Len(g) <= Len(es)
    BY <1>15
  <2> QED BY <2>1, <2>2, <2>3, <2>4, <1>1, <1>15, <1>17, <1>18 DEF Replays
<1>22. Recorded'
  <2> DEFINE a == Past.ds
             k == j - 1
             n1 == counter + k
             all == Known'
  <2>1. /\ a \in Seq(Decisions) /\ Len(a) = counter /\ counter \in Nat /\ cfg.sampled \in SUBSET Nat
        /\ all = a \o es
    BY <1>3, <1>4, <1>17, <1>18, Here DEF Known
  <2> HIDE DEF a, all
  <2>2. /\ \A n \in 1 .. Len(a) : all[n] = a[n]
        /\ \A n \in 1 .. Len(es) : all[Len(a) + n] = es[n]
    <3>1. es \in Seq(Decisions)
      BY <1>15
    <3> QED BY <3>1, <2>1
  <2>3. k \in Nat /\ k + 1 = j /\ n1 \in Nat /\ counter + j = n1 + 1 /\ j <= Len(es)
        /\ Len(fixed) <= k /\ k <= Len(ds)
    BY <2>1, <1>7, <1>15
  <2>4. new.decision_index = n1 /\ n1 \in cfg.sampled
    BY <1>6
  <2>5. ASSUME NEW n \in 1 .. n1 PROVE all[n] = Known[n]
    <3>1. CASE n <= counter
      <4>1. n \in 1 .. counter
        BY <3>1, <2>1
      <4> QED BY <4>1, <2>1, <2>2, <1>5 DEF a
    <3>2. CASE ~(n <= counter)
      <4> DEFINE x == n - counter
      <4>1. x \in 1 .. k /\ x \in 1 .. Len(ds) /\ x \in 1 .. Len(es) /\ counter + x = n
        <5>1. n \in Nat /\ n <= counter + (j - 1) /\ Len(es) \in Nat /\ Len(ds) \in Nat /\ j \in Nat
          BY <2>1, <2>3, <1>5, <1>7, <1>15
        <5>2. counter \in Nat /\ k = j - 1 /\ k <= Len(ds) /\ j <= Len(es)
          BY <2>1, <2>3
        <5> HIDE DEF k
        <5> QED BY <5>1, <5>2, <3>2
      <4> HIDE DEF x
      <4>2. es[x] = ds[x]
        BY <4>1, <1>15
      <4> QED BY <4>1, <4>2, <2>1, <2>2, <1>5
    <3> QED BY <3>1, <3>2
  <2>6. all[n1 + 1].ctx = ctx /\ all[n1 + 1].choice = chosen
    <3>1. counter + j = n1 + 1 /\ j \in 1 .. Len(es)
      BY <2>3, <1>7, <1>15
    <3>2. all[counter + j] = es[j]
      BY <3>1, <2>1, <2>2
    <3> QED BY <3>1, <3>2, <1>15
  <2> HIDE DEF k, n1
  <2>7. /\ Indices(records) = Below(cfg.sampled, counter + Len(fixed))
        /\ \A r \in 2 .. Len(records) : records[r - 1].decision_index < records[r].decision_index
        /\ \A r \in DOMAIN records :
              /\ Known[records[r].decision_index + 1].ctx = records[r].ctx
              /\ Known[records[r].decision_index + 1].choice = records[r].chosen
        /\ \A x \in 1 .. counter + Len(fixed) :
              x - 1 \notin cfg.sampled => Known[x].choice = pick(Known[x].ctx)
    BY <1>2, <1>3, Zenon DEF Recorded, Indices, Below
  <2>8. Below(cfg.sampled, counter + Len(fixed)) = Below(cfg.sampled, n1)
    <3>1. \A n \in Len(fixed) + 1 .. k : counter + n - 1 \notin cfg.sampled
      BY <1>6 DEF k
    <3>2. Below(cfg.sampled, counter + Len(fixed)) = Below(cfg.sampled, counter + k)
      <4>1. cfg.sampled \in SUBSET Nat /\ counter \in Nat /\ Len(fixed) \in Nat /\ k \in Nat
            /\ Len(fixed) <= k
        BY <2>1, <2>3, <1>4
      <4> QED BY <4>1, <3>1, NoneBetween
    <3> QED BY <3>2 DEF n1
  <2>9. records \in Seq(Records) /\ new \in Records
    BY <1>18a
  <2> DEFINE idx == new.decision_index
             late == records'
             len == Len(records)
  <2>10. idx = n1 /\ new.ctx = ctx /\ new.chosen = chosen
    BY <2>4
  <2> HIDE DEF new
  <2>11. Indices(late) = Below(cfg.sampled, n1 + 1)
    <3>1. Indices(late) = Indices(records) \cup {n1}
      BY <2>9, <2>10, <1>1, IndicesNext
    <3>2. Below(cfg.sampled, n1 + 1) = Below(cfg.sampled, n1) \cup {n1}
      BY <2>1, <2>4, <2>10, BelowNext
    <3> QED BY <3>1, <3>2, <2>7, <2>8
  <2>12. /\ len \in Nat /\ Len(late) = len + 1 /\ DOMAIN late = 1 .. len + 1 /\ DOMAIN records = 1 .. len
         /\ late[len + 1] = new /\ \A r \in 1 .. len : late[r] = records[r]
    BY <2>9, <1>1
  <2>13. ASSUME NEW r \in 1 .. len
         PROVE  records[r].decision_index \in Nat /\ records[r].decision_index < n1
    <3> DEFINE d == records[r].decision_index
    <3>1. d \in Indices(records)
      BY <2>12, Zenon DEF Indices
    <3>2. d \in Below(cfg.sampled, n1)
      BY <3>1, <2>7, <2>8
    <3> HIDE DEF d
    <3>3. d \in cfg.sampled /\ d < n1
      BY <3>2, Zenon DEF Below
    <3> QED BY <3>3, <2>1 DEF d
  <2> HIDE DEF late, len, idx
  <2>14. ASSUME NEW r \in 2 .. Len(late)
         PROVE  late[r - 1].decision_index < late[r].decision_index
    <3>1. CASE r = len + 1
      <4>1. r - 1 \in 1 .. len /\ r - 1 = len
        BY <3>1, <2>12
      <4>2. late[r - 1] = records[r - 1] /\ late[r] = new
        BY <4>1, <3>1, <2>12
      <4> QED BY <4>1, <4>2, <2>10, <2>13 DEF idx
    <3>2. CASE r # len + 1
      <4>1. r - 1 \in 1 .. len /\ r \in 1 .. len /\ r \in 2 .. len
        BY <3>2, <2>12
      <4>2. late[r - 1] = records[r - 1] /\ late[r] = records[r]
        BY <4>1, <2>12
      <4> QED BY <4>1, <4>2, <2>7 DEF len
    <3> QED BY <3>1, <3>2
  <2>15. ASSUME NEW r \in DOMAIN late
         PROVE  /\ all[late[r].decision_index + 1].ctx = late[r].ctx
                /\ all[late[r].decision_index + 1].choice = late[r].chosen
    <3>1. CASE r = len + 1
      <4>1. late[r] = new
        BY <3>1, <2>12
      <4> QED BY <4>1, <2>6, <2>10 DEF idx
    <3>2. CASE r # len + 1
      <4>1. r \in 1 .. len /\ late[r] = records[r] /\ r \in DOMAIN records
        BY <3>2, <2>12
      <4> DEFINE d == records[r].decision_index
      <4>2. d \in Nat /\ d < n1
        BY <4>1, <2>13
      <4> HIDE DEF d
      <4>3. d + 1 \in 1 .. n1
        BY <4>2, <2>3
      <4>4. all[d + 1] = Known[d + 1]
        BY <4>3, <2>5
      <4> QED BY <4>1, <4>4, <2>7 DEF d
    <3> QED BY <3>1, <3>2
  <2>16. ASSUME NEW x \in 1 .. n1 + 1, x - 1 \notin cfg.sampled
         PROVE  all[x].choice = pick(all[x].ctx)
    <3>1. x \in 1 .. n1 /\ x # n1 + 1
      BY <2>3, <2>4, <2>10, <2>16
    <3>2. all[x] = Known[x]
      BY <3>1, <2>5
    <3>3. CASE x <= counter + Len(fixed)
      <4>1. x \in 1 .. counter + Len(fixed)
        BY <3>1, <3>3, <2>1, <1>4
      <4> QED BY <4>1, <3>2, <2>7, <2>16
    <3>4. CASE ~(x <= counter + Len(fixed))
      <4> DEFINE y == x - counter
      <4>1. y \in 1 .. Len(ds) /\ counter + y = x /\ ~(y <= Len(fixed))
        BY <3>1, <3>4, <2>1, <2>3, <1>4, <1>5 DEF n1
      <4> HIDE DEF y
      <4>2. ds[y].choice = pick(ds[y].ctx)
        BY <4>1, <1>5 DEF Follows
      <4> QED BY <4>1, <4>2, <3>2, <1>5
    <3> QED BY <3>3, <3>4
  <2>17. \A x : pick(x)' = pick(x)
    BY DEF pick, Legal
  <2>18. (counter + Len(Fixed))' = n1 + 1
    BY <2>3, <1>1, <1>15, <1>17
  <2>19. {late[r].decision_index : r \in DOMAIN late} = {x \in cfg.sampled : x < n1 + 1}
    BY <2>11, Zenon DEF Indices, Below
  <2> QED BY <2>14, <2>15, <2>16, <2>17, <2>18, <2>19, <1>1 DEF Recorded, late, all
<1>23. Cheaper'
  <2> DEFINE z == Append(known, greedy)
             sg == script \o g
             sz == script \o z
             extra == IF Ops % cfg.commit_interval # 0 THEN 0 ELSE 1
  <2>1. Chosen(Run(<<>>, 0, i, script).ds) = script /\ Run(<<>>, 0, i, script).tree = pre
    BY <1>2, Here DEF Past
  <2>2. z \in Seq(Children) /\ Len(z) <= Len(ds) /\ Follows(ds, z)
    <3> DEFINE k == j - 1
    <3>1. /\ k \in 0 .. Len(ds) /\ Len(fixed) <= k /\ k \in Nat /\ k + 1 = j /\ j \in 1 .. Len(ds)
          /\ ~(j <= Len(fixed))
      BY <1>4, <1>5, <1>7
    <3>2. known = First(ds, k)
      BY <1>8
    <3> HIDE DEF k
    <3>3. /\ known \in Seq(Children) /\ Len(known) = k
          /\ \A n \in 1 .. k : known[n] = ds[n].choice
      BY <3>1, <3>2, <1>4, <1>5, FirstIs
    <3>4. greedy \in Children /\ ds[j].choice = greedy
      BY <3>1, <1>5, <1>10, <1>11 DEF Follows, greedy
    <3>5. /\ z \in Seq(Children) /\ Len(z) = j /\ z[j] = greedy
          /\ \A n \in 1 .. k : z[n] = known[n]
      BY <3>1, <3>3, <3>4
    <3> HIDE DEF z
    <3>6. ASSUME NEW n \in 1 .. Len(ds)
          PROVE  ds[n].choice = IF n <= Len(z) THEN z[n] ELSE pick(ds[n].ctx)
      <4>1. CASE n = j
        BY <4>1, <3>4, <3>5
      <4>2. CASE n < j
        <5>1. n \in 1 .. k
          BY <4>2, <3>1, <1>5
        <5> QED BY <5>1, <4>2, <3>3, <3>5
      <4>3. CASE n > j
        <5>1. ~(n <= Len(fixed)) /\ ~(n <= Len(z))
          BY <4>3, <3>1, <3>5, <1>4, <1>5
        <5> QED BY <5>1, <1>5 DEF Follows
      <4> QED BY <4>1, <4>2, <4>3, <3>1
    <3> QED BY <3>1, <3>5, <3>6 DEF Follows
  <2>3. (script \o Fixed)' = sg
    BY <1>1, <1>17
  <2>4. /\ Run(<<>>, 0, Ops, script \o Fixed)' = Run(<<>>, 0, Ops, sg)
        /\ Run(<<>>, 0, Ops, <<>>)' = Run(<<>>, 0, Ops, <<>>)
        /\ run_cost(script \o Fixed)' = run_cost(sg)
        /\ run_cost(<<>>)' = run_cost(<<>>)
    <3>1. /\ Run(<<>>, 0, Ops, script \o Fixed)' = Run(<<>>, 0, Ops, (script \o Fixed)')
          /\ Run(<<>>, 0, Ops, <<>>)' = Run(<<>>, 0, Ops, <<>>)
      BY <1>1, RunFixed
    <3>2. /\ run_cost(script \o Fixed)' = run_cost((script \o Fixed)')
          /\ run_cost(<<>>)' = run_cost(<<>>)
      BY <1>1, RunCostFixed
    <3> QED BY <3>1, <3>2, <2>3
  <2>5. Run(<<>>, 0, Ops, sz) = Run(<<>>, 0, Ops, script \o fixed)
    <3> HIDE DEF z
    <3>1. ds = run_op(Run(<<>>, 0, i, script).tree, i, fixed)
      BY <2>1 DEF ds
    <3> QED BY <3>1, <2>1, <2>2, <1>4, <1>5, AheadSame
  <2>6. run_cost(sz) = run_cost(script \o fixed)
    BY <2>5, Zenon DEF run_cost
  <2>7. cfg.window >= Ops - 1 =>
           \/ Run(<<>>, 0, Ops, sz) = Run(<<>>, 0, Ops, <<>>)
           \/ run_cost(sz) < run_cost(<<>>)
    BY <2>5, <2>6, <1>2, <1>3 DEF Cheaper
  <2>8. CASE ~(cfg.window >= Ops - 1)
    BY <2>8, <1>1 DEF Cheaper
  <2>9. CASE chosen = greedy
    <3>1. g = z
      BY <2>9, <1>8 DEF g
    <3> QED BY <3>1, <2>4, <2>7, <1>1 DEF Cheaper
  <2>10. CASE cfg.window >= Ops - 1 /\ chosen # greedy
    <3>1. cost[chosen] = rollout_cost(pre, i, g) /\ cost[greedy] = rollout_cost(pre, i, z)
          /\ cost[chosen] \in Nat /\ cost[greedy] \in Nat /\ cost[chosen] < cost[greedy]
      <4>1. g = Append(known, chosen)
        BY <1>8 DEF g
      <4> QED BY <4>1, <2>10, <1>11, <1>12, <1>14
    <3> DEFINE p == Run(<<>>, 0, i, script)
    <3>2. /\ run_cost(sg) \in Nat /\ p.cost \in Nat
          /\ run_cost(sg) + extra = p.cost + rollout_cost(p.tree, i, g)
      BY <2>1, <2>10, <1>4, <1>15, RolloutIs
    <3>3. /\ run_cost(sz) \in Nat
          /\ run_cost(sz) + extra = p.cost + rollout_cost(p.tree, i, z)
      <4> HIDE DEF z
      <4> QED BY <2>1, <2>2, <2>10, <1>4, RolloutIs
    <3>4. extra \in Nat /\ p.tree = pre
      BY <2>1
    <3> HIDE DEF p, extra, sg, sz
    <3>5. run_cost(sg) < run_cost(sz)
      BY <3>1, <3>2, <3>3, <3>4
    <3>6. run_cost(<<>>) \in Nat
      BY <1>4, RunCostTyped
    <3>7. run_cost(sg) < run_cost(<<>>)
      <4>1. CASE Run(<<>>, 0, Ops, sz) = Run(<<>>, 0, Ops, <<>>)
        <5>1. run_cost(sz) = run_cost(<<>>)
          BY <4>1, Zenon DEF run_cost
        <5> QED BY <5>1, <3>5
      <4>2. CASE run_cost(sz) < run_cost(<<>>)
        BY <4>2, <3>2, <3>3, <3>5, <3>6
      <4> QED BY <4>1, <4>2, <2>7, <2>10
    <3> QED BY <3>7, <2>4 DEF Cheaper
  <2> QED BY <2>8, <2>9, <2>10
<1> QED BY <1>19, <1>20, <1>21, <1>22, <1>23 DEF IndInv


(* Nothing in the invariant changes when no variable does.                 *)
LEMMA StutterInv ==
    ASSUME IndInv, UNCHANGED vars
    PROVE  IndInv'
<1>1. /\ cfg' = cfg /\ i' = i /\ t' = t /\ checkpoint' = checkpoint
      /\ checkpoint_at' = checkpoint_at /\ counter' = counter /\ script' = script
      /\ records' = records /\ pre' = pre /\ fixed' = fixed /\ resolving' = resolving
  BY DEF vars
<1>2. Base' = Base /\ Fixed' = Fixed
  BY <1>1 DEF Base, Fixed
<1>3. run_op(Base, i, Fixed)' = run_op(Base, i, Fixed)
  <2>1. run_op(Base, i, Fixed)' = run_op(Base', i', Fixed')
    BY <1>1, RunOpFixed
  <2> QED BY <2>1, <1>1, <1>2
<1>4. Past' = Past
  <2>1. Past' = Run(<<>>, 0, i', script')
    BY <1>1, RunFixed DEF Past
  <2> QED BY <2>1, <1>1 DEF Past
<1>5. Known' = Known
  BY <1>3, <1>4 DEF Known
<1>6. Typed /\ Rebuilds /\ Replays /\ Recorded /\ Cheaper
  BY DEF IndInv
<1>7. Typed'
  BY <1>1, <1>6 DEF Typed, Configurations, Trees, Records, Contexts
<1>8. Rebuilds'
  <2>1. Run(checkpoint, checkpoint_at, i, <<>>)' = Run(checkpoint, checkpoint_at, i, <<>>)
    BY <1>1, RunFixed
  <2>2. run_op(pre, i, <<>>)' = run_op(pre, i, <<>>)
    BY <1>1, RunOpFixed
  <2>3. After(pre, i, run_op(pre, i, <<>>))' = After(pre, i, run_op(pre, i, <<>>))
    BY <2>2, <1>1 DEF After, Chosen
  <2> QED BY <2>1, <2>3, <1>1, <1>2, <1>6 DEF Rebuilds
<1>9. Replays'
  <2>1. \A x : AllLegal(x)' = AllLegal(x)
    BY DEF AllLegal
  <2>2. \A x : Chosen(x)' = Chosen(x)
    BY DEF Chosen
  <2> QED BY <2>1, <2>2, <1>1, <1>2, <1>3, <1>4, <1>6 DEF Replays
<1>10. Recorded'
  <2>1. \A x : pick(x)' = pick(x)
    BY DEF pick, Legal
  <2> QED BY <2>1, <1>1, <1>2, <1>5, <1>6 DEF Recorded
<1>11. Cheaper'
  <2>1. /\ Run(<<>>, 0, Ops, script \o Fixed)' = Run(<<>>, 0, Ops, script \o Fixed)
        /\ Run(<<>>, 0, Ops, <<>>)' = Run(<<>>, 0, Ops, <<>>)
        /\ run_cost(script \o Fixed)' = run_cost(script \o Fixed)
        /\ run_cost(<<>>)' = run_cost(<<>>)
    BY <1>1, <1>2, RunFixed, RunCostFixed
  <2> QED BY <2>1, <1>1, <1>6 DEF Cheaper
<1> QED BY <1>7, <1>8, <1>9, <1>10, <1>11 DEF IndInv

(* Every step keeps the invariant.                                         *)
LEMMA StepInv == IndInv /\ [Next]_vars => IndInv'
<1> SUFFICES ASSUME IndInv, [Next]_vars PROVE IndInv'
  OBVIOUS
<1>1. CASE RunOp
  <2> DEFINE ds == run_op(t, i, <<>>)
  <2>1. /\ ~resolving /\ i < Ops /\ UNCHANGED <<cfg, checkpoint, checkpoint_at, records>>
        /\ \/ /\ Sampled(ds, 0) = {} /\ Done(t, ds) /\ UNCHANGED <<pre, fixed, resolving>>
           \/ /\ Sampled(ds, 0) # {} /\ t' = After(t, i, ds) /\ pre' = Rebuild
              /\ fixed' = SubSeq(Chosen(ds), 1, Min(Sampled(ds, 0)) - 1)
              /\ resolving' = TRUE /\ UNCHANGED <<i, counter, script>>
    BY <1>1, Zenon DEF RunOp
  <2>2. CASE Sampled(ds, 0) = {}
    <3>1. Done(t, ds) /\ UNCHANGED <<pre, fixed, resolving>>
      BY <2>1, <2>2
    <3> QED BY <3>1, <2>1, <2>2, RunOpDone
  <2>3. CASE Sampled(ds, 0) # {}
    <3>1. /\ t' = After(t, i, ds) /\ pre' = Rebuild
          /\ fixed' = SubSeq(Chosen(ds), 1, Min(Sampled(ds, 0)) - 1)
          /\ resolving' = TRUE /\ UNCHANGED <<i, counter, script>>
      BY <2>1, <2>3
    <3> QED BY <3>1, <2>1, <2>3, RunOpResolve
  <2> QED BY <2>2, <2>3
<1>2. CASE Resolve
  BY <1>2, ResolveInv
<1>3. CASE Accept
  BY <1>3, AcceptInv
<1>4. CASE UNCHANGED vars
  BY <1>4, StutterInv
<1> QED BY <1>1, <1>2, <1>3, <1>4 DEF Next

(* What the invariant says when an operation is being resolved.            *)
LEMMA RebuiltNow == IndInv => RebuildExact
<1> SUFFICES ASSUME IndInv, resolving PROVE pre = Front(t)
  BY DEF RebuildExact
<1> DEFINE ds == run_op(pre, i, <<>>)
<1>1. pre \in Trees /\ i \in Nat /\ cfg \in Configurations /\ <<>> \in Seq(Children)
  BY DEF IndInv, Typed
<1>2. t = After(pre, i, ds)
  BY DEF IndInv, Rebuilds
<1>3. ds \in Seq(Decisions)
  BY <1>1, RunOpComplete DEF Complete, Made
<1> HIDE DEF ds
<1> QED BY <1>1, <1>2, <1>3, AfterTyped

(* What the invariant says between two operations.                         *)
LEMMA ReplaysNow == IndInv => ScriptReplays
<1> SUFFICES ASSUME IndInv, ~resolving
             PROVE  /\ Past.tree = t /\ Len(Past.ds) = Len(script) /\ counter = Len(script)
                    /\ \A d \in DOMAIN script : Past.ds[d].choice \in Legal(Past.ds[d].ctx)
  BY Zenon DEF ScriptReplays, Past
<1>1. /\ Past.tree = Base /\ Len(Past.ds) = counter /\ counter = Len(script) /\ AllLegal(Past.ds)
      /\ script \in Seq(Children)
  BY Here
<1>2. Base = t
  BY DEF Base
<1>3. DOMAIN script = 1 .. Len(Past.ds)
  BY <1>1
<1> QED BY <1>1, <1>2, <1>3 DEF AllLegal

(* And about the records.                                                  *)
LEMMA RecordedNow == IndInv => RecordsExact
<1> DEFINE a == Past.ds
<1> SUFFICES ASSUME IndInv, ~resolving
             PROVE  /\ {records[r].decision_index : r \in DOMAIN records}
                          = {g \in cfg.sampled : g < counter}
                    /\ \A r \in 2 .. Len(records) :
                          records[r - 1].decision_index < records[r].decision_index
                    /\ \A r \in DOMAIN records :
                          /\ a[records[r].decision_index + 1].ctx = records[r].ctx
                          /\ a[records[r].decision_index + 1].choice = records[r].chosen
                    /\ \A g \in 1 .. counter : g - 1 \notin cfg.sampled => a[g].choice = pick(a[g].ctx)
  BY Zenon DEF RecordsExact, Past
<1>1. Fixed = <<>> /\ Len(Fixed) = 0
  BY DEF Fixed
<1>2. counter \in Nat /\ cfg.sampled \subseteq Nat
  BY Here
<1>3. counter + Len(Fixed) = counter
  BY <1>1, <1>2
<1>4. /\ {records[r].decision_index : r \in DOMAIN records} = {g \in cfg.sampled : g < counter}
      /\ \A r \in 2 .. Len(records) : records[r - 1].decision_index < records[r].decision_index
      /\ \A r \in DOMAIN records :
            /\ Known[records[r].decision_index + 1].ctx = records[r].ctx
            /\ Known[records[r].decision_index + 1].choice = records[r].chosen
      /\ \A g \in 1 .. counter : g - 1 \notin cfg.sampled => Known[g].choice = pick(Known[g].ctx)
  BY <1>3 DEF IndInv, Recorded
<1>5. \A n \in 1 .. counter : Known[n] = a[n]
  BY Standing
<1> HIDE DEF a
<1>6. ASSUME NEW r \in DOMAIN records
      PROVE  /\ a[records[r].decision_index + 1].ctx = records[r].ctx
             /\ a[records[r].decision_index + 1].choice = records[r].chosen
  <2> DEFINE d == records[r].decision_index
  <2>1. d \in {g \in cfg.sampled : g < counter}
    BY <1>4, Zenon
  <2> HIDE DEF d
  <2>2. d + 1 \in 1 .. counter
    BY <2>1, <1>2
  <2>3. Known[d + 1] = a[d + 1]
    BY <2>2, <1>5
  <2> QED BY <2>3, <1>4 DEF d
<1> QED BY <1>4, <1>5, <1>6

(* And about the cost of the finished run.                                 *)
LEMMA CheaperNow == IndInv => NeverCostlier
<1> SUFFICES ASSUME IndInv, i = Ops, cfg.window >= Ops - 1
             PROVE  \/ script = Chosen(Run(<<>>, 0, Ops, <<>>).ds)
                    \/ run_cost(script) < run_cost(<<>>)
  BY DEF NeverCostlier
<1>1. ~resolving
  BY Here DEF IndInv, Typed
<1>2. script \o Fixed = script
  <2>1. Fixed = <<>> /\ script \in Seq(Children)
    BY <1>1, Here DEF Fixed
  <2> QED BY <2>1
<1>3. Chosen(Run(<<>>, 0, Ops, script).ds) = script
  BY Here DEF Past
<1>4. \/ Run(<<>>, 0, Ops, script) = Run(<<>>, 0, Ops, <<>>)
      \/ run_cost(script) < run_cost(<<>>)
  BY <1>2 DEF IndInv, Cheaper
<1> QED BY <1>3, <1>4

-----------------------------------------------------------------------------
(* The tree that a rollout starts from, rebuilt from the checkpoint by the *)
(* operations since then and their commits, is the tree that the operation *)
(* was run on: for every commit interval and wherever the checkpoint was   *)
(* taken (oracle.rs improved_run).                                         *)
THEOREM RolloutsStartHere == Spec => []RebuildExact
BY InitInv, StepInv, RebuiltNow, PTL DEF Spec

(* Between two operations the script is the run: replaying it makes the    *)
(* same tree, forces only legal choices and makes as many decisions as it  *)
(* has choices, which scripted_cost asserts.                               *)
THEOREM ScriptIsTheRun == Spec => []ScriptReplays
BY InitInv, StepInv, ReplaysNow, PTL DEF Spec

(* The records are those of the sampled decisions, in their order, each    *)
(* with the context and the choice of that decision in the run, however    *)
(* often the operation was replayed; all other decisions are greedy.       *)
THEOREM RecordsAreTheRun == Spec => []RecordsExact
BY InitInv, StepInv, RecordedNow, PTL DEF Spec

(* Policy improvement: when the rollout window reaches the end of the run, *)
(* the improved run makes the greedy run's decisions or costs less, for    *)
(* every number of operations, commit interval and set of samples.         *)
THEOREM PolicyImproves == Spec => []NeverCostlier
BY InitInv, StepInv, CheaperNow, PTL DEF Spec
=============================================================================
