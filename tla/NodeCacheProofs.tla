-------------------------- MODULE NodeCacheProofs ---------------------------
(***************************************************************************)
(* Proofs about the node cache, for every budget, every set of node sizes  *)
(* and every number of nodes: its books are exact, eviction takes the      *)
(* least recently used node that may go, it stays over budget only when    *)
(* nothing may go, and its queue stays bounded.                            *)
(***************************************************************************)
EXTENDS NodeCache, FiniteSetTheorems, WellFoundedInduction, TLAPS

-----------------------------------------------------------------------------
(* Induction over the natural numbers, for sets of them                    *)

(* A set of natural numbers that is not empty has a least element.         *)
LEMMA Least ==
    ASSUME NEW T, T \subseteq Nat, T # {}
    PROVE  \E x \in T : \A y \in T : x <= y
<1>1. IsWellFoundedOn(OpToRel(<, Nat), Nat)
  BY NatLessThanWellFounded, Zenon
<1>2. PICK x \in T : \A y \in T : ~ (<<y, x>> \in OpToRel(<, Nat))
  BY <1>1, WFMin, Zenon
<1>3. \A y \in T : ~(y < x)
  BY <1>2, Zenon DEF OpToRel
<1> QED BY <1>3

(* A set that has 0 and is closed under successor has every number.        *)
LEMMA SetInduction ==
    ASSUME NEW S, 0 \in S, \A n \in Nat : n \in S => n + 1 \in S
    PROVE  \A n \in Nat : n \in S
<1> SUFFICES ASSUME Nat \ S # {} PROVE FALSE
  OBVIOUS
<1>1. PICK x \in Nat \ S : \A y \in Nat \ S : x <= y
  BY Least
<1>2. x # 0 /\ x - 1 \in Nat /\ x - 1 \notin Nat \ S
  BY <1>1
<1> QED BY <1>2

(* The same up to a bound.                                                 *)
LEMMA BoundedInduction ==
    ASSUME NEW N \in Nat, NEW S, 0 \in S, \A n \in 0 .. N - 1 : n \in S => n + 1 \in S
    PROVE  \A n \in 0 .. N : n \in S
<1> DEFINE T == {n \in Nat : n <= N => n \in S}
<1>1. \A n \in Nat : n \in T => n + 1 \in T
  OBVIOUS
<1>2. 0 \in T
  OBVIOUS
<1>3. \A n \in Nat : n \in T
  <2> HIDE DEF T
  <2> QED BY <1>1, <1>2, SetInduction
<1> QED BY <1>3

(* A function on 0 .. N that starts with start and goes on with step.      *)
Recursion(N, V, start, step) ==
    \E f \in [0 .. N -> V] :
        f[0] = start /\ \A i \in 1 .. N : f[i] = step[<<i, f[i - 1]>>]

(* A recursion over 0 .. N that starts at a value of V, and takes a value  *)
(* of V to one of V at every index, is met by a function.                  *)
LEMMA RecursionExists ==
    ASSUME NEW N \in Nat, NEW V, NEW start \in V, NEW step \in [(1 .. N) \X V -> V]
    PROVE  Recursion(N, V, start, step)
<1> DEFINE Meets(f, n) == f[0] = start /\ \A i \in 1 .. n : f[i] = step[<<i, f[i - 1]>>]
           S == {n \in Nat : \E f \in [0 .. n -> V] : Meets(f, n)}
<1>1. 0 \in S
  <2>1. [i \in 0 .. 0 |-> start] \in [0 .. 0 -> V] /\ Meets([i \in 0 .. 0 |-> start], 0)
    OBVIOUS
  <2> QED BY <2>1
<1>2. ASSUME NEW n \in 0 .. N - 1, n \in S PROVE n + 1 \in S
  <2>1. PICK f \in [0 .. n -> V] : Meets(f, n)
    BY <1>2
  <2> DEFINE g == [i \in 0 .. n + 1 |-> IF i <= n THEN f[i] ELSE step[<<n + 1, f[n]>>]]
  <2>2. <<n + 1, f[n]>> \in (1 .. N) \X V
    OBVIOUS
  <2>3. g \in [0 .. n + 1 -> V]
    BY <2>2
  <2>4. \A i \in 0 .. n : g[i] = f[i]
    OBVIOUS
  <2>5. g[n + 1] = step[<<n + 1, g[n]>>]
    <3>1. n + 1 \in 0 .. n + 1 /\ ~(n + 1 <= n) /\ n \in 0 .. n
      OBVIOUS
    <3>2. g[n + 1] = step[<<n + 1, f[n]>>]
      BY <3>1, Zenon
    <3> HIDE DEF g
    <3> QED BY <3>1, <3>2, <2>4, Zenon
  <2>6. ASSUME NEW i \in 1 .. n + 1 PROVE g[i] = step[<<i, g[i - 1]>>]
    <3>1. CASE i <= n
      <4>1. i \in 1 .. n /\ i - 1 \in 0 .. n /\ i \in 0 .. n
        BY <3>1
      <4> HIDE DEF g
      <4> QED BY <4>1, <2>1, <2>4
    <3>2. CASE i = n + 1
      <4>1. i - 1 = n
        BY <3>2
      <4> HIDE DEF g
      <4> QED BY <4>1, <3>2, <2>5
    <3> QED BY <3>1, <3>2
  <2>7. g[0] = start
    BY <2>1
  <2> HIDE DEF g
  <2> QED BY <2>3, <2>6, <2>7
<1>3. N \in S
  <2> HIDE DEF S
  <2> QED BY <1>1, <1>2, BoundedInduction
<1> QED BY <1>3 DEF Recursion

-----------------------------------------------------------------------------
(* The bytes in memory                                                     *)

BytesAt(s, n) == IF s[n].place = "Loaded" THEN s[n].bytes ELSE 0

(* The running totals behind ResidentBytes.                                *)
Totals(s, f) == /\ f \in [0 .. Len(s) -> Nat]
                /\ f[0] = 0
                /\ \A n \in 1 .. Len(s) : f[n] = f[n - 1] + BytesAt(s, n)

(* ResidentBytes is the last of the running totals.                        *)
LEMMA TotalsExist ==
    ASSUME NEW s \in Seq(Slot)
    PROVE  \E f : Totals(s, f) /\ ResidentBytes(s) = f[Len(s)]
<1> DEFINE N == Len(s)
           G(f) == [n \in 0 .. Len(s) |->
                       IF n = 0 THEN 0
                       ELSE f[n - 1] + (IF s[n].place = "Loaded" THEN s[n].bytes ELSE 0)]
           step == [p \in (1 .. N) \X Nat |-> p[2] + BytesAt(s, p[1])]
<1>1. \A n \in 1 .. N : s[n] \in Slot /\ BytesAt(s, n) \in Nat
  <2>1. \A n \in 1 .. N : s[n] \in Slot
    OBVIOUS
  <2> QED BY <2>1 DEF Slot, BytesAt
<1>2. step \in [(1 .. N) \X Nat -> Nat]
  BY <1>1
<1>3. PICK f \in [0 .. N -> Nat] : f[0] = 0 /\ \A i \in 1 .. N : f[i] = step[<<i, f[i - 1]>>]
  <2>1. N \in Nat /\ 0 \in Nat
    OBVIOUS
  <2> HIDE DEF step, N
  <2>2. Recursion(N, Nat, 0, step)
    BY <2>1, <1>2, RecursionExists
  <2> QED BY <2>2, Zenon DEF Recursion
<1>4. ASSUME NEW i \in 1 .. N PROVE f[i] = f[i - 1] + BytesAt(s, i)
  <2>1. <<i, f[i - 1]>> \in (1 .. N) \X Nat
    OBVIOUS
  <2> QED BY <2>1, <1>3
<1>5. f = G(f)
  BY <1>3, <1>4 DEF BytesAt
<1> DEFINE h == CHOOSE g : g = G(g)
<1>6. h = G(h)
  <2> HIDE DEF G
  <2> QED BY <1>5, Zenon
<1>7. ResidentBytes(s) = h[N]
  BY Zenon DEF ResidentBytes
<1>8. Totals(s, h)
  <2> DEFINE S == {n \in 0 .. N : h[n] \in Nat}
  <2> HIDE DEF h
  <2>1. h[0] = 0
    BY <1>6
  <2>2. \A n \in 1 .. N : h[n] = h[n - 1] + BytesAt(s, n)
    BY <1>6 DEF BytesAt
  <2>3. \A n \in 0 .. N - 1 : n \in S => n + 1 \in S
    <3> SUFFICES ASSUME NEW n \in 0 .. N - 1, n \in S PROVE n + 1 \in S
      OBVIOUS
    <3>1. n + 1 \in 1 .. N /\ (n + 1) - 1 = n
      OBVIOUS
    <3>2. h[n + 1] = h[n] + BytesAt(s, n + 1)
      BY <3>1, <2>2
    <3> QED BY <3>1, <3>2, <1>1
  <2>4. \A n \in 0 .. N : n \in S
    <3>1. 0 \in S /\ N \in Nat
      BY <2>1
    <3> HIDE DEF S
    <3> QED BY <3>1, <2>3, BoundedInduction
  <2> QED BY <1>6, <2>1, <2>2, <2>4 DEF Totals
<1> QED BY <1>7, <1>8, Zenon

(* Only a node in memory counts, and only with its own bytes.              *)
LEMMA BytesType ==
    ASSUME NEW s \in Seq(Slot), NEW n \in 1 .. Len(s)
    PROVE  BytesAt(s, n) \in Nat /\ s[n] \in Slot
<1>1. s[n] \in Slot
  OBVIOUS
<1> QED BY <1>1 DEF Slot, BytesAt

(* Where two arenas differ in one slot, their totals differ by what that   *)
(* slot counts, which is no more than the total: the books cannot          *)
(* underflow.                                                              *)
LEMMA BytesUpdate ==
    ASSUME NEW s \in Seq(Slot), NEW t \in Seq(Slot), Len(t) = Len(s),
           NEW id \in 1 .. Len(s),
           \A n \in 1 .. Len(s) : n # id => BytesAt(t, n) = BytesAt(s, n)
    PROVE  /\ ResidentBytes(s) \in Nat
           /\ ResidentBytes(s) >= BytesAt(s, id)
           /\ ResidentBytes(t) = (ResidentBytes(s) - BytesAt(s, id)) + BytesAt(t, id)
<1>1. PICK f : Totals(s, f) /\ ResidentBytes(s) = f[Len(s)]
  BY TotalsExist
<1>2. PICK g : Totals(t, g) /\ ResidentBytes(t) = g[Len(t)]
  BY TotalsExist
<1> DEFINE N == Len(s)
           a == BytesAt(s, id)
           b == BytesAt(t, id)
           S == {n \in 0 .. N : /\ n < id => g[n] = f[n]
                                /\ n >= id => f[n] >= a /\ g[n] = (f[n] - a) + b}
<1>3. N \in Nat /\ id \in 1 .. N
  OBVIOUS
<1>4. a \in Nat /\ b \in Nat
  BY BytesType
<1>5. /\ f \in [0 .. N -> Nat] /\ g \in [0 .. N -> Nat] /\ f[0] = 0 /\ g[0] = 0
      /\ \A n \in 1 .. N : /\ f[n] = f[n - 1] + BytesAt(s, n)
                           /\ g[n] = g[n - 1] + BytesAt(t, n)
                           /\ BytesAt(s, n) \in Nat
  BY <1>1, <1>2, BytesType DEF Totals
<1>6. \A n \in 1 .. N : n # id => BytesAt(t, n) = BytesAt(s, n)
  OBVIOUS
<1> HIDE DEF N
<1>7. 0 \in S
  BY <1>3, <1>5
<1>8. \A n \in 0 .. N - 1 : n \in S => n + 1 \in S
  <2> SUFFICES ASSUME NEW n \in 0 .. N - 1, n \in S PROVE n + 1 \in S
    OBVIOUS
  <2>1. n + 1 \in 1 .. N /\ (n + 1) - 1 = n /\ n \in 0 .. N
    BY <1>3
  <2>2. f[n + 1] = f[n] + BytesAt(s, n + 1) /\ g[n + 1] = g[n] + BytesAt(t, n + 1)
    BY <2>1, <1>5
  <2>3. f[n] \in Nat /\ g[n] \in Nat /\ BytesAt(s, n + 1) \in Nat
    BY <2>1, <1>5
  <2>4. CASE n + 1 < id
    <3>1. g[n + 1] = f[n + 1]
      BY <2>1, <2>2, <2>4, <1>3, <1>6
    <3> QED BY <3>1, <2>1, <2>4
  <2>5. CASE n + 1 = id
    <3>1. g[n] = f[n] /\ f[n + 1] = f[n] + a /\ g[n + 1] = g[n] + b
      BY <2>2, <2>5, <1>3
    <3>2. f[n + 1] >= a /\ g[n + 1] = (f[n + 1] - a) + b
      BY <3>1, <2>3, <1>4
    <3> QED BY <3>2, <2>1, <2>5
  <2>6. CASE n + 1 > id
    <3>1. f[n] >= a /\ g[n] = (f[n] - a) + b
      BY <2>6, <1>3
    <3>2. BytesAt(t, n + 1) = BytesAt(s, n + 1)
      BY <2>1, <2>6, <1>6, <1>3
    <3>3. f[n + 1] >= a /\ g[n + 1] = (f[n + 1] - a) + b
      BY <3>1, <3>2, <2>2, <2>3, <1>4
    <3> QED BY <3>3, <2>1, <2>6
  <2> QED BY <2>4, <2>5, <2>6, <1>3
<1>9. N \in S
  <2>1. N \in 0 .. N
    BY <1>3
  <2> HIDE DEF S
  <2> QED BY <2>1, <1>3, <1>7, <1>8, BoundedInduction
<1>10. f[N] >= a /\ g[N] = (f[N] - a) + b /\ f[N] \in Nat
  BY <1>9, <1>3, <1>5
<1> QED BY <1>10, <1>1, <1>2 DEF N

(* A slot at the end adds what it counts.                                  *)
LEMMA BytesAppend ==
    ASSUME NEW s \in Seq(Slot), NEW x \in Slot
    PROVE  /\ ResidentBytes(s) \in Nat
           /\ ResidentBytes(Append(s, x)) =
                 ResidentBytes(s) + (IF x.place = "Loaded" THEN x.bytes ELSE 0)
<1> DEFINE N == Len(s)
           t == Append(s, x)
<1>1. t \in Seq(Slot) /\ Len(t) = N + 1 /\ t[N + 1] = x /\ N \in Nat
      /\ \A n \in 1 .. N : t[n] = s[n]
  OBVIOUS
<1> HIDE DEF t
<1>2. PICK f : Totals(s, f) /\ ResidentBytes(s) = f[Len(s)]
  BY TotalsExist
<1>3. PICK g : Totals(t, g) /\ ResidentBytes(t) = g[Len(t)]
  BY TotalsExist, <1>1
<1> DEFINE S == {n \in 0 .. N : g[n] = f[n]}
<1>4. /\ f \in [0 .. N -> Nat] /\ f[0] = 0 /\ g[0] = 0
      /\ \A n \in 1 .. N : f[n] = f[n - 1] + BytesAt(s, n) /\ g[n] = g[n - 1] + BytesAt(t, n)
      /\ g[N + 1] = g[N] + BytesAt(t, N + 1)
  <2>1. /\ N + 1 \in 1 .. Len(t) /\ (N + 1) - 1 = N
        /\ \A n \in 1 .. N : n \in 1 .. Len(t)
    BY <1>1
  <2> QED BY <2>1, <1>2, <1>3 DEF Totals
<1>5. \A n \in 1 .. N : BytesAt(t, n) = BytesAt(s, n)
  BY <1>1 DEF BytesAt
<1> HIDE DEF N
<1>6. 0 \in S
  BY <1>4, <1>1
<1>7. \A n \in 0 .. N - 1 : n \in S => n + 1 \in S
  <2> SUFFICES ASSUME NEW n \in 0 .. N - 1, n \in S PROVE n + 1 \in S
    OBVIOUS
  <2>1. n + 1 \in 1 .. N /\ (n + 1) - 1 = n /\ n + 1 \in 0 .. N
    BY <1>1
  <2> QED BY <2>1, <1>4, <1>5
<1>8. N \in S
  <2>1. N \in 0 .. N
    BY <1>1
  <2> HIDE DEF S
  <2> QED BY <2>1, <1>1, <1>6, <1>7, BoundedInduction
<1>9. ResidentBytes(t) = f[N] + BytesAt(t, N + 1) /\ f[N] \in Nat
  BY <1>8, <1>4, <1>1, <1>3
<1> QED BY <1>9, <1>1, <1>2 DEF N, t, BytesAt

-----------------------------------------------------------------------------
(* The queue                                                               *)

Entry == Nat \X Nat

Increasing(q) == \A j, k \in DOMAIN q : j < k => q[j][2] < q[k][2]

(* c has the current entries among the first i of q, in order.             *)
Keeps(s, q, i, c) ==
    /\ c \in Seq(Entry)
    /\ \A j \in DOMAIN c : Current(s, c[j]) /\ \E k \in 1 .. i : q[k] = c[j]
    /\ Increasing(c)
    /\ \A k \in 1 .. i : Current(s, q[k]) => \E j \in DOMAIN c : c[j] = q[k]

(* One iteration of the compaction.                                        *)
LEMMA KeepsStep ==
    ASSUME NEW s, NEW q \in Seq(Entry), Increasing(q), NEW i \in 1 .. Len(q),
           NEW c, Keeps(s, q, i - 1, c)
    PROVE  Keeps(s, q, i, IF Current(s, q[i]) THEN Append(c, q[i]) ELSE c)
<1>1. q[i] \in Entry /\ i \in Nat
  OBVIOUS
<1>2. \A k \in 1 .. i : k \in 1 .. i - 1 \/ k = i
  OBVIOUS
<1>3. CASE ~Current(s, q[i])
  BY <1>2, <1>3 DEF Keeps
<1>4. CASE Current(s, q[i])
  <2> DEFINE d == Append(c, q[i])
  <2>1. /\ d \in Seq(Entry) /\ Len(d) = Len(c) + 1 /\ d[Len(c) + 1] = q[i]
        /\ \A j \in 1 .. Len(c) : d[j] = c[j]
    BY <1>1 DEF Keeps
  <2>2. DOMAIN c = 1 .. Len(c) /\ Len(c) \in Nat /\ c \in Seq(Entry) /\ DOMAIN d = 1 .. Len(d)
    BY <2>1 DEF Keeps
  <2> HIDE DEF d
  <2>3. \A j \in DOMAIN d : j \in DOMAIN c \/ j = Len(c) + 1
    BY <2>1, <2>2
  <2>4. \A j \in DOMAIN d : Current(s, d[j]) /\ \E k \in 1 .. i : q[k] = d[j]
    <3> SUFFICES ASSUME NEW j \in DOMAIN d
                 PROVE  Current(s, d[j]) /\ \E k \in 1 .. i : q[k] = d[j]
      OBVIOUS
    <3>1. CASE j \in DOMAIN c
      BY <3>1, <2>1, <2>2 DEF Keeps
    <3>2. CASE j = Len(c) + 1
      BY <3>2, <2>1, <1>4
    <3> QED BY <3>1, <3>2, <2>3
  <2>5. Increasing(d)
    <3> SUFFICES ASSUME NEW j \in DOMAIN d, NEW k \in DOMAIN d, j < k
                 PROVE  d[j][2] < d[k][2]
      BY DEF Increasing
    <3>1. CASE k \in DOMAIN c
      <4>1. j \in DOMAIN c
        BY <3>1, <2>2, <2>1
      <4> QED BY <4>1, <3>1, <2>1, <2>2 DEF Keeps, Increasing
    <3>2. CASE k = Len(c) + 1
      <4>1. j \in DOMAIN c
        BY <3>2, <2>2, <2>1
      <4>2. PICK m \in 1 .. i - 1 : q[m] = c[j]
        BY <4>1 DEF Keeps
      <4>3. m \in DOMAIN q /\ i \in DOMAIN q /\ m < i
        OBVIOUS
      <4>4. q[m][2] < q[i][2]
        BY <4>3 DEF Increasing
      <4> QED BY <4>1, <4>2, <4>4, <3>2, <2>1, <2>2
    <3> QED BY <3>1, <3>2, <2>3
  <2>6. ASSUME NEW k \in 1 .. i, Current(s, q[k])
        PROVE  \E j \in DOMAIN d : d[j] = q[k]
    <3>1. CASE k \in 1 .. i - 1
      <4>1. PICK j \in DOMAIN c : c[j] = q[k]
        BY <2>6, <3>1 DEF Keeps
      <4>2. j \in DOMAIN d /\ d[j] = q[k]
        BY <4>1, <2>1, <2>2
      <4> QED BY <4>2
    <3>2. CASE k = i
      BY <3>2, <2>1, <2>2
    <3> QED BY <3>1, <3>2, <1>2
  <2>7. Keeps(s, q, i, d)
    BY <2>1, <2>4, <2>5, <2>6 DEF Keeps
  <2> QED BY <2>7, <1>4 DEF d
<1> QED BY <1>3, <1>4

(* The compacted queue has the current entries, in order.                  *)
LEMMA CompactedKeeps ==
    ASSUME NEW s, NEW q \in Seq(Entry), Increasing(q)
    PROVE  Keeps(s, q, Len(q), Compacted(s, q))
<1> DEFINE N == Len(q)
           G(f) == [i \in 0 .. Len(q) |->
                       IF i = 0 THEN <<>>
                       ELSE IF Current(s, q[i]) THEN Append(f[i - 1], q[i]) ELSE f[i - 1]]
           step == [p \in (1 .. N) \X Seq(Entry) |->
                       IF Current(s, q[p[1]]) THEN Append(p[2], q[p[1]]) ELSE p[2]]
<1>1. N \in Nat /\ \A i \in 1 .. N : q[i] \in Entry
  OBVIOUS
<1>2. step \in [(1 .. N) \X Seq(Entry) -> Seq(Entry)]
  <2> SUFFICES ASSUME NEW p \in (1 .. N) \X Seq(Entry)
               PROVE  (IF Current(s, q[p[1]]) THEN Append(p[2], q[p[1]]) ELSE p[2]) \in Seq(Entry)
    BY Zenon
  <2>1. p[1] \in 1 .. N /\ p[2] \in Seq(Entry)
    OBVIOUS
  <2>2. Append(p[2], q[p[1]]) \in Seq(Entry)
    BY <2>1, <1>1
  <2> QED BY <2>1, <2>2
<1>3. PICK f \in [0 .. N -> Seq(Entry)] :
         f[0] = <<>> /\ \A i \in 1 .. N : f[i] = step[<<i, f[i - 1]>>]
  <2>1. <<>> \in Seq(Entry)
    OBVIOUS
  <2> HIDE DEF step, N
  <2>2. Recursion(N, Seq(Entry), <<>>, step)
    BY <2>1, <1>1, <1>2, RecursionExists
  <2> QED BY <2>2, Zenon DEF Recursion
<1>4. ASSUME NEW i \in 1 .. N
      PROVE  f[i] = IF Current(s, q[i]) THEN Append(f[i - 1], q[i]) ELSE f[i - 1]
  <2>1. <<i, f[i - 1]>> \in (1 .. N) \X Seq(Entry)
    <3>1. i - 1 \in 0 .. N
      BY <1>1
    <3> HIDE DEF N
    <3>2. f[i - 1] \in Seq(Entry)
      BY <3>1
    <3> QED BY <3>2
  <2>2. step[<<i, f[i - 1]>>] = IF Current(s, q[i]) THEN Append(f[i - 1], q[i]) ELSE f[i - 1]
    BY <2>1
  <2> QED BY <2>2, <1>3
<1>5. f = G(f)
  <2>1. DOMAIN f = 0 .. N /\ f = [i \in 0 .. N |-> f[i]]
    OBVIOUS
  <2>2. ASSUME NEW i \in 0 .. N
        PROVE  f[i] = IF i = 0 THEN <<>>
                      ELSE IF Current(s, q[i]) THEN Append(f[i - 1], q[i]) ELSE f[i - 1]
    <3>1. CASE i = 0
      BY <3>1, <1>3
    <3>2. CASE i # 0
      <4>1. i \in 1 .. N
        BY <3>2
      <4> QED BY <4>1, <3>2, <1>4
    <3> QED BY <3>1, <3>2
  <2> QED BY <2>1, <2>2, Zenon
<1> DEFINE h == CHOOSE g : g = G(g)
<1>6. h = G(h)
  <2> HIDE DEF G
  <2> QED BY <1>5, Zenon
<1>7. Compacted(s, q) = h[N]
  BY Zenon DEF Compacted
<1> HIDE DEF h
<1>8. h[0] = <<>>
  BY <1>6
<1>9. \A i \in 1 .. N : h[i] = IF Current(s, q[i]) THEN Append(h[i - 1], q[i]) ELSE h[i - 1]
  <2> SUFFICES ASSUME NEW i \in 1 .. N
               PROVE  h[i] = IF Current(s, q[i]) THEN Append(h[i - 1], q[i]) ELSE h[i - 1]
    OBVIOUS
  <2>1. i \in 0 .. Len(q) /\ i # 0
    OBVIOUS
  <2>2. h[i] = G(h)[i]
    BY <1>6, Zenon
  <2> QED BY <2>1, <2>2, Zenon
<1> DEFINE S == {i \in 0 .. N : Keeps(s, q, i, h[i])}
<1>10. 0 \in S
  <2>1. Keeps(s, q, 0, <<>>)
    BY DEF Keeps, Increasing
  <2> QED BY <2>1, <1>8, <1>1
<1>11. \A i \in 0 .. N - 1 : i \in S => i + 1 \in S
  <2> SUFFICES ASSUME NEW i \in 0 .. N - 1, i \in S PROVE i + 1 \in S
    OBVIOUS
  <2>1. i + 1 \in 1 .. Len(q) /\ (i + 1) - 1 = i /\ i + 1 \in 0 .. N /\ i + 1 \in 1 .. N
    OBVIOUS
  <2>2. Keeps(s, q, (i + 1) - 1, h[i])
    BY <2>1
  <2>3. Keeps(s, q, i + 1, IF Current(s, q[i + 1]) THEN Append(h[i], q[i + 1]) ELSE h[i])
    BY <2>1, <2>2, KeepsStep
  <2> QED BY <2>1, <2>3, <1>9
<1>12. N \in S
  <2>1. N \in 0 .. N
    BY <1>1
  <2> HIDE DEF S, N
  <2> QED BY <2>1, <1>1, <1>10, <1>11, BoundedInduction
<1> QED BY <1>7, <1>12

(* What is in memory can be counted.                                       *)
LEMMA InFinite ==
    ASSUME NEW s \in Seq(Slot)
    PROVE  IsFiniteSet(In(s, "Loaded")) /\ Cardinality(In(s, "Loaded")) \in Nat
<1>1. 1 \in Int /\ Len(s) \in Int
  OBVIOUS
<1>2. IsFiniteSet(1 .. Len(s))
  BY <1>1, FS_Interval
<1>3. In(s, "Loaded") \in SUBSET (1 .. Len(s))
  BY DEF In
<1>4. IsFiniteSet(In(s, "Loaded"))
  BY <1>2, <1>3, FS_Subset
<1> QED BY <1>4, FS_CardinalityType

(* A queue of current entries is no longer than there are nodes in memory. *)
LEMMA CurrentBound ==
    ASSUME NEW s \in Seq(Slot), NEW c \in Seq(Entry), Increasing(c),
           \A j \in DOMAIN c : Current(s, c[j]) /\ c[j][1] \in DOMAIN s
    PROVE  Len(c) <= Cardinality(In(s, "Loaded"))
<1> DEFINE T == In(s, "Loaded")
           f == [j \in 1 .. Len(c) |-> c[j][1]]
           D == 1 .. Len(c)
<1>2. IsFiniteSet(T) /\ Cardinality(T) \in Nat
  BY InFinite
<1>3. IsFiniteSet(1 .. Len(c)) /\ Cardinality(1 .. Len(c)) = Len(c) /\ Len(c) \in Nat
  <2>1. Len(c) \in Nat /\ Len(c) \in Int /\ 1 \in Int
    OBVIOUS
  <2>2. /\ IsFiniteSet(1 .. Len(c))
        /\ Cardinality(1 .. Len(c)) = IF 1 > Len(c) THEN 0 ELSE (Len(c) - 1) + 1
    BY <2>1, FS_Interval
  <2> QED BY <2>1, <2>2
<1>4. f \in [1 .. Len(c) -> T]
  BY DEF In, Current
<1>5. \A x, y \in 1 .. Len(c) : f[x] = f[y] => x = y
  <2> SUFFICES ASSUME NEW x \in 1 .. Len(c), NEW y \in 1 .. Len(c), c[x][1] = c[y][1], x # y
               PROVE  FALSE
    OBVIOUS
  <2>1. x \in DOMAIN c /\ y \in DOMAIN c /\ c[x] \in Entry /\ c[y] \in Entry
    OBVIOUS
  <2>2. c[x][2] = c[y][2]
    BY <2>1 DEF Current
  <2>3. c[x][2] \in Nat /\ (x < y \/ y < x)
    BY <2>1 DEF Entry
  <2> QED BY <2>1, <2>2, <2>3 DEF Increasing
<1>6. ASSUME Cardinality(T) < Cardinality(D) PROVE FALSE
  <2>1. IsFiniteSet(D) /\ f \in [D -> T] /\ \A x, y \in D : f[x] = f[y] => x = y
    BY <1>3, <1>4, <1>5
  <2> HIDE DEF f, T, D
  <2>2. \E x, y \in D : x # y /\ f[x] = f[y]
    BY <2>1, <1>2, <1>6, FS_PigeonHole
  <2> QED BY <2>1, <2>2
<1> QED BY <1>6, <1>2, <1>3

-----------------------------------------------------------------------------
(* What a change of one slot does                                          *)

In01(place) == IF place = "Loaded" THEN 1 ELSE 0

(* Slot id of s is x in t: the arena keeps its length, and the totals move *)
(* by what the slot counted and counts.                                    *)
Updated(s, t, id, x) ==
    /\ t \in Seq(Slot) /\ Len(t) = Len(s) /\ DOMAIN t = DOMAIN s
    /\ t[id] = x /\ \A n \in DOMAIN s : n # id => t[n] = s[n]
    /\ Cardinality(In(s, "Loaded")) \in Nat
    /\ Cardinality(In(s, "Loaded")) >= In01(s[id].place)
    /\ Cardinality(In(t, "Loaded")) =
          (Cardinality(In(s, "Loaded")) - In01(s[id].place)) + In01(x.place)
    /\ ResidentBytes(s) \in Nat
    /\ ResidentBytes(s) >= BytesAt(s, id)
    /\ ResidentBytes(t) = (ResidentBytes(s) - BytesAt(s, id)) + BytesAt(t, id)

LEMMA SlotUpdate ==
    ASSUME NEW s \in Seq(Slot), NEW id \in DOMAIN s, NEW x \in Slot,
           NEW t, t = [s EXCEPT ![id] = x]
    PROVE  Updated(s, t, id, x)
<1>1. t \in Seq(Slot) /\ Len(t) = Len(s) /\ DOMAIN t = DOMAIN s
  OBVIOUS
<1>2. t[id] = x /\ \A n \in DOMAIN s : n # id => t[n] = s[n]
  OBVIOUS
<1>3. /\ ResidentBytes(s) \in Nat
      /\ ResidentBytes(s) >= BytesAt(s, id)
      /\ ResidentBytes(t) = (ResidentBytes(s) - BytesAt(s, id)) + BytesAt(t, id)
  <2>1. id \in 1 .. Len(s) /\ \A n \in 1 .. Len(s) : n # id => BytesAt(t, n) = BytesAt(s, n)
    BY <1>2 DEF BytesAt
  <2> QED BY <1>1, <2>1, BytesUpdate
<1> DEFINE A == In(s, "Loaded")
           B == In(t, "Loaded")
<1>4. IsFiniteSet(A) /\ Cardinality(A) \in Nat
  BY InFinite
<1>5. A \ {id} = B \ {id}
  BY <1>1, <1>2 DEF In
<1>6. B = IF x.place = "Loaded" THEN (A \ {id}) \cup {id} ELSE A \ {id}
  BY <1>1, <1>2 DEF In
<1>7. (id \in A) <=> s[id].place = "Loaded"
  BY DEF In
<1> HIDE DEF A, B
<1>8. IsFiniteSet(A \ {id}) /\ Cardinality(A \ {id}) = Cardinality(A) - In01(s[id].place)
  BY <1>4, <1>7, FS_RemoveElement DEF In01
<1>9. Cardinality(B) = Cardinality(A \ {id}) + In01(x.place) /\ Cardinality(A \ {id}) \in Nat
  <2> DEFINE C == A \ {id}
  <2>1. IsFiniteSet(C) /\ id \notin C /\ B = IF x.place = "Loaded" THEN C \cup {id} ELSE C
    BY <1>6, <1>8
  <2> HIDE DEF C
  <2>2. Cardinality(C) \in Nat
    BY <2>1, FS_CardinalityType
  <2>3. Cardinality(C \cup {id}) = Cardinality(C) + 1
    BY <2>1, FS_AddElement
  <2>4. Cardinality(B) = Cardinality(C) + In01(x.place)
    BY <2>1, <2>2, <2>3 DEF In01
  <2> QED BY <2>2, <2>4 DEF C
<1>10. Cardinality(A) >= In01(s[id].place)
  BY <1>4, <1>8, <1>9 DEF In01
<1> QED BY <1>1, <1>2, <1>3, <1>4, <1>8, <1>9, <1>10 DEF A, B, Updated

(* Arena t is s with slot x at the end.                                    *)
Extended(s, t, x) ==
    /\ t \in Seq(Slot) /\ Len(t) = Len(s) + 1
    /\ DOMAIN t = DOMAIN s \cup {Len(s) + 1} /\ Len(s) + 1 \notin DOMAIN s
    /\ t[Len(s) + 1] = x /\ \A n \in DOMAIN s : t[n] = s[n]
    /\ Cardinality(In(s, "Loaded")) \in Nat
    /\ Cardinality(In(t, "Loaded")) = Cardinality(In(s, "Loaded")) + In01(x.place)
    /\ ResidentBytes(s) \in Nat
    /\ ResidentBytes(t) = ResidentBytes(s) + (IF x.place = "Loaded" THEN x.bytes ELSE 0)

LEMMA SlotAppend ==
    ASSUME NEW s \in Seq(Slot), NEW x \in Slot, NEW t, t = Append(s, x)
    PROVE  Extended(s, t, x)
<1>1. t \in Seq(Slot) /\ Len(t) = Len(s) + 1
  OBVIOUS
<1>2. DOMAIN t = DOMAIN s \cup {Len(s) + 1} /\ Len(s) + 1 \notin DOMAIN s
  OBVIOUS
<1>3. t[Len(s) + 1] = x /\ \A n \in DOMAIN s : t[n] = s[n]
  OBVIOUS
<1>4. /\ ResidentBytes(s) \in Nat
      /\ ResidentBytes(t) = ResidentBytes(s) + (IF x.place = "Loaded" THEN x.bytes ELSE 0)
  BY BytesAppend
<1> DEFINE A == In(s, "Loaded")
           B == In(t, "Loaded")
           n == Len(s) + 1
<1>5. IsFiniteSet(A) /\ Cardinality(A) \in Nat
  BY InFinite
<1>6. B = IF x.place = "Loaded" THEN A \cup {n} ELSE A
  BY <1>2, <1>3 DEF In
<1>7. n \notin A
  BY <1>2 DEF In
<1> HIDE DEF A, B, n
<1>8. Cardinality(B) = Cardinality(A) + In01(x.place)
  <2>1. Cardinality(A \cup {n}) = Cardinality(A) + 1
    BY <1>5, <1>7, FS_AddElement
  <2> QED BY <2>1, <1>5, <1>6 DEF In01
<1> QED BY <1>1, <1>2, <1>3, <1>4, <1>5, <1>8 DEF A, B, Extended

-----------------------------------------------------------------------------
(* What the operations do to the queue                                     *)

(* QueueOK, but for the current entries of the nodes in x.                 *)
QueueBut(x, s, t, q) ==
    /\ \A j \in DOMAIN q : q[j][1] \in DOMAIN s /\ 0 < q[j][2] /\ q[j][2] <= t
    /\ Increasing(q)
    /\ \A id \in In(s, "Loaded") \ x :
          s[id].last_tick # 0 => \E j \in DOMAIN q : q[j] = <<id, s[id].last_tick>>

LEMMA QueueButWeaker ==
    ASSUME NEW x, NEW s, NEW t, NEW q, QueueOK(s, t, q)
    PROVE  QueueBut(x, s, t, q)
BY DEF QueueBut, QueueOK, Increasing

(* A change that stamps nothing, and admits only unstamped nodes.          *)
LEMMA QueueUpdate ==
    ASSUME NEW x, NEW s, NEW u, NEW t, NEW q, QueueBut(x, s, t, q),
           DOMAIN s \subseteq DOMAIN u,
           \A id \in In(u, "Loaded") : u[id].last_tick # 0 =>
               id \in In(s, "Loaded") \ x /\ s[id].last_tick = u[id].last_tick
    PROVE  QueueOK(u, t, q)
BY DEF QueueBut, QueueOK, Increasing

(* Node id gets a new stamp and an entry.                                  *)
LEMMA QueueStamp ==
    ASSUME NEW s, NEW u, NEW t \in Nat, NEW q \in Seq(Entry), NEW id \in Nat,
           QueueBut({id}, s, t, q), id \in DOMAIN s, DOMAIN u = DOMAIN s,
           \A n \in DOMAIN s : n # id => u[n] = s[n],
           u[id].last_tick = t + 1
    PROVE  QueueOK(u, t + 1, Append(q, <<id, t + 1>>))
<1> DEFINE r == Append(q, <<id, t + 1>>)
           m == Len(q) + 1
<1>1. /\ DOMAIN r = DOMAIN q \cup {m} /\ r[m] = <<id, t + 1>> /\ \A j \in DOMAIN q : r[j] = q[j]
      /\ \A j \in DOMAIN q : j < m /\ j \in Nat /\ q[j] \in Entry
  BY SMTT(30) DEF Entry
<1>2. m \in Nat
  OBVIOUS
<1> HIDE DEF r, m
<1>3. ASSUME NEW j \in DOMAIN r
      PROVE  r[j][1] \in DOMAIN u /\ 0 < r[j][2] /\ r[j][2] <= t + 1
  <2>1. CASE j \in DOMAIN q
    BY <2>1, <1>1 DEF QueueBut, Entry
  <2>2. CASE j = m
    BY <2>2, <1>1
  <2> QED BY <2>1, <2>2, <1>1
<1>4. ASSUME NEW j \in DOMAIN r, NEW k \in DOMAIN r, j < k
      PROVE  r[j][2] < r[k][2]
  <2>1. CASE k \in DOMAIN q
    <3>1. j \in DOMAIN q
      BY <2>1, <1>1, <1>4, <1>2
    <3> QED BY <3>1, <2>1, <1>1, <1>4 DEF QueueBut, Increasing
  <2>2. CASE k = m
    <3>1. j \in DOMAIN q
      BY <2>2, <1>1, <1>4, <1>2
    <3>2. q[j][2] <= t /\ q[j][2] \in Nat
      BY <3>1, <1>1 DEF QueueBut, Entry
    <3> QED BY <3>1, <3>2, <2>2, <1>1
  <2> QED BY <2>1, <2>2, <1>1
<1>5. ASSUME NEW n \in In(u, "Loaded"), u[n].last_tick # 0
      PROVE  \E j \in DOMAIN r : r[j] = <<n, u[n].last_tick>>
  <2>1. CASE n = id
    BY <2>1, <1>1
  <2>2. CASE n # id
    <3>1. n \in In(s, "Loaded") \ {id} /\ s[n] = u[n]
      BY <2>2 DEF In
    <3>2. PICK j \in DOMAIN q : q[j] = <<n, s[n].last_tick>>
      BY <3>1, <1>5 DEF QueueBut
    <3> QED BY <3>1, <3>2, <1>1
  <2> QED BY <2>1, <2>2
<1>6. QueueOK(u, t + 1, r)
  BY <1>3, <1>4, <1>5 DEF QueueOK
<1> QED BY <1>6 DEF r

(* The first entry goes: only its node may lack a current one.             *)
LEMMA QueueTail ==
    ASSUME NEW s, NEW t, NEW q \in Seq(Entry), QueueOK(s, t, q), q # <<>>
    PROVE  /\ QueueBut({Head(q)[1]}, s, t, Tail(q))
           /\ ~Current(s, Head(q)) => QueueOK(s, t, Tail(q))
           /\ Tail(q) \in Seq(Entry) /\ Head(q) = q[1] /\ Head(q) \in Entry
           /\ Len(q) \in Nat /\ Len(Tail(q)) = Len(q) - 1
           /\ \A j \in DOMAIN Tail(q) : j + 1 \in DOMAIN q /\ Tail(q)[j] = q[j + 1]
<1> DEFINE r == Tail(q)
<1>1. /\ r \in Seq(Entry) /\ Head(q) = q[1] /\ Head(q) \in Entry /\ 1 \in DOMAIN q
      /\ Len(q) \in Nat /\ Len(r) = Len(q) - 1
  BY DEF Entry
<1>2. /\ \A j \in DOMAIN r : j \in Nat /\ j + 1 \in DOMAIN q /\ r[j] = q[j + 1]
      /\ \A k \in DOMAIN q : k = 1 \/ (k - 1 \in DOMAIN r /\ r[k - 1] = q[k])
  <2>1. \A j \in 1 .. Len(q) - 1 : r[j] = q[j + 1]
    OBVIOUS
  <2>2. DOMAIN r = 1 .. Len(q) - 1 /\ DOMAIN q = 1 .. Len(q)
    BY <1>1
  <2>3. \A j \in DOMAIN r : j \in Nat /\ j + 1 \in DOMAIN q /\ r[j] = q[j + 1]
    BY <2>1, <2>2, <1>1
  <2>4. \A k \in DOMAIN q : k = 1 \/ (k - 1 \in 1 .. Len(q) - 1 /\ (k - 1) + 1 = k)
    BY <2>2, <1>1
  <2> QED BY <2>1, <2>2, <2>3, <2>4
<1> HIDE DEF r
<1>3. \A j \in DOMAIN r : r[j][1] \in DOMAIN s /\ 0 < r[j][2] /\ r[j][2] <= t
  BY <1>2 DEF QueueOK
<1>4. Increasing(r)
  <2> SUFFICES ASSUME NEW j \in DOMAIN r, NEW k \in DOMAIN r, j < k
               PROVE  r[j][2] < r[k][2]
    BY DEF Increasing
  <2>1. j + 1 < k + 1 /\ j + 1 \in DOMAIN q /\ k + 1 \in DOMAIN q
    BY <1>2
  <2> QED BY <2>1, <1>2 DEF QueueOK
<1>5. ASSUME NEW n \in In(s, "Loaded"), s[n].last_tick # 0, q[1] # <<n, s[n].last_tick>>
      PROVE  \E j \in DOMAIN r : r[j] = <<n, s[n].last_tick>>
  <2>1. PICK k \in DOMAIN q : q[k] = <<n, s[n].last_tick>>
    BY <1>5 DEF QueueOK
  <2>2. k # 1
    BY <2>1, <1>5
  <2> QED BY <2>1, <2>2, <1>2
<1>6. QueueBut({Head(q)[1]}, s, t, r)
  <2>1. \A n \in In(s, "Loaded") \ {Head(q)[1]} : q[1] # <<n, s[n].last_tick>>
    BY <1>1
  <2> QED BY <2>1, <1>3, <1>4, <1>5 DEF QueueBut
<1>7. ASSUME ~Current(s, Head(q)) PROVE QueueOK(s, t, r)
  <2>1. \A n \in In(s, "Loaded") : q[1] # <<n, s[n].last_tick>>
    BY <1>1, <1>7 DEF Current, In
  <2> QED BY <2>1, <1>3, <1>4, <1>5 DEF QueueOK, Increasing
<1> QED BY <1>1, <1>2, <1>6, <1>7 DEF r

(* The compacted queue is still in order and misses no node.               *)
LEMMA QueueCompacted ==
    ASSUME NEW s \in Seq(Slot), NEW t \in Nat, NEW q \in Seq(Entry), QueueOK(s, t, q)
    PROVE  /\ Compacted(s, q) \in Seq(Entry)
           /\ QueueOK(s, t, Compacted(s, q))
           /\ Len(Compacted(s, q)) <= Cardinality(In(s, "Loaded"))
<1> DEFINE c == Compacted(s, q)
<1>1. Increasing(q) /\ DOMAIN q = 1 .. Len(q)
  BY DEF QueueOK, Increasing
<1>2. Keeps(s, q, Len(q), c)
  BY <1>1, CompactedKeeps
<1> HIDE DEF c
<1>3. \A j \in DOMAIN c : c[j][1] \in DOMAIN s /\ 0 < c[j][2] /\ c[j][2] <= t
  BY <1>1, <1>2 DEF Keeps, QueueOK
<1>4. ASSUME NEW n \in In(s, "Loaded"), s[n].last_tick # 0
      PROVE  \E j \in DOMAIN c : c[j] = <<n, s[n].last_tick>>
  <2>1. PICK k \in DOMAIN q : q[k] = <<n, s[n].last_tick>>
    BY <1>4 DEF QueueOK
  <2>2. Current(s, q[k])
    BY <2>1 DEF Current, In
  <2> QED BY <2>1, <2>2, <1>1, <1>2 DEF Keeps
<1>5. QueueOK(s, t, c)
  BY <1>2, <1>3, <1>4 DEF QueueOK, Keeps, Increasing
<1>6. c \in Seq(Entry) /\ Len(c) <= Cardinality(In(s, "Loaded"))
  BY <1>2, <1>3, CurrentBound DEF Keeps
<1> QED BY <1>5, <1>6 DEF c

-----------------------------------------------------------------------------
(* What the operations do to arena and cache                               *)

CacheType == [bytes : Nat, resident : Nat, tick : Nat, lru : Seq(Entry)]

(* A slot with another stamp, and a cache with another clock and queue.    *)
LEMMA SlotStamped ==
    ASSUME NEW y \in Slot, NEW k \in Nat
    PROVE  /\ [y EXCEPT !.last_tick = k] \in Slot
           /\ [y EXCEPT !.last_tick = k].place = y.place
           /\ [y EXCEPT !.last_tick = k].dirty = y.dirty
           /\ [y EXCEPT !.last_tick = k].bytes = y.bytes
           /\ [y EXCEPT !.last_tick = k].last_tick = k
BY DEF Slot

LEMMA CacheStamped ==
    ASSUME NEW c \in CacheType, NEW k \in Nat, NEW q \in Seq(Entry)
    PROVE  [c EXCEPT !.tick = k, !.lru = q] \in CacheType
BY DEF CacheType

(* Types, books and queue, but for the current entries of the nodes in x.  *)
Sound(x, e) ==
    /\ e.slots \in Seq(Slot)
    /\ e.cache \in CacheType
    /\ e.cache.resident = Cardinality(In(e.slots, "Loaded"))
    /\ e.cache.bytes = ResidentBytes(e.slots)
    /\ QueueBut(x, e.slots, e.cache.tick, e.cache.lru)

LEMMA QueueButNone ==
    ASSUME NEW s, NEW t, NEW q
    PROVE  QueueBut({}, s, t, q) <=> QueueOK(s, t, q)
BY DEF QueueBut, QueueOK, Increasing

LEMMA SoundWeaker ==
    ASSUME NEW x, NEW e, Sound({}, e)
    PROVE  Sound(x, e)
BY DEF Sound, QueueBut

(* From e to r, only the stamp of node id and the queue have changed.      *)
OnlyStamped(e, r, id) ==
    /\ r.cache.bytes = e.cache.bytes /\ r.cache.resident = e.cache.resident
    /\ DOMAIN r.slots = DOMAIN e.slots
    /\ \A n \in DOMAIN e.slots : /\ n # id => r.slots[n] = e.slots[n]
                                 /\ r.slots[n].place = e.slots[n].place
                                 /\ r.slots[n].dirty = e.slots[n].dirty
                                 /\ r.slots[n].bytes = e.slots[n].bytes
    /\ r.slots[id].last_tick # 0

(* Stamping a node keeps engine and queue sound.                           *)
LEMMA StampSound ==
    ASSUME NEW e, NEW id, Sound({id}, e), id \in In(e.slots, "Loaded")
    PROVE  /\ Sound({}, Stamp(e, id))
           /\ OnlyStamped(e, Stamp(e, id), id)
           /\ Stamp(e, id).cache.lru = Append(e.cache.lru, <<id, e.cache.tick + 1>>)
<1> DEFINE s == e.slots
           c == e.cache
           t == c.tick
           x == [s[id] EXCEPT !.last_tick = t + 1]
           u == Stamp(e, id).slots
           d == Stamp(e, id).cache
<1>1. s \in Seq(Slot) /\ id \in DOMAIN s /\ id \in Nat /\ s[id] \in Slot /\ s[id].place = "Loaded"
  BY DEF Sound, In
<1>2. c \in CacheType /\ t \in Nat /\ c.lru \in Seq(Entry) /\ c.bytes \in Nat /\ c.resident \in Nat
  BY DEF Sound, CacheType
<1>3. x \in Slot /\ x.place = s[id].place /\ x.dirty = s[id].dirty /\ x.bytes = s[id].bytes
      /\ x.last_tick = t + 1
  <2>1. t + 1 \in Nat
    BY <1>2
  <2> HIDE DEF s, t
  <2> QED BY <2>1, <1>1, SlotStamped
<1>4. u = [s EXCEPT ![id] = x]
  BY DEF Stamp
<1>5. /\ d.bytes = c.bytes /\ d.resident = c.resident /\ d.tick = t + 1
      /\ d.lru = Append(c.lru, <<id, t + 1>>)
  BY <1>2 DEF Stamp, CacheType
<1>6. d \in CacheType
  <2>1. Append(c.lru, <<id, t + 1>>) \in Seq(Entry)
    BY <1>1, <1>2 DEF Entry
  <2>2. d = [c EXCEPT !.tick = t + 1, !.lru = Append(c.lru, <<id, t + 1>>)]
    BY DEF Stamp
  <2>3. t + 1 \in Nat
    BY <1>2
  <2> HIDE DEF d, c, t
  <2> QED BY <2>1, <2>2, <2>3, <1>2, CacheStamped
<1> HIDE DEF u, d, x
<1>7. /\ u \in Seq(Slot) /\ DOMAIN u = DOMAIN s
      /\ u[id] = x /\ \A n \in DOMAIN s : n # id => u[n] = s[n]
      /\ Cardinality(In(s, "Loaded")) \in Nat
      /\ Cardinality(In(u, "Loaded")) =
            (Cardinality(In(s, "Loaded")) - In01(s[id].place)) + In01(x.place)
      /\ ResidentBytes(s) \in Nat
      /\ ResidentBytes(u) = (ResidentBytes(s) - BytesAt(s, id)) + BytesAt(u, id)
  BY <1>1, <1>3, <1>4, SlotUpdate DEF Updated
<1>8. Cardinality(In(u, "Loaded")) = Cardinality(In(s, "Loaded"))
  BY <1>7, <1>3, <1>1 DEF In01
<1>9. ResidentBytes(u) = ResidentBytes(s)
  <2>1. BytesAt(u, id) = BytesAt(s, id) /\ BytesAt(s, id) \in Nat
    BY <1>7, <1>3, <1>1 DEF BytesAt, Slot
  <2> QED BY <2>1, <1>7
<1>10. QueueOK(u, t + 1, Append(c.lru, <<id, t + 1>>))
  <2>1. QueueBut({id}, s, t, c.lru)
    BY DEF Sound
  <2> HIDE DEF s, c, t
  <2> QED BY <2>1, <1>1, <1>2, <1>3, <1>7, QueueStamp
<1>11. Sound({}, Stamp(e, id))
  <2>1. QueueBut({}, u, d.tick, d.lru)
    BY <1>5, <1>10, QueueButNone
  <2>2. d.resident = Cardinality(In(u, "Loaded")) /\ d.bytes = ResidentBytes(u)
    BY <1>5, <1>8, <1>9 DEF Sound
  <2> QED BY <2>1, <2>2, <1>6, <1>7 DEF Sound, u, d
<1>12. OnlyStamped(e, Stamp(e, id), id)
  <2>1. u[id].last_tick # 0
    BY <1>2, <1>3, <1>7
  <2>2. \A n \in DOMAIN s : /\ n # id => u[n] = s[n]
                            /\ u[n].place = s[n].place /\ u[n].dirty = s[n].dirty
                            /\ u[n].bytes = s[n].bytes
    BY <1>3, <1>7
  <2> QED BY <2>1, <2>2, <1>5, <1>7 DEF OnlyStamped, u, d
<1> QED BY <1>5, <1>11, <1>12 DEF d

(* touch does too, and leaves a queue within its limit.                    *)
LEMMA TouchSound ==
    ASSUME NEW e, NEW id, Sound({id}, e), id \in In(e.slots, "Loaded")
    PROVE  /\ Sound({}, touch(e, id))
           /\ OnlyStamped(e, touch(e, id), id)
           /\ Len(touch(e, id).cache.lru) <= Limit(e.cache.resident)
<1> DEFINE st == Stamp(e, id)
           q == Compacted(st.slots, st.cache.lru)
<1>1. Sound({}, st) /\ OnlyStamped(e, st, id)
  BY StampSound
<1>2. touch(e, id) = IF Len(st.cache.lru) <= Limit(e.cache.resident) THEN st
                     ELSE [st EXCEPT !.cache.lru = q]
  BY Zenon DEF touch
<1>3. CASE Len(st.cache.lru) <= Limit(e.cache.resident)
  <2>1. touch(e, id) = st
    BY <1>2, <1>3, Zenon
  <2> QED BY <2>1, <1>1, <1>3
<1>4. CASE ~(Len(st.cache.lru) <= Limit(e.cache.resident))
  <2> DEFINE r == [slots |-> st.slots, cache |-> [st.cache EXCEPT !.lru = q]]
  <2>1. touch(e, id) = r
    BY <1>2, <1>4 DEF Stamp
  <2>2. /\ st.slots \in Seq(Slot) /\ st.cache \in CacheType
        /\ st.cache.tick \in Nat /\ st.cache.lru \in Seq(Entry)
        /\ QueueOK(st.slots, st.cache.tick, st.cache.lru)
    BY <1>1, QueueButNone DEF Sound, CacheType
  <2> HIDE DEF st
  <2>3. /\ q \in Seq(Entry) /\ QueueOK(st.slots, st.cache.tick, q)
        /\ Len(q) <= Cardinality(In(st.slots, "Loaded"))
    BY <2>2, QueueCompacted
  <2> HIDE DEF q
  <2>4. /\ r.slots = st.slots /\ r.cache \in CacheType /\ r.cache.lru = q
        /\ r.cache.bytes = st.cache.bytes /\ r.cache.resident = st.cache.resident
        /\ r.cache.tick = st.cache.tick
    BY <2>2, <2>3 DEF CacheType
  <2> HIDE DEF r
  <2>5. QueueBut({}, r.slots, r.cache.tick, r.cache.lru)
    BY <2>3, <2>4, QueueButNone
  <2>6. Sound({}, r)
    BY <2>4, <2>5, <1>1 DEF Sound
  <2>7. OnlyStamped(e, r, id)
    BY <2>4, <1>1 DEF OnlyStamped
  <2>8. Len(r.cache.lru) <= Limit(e.cache.resident)
    <3>1. Len(q) <= e.cache.resident
      BY <2>3, <1>1 DEF Sound, OnlyStamped
    <3>2. e.cache.resident \in Nat /\ Len(q) \in Nat /\ CompactFloor \in Nat
      BY <2>3, CacheAssumption DEF Sound, CacheType
    <3> QED BY <2>4, <3>1, <3>2 DEF Limit
  <2> QED BY <2>1, <2>6, <2>7, <2>8
<1> QED BY <1>3, <1>4

(* The totals of a cache move.                                             *)
IntCache == [bytes : Int, resident : Int, tick : Nat, lru : Seq(Entry)]

Moved(c, d, b, k) ==
    /\ d \in IntCache /\ d.tick = c.tick /\ d.lru = c.lru
    /\ d.resident = c.resident + k /\ d.bytes = c.bytes + b
    /\ c.resident \in Nat /\ c.bytes \in Nat

LEMMA CacheSet ==
    ASSUME NEW c \in CacheType, NEW v \in Int, NEW w \in Int
    PROVE  [c EXCEPT !.bytes = v, !.resident = w] \in IntCache
BY DEF CacheType, IntCache

LEMMA CacheMoved ==
    ASSUME NEW c \in CacheType, NEW a \in Nat, NEW b \in Nat
    PROVE  /\ Moved(c, Counted(c, b), b, 1)
           /\ Moved(c, [c EXCEPT !.bytes = @ - a, !.resident = @ - 1], -a, -1)
           /\ Moved(c, [c EXCEPT !.bytes = @ - a + b], b - a, 0)
<1>1. c.resident \in Nat /\ c.bytes \in Nat /\ c.tick \in Nat /\ c.lru \in Seq(Entry)
  BY DEF CacheType
<1>2. c = [bytes |-> c.bytes, resident |-> c.resident, tick |-> c.tick, lru |-> c.lru]
  BY DEF CacheType
<1>3. Moved(c, Counted(c, b), b, 1)
  <2> DEFINE v == c.bytes + b
             w == c.resident + 1
             d == [c EXCEPT !.bytes = @ + b, !.resident = @ + 1]
  <2>1. d \in IntCache
    <3>1. v \in Int /\ w \in Int /\ d = [c EXCEPT !.bytes = v, !.resident = w]
      BY <1>1
    <3> HIDE DEF v, w, d
    <3> QED BY <3>1, CacheSet
  <2>2. /\ d.bytes = c.bytes + b /\ d.resident = c.resident + 1
        /\ d.tick = c.tick /\ d.lru = c.lru
    BY DEF CacheType
  <2> QED BY <2>1, <2>2, <1>1 DEF Moved, Counted
<1>4. Moved(c, [c EXCEPT !.bytes = @ - a, !.resident = @ - 1], -a, -1)
  <2> DEFINE v == c.bytes - a
             w == c.resident - 1
             d == [c EXCEPT !.bytes = @ - a, !.resident = @ - 1]
  <2>1. d \in IntCache
    <3>1. v \in Int /\ w \in Int /\ d = [c EXCEPT !.bytes = v, !.resident = w]
      BY <1>1
    <3> HIDE DEF v, w, d
    <3> QED BY <3>1, CacheSet
  <2>2. /\ d.bytes = c.bytes - a /\ d.resident = c.resident - 1
        /\ d.tick = c.tick /\ d.lru = c.lru
    BY DEF CacheType
  <2>3. c.bytes - a = c.bytes + (-a) /\ c.resident - 1 = c.resident + (-1)
    BY <1>1
  <2> HIDE DEF d
  <2>4. Moved(c, d, -a, -1)
    BY <2>1, <2>2, <2>3, <1>1 DEF Moved
  <2> QED BY <2>4 DEF d
<1>5. Moved(c, [c EXCEPT !.bytes = @ - a + b], b - a, 0)
  BY <1>1, <1>2 DEF Moved, IntCache
<1> QED BY <1>3, <1>4, <1>5

(* Node id's slot becomes y, which is not a stamped node unless it was one *)
(* with that stamp, and the cache is told the difference.                  *)
LEMMA ChangeSound ==
    ASSUME NEW x, NEW e, NEW r, NEW id, NEW y \in Slot, Sound(x, e), id \in DOMAIN e.slots,
           r.slots = [e.slots EXCEPT ![id] = y],
           r.cache \in IntCache,
           r.cache.tick = e.cache.tick, r.cache.lru = e.cache.lru,
           r.cache.resident =
              (e.cache.resident - In01(e.slots[id].place)) + In01(y.place),
           r.cache.bytes = (e.cache.bytes - BytesAt(e.slots, id)) + BytesAt(r.slots, id),
           x \subseteq {id},
           \/ y.place # "Loaded"
           \/ y.last_tick = 0
           \/ x = {} /\ e.slots[id].place = "Loaded" /\ e.slots[id].last_tick = y.last_tick
    PROVE  Sound({}, r)
<1> DEFINE s == e.slots
           u == r.slots
<1>1. /\ u \in Seq(Slot) /\ DOMAIN u = DOMAIN s /\ u[id] = y
      /\ \A n \in DOMAIN s : n # id => u[n] = s[n]
      /\ Cardinality(In(s, "Loaded")) \in Nat
      /\ Cardinality(In(s, "Loaded")) >= In01(s[id].place)
      /\ Cardinality(In(u, "Loaded")) =
            (Cardinality(In(s, "Loaded")) - In01(s[id].place)) + In01(y.place)
      /\ ResidentBytes(s) \in Nat
      /\ ResidentBytes(s) >= BytesAt(s, id)
      /\ ResidentBytes(u) = (ResidentBytes(s) - BytesAt(s, id)) + BytesAt(u, id)
  <2>1. s \in Seq(Slot) /\ id \in DOMAIN s /\ u = [s EXCEPT ![id] = y]
    BY DEF Sound
  <2> HIDE DEF s, u
  <2>2. Updated(s, u, id, y)
    BY <2>1, SlotUpdate
  <2> QED BY <2>2 DEF Updated
<1>2. r.cache.resident = Cardinality(In(u, "Loaded")) /\ r.cache.bytes = ResidentBytes(u)
  BY <1>1 DEF Sound
<1>3. BytesAt(s, id) \in Nat /\ BytesAt(u, id) \in Nat
  <2>1. s \in Seq(Slot) /\ id \in 1 .. Len(s) /\ id \in 1 .. Len(u) /\ u \in Seq(Slot)
    BY <1>1 DEF Sound
  <2> QED BY <2>1, BytesType
<1>4. r.cache.resident \in Nat /\ r.cache.bytes \in Nat
  BY <1>1, <1>2, <1>3 DEF In01
<1>5. r.cache \in CacheType
  BY <1>4 DEF CacheType, IntCache
<1>6. QueueOK(u, e.cache.tick, e.cache.lru)
  <2>1. QueueBut(x, s, e.cache.tick, e.cache.lru)
    BY DEF Sound
  <2>2. \A n \in In(u, "Loaded") : u[n].last_tick # 0 =>
           n \in In(s, "Loaded") \ x /\ s[n].last_tick = u[n].last_tick
    BY <1>1 DEF In
  <2> HIDE DEF s, u
  <2> QED BY <2>1, <2>2, <1>1, QueueUpdate
<1> QED BY <1>1, <1>2, <1>5, <1>6, QueueButNone DEF Sound

(* A node that is read comes into memory.                                  *)
LEMMA AdmitSound ==
    ASSUME NEW e, NEW id, NEW d \in BOOLEAN, NEW b \in Nat, Sound({}, e),
           id \in In(e.slots, "OnDisk")
    PROVE  Sound({}, Admit(e, id, Loaded(d, b)))
<1> DEFINE y == Loaded(d, b)
           r == Admit(e, id, y)
<1>1. y \in Slot /\ y.place = "Loaded" /\ y.last_tick = 0 /\ y.bytes = b
  BY DEF Loaded, Slot
<1>2. id \in DOMAIN e.slots /\ e.slots[id].place = "OnDisk" /\ e.slots \in Seq(Slot)
  BY DEF In, Sound
<1>3. e.cache \in CacheType
  BY DEF Sound
<1>4. r.slots = [e.slots EXCEPT ![id] = y] /\ r.cache = Counted(e.cache, b)
  BY <1>1 DEF Admit
<1> HIDE DEF y, r
<1>5. /\ r.cache \in IntCache
      /\ r.cache.tick = e.cache.tick /\ r.cache.lru = e.cache.lru
      /\ r.cache.resident = e.cache.resident + 1 /\ r.cache.bytes = e.cache.bytes + b
      /\ e.cache.resident \in Nat /\ e.cache.bytes \in Nat
  <2>1. Moved(e.cache, r.cache, b, 1)
    BY <1>3, <1>4, CacheMoved
  <2> QED BY <2>1 DEF Moved
<1>6. /\ In01(e.slots[id].place) = 0 /\ In01(y.place) = 1
      /\ BytesAt(e.slots, id) = 0 /\ BytesAt(r.slots, id) = b
  BY <1>1, <1>2, <1>4 DEF In01, BytesAt
<1>7. /\ r.cache.resident = (e.cache.resident - In01(e.slots[id].place)) + In01(y.place)
      /\ r.cache.bytes = (e.cache.bytes - BytesAt(e.slots, id)) + BytesAt(r.slots, id)
  BY <1>5, <1>6
<1>8. Sound({}, r)
  <2> DEFINE x == {}
  <2>1. x \subseteq {id} /\ Sound(x, e)
    OBVIOUS
  <2> HIDE DEF x
  <2> QED BY <2>1, <1>1, <1>2, <1>4, <1>5, <1>7, ChangeSound
<1> QED BY <1>8 DEF r, y

(* A node leaves memory, evicted or freed: its entries may be gone.        *)
LEMMA DropSound ==
    ASSUME NEW e, NEW id, NEW y \in Slot, y.place # "Loaded", Sound({id}, e),
           id \in In(e.slots, "Loaded")
    PROVE  Sound({}, Drop(e, id, y))
<1> DEFINE r == Drop(e, id, y)
           x == {id}
<1>1. id \in DOMAIN e.slots /\ e.slots[id].place = "Loaded" /\ e.slots[id] \in Slot
  BY DEF In, Sound
<1>2. e.cache \in CacheType /\ Sound(x, e) /\ x \subseteq {id}
  BY DEF Sound
<1>3. /\ r.slots = [e.slots EXCEPT ![id] = y]
      /\ r.cache = [e.cache EXCEPT !.bytes = @ - e.slots[id].bytes, !.resident = @ - 1]
  BY DEF Drop
<1> HIDE DEF r, x
<1>4. e.slots[id].bytes \in Nat /\ e.slots \in Seq(Slot)
  BY <1>1 DEF Slot, Sound
<1>5. /\ r.cache \in IntCache
      /\ r.cache.tick = e.cache.tick /\ r.cache.lru = e.cache.lru
      /\ r.cache.resident = e.cache.resident - 1 /\ r.cache.bytes = e.cache.bytes - e.slots[id].bytes
      /\ e.cache.resident \in Nat /\ e.cache.bytes \in Nat
  <2>1. Moved(e.cache, r.cache, -e.slots[id].bytes, -1)
    BY <1>2, <1>3, <1>4, CacheMoved, ZenonT(30)
  <2> QED BY <2>1, <1>4 DEF Moved
<1>6. /\ In01(e.slots[id].place) = 1 /\ In01(y.place) = 0
      /\ BytesAt(e.slots, id) = e.slots[id].bytes /\ BytesAt(r.slots, id) = 0
  BY <1>1, <1>3, <1>4 DEF In01, BytesAt
<1>7. /\ r.cache.resident = (e.cache.resident - In01(e.slots[id].place)) + In01(y.place)
      /\ r.cache.bytes = (e.cache.bytes - BytesAt(e.slots, id)) + BytesAt(r.slots, id)
  BY <1>4, <1>5, <1>6
<1>8. Sound({}, r)
  BY <1>1, <1>2, <1>3, <1>5, <1>7, ChangeSound
<1> QED BY <1>8 DEF r

(* From e to r, a node has changed its size or its dirty flag.             *)
Resized(e, r) ==
    /\ Sound({}, r)
    /\ DOMAIN r.slots = DOMAIN e.slots
    /\ \A n \in DOMAIN e.slots : /\ r.slots[n].place = e.slots[n].place
                                 /\ r.slots[n].last_tick = e.slots[n].last_tick
    /\ r.cache.lru = e.cache.lru

LEMMA ResizeSound ==
    ASSUME NEW e, NEW id, NEW d \in BOOLEAN, NEW b \in Nat, Sound({}, e),
           id \in In(e.slots, "Loaded")
    PROVE  Resized(e, Resize(e, id, d, b))
<1> DEFINE r == Resize(e, id, d, b)
           y == [e.slots[id] EXCEPT !.dirty = d, !.bytes = b]
           x == {}
<1>1. id \in DOMAIN e.slots /\ e.slots[id].place = "Loaded" /\ e.slots[id] \in Slot
  BY DEF In, Sound
<1>2. e.cache \in CacheType /\ Sound(x, e) /\ x \subseteq {id} /\ x = {}
  BY DEF Sound
<1>3. /\ r.slots = [e.slots EXCEPT ![id] = y]
      /\ r.cache = [e.cache EXCEPT !.bytes = @ - e.slots[id].bytes + b]
  BY DEF Resize
<1>4. y \in Slot /\ y.place = "Loaded" /\ y.last_tick = e.slots[id].last_tick /\ y.bytes = b
  <2> DEFINE z == e.slots[id]
  <2>1. z \in Slot /\ z.place = "Loaded"
    BY <1>1
  <2> HIDE DEF z
  <2>2. [z EXCEPT !.dirty = d, !.bytes = b] \in Slot
    BY <2>1 DEF Slot
  <2>3. /\ [z EXCEPT !.dirty = d, !.bytes = b].place = z.place
        /\ [z EXCEPT !.dirty = d, !.bytes = b].last_tick = z.last_tick
        /\ [z EXCEPT !.dirty = d, !.bytes = b].bytes = b
    BY <2>1 DEF Slot
  <2> QED BY <2>1, <2>2, <2>3 DEF z
<1> HIDE DEF r, x, y
<1>5. e.slots[id].bytes \in Nat /\ e.slots \in Seq(Slot)
  BY <1>1 DEF Slot, Sound
<1>6. /\ r.cache \in IntCache
      /\ r.cache.tick = e.cache.tick /\ r.cache.lru = e.cache.lru
      /\ r.cache.resident = e.cache.resident
      /\ r.cache.bytes = (e.cache.bytes - e.slots[id].bytes) + b
      /\ e.cache.resident \in Nat /\ e.cache.bytes \in Nat
  <2>1. Moved(e.cache, r.cache, b - e.slots[id].bytes, 0)
    <3> DEFINE a == e.slots[id].bytes
    <3>1. a \in Nat /\ r.cache = [e.cache EXCEPT !.bytes = @ - a + b]
      BY <1>3, <1>5
    <3> HIDE DEF a
    <3>2. Moved(e.cache, r.cache, b - a, 0)
      BY <3>1, <1>2, CacheMoved, ZenonT(30)
    <3> QED BY <3>2 DEF a
  <2> QED BY <2>1, <1>5 DEF Moved
<1>7. /\ In01(e.slots[id].place) = 1 /\ In01(y.place) = 1
      /\ BytesAt(e.slots, id) = e.slots[id].bytes /\ BytesAt(r.slots, id) = b
  BY <1>1, <1>3, <1>4, <1>5 DEF In01, BytesAt
<1>8. /\ r.cache.resident = (e.cache.resident - In01(e.slots[id].place)) + In01(y.place)
      /\ r.cache.bytes = (e.cache.bytes - BytesAt(e.slots, id)) + BytesAt(r.slots, id)
  BY <1>5, <1>6, <1>7
<1>9. Sound({}, r)
  BY <1>1, <1>2, <1>3, <1>4, <1>6, <1>8, ChangeSound
<1>10. /\ DOMAIN r.slots = DOMAIN e.slots
       /\ \A n \in DOMAIN e.slots :
             /\ r.slots[n].place = e.slots[n].place
             /\ r.slots[n].last_tick = e.slots[n].last_tick
  BY <1>1, <1>3, <1>4, <1>5
<1> QED BY <1>6, <1>9, <1>10 DEF r, Resized

(* A slot is added, on disk or with a node that counts at once.            *)
LEMMA ExtendSound ==
    ASSUME NEW e, NEW y \in Slot, y.last_tick = 0, Sound({}, e)
    PROVE  /\ y.place # "Loaded" =>
                 Sound({}, [slots |-> Append(e.slots, y), cache |-> e.cache])
           /\ y.place = "Loaded" =>
                 Sound({}, [slots |-> Append(e.slots, y), cache |-> Counted(e.cache, y.bytes)])
<1> DEFINE s == e.slots
           c == e.cache
           u == Append(s, y)
           d == Counted(c, y.bytes)
<1>1. s \in Seq(Slot) /\ c \in CacheType /\ y.bytes \in Nat
  BY DEF Sound, Slot
<1>2. /\ u \in Seq(Slot) /\ Len(u) = Len(s) + 1
      /\ DOMAIN u = DOMAIN s \cup {Len(s) + 1} /\ Len(s) + 1 \notin DOMAIN s
      /\ u[Len(s) + 1] = y /\ \A n \in DOMAIN s : u[n] = s[n]
      /\ Cardinality(In(s, "Loaded")) \in Nat
      /\ Cardinality(In(u, "Loaded")) = Cardinality(In(s, "Loaded")) + In01(y.place)
      /\ ResidentBytes(s) \in Nat
      /\ ResidentBytes(u) = ResidentBytes(s) + (IF y.place = "Loaded" THEN y.bytes ELSE 0)
  <2>1. u = Append(s, y)
    OBVIOUS
  <2> HIDE DEF s, u
  <2>2. Extended(s, u, y)
    BY <2>1, <1>1, SlotAppend
  <2> QED BY <2>2 DEF Extended
<1> HIDE DEF u, d
<1>3. QueueBut({}, u, c.tick, c.lru)
  <2>1. QueueBut({}, s, c.tick, c.lru)
    BY DEF Sound
  <2>2. \A n \in In(u, "Loaded") : u[n].last_tick # 0 =>
           n \in In(s, "Loaded") \ {} /\ s[n].last_tick = u[n].last_tick
    BY <1>2 DEF In
  <2> HIDE DEF s, c
  <2>3. QueueOK(u, c.tick, c.lru)
    BY <2>1, <2>2, <1>2, QueueUpdate
  <2> QED BY <2>3, QueueButNone
<1>4. c.resident = Cardinality(In(s, "Loaded")) /\ c.bytes = ResidentBytes(s)
  BY DEF Sound
<1>5. ASSUME y.place # "Loaded" PROVE Sound({}, [slots |-> u, cache |-> c])
  <2>1. c.resident = Cardinality(In(u, "Loaded")) /\ c.bytes = ResidentBytes(u)
    BY <1>2, <1>4, <1>5 DEF In01
  <2> QED BY <2>1, <1>1, <1>2, <1>3 DEF Sound
<1>6. ASSUME y.place = "Loaded" PROVE Sound({}, [slots |-> u, cache |-> d])
  <2>1. /\ d \in CacheType /\ d.resident = c.resident + 1 /\ d.bytes = c.bytes + y.bytes
        /\ d.tick = c.tick /\ d.lru = c.lru
    <3> HIDE DEF c
    <3>1. Moved(c, d, y.bytes, 1)
      BY <1>1, CacheMoved DEF d
    <3> QED BY <3>1, <1>1 DEF Moved, IntCache, CacheType
  <2>2. d.resident = Cardinality(In(u, "Loaded")) /\ d.bytes = ResidentBytes(u)
    BY <2>1, <1>2, <1>4, <1>6 DEF In01
  <2> QED BY <2>1, <2>2, <1>2, <1>3 DEF Sound
<1> QED BY <1>5, <1>6 DEF u, d

-----------------------------------------------------------------------------
(* The invariant                                                           *)

AllStamped(s) == \A id \in In(s, "Loaded") : s[id].last_tick # 0

(* The part of the invariant that is about arena and cache alone.          *)
EngineOK ==
    /\ slots \in Seq(Slot)
    /\ cache \in CacheType
    /\ Accounting
    /\ QueueOK(slots, cache.tick, cache.lru)

LoopTypes ==
    /\ loop \in {"none", "adopt", "load_all", "stamp", "enforce"}
    /\ DOMAIN todo \subseteq DOMAIN slots /\ \A id \in DOMAIN todo : todo[id] \in Nat
    /\ next \in Nat /\ pins \subseteq DOMAIN slots /\ just_loaded \in Nat /\ left \in Nat
    /\ calls \in Nat

LEMMA IndInvParts ==
    IndInv <=> /\ EngineOK /\ LoopTypes /\ Stamped /\ PutBackKept
               /\ loop = "adopt" => DOMAIN todo \subseteq Resident
               /\ loop = "stamp" => next > 0
BY DEF IndInv, TypeOK, EngineOK, LoopTypes, CacheType, Entry

LEMMA IndInvNext ==
    ASSUME EngineOK', LoopTypes', Stamped', PutBackKept',
           (loop = "adopt" => DOMAIN todo \subseteq Resident)',
           (loop = "stamp" => next > 0)'
    PROVE  IndInv'
BY DEF IndInv, TypeOK, EngineOK, LoopTypes, CacheType, Entry

LEMMA EngineSound == EngineOK <=> Sound({}, Engine)
<1>1. Engine.slots = slots /\ Engine.cache = cache
  BY DEF Engine
<1> QED BY <1>1, QueueButNone DEF EngineOK, Sound, Accounting, Resident

LEMMA EngineNext ==
    ASSUME NEW e, Becomes(e), Sound({}, e)
    PROVE  EngineOK'
<1>1. slots' = e.slots /\ cache' = e.cache
  BY DEF Becomes
<1>2. QueueOK(e.slots, e.cache.tick, e.cache.lru)
  BY QueueButNone DEF Sound
<1>3. QueueOK(slots, cache.tick, cache.lru)'
  BY <1>1, <1>2 DEF QueueOK, In
<1>4. ResidentBytes(slots)' = ResidentBytes(slots')
  BY DEF ResidentBytes
<1>5. Resident' = In(e.slots, "Loaded")
  BY <1>1 DEF Resident, In
<1>6. Accounting'
  BY <1>1, <1>4, <1>5 DEF Sound, Accounting
<1> QED BY <1>1, <1>3, <1>6 DEF Sound, EngineOK

LEMMA EngineSame ==
    ASSUME IndInv, slots' = slots, cache' = cache
    PROVE  EngineOK'
<1>1. Becomes(Engine)
  BY DEF Becomes, Engine
<1>2. Sound({}, Engine)
  BY IndInvParts, EngineSound
<1> QED BY <1>1, <1>2, EngineNext

(* A call that starts no loop.                                             *)
LEMMA QuietStep ==
    ASSUME IndInv, NEW e, Sound({}, e), Becomes(e), Call, UNCHANGED loopVars,
           DOMAIN slots \subseteq DOMAIN e.slots, AllStamped(e.slots)
    PROVE  IndInv'
<1>1. EngineOK' /\ slots' = e.slots
  BY EngineNext DEF Becomes
<1>2. loop' = "none" /\ calls' \in Nat
  BY DEF Call, loopVars, IndInv, TypeOK
<1>3. LoopTypes'
  BY <1>1, <1>2 DEF LoopTypes, IndInv, TypeOK, loopVars
<1>4. Stamped'
  BY <1>1 DEF Stamped, Resident, AllStamped, In
<1>5. PutBackKept'
  BY <1>2 DEF PutBackKept
<1> QED BY <1>1, <1>2, <1>3, <1>4, <1>5, IndInvNext

(* A step that starts the enforcement.                                     *)
LEMMA EnforceStep ==
    ASSUME IndInv, NEW e, NEW p, NEW j \in Nat, Sound({}, e), Enforce(e, p, j),
           p \subseteq DOMAIN e.slots, calls' \in Nat, AllStamped(e.slots)
    PROVE  IndInv'
<1>1. EngineOK' /\ slots' = e.slots /\ cache' = e.cache
  BY EngineNext DEF Enforce, Becomes
<1>2. /\ loop' = "enforce" /\ pins' = p /\ just_loaded' = j /\ left' = Len(e.cache.lru)
      /\ todo' = <<>> /\ next' = 0
  BY DEF Enforce
<1>3. e.cache.lru \in Seq(Entry)
  BY DEF Sound, CacheType
<1>4. LoopTypes'
  BY <1>1, <1>2, <1>3 DEF LoopTypes
<1>5. Stamped'
  BY <1>1 DEF Stamped, Resident, AllStamped, In
<1>6. PutBackKept'
  <2>1. \A k \in DOMAIN cache'.lru : ~(left' < k)
    BY <1>1, <1>2, <1>3
  <2> QED BY <2>1 DEF PutBackKept
<1> QED BY <1>1, <1>2, <1>4, <1>5, <1>6, IndInvNext

(* Outside the check of the whole tree, whatever is in memory is stamped.  *)
LEMMA StampedOutside ==
    ASSUME IndInv, loop \in {"none", "adopt", "enforce"}
    PROVE  AllStamped(slots)
BY DEF IndInv, Stamped, AllStamped, Resident

(* A touched engine is stamped as before, and node id too.                 *)
LEMMA TouchStamps ==
    ASSUME NEW e, NEW id, Sound({}, e), id \in In(e.slots, "Loaded"),
           \A n \in In(e.slots, "Loaded") : n # id => e.slots[n].last_tick # 0
    PROVE  AllStamped(touch(e, id).slots)
<1>1. Sound({id}, e)
  BY SoundWeaker
<1>2. OnlyStamped(e, touch(e, id), id)
  BY <1>1, TouchSound
<1> QED BY <1>2 DEF OnlyStamped, AllStamped, In

LEMMA HitInv ==
    ASSUME IndInv, NEW id \in DOMAIN slots, Hit(id)
    PROVE  IndInv'
<1> DEFINE e == touch(Engine, id)
<1>1. Engine.slots = slots /\ Engine.cache = cache
  BY DEF Engine
<1>2. Sound({}, Engine) /\ Sound({id}, Engine)
  BY IndInvParts, EngineSound, SoundWeaker
<1>3. id \in In(Engine.slots, "Loaded")
  BY <1>1 DEF Hit, In
<1>4. Sound({}, e) /\ OnlyStamped(Engine, e, id)
  BY <1>2, <1>3, TouchSound
<1>5. AllStamped(slots)
  BY StampedOutside DEF Hit, Call
<1>6. AllStamped(e.slots)
  BY <1>1, <1>2, <1>3, <1>5, TouchStamps DEF AllStamped
<1>7. Becomes(e) /\ Call /\ UNCHANGED loopVars
  BY DEF Hit
<1>8. DOMAIN slots \subseteq DOMAIN e.slots
  BY <1>1, <1>4 DEF OnlyStamped
<1> HIDE DEF e
<1> QED BY <1>4, <1>6, <1>7, <1>8, QuietStep

(* Reading node id from disk, which may add slots for its children.        *)
LEMMA ReadSound ==
    ASSUME IndInv, NEW id \in DOMAIN slots, slots[id].place = "OnDisk",
           NEW found \in Discoveries
    PROVE  /\ Sound({}, Read(id, found))
           /\ DOMAIN slots \subseteq DOMAIN Read(id, found).slots
           /\ id \in In(Read(id, found).slots, "Loaded")
           /\ \A n \in In(Read(id, found).slots, "Loaded") :
                 n # id => n \in Resident /\ Read(id, found).slots[n] = slots[n]
           /\ Read(id, found).cache.lru = cache.lru
           /\ \A n \in Resident : Read(id, found).slots[n].place = "Loaded"
<1> DEFINE g == [slots |-> slots \o found, cache |-> cache]
           b == slots[id].bytes
           r == Admit(g, id, Loaded(FALSE, b))
<1>1. slots \in Seq(Slot) /\ cache \in CacheType /\ Sound({}, Engine)
  BY IndInvParts, EngineSound DEF EngineOK
<1>2. Engine.slots = slots /\ Engine.cache = cache
  BY DEF Engine
<1>3. /\ Sound({}, g) /\ DOMAIN slots \subseteq DOMAIN g.slots
      /\ \A n \in DOMAIN slots : g.slots[n] = slots[n]
      /\ \A n \in DOMAIN g.slots : n \notin DOMAIN slots => g.slots[n].place = "OnDisk"
  <2>1. CASE found = <<>>
    <3>1. g = Engine
      BY <2>1, <1>1 DEF Engine
    <3> HIDE DEF g
    <3> QED BY <3>1, <1>1, <1>2
  <2>2. CASE found # <<>>
    <3>1. PICK c \in Sizes : found = <<OnDisk(c)>>
      BY <2>2 DEF Discoveries
    <3> DEFINE y == OnDisk(c)
    <3>2. y \in Slot /\ y.place = "OnDisk" /\ y.last_tick = 0
      BY CacheAssumption DEF OnDisk, Slot
    <3> HIDE DEF y
    <3>3. g = [slots |-> Append(slots, y), cache |-> cache]
      <4>1. slots \o <<y>> = Append(slots, y)
        BY <3>2, <1>1
      <4> QED BY <4>1, <3>1 DEF y
    <3>4. Sound({}, [slots |-> Append(Engine.slots, y), cache |-> Engine.cache])
      BY <3>2, <1>1, ExtendSound
    <3>5. Sound({}, g)
      BY <3>3, <3>4, <1>2
    <3>6. g.slots = Append(slots, y)
      BY <3>3
    <3> HIDE DEF g
    <3>7. Extended(slots, g.slots, y)
      BY <3>2, <3>6, <1>1, SlotAppend
    <3> QED BY <3>2, <3>5, <3>7 DEF Extended
  <2> QED BY <2>1, <2>2
<1>4. b \in Nat
  <2>1. slots[id] \in Slot
    BY <1>1
  <2> QED BY <2>1 DEF Slot
<1>5. g.cache = cache /\ Read(id, found) = r
  BY DEF Read
<1> HIDE DEF g, b
<1>6. id \in In(g.slots, "OnDisk")
  BY <1>3 DEF In
<1>7. Sound({}, r)
  BY <1>3, <1>4, <1>6, AdmitSound
<1>8. r.slots = [g.slots EXCEPT ![id] = Loaded(FALSE, b)] /\ r.cache.lru = cache.lru
  BY <1>1, <1>5 DEF Admit, Counted, CacheType
<1> HIDE DEF r
<1>9. /\ DOMAIN r.slots = DOMAIN g.slots /\ r.slots[id].place = "Loaded"
      /\ \A n \in DOMAIN g.slots : n # id => r.slots[n] = g.slots[n]
  BY <1>3, <1>8 DEF Loaded
<1>10. \A n \in In(r.slots, "Loaded") : n # id => n \in Resident /\ r.slots[n] = slots[n]
  BY <1>3, <1>9 DEF In, Resident
<1>11. id \in In(r.slots, "Loaded")
  BY <1>3, <1>9 DEF In
<1>12. \A n \in Resident : r.slots[n].place = "Loaded"
  BY <1>3, <1>9 DEF In, Resident
<1> QED BY <1>3, <1>5, <1>7, <1>8, <1>9, <1>10, <1>11, <1>12

LEMMA LoadInv ==
    ASSUME IndInv, NEW id \in DOMAIN slots, NEW p \in SUBSET (Resident \cup {id}),
           NEW found \in Discoveries, Load(id, p, found)
    PROVE  IndInv'
<1> DEFINE g == Read(id, found)
           e == touch(g, id)
<1>1. slots[id].place = "OnDisk" /\ Call /\ Enforce(e, p, id)
  BY DEF Load
<1> HIDE DEF g
<1>2. /\ Sound({}, g) /\ Sound({id}, g) /\ DOMAIN slots \subseteq DOMAIN g.slots
      /\ id \in In(g.slots, "Loaded")
      /\ \A n \in In(g.slots, "Loaded") : n # id => n \in Resident /\ g.slots[n] = slots[n]
  BY <1>1, ReadSound, SoundWeaker DEF g
<1>3. AllStamped(slots)
  BY <1>1, StampedOutside DEF Call
<1>4. Sound({}, e) /\ OnlyStamped(g, e, id)
  BY <1>2, TouchSound
<1>5. AllStamped(e.slots)
  <2>1. \A n \in In(g.slots, "Loaded") : n # id => g.slots[n].last_tick # 0
    BY <1>2, <1>3 DEF AllStamped, Resident
  <2> QED BY <2>1, <1>2, TouchStamps
<1>6. p \subseteq DOMAIN e.slots
  BY <1>2, <1>4 DEF OnlyStamped, Resident, In
<1>7. calls' \in Nat /\ id \in Nat
  BY <1>1 DEF Call, IndInv, TypeOK
<1> HIDE DEF e
<1> QED BY <1>1, <1>4, <1>5, <1>6, <1>7, EnforceStep

LEMMA ChangeInv ==
    ASSUME IndInv, NEW id \in DOMAIN slots, NEW est \in Sizes, loaded_mut(id, est)
    PROVE  IndInv'
<1> DEFINE e == Resize(Engine, id, TRUE, est)
<1>1. slots[id].place = "Loaded" /\ Call /\ Becomes(e) /\ UNCHANGED loopVars
  BY DEF loaded_mut
<1>2. Engine.slots = slots /\ Engine.cache = cache /\ est \in Nat /\ TRUE \in BOOLEAN
  BY CacheAssumption DEF Engine
<1>3. Sound({}, Engine) /\ id \in In(Engine.slots, "Loaded")
  BY <1>1, <1>2, IndInvParts, EngineSound DEF In
<1>4. /\ Sound({}, e) /\ DOMAIN e.slots = DOMAIN slots
      /\ \A n \in DOMAIN slots : /\ e.slots[n].place = slots[n].place
                                 /\ e.slots[n].last_tick = slots[n].last_tick
  <2>1. Resized(Engine, e)
    BY <1>2, <1>3, ResizeSound
  <2> QED BY <2>1, <1>2 DEF Resized
<1>5. AllStamped(e.slots)
  BY <1>1, <1>4, StampedOutside DEF AllStamped, In, Call
<1> HIDE DEF e
<1> QED BY <1>1, <1>4, <1>5, QuietStep

LEMMA AllocInv ==
    ASSUME IndInv, NEW bytes \in Sizes, alloc_dirty(bytes)
    PROVE  IndInv'
<1> DEFINE y == Loaded(TRUE, bytes)
           g == [slots |-> Append(slots, y), cache |-> Counted(cache, bytes)]
           id == Len(slots) + 1
           e == touch(g, id)
<1>1. Call /\ Becomes(e) /\ UNCHANGED loopVars
  BY DEF alloc_dirty
<1>2. /\ Engine.slots = slots /\ Engine.cache = cache /\ slots \in Seq(Slot)
      /\ Sound({}, Engine)
  BY IndInvParts, EngineSound DEF Engine, EngineOK
<1>3. y \in Slot /\ y.place = "Loaded" /\ y.last_tick = 0 /\ y.bytes = bytes
  BY CacheAssumption DEF Loaded, Slot
<1> HIDE DEF y
<1>4. Sound({}, g)
  <2>1. Sound({}, [slots |-> Append(Engine.slots, y), cache |-> Counted(Engine.cache, y.bytes)])
    BY <1>2, <1>3, ExtendSound
  <2> QED BY <2>1, <1>2, <1>3
<1>5. g.slots = Append(slots, y)
  OBVIOUS
<1> HIDE DEF g
<1>6. Extended(slots, g.slots, y)
  BY <1>2, <1>3, <1>5, SlotAppend
<1>7. /\ id \in In(g.slots, "Loaded") /\ DOMAIN slots \subseteq DOMAIN g.slots
      /\ \A n \in In(g.slots, "Loaded") : n # id => n \in Resident /\ g.slots[n] = slots[n]
  BY <1>3, <1>6 DEF Extended, In, Resident
<1> HIDE DEF id
<1>8. Sound({}, e) /\ OnlyStamped(g, e, id)
  BY <1>4, <1>7, TouchSound, SoundWeaker
<1>9. AllStamped(slots)
  BY <1>1, StampedOutside DEF Call
<1>10. AllStamped(e.slots)
  <2>1. \A n \in In(g.slots, "Loaded") : n # id => g.slots[n].last_tick # 0
    BY <1>7, <1>9 DEF AllStamped, Resident
  <2> QED BY <2>1, <1>4, <1>7, TouchStamps
<1>11. DOMAIN slots \subseteq DOMAIN e.slots
  BY <1>7, <1>8 DEF OnlyStamped
<1> HIDE DEF e
<1> QED BY <1>1, <1>8, <1>10, <1>11, QuietStep

LEMMA ReleaseInv ==
    ASSUME IndInv, NEW id \in DOMAIN slots, release_slot(id)
    PROVE  IndInv'
<1>1. Call /\ UNCHANGED loopVars
  BY DEF release_slot
<1>2. /\ Engine.slots = slots /\ Engine.cache = cache /\ slots \in Seq(Slot)
      /\ Sound({}, Engine) /\ Sound({id}, Engine) /\ cache \in CacheType
  BY IndInvParts, EngineSound, SoundWeaker DEF Engine, EngineOK
<1>3. Freed \in Slot /\ Freed.place # "Loaded"
  BY DEF Freed, Slot
<1>4. AllStamped(slots)
  BY <1>1, StampedOutside DEF Call
<1> DEFINE u == [slots EXCEPT ![id] = Freed]
<1>5. DOMAIN u = DOMAIN slots /\ AllStamped(u)
  BY <1>2, <1>3, <1>4 DEF AllStamped, In
<1>6. CASE slots[id].place = "Loaded"
  <2> DEFINE e == Drop(Engine, id, Freed)
  <2>1. Becomes(e)
    BY <1>6 DEF release_slot
  <2>2. Sound({}, e)
    BY <1>2, <1>3, <1>6, DropSound DEF In
  <2>3. e.slots = u
    BY <1>2 DEF Drop
  <2> HIDE DEF e, u
  <2> QED BY <2>1, <2>2, <2>3, <1>1, <1>5, QuietStep
<1>7. CASE slots[id].place # "Loaded"
  <2> DEFINE e == [slots |-> u, cache |-> cache]
  <2>1. Becomes(e)
    BY <1>7 DEF release_slot, Becomes
  <2>2. Updated(slots, u, id, Freed)
    <3>1. u = [slots EXCEPT ![id] = Freed]
      OBVIOUS
    <3> HIDE DEF u
    <3> QED BY <3>1, <1>2, <1>3, SlotUpdate
  <2>3. e.slots = u /\ e.cache = cache
    OBVIOUS
  <2> HIDE DEF e, u
  <2>4. /\ cache.resident = Cardinality(In(u, "Loaded"))
        /\ cache.bytes = ResidentBytes(u)
    <3>1. /\ In01(slots[id].place) = 0 /\ In01(Freed.place) = 0
          /\ BytesAt(slots, id) = 0 /\ BytesAt(u, id) = 0
      BY <2>2, <1>3, <1>7 DEF In01, BytesAt, Updated
    <3> QED BY <3>1, <2>2, <1>2 DEF Sound, Updated
  <2>5. QueueBut({}, u, cache.tick, cache.lru)
    <3>1. QueueBut({}, slots, cache.tick, cache.lru)
      BY <1>2 DEF Sound
    <3>2. \A n \in In(u, "Loaded") : u[n].last_tick # 0 =>
             n \in In(slots, "Loaded") \ {} /\ slots[n].last_tick = u[n].last_tick
      BY <2>2, <1>3 DEF In, Updated
    <3>3. QueueOK(u, cache.tick, cache.lru)
      BY <3>1, <3>2, <1>5, QueueUpdate
    <3> QED BY <3>3, QueueButNone
  <2>6. Sound({}, e)
    BY <2>2, <2>3, <2>4, <2>5, <1>2 DEF Sound, Updated
  <2> QED BY <2>1, <2>3, <2>6, <1>1, <1>5, QuietStep
<1> QED BY <1>6, <1>7

LEMMA AdoptInv ==
    ASSUME IndInv, NEW written \in SUBSET {id \in Resident : slots[id].dirty},
           NEW size \in [written -> Sizes], Adopt(size)
    PROVE  IndInv'
<1>1. /\ loop = "none" /\ calls' \in Nat /\ loop' = "adopt" /\ todo' = size
      /\ UNCHANGED <<slots, cache, next, pins, just_loaded, left>>
  BY DEF Adopt, Call, IndInv, TypeOK
<1>2. EngineOK'
  BY <1>1, EngineSame
<1>3. Resident' = Resident /\ DOMAIN size \subseteq Resident
  BY <1>1 DEF Resident, In
<1>4. LoopTypes'
  BY <1>1, <1>3, CacheAssumption DEF LoopTypes, IndInv, TypeOK, Resident, In
<1>5. Stamped'
  BY <1>1, <1>3, StampedOutside DEF Stamped, AllStamped, Resident
<1> QED BY <1>1, <1>2, <1>3, <1>4, <1>5, IndInvNext DEF PutBackKept

LEMMA AdoptNodeInv ==
    ASSUME IndInv, NEW id \in DOMAIN todo, AdoptNode(id)
    PROVE  IndInv'
<1> DEFINE b == todo[id]
           e == Resize(Engine, id, FALSE, b)
<1>1. /\ loop = "adopt" /\ Becomes(e) /\ todo' = [i \in DOMAIN todo \ {id} |-> todo[i]]
      /\ UNCHANGED <<loop, next, pins, just_loaded, left, calls>>
  BY DEF AdoptNode
<1>2. /\ Engine.slots = slots /\ Engine.cache = cache /\ b \in Nat /\ FALSE \in BOOLEAN
      /\ id \in Resident /\ DOMAIN todo \subseteq Resident
  BY <1>1 DEF Engine, IndInv, TypeOK
<1>3. Sound({}, Engine) /\ id \in In(Engine.slots, "Loaded")
  BY <1>2, IndInvParts, EngineSound DEF Resident
<1> HIDE DEF b
<1>4. Resized(Engine, e)
  BY <1>2, <1>3, ResizeSound
<1>5. EngineOK' /\ slots' = e.slots
  BY <1>1, <1>4, EngineNext DEF Resized, Becomes
<1> HIDE DEF e
<1>6. /\ DOMAIN slots' = DOMAIN slots
      /\ \A n \in DOMAIN slots : /\ slots'[n].place = slots[n].place
                                 /\ slots'[n].last_tick = slots[n].last_tick
  BY <1>2, <1>4, <1>5 DEF Resized
<1>7. Resident' = Resident
  BY <1>6 DEF Resident, In
<1>8. LoopTypes'
  BY <1>1, <1>6 DEF LoopTypes, IndInv, TypeOK
<1>9. Stamped'
  BY <1>1, <1>6, <1>7 DEF Stamped, IndInv, Resident, In
<1>10. DOMAIN todo' \subseteq Resident'
  BY <1>1, <1>2, <1>7
<1> QED BY <1>1, <1>5, <1>8, <1>9, <1>10, IndInvNext DEF PutBackKept

(* The enforcement that a loop of another kind ends with.                  *)
LEMMA EnforceAfter ==
    ASSUME IndInv, AllStamped(slots), Enforce(Engine, {}, NoNode), UNCHANGED calls
    PROVE  IndInv'
<1> DEFINE p == {}
<1>1. Sound({}, Engine) /\ Engine.slots = slots /\ NoNode \in Nat
  BY IndInvParts, EngineSound DEF Engine, NoNode
<1>2. p \subseteq DOMAIN Engine.slots /\ calls' \in Nat /\ Enforce(Engine, p, NoNode)
  BY DEF IndInv, TypeOK
<1> HIDE DEF p
<1> QED BY <1>1, <1>2, EnforceStep

LEMMA AdoptedInv ==
    ASSUME IndInv, Adopted
    PROVE  IndInv'
BY EnforceAfter, StampedOutside DEF Adopted

LEMMA CheckInv ==
    ASSUME IndInv, check_invariants_full
    PROVE  IndInv'
<1>1. /\ calls' \in Nat /\ loop' = "load_all"
      /\ UNCHANGED <<slots, cache, todo, next, pins, just_loaded, left>>
  BY DEF check_invariants_full, Call, IndInv, TypeOK
<1>2. EngineOK'
  BY <1>1, EngineSame
<1>3. LoopTypes'
  BY <1>1 DEF LoopTypes, IndInv, TypeOK
<1> QED BY <1>1, <1>2, <1>3, IndInvNext DEF PutBackKept, Stamped

LEMMA LoadOneInv ==
    ASSUME IndInv, NEW id \in DOMAIN slots, NEW found \in Discoveries, LoadOne(id, found)
    PROVE  IndInv'
<1> DEFINE e == Read(id, found)
<1>1. /\ loop = "load_all" /\ slots[id].place = "OnDisk" /\ Becomes(e)
      /\ UNCHANGED <<loopVars, calls>>
  BY DEF LoadOne
<1> HIDE DEF e
<1>2. Sound({}, e) /\ DOMAIN slots \subseteq DOMAIN e.slots
  BY <1>1, ReadSound DEF e
<1>3. EngineOK' /\ slots' = e.slots
  BY <1>1, <1>2, EngineNext DEF Becomes
<1>4. LoopTypes'
  BY <1>1, <1>2, <1>3 DEF LoopTypes, IndInv, TypeOK, loopVars
<1> QED BY <1>1, <1>3, <1>4, IndInvNext DEF PutBackKept, Stamped, loopVars

LEMMA LoadedAllInv ==
    ASSUME IndInv, LoadedAll
    PROVE  IndInv'
<1>1. /\ loop' = "stamp" /\ next' = 1
      /\ UNCHANGED <<slots, cache, todo, pins, just_loaded, left, calls>>
  BY DEF LoadedAll
<1>2. EngineOK'
  BY <1>1, EngineSame
<1>3. LoopTypes'
  BY <1>1 DEF LoopTypes, IndInv, TypeOK
<1>4. Stamped'
  BY <1>1 DEF Stamped, Resident, In, IndInv, TypeOK
<1> QED BY <1>1, <1>2, <1>3, <1>4, IndInvNext DEF PutBackKept

LEMMA RestampNextInv ==
    ASSUME IndInv, RestampNext
    PROVE  IndInv'
<1> DEFINE e == Restamp(Engine, next)
<1>1. /\ loop = "stamp" /\ next <= Len(slots) /\ Becomes(e) /\ next' = next + 1
      /\ UNCHANGED <<loop, todo, pins, just_loaded, left, calls>>
  BY DEF RestampNext
<1>2. /\ Engine.slots = slots /\ Engine.cache = cache /\ slots \in Seq(Slot)
      /\ Sound({}, Engine) /\ Sound({next}, Engine) /\ next \in DOMAIN slots /\ next \in Nat
  BY <1>1, IndInvParts, EngineSound, SoundWeaker DEF Engine, EngineOK, IndInv, TypeOK
<1>3. /\ Sound({}, e) /\ DOMAIN e.slots = DOMAIN slots
      /\ \A n \in DOMAIN slots : /\ n # next => e.slots[n] = slots[n]
                                 /\ e.slots[n].place = slots[n].place
      /\ e.slots[next].place = "Loaded" => e.slots[next].last_tick # 0
  <2>1. CASE slots[next].place = "Loaded"
    <3>1. e = touch(Engine, next) /\ next \in In(Engine.slots, "Loaded")
      BY <2>1, <1>2 DEF Restamp, In
    <3> HIDE DEF e
    <3>2. Sound({}, e) /\ OnlyStamped(Engine, e, next)
      BY <3>1, <1>2, TouchSound
    <3> QED BY <3>2, <1>2 DEF OnlyStamped
  <2>2. CASE slots[next].place # "Loaded"
    <3>1. e = Engine
      BY <2>2, <1>2 DEF Restamp
    <3> HIDE DEF e
    <3> QED BY <3>1, <2>2, <1>2
  <2> QED BY <2>1, <2>2
<1>4. EngineOK' /\ slots' = e.slots
  BY <1>1, <1>3, EngineNext DEF Becomes
<1> HIDE DEF e
<1>5. LoopTypes'
  BY <1>1, <1>3, <1>4 DEF LoopTypes, IndInv, TypeOK
<1>6. Stamped'
  <2> SUFFICES ASSUME NEW n \in Resident', slots'[n].last_tick = 0
               PROVE  next + 1 <= n
    BY <1>1 DEF Stamped
  <2>1. n \in DOMAIN slots /\ n # next /\ slots[n] = slots'[n] /\ n \in Resident
    BY <1>3, <1>4 DEF Resident, In
  <2>2. next <= n /\ n \in Nat
    BY <2>1, <1>1, <1>2 DEF IndInv, Stamped
  <2> QED BY <2>1, <2>2, <1>2
<1>7. next' > 0
  BY <1>1, <1>2
<1> QED BY <1>1, <1>4, <1>5, <1>6, <1>7, IndInvNext DEF PutBackKept

LEMMA RestampedInv ==
    ASSUME IndInv, Restamped
    PROVE  IndInv'
<1>1. loop = "stamp" /\ next > Len(slots) /\ slots \in Seq(Slot) /\ next \in Nat
  BY DEF Restamped, IndInv, TypeOK
<1>2. \A id \in Resident : ~(next <= id)
  BY <1>1 DEF Resident, In
<1>3. AllStamped(slots)
  BY <1>1, <1>2 DEF IndInv, Stamped, AllStamped, Resident
<1> QED BY <1>3, EnforceAfter DEF Restamped

LEMMA ReturnInv ==
    ASSUME IndInv, Return
    PROVE  IndInv'
<1>1. /\ loop = "enforce" /\ loop' = "none" /\ pins' = {} /\ just_loaded' = NoNode /\ left' = 0
      /\ UNCHANGED <<slots, cache, todo, next, calls>>
  BY DEF Return
<1>2. EngineOK'
  BY <1>1, EngineSame
<1>3. LoopTypes'
  BY <1>1 DEF LoopTypes, IndInv, TypeOK, NoNode
<1>4. Stamped'
  BY <1>1, StampedOutside DEF Stamped, AllStamped, Resident, In
<1> QED BY <1>1, <1>2, <1>3, <1>4, IndInvNext DEF PutBackKept

KeptNext(n) == slots'[n].dirty \/ n \in pins' \/ n = just_loaded'

LEMMA PutBackNext ==
    ASSUME NEW r, cache'.lru = r, \A j \in DOMAIN r : left' < j => KeptNext(r[j][1])
    PROVE  PutBackKept'
BY DEF PutBackKept, Kept, KeptNext

(* One iteration of the enforcement.                                       *)
LEMMA ExamineInv ==
    ASSUME IndInv, Examine
    PROVE  IndInv'
<1> DEFINE q == cache.lru
           entry == Head(q)
           id == entry[1]
           e == IF ~Current(slots, entry) THEN Popped
                ELSE IF Kept(id) THEN Stamp(Popped, id)
                ELSE Drop(Popped, id, OnDisk(slots[id].bytes))
<1>1. /\ loop = "enforce" /\ left > 0 /\ q # <<>> /\ Becomes(e) /\ left' = left - 1
      /\ UNCHANGED <<loop, todo, next, pins, just_loaded, calls>>
  BY DEF Examine, Over
<1>2. /\ slots \in Seq(Slot) /\ cache \in CacheType /\ QueueOK(slots, cache.tick, q)
      /\ cache.resident = Cardinality(In(slots, "Loaded")) /\ cache.bytes = ResidentBytes(slots)
      /\ AllStamped(slots)
  BY <1>1, IndInvParts, StampedOutside DEF EngineOK, Accounting, Resident
<1>3. q \in Seq(Entry) /\ left \in Nat
  BY <1>2 DEF CacheType, IndInv, TypeOK
<1>4. /\ QueueBut({id}, slots, cache.tick, Tail(q))
      /\ ~Current(slots, entry) => QueueOK(slots, cache.tick, Tail(q))
      /\ Tail(q) \in Seq(Entry) /\ entry = q[1] /\ entry \in Entry
      /\ Len(q) \in Nat /\ Len(Tail(q)) = Len(q) - 1
      /\ \A j \in DOMAIN Tail(q) : j + 1 \in DOMAIN q /\ Tail(q)[j] = q[j + 1]
  <2> HIDE DEF q
  <2> QED BY <1>1, <1>2, <1>3, QueueTail
<1>5. /\ Popped.slots = slots /\ Popped.cache.lru = Tail(q) /\ Popped.cache \in CacheType
      /\ Popped.cache.tick = cache.tick /\ Popped.cache.bytes = cache.bytes
      /\ Popped.cache.resident = cache.resident
  BY <1>2, <1>4 DEF Popped, CacheType
<1>6. id \in DOMAIN slots /\ id \in Nat /\ 1 \in DOMAIN q
  BY <1>1, <1>2, <1>3, <1>4 DEF QueueOK, Entry
<1> HIDE DEF q, entry, id, e
<1>7. Sound({id}, Popped)
  BY <1>2, <1>4, <1>5 DEF Sound
<1>8. Current(slots, entry) => id \in In(slots, "Loaded")
  BY <1>6 DEF Current, In, id
<1>9. CASE ~Current(slots, entry)
  <2>1. e = Popped
    BY <1>9 DEF e
  <2>2. QueueBut({}, slots, cache.tick, Tail(q))
    BY <1>4, <1>9, QueueButNone
  <2>3. Sound({}, e)
    BY <2>1, <2>2, <1>2, <1>5 DEF Sound
  <2>4. EngineOK' /\ slots' = slots /\ cache'.lru = Tail(q)
    BY <2>1, <2>3, <1>1, <1>5, EngineNext DEF Becomes
  <2>5. LoopTypes'
    BY <2>4, <1>1, <1>3 DEF LoopTypes, IndInv, TypeOK
  <2>6. Stamped'
    BY <2>4, <1>2 DEF Stamped, AllStamped, Resident, In
  <2>7. PutBackKept'
    <3> SUFFICES ASSUME NEW j \in DOMAIN Tail(q), left - 1 < j
                 PROVE  KeptNext(Tail(q)[j][1])
      BY <2>4, <1>1, PutBackNext
    <3>1. j + 1 \in DOMAIN q /\ Tail(q)[j] = q[j + 1] /\ left < j + 1
      BY <1>3, <1>4
    <3>2. Kept(q[j + 1][1])
      BY <3>1, <1>1 DEF IndInv, PutBackKept, q
    <3> QED BY <3>1, <3>2, <2>4, <1>1 DEF Kept, KeptNext
  <2> QED BY <2>4, <2>5, <2>6, <2>7, <1>1, IndInvNext
<1>10. CASE Current(slots, entry) /\ Kept(id)
  <2>1. e = Stamp(Popped, id)
    BY <1>10 DEF e
  <2>2. /\ Sound({}, e) /\ OnlyStamped(Popped, e, id)
        /\ e.cache.lru = Append(Tail(q), <<id, cache.tick + 1>>)
    BY <2>1, <1>5, <1>7, <1>8, <1>10, StampSound
  <2>3. EngineOK' /\ slots' = e.slots /\ cache'.lru = Append(Tail(q), <<id, cache.tick + 1>>)
    BY <2>2, <1>1, EngineNext DEF Becomes
  <2>4. /\ DOMAIN slots' = DOMAIN slots
        /\ \A n \in DOMAIN slots : /\ n # id => slots'[n] = slots[n]
                                   /\ slots'[n].place = slots[n].place
                                   /\ slots'[n].dirty = slots[n].dirty
        /\ slots'[id].last_tick # 0
    BY <2>2, <2>3, <1>5 DEF OnlyStamped
  <2>5. LoopTypes'
    BY <2>4, <1>1, <1>3 DEF LoopTypes, IndInv, TypeOK
  <2>6. Stamped'
    BY <2>4, <1>2 DEF Stamped, AllStamped, Resident, In
  <2>7. ASSUME NEW n \in DOMAIN slots, Kept(n) PROVE KeptNext(n)
    BY <2>4, <2>7, <1>1 DEF Kept, KeptNext
  <2>8. PutBackKept'
    <3> DEFINE r == Append(Tail(q), <<id, cache.tick + 1>>)
    <3> SUFFICES ASSUME NEW j \in DOMAIN r, left - 1 < j
                 PROVE  KeptNext(r[j][1])
      BY <2>3, <1>1, PutBackNext
    <3>1. CASE j \in DOMAIN Tail(q)
      <4>1. j + 1 \in DOMAIN q /\ r[j] = q[j + 1] /\ left < j + 1
        BY <3>1, <1>3, <1>4
      <4>2. Kept(q[j + 1][1]) /\ q[j + 1][1] \in DOMAIN slots
        BY <4>1, <1>1, <1>2 DEF IndInv, PutBackKept, q, QueueOK
      <4> HIDE DEF r
      <4> QED BY <4>1, <4>2, <2>7
    <3>2. CASE j \notin DOMAIN Tail(q)
      <4>1. r[j][1] = id
        BY <3>2, <1>4
      <4> HIDE DEF r
      <4> QED BY <4>1, <1>6, <1>10, <2>7
    <3> QED BY <3>1, <3>2
  <2> QED BY <2>3, <2>5, <2>6, <2>8, <1>1, IndInvNext
<1>11. CASE Current(slots, entry) /\ ~Kept(id)
  <2> DEFINE y == OnDisk(slots[id].bytes)
  <2>1. e = Drop(Popped, id, y)
    BY <1>11 DEF e
  <2>2. y \in Slot /\ y.place # "Loaded"
    <3>1. slots[id] \in Slot
      BY <1>2, <1>6
    <3> QED BY <3>1 DEF Slot, OnDisk
  <2> HIDE DEF y
  <2>3. Sound({}, e)
    BY <2>1, <2>2, <1>5, <1>7, <1>8, <1>11, DropSound
  <2>4. e.slots = [slots EXCEPT ![id] = y] /\ e.cache.lru = Tail(q)
    BY <2>1, <1>5 DEF Drop, CacheType
  <2>5. EngineOK' /\ slots' = [slots EXCEPT ![id] = y] /\ cache'.lru = Tail(q)
    BY <2>3, <2>4, <1>1, EngineNext DEF Becomes
  <2>6. /\ DOMAIN slots' = DOMAIN slots
        /\ \A n \in DOMAIN slots : n # id => slots'[n] = slots[n]
        /\ slots'[id].place # "Loaded"
    BY <2>2, <2>5, <1>2, <1>6
  <2>7. LoopTypes'
    BY <2>6, <1>1, <1>3 DEF LoopTypes, IndInv, TypeOK
  <2>8. Stamped'
    BY <2>6, <1>2 DEF Stamped, AllStamped, Resident, In
  <2>9. PutBackKept'
    <3> SUFFICES ASSUME NEW j \in DOMAIN Tail(q), left - 1 < j
                 PROVE  KeptNext(Tail(q)[j][1])
      BY <2>5, <1>1, PutBackNext
    <3>1. j + 1 \in DOMAIN q /\ Tail(q)[j] = q[j + 1] /\ left < j + 1
      BY <1>3, <1>4
    <3>2. Kept(q[j + 1][1]) /\ q[j + 1][1] \in DOMAIN slots
      BY <3>1, <1>1, <1>2 DEF IndInv, PutBackKept, q, QueueOK
    <3>3. q[j + 1][1] # id
      BY <3>2, <1>11
    <3> QED BY <3>1, <3>2, <3>3, <2>6, <1>1 DEF Kept, KeptNext
  <2> QED BY <2>5, <2>7, <2>8, <2>9, <1>1, IndInvNext
<1> QED BY <1>9, <1>10, <1>11

(* The engine as it is created or opened.                                  *)
LEMMA InitInv == Init => IndInv
<1> SUFFICES ASSUME Init PROVE IndInv
  OBVIOUS
<1> DEFINE none == [bytes |-> 0, resident |-> 0, tick |-> 0, lru |-> <<>>]
           Root(b) == [slots |-> <<OnDisk(b)>>, cache |-> none]
           Created(b) == touch(Admit(Root(b), 1, Loaded(FALSE, b)), 1)
<1>1. PICK b \in Sizes :
         \/ /\ slots = Root(b).slots /\ cache = Root(b).cache /\ loop = "none" /\ left = 0
         \/ /\ slots = Created(b).slots /\ cache = Created(b).cache /\ loop = "enforce"
            /\ left = Len(Created(b).cache.lru)
  BY Zenon DEF Init
<1>2. calls = 0 /\ todo = <<>> /\ next = 0 /\ pins = {} /\ just_loaded = NoNode
  BY DEF Init
<1> DEFINE y == OnDisk(b)
           e == [slots |-> <<>>, cache |-> none]
           root == Root(b)
           full == Admit(root, 1, Loaded(FALSE, b))
           created == touch(full, 1)
<1>3. b \in Nat /\ y \in Slot /\ y.place = "OnDisk" /\ y.last_tick = 0
  BY CacheAssumption DEF OnDisk, Slot
<1>4. Sound({}, e)
  <2>1. <<>> \in Seq(Slot) /\ Len(<<>>) = 0 /\ In(<<>>, "Loaded") = {}
    BY DEF In
  <2>2. PICK f : Totals(<<>>, f) /\ ResidentBytes(<<>>) = f[Len(<<>>)]
    BY <2>1, TotalsExist
  <2>3. ResidentBytes(<<>>) = 0
    BY <2>1, <2>2 DEF Totals
  <2>4. Cardinality({}) = 0
    BY FS_EmptySet
  <2>5. none \in CacheType
    BY DEF CacheType
  <2>6. QueueBut({}, <<>>, 0, <<>>)
    BY <2>1 DEF QueueBut, Increasing
  <2> QED BY <2>1, <2>3, <2>4, <2>5, <2>6 DEF Sound
<1>5. Sound({}, root)
  <2>1. e.slots = <<>> /\ e.cache = none /\ Append(<<>>, y) = <<y>>
    OBVIOUS
  <2>2. root = [slots |-> Append(e.slots, y), cache |-> e.cache]
    BY <2>1
  <2> HIDE DEF root, e, y
  <2> QED BY <2>2, <1>3, <1>4, ExtendSound
<1>6. DOMAIN root.slots = {1} /\ root.slots[1].place = "OnDisk"
  BY <1>3
<1>7. Sound({}, full) /\ Sound({1}, full)
  <2>1. 1 \in In(root.slots, "OnDisk") /\ FALSE \in BOOLEAN
    BY <1>6 DEF In
  <2> HIDE DEF root
  <2> QED BY <2>1, <1>3, <1>5, AdmitSound, SoundWeaker
<1>8. DOMAIN full.slots = {1} /\ full.slots[1].place = "Loaded"
  BY <1>6 DEF Admit, Loaded
<1>9. 1 \in In(full.slots, "Loaded") /\ In(full.slots, "Loaded") \subseteq {1}
  BY <1>8 DEF In
<1>10. root = Root(b) /\ created = Created(b)
  OBVIOUS
<1> HIDE DEF full, root, Root, Created
<1>11. Sound({}, created) /\ OnlyStamped(full, created, 1)
  BY <1>7, <1>9, TouchSound
<1>12. AllStamped(created.slots)
  BY <1>7, <1>9, TouchStamps
<1> HIDE DEF created
<1>13. ASSUME NEW g, Sound({}, g), AllStamped(g.slots), slots = g.slots, cache = g.cache,
              (loop = "none" /\ left = 0) \/ (loop = "enforce" /\ left = Len(g.cache.lru))
       PROVE  IndInv
  <2>1. EngineOK
    BY <1>13, QueueButNone DEF EngineOK, Sound, Accounting, Resident
  <2>2. g.cache.lru \in Seq(Entry)
    BY <1>13 DEF Sound, CacheType
  <2>3. LoopTypes
    BY <2>2, <1>2, <1>13 DEF LoopTypes, NoNode
  <2>4. Stamped
    BY <1>13 DEF Stamped, AllStamped, Resident
  <2>5. PutBackKept
    <3>1. loop = "enforce" => \A k \in DOMAIN cache.lru : ~(left < k)
      BY <2>2, <1>13
    <3> QED BY <3>1 DEF PutBackKept
  <2> QED BY <2>1, <2>3, <2>4, <2>5, <1>13, IndInvParts
<1>14. AllStamped(root.slots)
  BY <1>6 DEF AllStamped, In
<1>15. CASE slots = root.slots /\ cache = root.cache /\ loop = "none" /\ left = 0
  BY <1>5, <1>13, <1>14, <1>15
<1>16. CASE /\ slots = created.slots /\ cache = created.cache /\ loop = "enforce"
            /\ left = Len(created.cache.lru)
  BY <1>11, <1>12, <1>13, <1>16
<1> QED BY <1>1, <1>10, <1>15, <1>16

(* Every step keeps the invariant.                                         *)
LEMMA StepInv == IndInv /\ [Next]_vars => IndInv'
<1> SUFFICES ASSUME IndInv, [Next]_vars PROVE IndInv'
  OBVIOUS
<1>1. CASE UNCHANGED vars
  <2>1. /\ slots' = slots /\ cache' = cache
        /\ UNCHANGED <<loop, todo, next, pins, just_loaded, left, calls>>
    BY <1>1 DEF vars, loopVars
  <2>2. EngineOK'
    BY <2>1, EngineSame
  <2>3. LoopTypes'
    BY <2>1 DEF LoopTypes, IndInv, TypeOK
  <2> QED BY <2>1, <2>2, <2>3, IndInvNext DEF IndInv, Stamped, PutBackKept, Resident, In, Kept
<1>2. CASE Next
  BY <1>2, HitInv, LoadInv, ChangeInv, ReleaseInv, AllocInv, AdoptInv, CheckInv,
     AdoptNodeInv, AdoptedInv, LoadOneInv, LoadedAllInv, RestampNextInv, RestampedInv,
     ExamineInv, ReturnInv
     DEF Next, Iterate, enforce_budget
<1> QED BY <1>1, <1>2

(* The invariant behind the guarantees holds in every reachable state: a   *)
(* current entry in the queue for every node in memory, in the order of    *)
(* use, and only nodes that must stay among those put back.                *)
THEOREM Inductive == Spec => []IndInv
BY InitInv, StepInv, PTL DEF Spec

(* The cache's totals are what is in memory, for every arena and budget:   *)
(* the subtractions of release_slot, loaded_mut, commit and eviction never *)
(* underflow.                                                              *)
THEOREM Books == Spec => []Accounting
<1>1. IndInv => Accounting
  BY DEF IndInv
<1> QED BY <1>1, Inductive, PTL

(* enforce_budget gives up over budget only when all that is left in       *)
(* memory is dirty, pinned or just loaded.                                 *)
THEOREM Overcommit == Spec => []OvercommitJustified
<1>1. IndInv => OvercommitJustified
  <2> SUFFICES ASSUME IndInv, loop = "enforce", ~Over, ~(cache.bytes <= Budget),
                      NEW id \in Resident
               PROVE  Kept(id)
    BY DEF OvercommitJustified
  <2>1. cache.bytes \in Nat /\ Budget \in Nat /\ left \in Nat /\ cache.lru \in Seq(Entry)
    BY CacheAssumption DEF IndInv, TypeOK, Entry
  <2>2. left = 0 \/ cache.lru = <<>>
    BY <2>1 DEF Over
  <2>3. PICK j \in DOMAIN cache.lru : cache.lru[j] = <<id, slots[id].last_tick>>
    BY DEF IndInv, Stamped, QueueOK, Resident
  <2>4. left < j
    BY <2>1, <2>2, <2>3
  <2> QED BY <2>3, <2>4 DEF IndInv, PutBackKept
<1> QED BY <1>1, Inductive, PTL

-----------------------------------------------------------------------------
(* What a step may do                                                      *)

(* No node leaves memory for its record, and a queue that grows stays      *)
(* within its limit.                                                       *)
Tame ==
    /\ \A id \in Resident : slots'[id].place # "OnDisk"
    /\ Len(cache'.lru) > Len(cache.lru) => Len(cache'.lru) <= Limit(cache'.resident)

(* A step that leaves places and queue alone.                              *)
LEMMA QuietTame ==
    ASSUME IndInv, \A id \in Resident : slots'[id].place # "OnDisk", cache'.lru = cache.lru
    PROVE  Tame
<1>1. Len(cache.lru) \in Nat
  BY DEF IndInv, TypeOK
<1> QED BY <1>1 DEF Tame

(* A step that touches node id of engine e.                                *)
LEMMA TouchTame ==
    ASSUME NEW e, NEW id, Sound({}, e), id \in In(e.slots, "Loaded"),
           \A n \in Resident : n \in DOMAIN e.slots /\ e.slots[n].place # "OnDisk",
           Becomes(touch(e, id))
    PROVE  Tame
<1>1. Sound({id}, e)
  BY SoundWeaker
<1>2. /\ OnlyStamped(e, touch(e, id), id)
      /\ Len(touch(e, id).cache.lru) <= Limit(e.cache.resident)
  BY <1>1, TouchSound
<1> QED BY <1>2 DEF Tame, OnlyStamped, Becomes

LEMMA HitTame ==
    ASSUME IndInv, NEW id \in DOMAIN slots, Hit(id)
    PROVE  Tame
<1>1. Engine.slots = slots /\ Sound({}, Engine)
  BY IndInvParts, EngineSound DEF Engine
<1>2. id \in In(Engine.slots, "Loaded") /\ Becomes(touch(Engine, id))
  BY <1>1 DEF Hit, In
<1>3. \A n \in Resident : n \in DOMAIN Engine.slots /\ Engine.slots[n].place # "OnDisk"
  BY <1>1 DEF Resident, In
<1> QED BY <1>1, <1>2, <1>3, TouchTame

LEMMA LoadTame ==
    ASSUME IndInv, NEW id \in DOMAIN slots, NEW p, NEW found \in Discoveries,
           Load(id, p, found)
    PROVE  Tame
<1> DEFINE g == Read(id, found)
<1>1. slots[id].place = "OnDisk" /\ Becomes(touch(g, id))
  BY DEF Load, Enforce
<1> HIDE DEF g
<1>2. /\ Sound({}, g) /\ DOMAIN slots \subseteq DOMAIN g.slots
      /\ id \in In(g.slots, "Loaded")
      /\ \A n \in Resident : g.slots[n].place = "Loaded"
  BY <1>1, ReadSound DEF g
<1>3. \A n \in Resident : n \in DOMAIN g.slots /\ g.slots[n].place # "OnDisk"
  BY <1>2 DEF Resident, In
<1> QED BY <1>1, <1>2, <1>3, TouchTame

LEMMA AllocTame ==
    ASSUME IndInv, NEW bytes \in Sizes, alloc_dirty(bytes)
    PROVE  Tame
<1> DEFINE y == Loaded(TRUE, bytes)
           g == [slots |-> Append(slots, y), cache |-> Counted(cache, bytes)]
           id == Len(slots) + 1
<1>1. Becomes(touch(g, id))
  BY DEF alloc_dirty
<1>2. /\ Engine.slots = slots /\ Engine.cache = cache /\ slots \in Seq(Slot)
      /\ Sound({}, Engine)
  BY IndInvParts, EngineSound DEF Engine, EngineOK
<1>3. y \in Slot /\ y.place = "Loaded" /\ y.last_tick = 0 /\ y.bytes = bytes
  BY CacheAssumption DEF Loaded, Slot
<1> HIDE DEF y
<1>4. Sound({}, g)
  <2>1. Sound({}, [slots |-> Append(Engine.slots, y), cache |-> Counted(Engine.cache, y.bytes)])
    BY <1>2, <1>3, ExtendSound
  <2> QED BY <2>1, <1>2, <1>3
<1>5. g.slots = Append(slots, y)
  OBVIOUS
<1> HIDE DEF g
<1>6. Extended(slots, g.slots, y)
  BY <1>2, <1>3, <1>5, SlotAppend
<1>7. /\ id \in In(g.slots, "Loaded")
      /\ \A n \in Resident : n \in DOMAIN g.slots /\ g.slots[n].place # "OnDisk"
  BY <1>3, <1>6 DEF Extended, In, Resident
<1> HIDE DEF id
<1> QED BY <1>1, <1>4, <1>7, TouchTame

LEMMA ResizeTame ==
    ASSUME IndInv, NEW id \in Resident, NEW d \in BOOLEAN, NEW b \in Nat,
           Becomes(Resize(Engine, id, d, b))
    PROVE  Tame
<1>1. Engine.slots = slots /\ Engine.cache = cache /\ Sound({}, Engine)
  BY IndInvParts, EngineSound DEF Engine
<1>2. Resized(Engine, Resize(Engine, id, d, b))
  BY <1>1, ResizeSound DEF Resident
<1>3. cache'.lru = cache.lru /\ \A n \in Resident : slots'[n].place # "OnDisk"
  BY <1>1, <1>2 DEF Resized, Becomes, Resident, In
<1> QED BY <1>3, QuietTame

LEMMA ReleaseTame ==
    ASSUME IndInv, NEW id \in DOMAIN slots, release_slot(id)
    PROVE  Tame
<1>1. slots' = [slots EXCEPT ![id] = Freed] /\ cache'.lru = cache.lru
  <2>1. Engine.slots = slots /\ Engine.cache = cache
    BY DEF Engine
  <2>2. cache \in CacheType
    BY IndInvParts DEF EngineOK
  <2> QED BY <2>1, <2>2 DEF release_slot, Becomes, Drop, CacheType
<1>2. \A n \in Resident : slots'[n].place # "OnDisk"
  BY <1>1 DEF Resident, In, Freed, IndInv, TypeOK
<1> QED BY <1>1, <1>2, QuietTame

LEMMA LoadOneTame ==
    ASSUME IndInv, NEW id \in DOMAIN slots, NEW found \in Discoveries, LoadOne(id, found)
    PROVE  Tame
<1>1. slots[id].place = "OnDisk" /\ Becomes(Read(id, found))
  BY DEF LoadOne
<1>2. /\ \A n \in Resident : Read(id, found).slots[n].place = "Loaded"
      /\ Read(id, found).cache.lru = cache.lru
  BY <1>1, ReadSound
<1> QED BY <1>1, <1>2, QuietTame DEF Becomes

LEMMA RestampTame ==
    ASSUME IndInv, RestampNext
    PROVE  Tame
<1>1. /\ Engine.slots = slots /\ Engine.cache = cache /\ slots \in Seq(Slot)
      /\ Sound({}, Engine) /\ next \in DOMAIN slots /\ Becomes(Restamp(Engine, next))
  BY IndInvParts, EngineSound DEF Engine, EngineOK, IndInv, TypeOK, RestampNext
<1>2. \A n \in Resident : n \in DOMAIN Engine.slots /\ Engine.slots[n].place # "OnDisk"
  BY <1>1 DEF Resident, In
<1>3. CASE slots[next].place = "Loaded"
  <2>1. Becomes(touch(Engine, next)) /\ next \in In(Engine.slots, "Loaded")
    BY <1>1, <1>3 DEF Restamp, In
  <2> QED BY <2>1, <1>1, <1>2, TouchTame
<1>4. CASE slots[next].place # "Loaded"
  <2>1. slots' = slots /\ cache' = cache
    BY <1>1, <1>4 DEF Restamp, Becomes
  <2> QED BY <2>1, <1>1, <1>2, QuietTame
<1> QED BY <1>3, <1>4

(* Steps that change neither arena nor cache.                              *)
LEMMA SameTame ==
    ASSUME IndInv, slots' = slots, cache' = cache
    PROVE  Tame
<1>1. \A id \in Resident : slots'[id].place # "OnDisk"
  BY DEF Resident, In
<1> QED BY <1>1, QuietTame

(* Of all the steps, only Examine may evict.                               *)
LEMMA OnlyExamineEvicts ==
    ASSUME IndInv, Next, ~Examine
    PROVE  Tame
<1>1. CASE \E id \in DOMAIN slots : Hit(id)
  BY <1>1, HitTame
<1>2. CASE \E id \in DOMAIN slots : \E p \in SUBSET (Resident \cup {id}), found \in Discoveries :
              Load(id, p, found)
  BY <1>2, LoadTame
<1>3. CASE \E id \in DOMAIN slots : \E est \in Sizes : loaded_mut(id, est)
  <2>1. PICK id \in DOMAIN slots, est \in Sizes : loaded_mut(id, est)
    BY <1>3
  <2>2. id \in Resident /\ est \in Nat /\ Becomes(Resize(Engine, id, TRUE, est))
    BY <2>1, CacheAssumption DEF loaded_mut, Resident, In
  <2> QED BY <2>2, ResizeTame
<1>4. CASE \E id \in DOMAIN slots : release_slot(id)
  BY <1>4, ReleaseTame
<1>5. CASE \E bytes \in Sizes : alloc_dirty(bytes)
  BY <1>5, AllocTame
<1>6. CASE \/ \E written \in SUBSET {id \in Resident : slots[id].dirty} :
                 \E size \in [written -> Sizes] : Adopt(size)
           \/ check_invariants_full \/ Adopted \/ LoadedAll \/ Restamped \/ Return
  <2>1. slots' = slots /\ cache' = cache
    BY <1>6 DEF Adopt, check_invariants_full, Adopted, LoadedAll, Restamped, Return,
                Enforce, Becomes, Engine
  <2> QED BY <2>1, SameTame
<1>7. CASE \E id \in DOMAIN todo : AdoptNode(id)
  <2>1. PICK id \in DOMAIN todo : AdoptNode(id)
    BY <1>7
  <2>2. id \in Resident /\ todo[id] \in Nat /\ Becomes(Resize(Engine, id, FALSE, todo[id]))
    BY <2>1 DEF AdoptNode, IndInv, TypeOK
  <2> QED BY <2>2, ResizeTame
<1>8. CASE \E id \in DOMAIN slots, found \in Discoveries : LoadOne(id, found)
  BY <1>8, LoadOneTame
<1>9. CASE RestampNext
  BY <1>9, RestampTame
<1> QED BY <1>1, <1>2, <1>3, <1>4, <1>5, <1>6, <1>7, <1>8, <1>9 DEF Next, Iterate, enforce_budget

(* Examine takes the node that was used longest ago among those that may   *)
(* go, and does not make the queue longer.                                 *)
LEMMA ExamineEvictsOldest ==
    ASSUME IndInv, Examine
    PROVE  /\ Len(cache'.lru) <= Len(cache.lru)
           /\ \A id \in Resident : slots'[id].place = "OnDisk" =>
                 /\ cache.bytes > Budget
                 /\ ~Kept(id)
                 /\ \A other \in Resident \ {id} :
                       ~Kept(other) => slots[id].last_tick < slots[other].last_tick
<1> DEFINE q == cache.lru
           entry == Head(q)
           m == entry[1]
           e == IF ~Current(slots, entry) THEN Popped
                ELSE IF Kept(m) THEN Stamp(Popped, m)
                ELSE Drop(Popped, m, OnDisk(slots[m].bytes))
<1>1. loop = "enforce" /\ q # <<>> /\ Becomes(e) /\ cache.bytes > Budget
  BY DEF Examine, Over
<1>2. /\ slots \in Seq(Slot) /\ cache \in CacheType /\ QueueOK(slots, cache.tick, q)
      /\ AllStamped(slots)
  BY <1>1, IndInvParts, StampedOutside DEF EngineOK
<1>3. q \in Seq(Entry)
  BY <1>2 DEF CacheType
<1>4. /\ Tail(q) \in Seq(Entry) /\ entry = q[1] /\ entry \in Entry
      /\ Len(q) \in Nat /\ Len(Tail(q)) = Len(q) - 1
  <2> HIDE DEF q
  <2> QED BY <1>1, <1>2, <1>3, QueueTail
<1>5. Popped.slots = slots /\ Popped.cache = [cache EXCEPT !.lru = Tail(q)]
  BY DEF Popped
<1>6. m \in DOMAIN slots /\ m \in Nat /\ 1 \in DOMAIN q
  BY <1>1, <1>2, <1>3, <1>4 DEF QueueOK, Entry
<1> HIDE DEF q, entry, m, e
<1>7. ASSUME NEW id \in Resident, slots'[id].place = "OnDisk"
      PROVE  id = m /\ Current(slots, entry) /\ ~Kept(m)
  <2>0. slots' = e.slots /\ slots[id].place = "Loaded"
    BY <1>1 DEF Becomes, Resident, In
  <2>1. CASE ~Current(slots, entry)
    BY <2>0, <2>1, <1>5, <1>7 DEF e
  <2>2. CASE Current(slots, entry) /\ Kept(m)
    <3>1. slots' = [slots EXCEPT ![m].last_tick = Popped.cache.tick + 1]
      BY <2>0, <2>2, <1>5 DEF e, Stamp
    <3> QED BY <3>1, <2>0, <1>2, <1>6, <1>7 DEF Slot
  <2>3. CASE Current(slots, entry) /\ ~Kept(m)
    <3>1. slots' = [slots EXCEPT ![m] = OnDisk(slots[m].bytes)]
      BY <2>0, <2>3, <1>5 DEF e, Drop
    <3> QED BY <3>1, <2>0, <2>3, <1>2, <1>6, <1>7
  <2> QED BY <2>1, <2>2, <2>3
<1>8. ASSUME NEW other \in Resident, other # m, Current(slots, entry)
      PROVE  slots[m].last_tick < slots[other].last_tick
  <2>1. slots[m].last_tick = q[1][2]
    BY <1>4, <1>8 DEF Current, m
  <2>2. PICK k \in DOMAIN q : q[k] = <<other, slots[other].last_tick>>
    BY <1>2, <1>8 DEF QueueOK, AllStamped, Resident
  <2>3. k # 1
    BY <2>2, <1>4, <1>8 DEF m
  <2>4. 1 < k
    BY <2>2, <2>3, <1>3
  <2>5. q[1][2] < q[k][2]
    BY <2>4, <1>2, <1>6 DEF QueueOK
  <2> QED BY <2>1, <2>2, <2>5
<1>9. Len(cache'.lru) <= Len(cache.lru)
  <2>1. Popped.cache.lru = Tail(q) /\ Popped.cache \in CacheType
    BY <1>2, <1>4, <1>5 DEF CacheType
  <2>2. cache' = e.cache
    BY <1>1 DEF Becomes
  <2>3. CASE ~Current(slots, entry)
    <3>1. cache'.lru = Tail(q)
      BY <2>1, <2>2, <2>3 DEF e
    <3> QED BY <3>1, <1>4 DEF q
  <2>4. CASE Current(slots, entry) /\ Kept(m)
    <3>1. cache'.lru = Append(Tail(q), <<m, Popped.cache.tick + 1>>)
      BY <2>1, <2>2, <2>4 DEF e, Stamp, CacheType
    <3>2. Len(cache'.lru) = Len(Tail(q)) + 1
      BY <3>1, <1>4
    <3> QED BY <3>2, <1>4 DEF q
  <2>5. CASE Current(slots, entry) /\ ~Kept(m)
    <3>1. cache'.lru = Tail(q)
      BY <2>1, <2>2, <2>5 DEF e, Drop, CacheType
    <3> QED BY <3>1, <1>4 DEF q
  <2> QED BY <2>3, <2>4, <2>5
<1> QED BY <1>1, <1>7, <1>8, <1>9

(* Whatever the sizes, budget and pins, eviction takes the least recently  *)
(* used of the nodes that may go, and only over budget.                    *)
THEOREM EvictionOrder == Spec => EvictsOldest
<1> DEFINE Oldest ==
             \A id \in Resident : slots'[id].place = "OnDisk" =>
                 /\ cache.bytes > Budget
                 /\ ~Kept(id)
                 /\ \A other \in Resident \ {id} :
                       ~Kept(other) => slots[id].last_tick < slots[other].last_tick
<1>1. IndInv /\ [Next]_vars => [Oldest]_vars
  <2> SUFFICES ASSUME IndInv, Next PROVE Oldest
    BY DEF vars
  <2>1. CASE Examine
    BY <2>1, ExamineEvictsOldest
  <2>2. CASE ~Examine
    BY <2>2, OnlyExamineEvicts DEF Tame
  <2> QED BY <2>1, <2>2
<1> QED BY <1>1, Inductive, PTL DEF Spec, EvictsOldest

(* The queue does not grow beyond the compaction limit: a compacted queue  *)
(* has one entry per node in memory.                                       *)
THEOREM QueueLimit == Spec => QueueBounded
<1> DEFINE Bounded ==
             Len(cache'.lru) > Len(cache.lru) => Len(cache'.lru) <= Limit(cache'.resident)
<1>1. IndInv /\ IndInv' /\ [Next]_vars => [Bounded]_vars
  <2> SUFFICES ASSUME IndInv, IndInv', Next PROVE Bounded
    BY DEF vars
  <2>1. CASE Examine
    <3>1. Len(cache'.lru) <= Len(cache.lru)
      BY <2>1, ExamineEvictsOldest
    <3>2. Len(cache'.lru) \in Nat /\ Len(cache.lru) \in Nat
      BY DEF IndInv, TypeOK
    <3> QED BY <3>1, <3>2
  <2>2. CASE ~Examine
    BY <2>2, OnlyExamineEvicts DEF Tame
  <2> QED BY <2>1, <2>2
<1> QED BY <1>1, Inductive, PTL DEF Spec, QueueBounded
=============================================================================
