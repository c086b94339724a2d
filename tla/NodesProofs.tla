---------------------------- MODULE NodesProofs -----------------------------
(***************************************************************************)
(* Theorems about the arena of module Nodes: which shape the structural    *)
(* operations keep, and that none of them changes what get returns.        *)
(***************************************************************************)
EXTENDS Reads, FiniteSetTheorems, SequenceTheorems, WellFoundedInduction, TLAPS

-----------------------------------------------------------------------------
(* Induction over the natural numbers, for sets of them                    *)

(* A set of natural numbers that is not empty has a least element.         *)
LEMMA Least ==
    ASSUME NEW T, T \subseteq Nat, T # {}
    PROVE  \E x \in T : \A y \in T : x <= y
<1>1. IsWellFoundedOn(OpToRel(<, Nat), Nat)
  BY NatLessThanWellFounded, Zenon
<1>2. PICK x \in T : \A y \in T : ~ (<<y, x>> \in OpToRel(<, Nat))
  BY <1>1, WFMin, Zenon
<1>3. \A y \in T : ~(y < x)
  BY <1>2, Zenon DEF OpToRel
<1> QED BY <1>3

(* A set that has 0 and is closed under successor has every number.        *)
LEMMA SetInduction ==
    ASSUME NEW S, 0 \in S, \A n \in Nat : n \in S => n + 1 \in S
    PROVE  \A n \in Nat : n \in S
<1> SUFFICES ASSUME Nat \ S # {} PROVE FALSE
  OBVIOUS
<1>1. PICK x \in Nat \ S : \A y \in Nat \ S : x <= y
  BY Least
<1>2. x # 0 /\ x - 1 \in Nat /\ x - 1 \notin Nat \ S
  BY <1>1
<1> QED BY <1>2

(* The same up to a bound.                                                 *)
LEMMA BoundedInduction ==
    ASSUME NEW N \in Nat, NEW S, 0 \in S, \A n \in 0 .. N - 1 : n \in S => n + 1 \in S
    PROVE  \A n \in 0 .. N : n \in S
<1> DEFINE T == {n \in Nat : n <= N => n \in S}
<1>1. \A n \in Nat : n \in T => n + 1 \in T
  OBVIOUS
<1>2. 0 \in T
  OBVIOUS
<1>3. \A n \in Nat : n \in T
  <2> HIDE DEF T
  <2> QED BY <1>1, <1>2, SetInduction
<1> QED BY <1>3

(* A function on 0 .. N that starts with start and goes on with step.      *)
Recursion(N, V, start, step) ==
    \E f \in [0 .. N -> V] :
        f[0] = start /\ \A i \in 1 .. N : f[i] = step[<<i, f[i - 1]>>]

(* A recursion over 0 .. N that starts at a value of V, and takes a value  *)
(* of V to one of V at every index, is met by a function.                  *)
LEMMA RecursionExists ==
    ASSUME NEW N \in Nat, NEW V, NEW start \in V, NEW step \in [(1 .. N) \X V -> V]
    PROVE  Recursion(N, V, start, step)
<1> DEFINE Meets(f, n) == f[0] = start /\ \A i \in 1 .. n : f[i] = step[<<i, f[i - 1]>>]
           S == {n \in Nat : \E f \in [0 .. n -> V] : Meets(f, n)}
<1>1. 0 \in S
  <2>1. [i \in 0 .. 0 |-> start] \in [0 .. 0 -> V] /\ Meets([i \in 0 .. 0 |-> start], 0)
    OBVIOUS
  <2> QED BY <2>1
<1>2. ASSUME NEW n \in 0 .. N - 1, n \in S PROVE n + 1 \in S
  <2>1. PICK f \in [0 .. n -> V] : Meets(f, n)
    BY <1>2
  <2> DEFINE g == [i \in 0 .. n + 1 |-> IF i <= n THEN f[i] ELSE step[<<n + 1, f[n]>>]]
  <2>2. <<n + 1, f[n]>> \in (1 .. N) \X V
    OBVIOUS
  <2>3. g \in [0 .. n + 1 -> V]
    BY <2>2
  <2>4. \A i \in 0 .. n : g[i] = f[i]
    OBVIOUS
  <2>5. g[n + 1] = step[<<n + 1, g[n]>>]
    <3>1. n + 1 \in 0 .. n + 1 /\ ~(n + 1 <= n) /\ n \in 0 .. n
      OBVIOUS
    <3>2. g[n + 1] = step[<<n + 1, f[n]>>]
      BY <3>1, Zenon
    <3> HIDE DEF g
    <3> QED BY <3>1, <3>2, <2>4, Zenon
  <2>6. ASSUME NEW i \in 1 .. n + 1 PROVE g[i] = step[<<i, g[i - 1]>>]
    <3>1. CASE i <= n
      <4>1. i \in 1 .. n /\ i - 1 \in 0 .. n /\ i \in 0 .. n
        BY <3>1
      <4> HIDE DEF g
      <4> QED BY <4>1, <2>1, <2>4
    <3>2. CASE i = n + 1
      <4>1. i - 1 = n
        BY <3>2
      <4> HIDE DEF g
      <4> QED BY <4>1, <3>2, <2>5
    <3> QED BY <3>1, <3>2
  <2>7. g[0] = start
    BY <2>1
  <2> HIDE DEF g
  <2> QED BY <2>3, <2>6, <2>7
<1>3. N \in S
  <2> HIDE DEF S
  <2> QED BY <1>1, <1>2, BoundedInduction
<1> QED BY <1>3 DEF Recursion

(* fl gives what each prefix of s flattens into.                           *)
Flattens(s, T, fl) ==
    /\ fl \in [1 .. Len(s) -> Seq(T)]
    /\ \A n \in 1 .. Len(s) : fl[n] = IF n = 1 THEN s[n] ELSE fl[n - 1] \o s[n]
    /\ FlattenSeq(s) = fl[Len(s)]

(* FlattenSeq concatenates one sequence after the other.                   *)
LEMMA FlattenIs ==
    ASSUME NEW T, NEW s \in Seq(Seq(T)), Len(s) # 0
    PROVE  \E fl : Flattens(s, T, fl)
<1> DEFINE G(f) == [n \in 1 .. Len(s) |-> IF n = 1 THEN s[n] ELSE f[n - 1] \o s[n]]
           fl == CHOOSE f : f = G(f)
           step == [x \in (1 .. Len(s)) \X Seq(T) |-> x[2] \o s[x[1]]]
<1>1. Len(s) \in Nat /\ \A n \in 1 .. Len(s) : s[n] \in Seq(T)
  OBVIOUS
<1>2. step \in [(1 .. Len(s)) \X Seq(T) -> Seq(T)]
  BY <1>1
<1>3. \A n \in 1 .. Len(s), x \in Seq(T) : step[<<n, x>>] = x \o s[n]
  OBVIOUS
<1>4. <<>> \in Seq(T)
  OBVIOUS
<1>5. Recursion(Len(s), Seq(T), <<>>, step)
  <2> HIDE DEF step
  <2> QED BY <1>1, <1>2, <1>4, RecursionExists
<1>6. PICK h \in [0 .. Len(s) -> Seq(T)] :
           h[0] = <<>> /\ \A n \in 1 .. Len(s) : h[n] = step[<<n, h[n - 1]>>]
  BY <1>5, Zenon DEF Recursion
<1>7. \A n \in 1 .. Len(s) : h[n - 1] \in Seq(T) /\ h[n] = h[n - 1] \o s[n]
  <2> SUFFICES ASSUME NEW n \in 1 .. Len(s)
               PROVE  h[n - 1] \in Seq(T) /\ h[n] = h[n - 1] \o s[n]
    OBVIOUS
  <2>1. n - 1 \in 0 .. Len(s)
    BY <1>1
  <2>2. h[n - 1] \in Seq(T)
    BY <2>1
  <2> HIDE DEF step
  <2> QED BY <2>2, <1>3, <1>6
<1> DEFINE r == [n \in 1 .. Len(s) |-> h[n]]
<1>8. r = G(r)
  <2> SUFFICES ASSUME NEW n \in 1 .. Len(s)
               PROVE  h[n] = IF n = 1 THEN s[n] ELSE r[n - 1] \o s[n]
    OBVIOUS
  <2>1. CASE n = 1
    <3>1. n - 1 = 0
      BY <2>1
    <3>2. h[n] = <<>> \o s[n]
      BY <3>1, <1>6, <1>7
    <3> QED BY <3>2, <2>1, <1>1
  <2>2. CASE n # 1
    <3>1. n - 1 \in 1 .. Len(s)
      BY <2>2, <1>1
    <3>2. r[n - 1] = h[n - 1]
      BY <3>1, Zenon
    <3> QED BY <3>2, <2>2, <1>7
  <2> QED BY <2>1, <2>2
<1>9. fl = G(fl)
  <2> HIDE DEF G, r
  <2> QED BY <1>8, Zenon
<1>10. \A n \in 1 .. Len(s) : fl[n] = IF n = 1 THEN s[n] ELSE fl[n - 1] \o s[n]
  <2> HIDE DEF fl
  <2> QED BY <1>9
<1>11. FlattenSeq(s) = fl[Len(s)]
  BY Zenon DEF FlattenSeq
<1>12. fl = [n \in 1 .. Len(s) |-> fl[n]]
  <2> HIDE DEF fl
  <2> QED BY <1>9
<1> HIDE DEF fl, G
<1> DEFINE S == {n \in Nat : n + 1 <= Len(s) => fl[n + 1] \in Seq(T)}
<1>13. 0 \in S
  <2>1. 1 \in 1 .. Len(s) /\ s[1] \in Seq(T)
    BY <1>1
  <2>2. fl[1] = s[1]
    BY <2>1, <1>10
  <2> QED BY <2>1, <2>2
<1>14. ASSUME NEW n \in Nat, n \in S PROVE n + 1 \in S
  <2> SUFFICES ASSUME n + 2 <= Len(s) PROVE fl[n + 2] \in Seq(T)
    OBVIOUS
  <2>1. fl[n + 1] \in Seq(T) /\ s[n + 2] \in Seq(T)
    BY <1>14, <1>1
  <2>2. n + 2 \in 1 .. Len(s) /\ n + 2 # 1 /\ (n + 2) - 1 = n + 1
    BY <1>1
  <2>3. fl[n + 2] = fl[n + 1] \o s[n + 2]
    BY <2>2, <1>10
  <2> QED BY <2>1, <2>3
<1>15. \A n \in Nat : n \in S
  <2> HIDE DEF S
  <2> QED BY <1>13, <1>14, SetInduction
<1>16. ASSUME NEW n \in 1 .. Len(s) PROVE fl[n] \in Seq(T)
  <2>1. n - 1 \in Nat /\ (n - 1) + 1 = n /\ n <= Len(s)
    BY <1>1
  <2>2. n - 1 \in S
    BY <2>1, <1>15
  <2> QED BY <2>1, <2>2
<1> QED BY <1>10, <1>11, <1>12, <1>16 DEF Flattens

(* A sequence of sequences flattens into a sequence.                       *)
LEMMA FlattenTyped ==
    ASSUME NEW T, NEW s \in Seq(Seq(T))
    PROVE  FlattenSeq(s) \in Seq(T)
<1>1. CASE Len(s) = 0
  <2>1. s = <<>>
    BY <1>1
  <2> QED BY <2>1, <1>1 DEF FlattenSeq
<1>2. CASE Len(s) # 0
  <2>1. PICK fl : Flattens(s, T, fl)
    BY <1>2, FlattenIs
  <2>2. Len(s) \in 1 .. Len(s)
    BY <1>2
  <2> QED BY <2>1, <2>2 DEF Flattens
<1> QED BY <1>1, <1>2

(* What a concatenation has, and when it has nothing twice.                *)
LEMMA ConcatRange ==
    ASSUME NEW T, NEW a \in Seq(T), NEW b \in Seq(T)
    PROVE  /\ Range(a \o b) = Range(a) \cup Range(b)
           /\ IsInjective(a) /\ IsInjective(b) /\ Range(a) \cap Range(b) = {} => IsInjective(a \o b)
<1> DEFINE A == Len(a)
           B == Len(b)
           c == a \o b
<1>1. /\ A \in Nat /\ B \in Nat /\ DOMAIN a = 1 .. A /\ DOMAIN b = 1 .. B /\ DOMAIN c = 1 .. (A + B)
      /\ \A i \in 1 .. (A + B) : c[i] = IF i <= A THEN a[i] ELSE b[i - A]
  OBVIOUS
<1> HIDE DEF A, B, c
<1>2. ASSUME NEW i \in 1 .. (A + B)
      PROVE  \/ i \in 1 .. A /\ c[i] = a[i]
             \/ i > A /\ i - A \in 1 .. B /\ c[i] = b[i - A]
  BY <1>1
<1>3. \A i \in 1 .. A : i \in 1 .. (A + B) /\ c[i] = a[i]
  BY <1>1
<1>4. \A i \in 1 .. B : i + A \in 1 .. (A + B) /\ c[i + A] = b[i]
  <2> SUFFICES ASSUME NEW i \in 1 .. B PROVE i + A \in 1 .. (A + B) /\ c[i + A] = b[i]
    OBVIOUS
  <2>1. i + A \in 1 .. (A + B) /\ ~(i + A <= A) /\ (i + A) - A = i
    BY <1>1
  <2> QED BY <2>1, <1>1
<1>5. Range(c) = Range(a) \cup Range(b)
  <2>1. \A v : v \in Range(c) => v \in Range(a) \/ v \in Range(b)
    BY <1>1, <1>2 DEF Range
  <2>2. \A v : v \in Range(a) => v \in Range(c)
    BY <1>1, <1>3 DEF Range
  <2>3. ASSUME NEW v, v \in Range(b) PROVE v \in Range(c)
    <3>1. PICK i \in 1 .. B : v = b[i]
      BY <2>3, <1>1 DEF Range
    <3>2. i + A \in DOMAIN c /\ c[i + A] = v
      BY <3>1, <1>1, <1>4
    <3> QED BY <3>2 DEF Range
  <2> QED BY <2>1, <2>2, <2>3
<1>6. ASSUME IsInjective(a), IsInjective(b), Range(a) \cap Range(b) = {} PROVE IsInjective(c)
  <2> SUFFICES ASSUME NEW x \in 1 .. (A + B), NEW y \in 1 .. (A + B), c[x] = c[y] PROVE x = y
    BY <1>1 DEF IsInjective
  <2>1. \A i \in 1 .. A, j \in 1 .. B : a[i] # b[j]
    BY <1>1, <1>6 DEF Range
  <2>2. CASE x \in 1 .. A /\ y \in 1 .. A
    BY <2>2, <1>1, <1>3, <1>6 DEF IsInjective
  <2>3. CASE x - A \in 1 .. B /\ y - A \in 1 .. B /\ x > A /\ y > A
    <3>1. b[x - A] = b[y - A]
      BY <2>3, <1>1
    <3>2. x - A = y - A
      BY <2>3, <3>1, <1>1, <1>6 DEF IsInjective
    <3> QED BY <3>2, <1>1
  <2> QED BY <2>1, <2>2, <2>3, <1>2
<1> QED BY <1>5, <1>6 DEF c

(* A flattened sequence has what its parts have.                           *)
LEMMA FlattenRange ==
    ASSUME NEW T, NEW s \in Seq(Seq(T))
    PROVE  /\ Range(FlattenSeq(s)) = UNION {Range(s[n]) : n \in 1 .. Len(s)}
           /\ /\ \A n \in 1 .. Len(s) : IsInjective(s[n])
              /\ \A m, n \in 1 .. Len(s) : m # n => Range(s[m]) \cap Range(s[n]) = {}
              => IsInjective(FlattenSeq(s))
<1>1. Len(s) \in Nat /\ \A n \in 1 .. Len(s) : s[n] \in Seq(T)
  OBVIOUS
<1>2. CASE Len(s) = 0
  <2>1. s = <<>>
    BY <1>2
  <2>2. FlattenSeq(s) = <<>>
    BY <2>1, <1>2 DEF FlattenSeq
  <2>3. Range(<<>>) = {} /\ IsInjective(<<>>)
    BY DEF Range, IsInjective
  <2>4. 1 .. Len(s) = {}
    BY <1>2
  <2> QED BY <2>2, <2>3, <2>4
<1>3. CASE Len(s) # 0
  <2>1. PICK fl : Flattens(s, T, fl)
    BY <1>3, FlattenIs
  <2>2. /\ fl \in [1 .. Len(s) -> Seq(T)] /\ FlattenSeq(s) = fl[Len(s)]
        /\ \A n \in 1 .. Len(s) : fl[n] = IF n = 1 THEN s[n] ELSE fl[n - 1] \o s[n]
    BY <2>1 DEF Flattens
  <2> DEFINE Upto(n) == UNION {Range(s[m]) : m \in 1 .. n}
             Apart == /\ \A n \in 1 .. Len(s) : IsInjective(s[n])
                      /\ \A m, n \in 1 .. Len(s) : m # n => Range(s[m]) \cap Range(s[n]) = {}
             N == Len(s) - 1
             S == {n \in 0 .. N : Range(fl[n + 1]) = Upto(n + 1) /\ (Apart => IsInjective(fl[n + 1]))}
  <2>3. N \in Nat /\ N + 1 = Len(s)
    BY <1>1, <1>3
  <2>4. 0 \in S
    <3>1. 1 \in 1 .. Len(s) /\ 0 \in 0 .. N /\ 0 + 1 = 1
      BY <2>3
    <3>2. fl[1] = s[1]
      BY <3>1, <2>2
    <3>3. 1 .. 1 = {1}
      OBVIOUS
    <3>4. Upto(1) = Range(s[1])
      BY <3>3
    <3> HIDE DEF Upto
    <3> QED BY <3>1, <3>2, <3>4
  <2>5. ASSUME NEW n \in 0 .. N - 1, n \in S PROVE n + 1 \in S
    <3> DEFINE q == n + 2
    <3>1. /\ q \in 1 .. Len(s) /\ q # 1 /\ q - 1 = n + 1 /\ n + 1 \in 1 .. Len(s) /\ n + 1 \in 0 .. N
          /\ (n + 1) + 1 = q
      BY <2>3
    <3>2. fl[q] = fl[n + 1] \o s[q] /\ fl[n + 1] \in Seq(T) /\ s[q] \in Seq(T)
      BY <3>1, <2>2, <1>1
    <3>3. 1 .. q = (1 .. (n + 1)) \cup {q} /\ q \notin 1 .. (n + 1) /\ 1 .. (n + 1) \subseteq 1 .. Len(s)
      BY <2>3
    <3> HIDE DEF q
    <3>4. Upto(q) = Upto(n + 1) \cup Range(s[q])
      BY <3>3
    <3>5. Range(fl[n + 1]) = Upto(n + 1) /\ (Apart => IsInjective(fl[n + 1]))
      BY <2>5
    <3>6. Range(fl[q]) = Range(fl[n + 1]) \cup Range(s[q])
      BY <3>2, ConcatRange
    <3>7. ASSUME Apart PROVE IsInjective(fl[q])
      <4>1. IsInjective(fl[n + 1]) /\ IsInjective(s[q])
        BY <3>1, <3>5, <3>7
      <4>2. \A m \in 1 .. (n + 1) : Range(s[m]) \cap Range(s[q]) = {}
        BY <3>1, <3>3, <3>7
      <4>3. Range(fl[n + 1]) \cap Range(s[q]) = {}
        BY <4>2, <3>5
      <4> QED BY <4>1, <4>3, <3>2, ConcatRange
    <3> HIDE DEF Upto, Apart
    <3> QED BY <3>1, <3>4, <3>5, <3>6, <3>7
  <2>6. N \in S
    <3>1. \A n \in 0 .. N : n \in S
      <4> HIDE DEF S, N
      <4> QED BY <2>3, <2>4, <2>5, BoundedInduction
    <3>2. N \in 0 .. N
      BY <2>3
    <3> HIDE DEF S, N
    <3> QED BY <3>1, <3>2
  <2>7. Range(fl[Len(s)]) = Upto(Len(s)) /\ (Apart => IsInjective(fl[Len(s)]))
    <3> HIDE DEF Upto, Apart
    <3> QED BY <2>3, <2>6
  <2> QED BY <2>2, <2>7
<1> QED BY <1>2, <1>3

-----------------------------------------------------------------------------
(* Messages: merging them early, in a buffer, gives what applying them one  *)
(* by one would give                                                       *)

(* wrapping_add stays in the numbers and may be regrouped.                 *)
LEMMA WrappingAdd ==
    ASSUME NEW a \in Numbers, NEW b \in Numbers, NEW c \in Numbers
    PROVE  /\ wrapping_add(a, b) \in Numbers
           /\ wrapping_add(a, 0) = a /\ wrapping_add(0, a) = a
           /\ wrapping_add(wrapping_add(a, b), c) = wrapping_add(a, wrapping_add(b, c))
  BY ModulusAssumption DEF Numbers, wrapping_add

(* UpsertOp::apply always leaves a number, so that a second upsert finds   *)
(* its base there.                                                         *)
LEMMA ApplyTwice ==
    ASSUME NEW d \in Numbers, NEW e \in Numbers, NEW v \in MaybeValues
    PROVE  /\ apply(d, v) \in Numbers
           /\ apply(e, apply(d, v)) = apply(wrapping_add(d, e), v)
  <1> DEFINE base == IF v \in Numbers THEN v ELSE 0
  <1>1. base \in Numbers
    BY ModulusAssumption DEF Numbers
  <1>2. apply(d, v) = wrapping_add(base, d) /\ apply(d, v) \in Numbers
    BY <1>1, WrappingAdd DEF apply
  <1>3. wrapping_add(d, e) \in Numbers
    BY WrappingAdd
  <1>4. apply(e, apply(d, v)) = wrapping_add(wrapping_add(base, d), e)
    BY <1>2 DEF apply
  <1>5. apply(wrapping_add(d, e), v) = wrapping_add(base, wrapping_add(d, e))
    BY DEF apply
  <1> QED
    BY <1>1, <1>2, <1>4, <1>5, WrappingAdd, ZenonT(40)

(* Message::coalesce: whatever lies below, the merged message has the      *)
(* effect of the older message followed by the newer one, and it carries   *)
(* the newer seqno.  This is what lets a buffer keep one message per key.  *)
THEOREM CoalesceSound ==
    ASSUME NEW S, NEW m \in MessagesOf(S), NEW older \in MessagesOf(S),
           NEW v \in MaybeValues
    PROVE  /\ Effect(coalesce(m, older), v) = Effect(m, Effect(older, v))
           /\ coalesce(m, older) \in MessagesOf(S)
           /\ coalesce(m, older).seq = m.seq
  <1>1. CASE m.kind # "Upsert"
    BY <1>1 DEF coalesce, Effect, MessagesOf
  <1>2. CASE m.kind = "Upsert"
    <2>1. m.delta \in Numbers /\ m.seq \in S
      BY <1>2 DEF MessagesOf
    <2>2. CASE older.kind = "Put"
      <3>1. older.value \in Values
        BY <2>2 DEF MessagesOf
      <3>2. apply(m.delta, older.value) \in Values
        BY <2>1, <3>1, ApplyTwice DEF Values, MaybeValues
      <3>3. coalesce(m, older) = Put(m.seq, apply(m.delta, older.value))
        BY <1>2, <2>2 DEF coalesce
      <3> QED
        BY <1>2, <2>1, <2>2, <3>2, <3>3 DEF Effect, Put, MessagesOf
    <2>3. CASE older.kind = "Delete"
      <3>2. apply(m.delta, NoValue) \in Values
        BY <2>1, ApplyTwice DEF Values, MaybeValues
      <3>3. coalesce(m, older) = Put(m.seq, apply(m.delta, NoValue))
        BY <1>2, <2>3 DEF coalesce
      <3> QED
        BY <1>2, <2>1, <2>3, <3>2, <3>3 DEF Effect, Put, MessagesOf
    <2>4. CASE older.kind = "Upsert"
      <3>1. older.delta \in Numbers
        BY <2>4 DEF MessagesOf
      <3>2. wrapping_add(older.delta, m.delta) \in Numbers
        BY <2>1, <3>1, WrappingAdd
      <3>3. coalesce(m, older) = Upsert(m.seq, wrapping_add(older.delta, m.delta))
        BY <1>2, <2>4 DEF coalesce
      <3>4. apply(m.delta, apply(older.delta, v)) = apply(wrapping_add(older.delta, m.delta), v)
        BY <2>1, <3>1, ApplyTwice
      <3> QED
        BY <1>2, <2>1, <2>4, <3>2, <3>3, <3>4 DEF Effect, Upsert, MessagesOf
    <2> QED
      BY <2>2, <2>3, <2>4 DEF MessagesOf
  <1> QED
    BY <1>1, <1>2

(* get: adding up the upserts on the way down and applying the sum at the  *)
(* end gives what applying the lower, older upsert first and then the ones *)
(* seen before it would give, also past the range of an i64.               *)
THEOREM ChainSound ==
    ASSUME NEW chain \in Numbers \cup {NoValue}, NEW d \in Numbers, NEW v \in MaybeValues
    PROVE  apply_chain(ChainAdd(chain, d), v) = apply_chain(chain, apply(d, v))
  <1>1. NoValue \notin Numbers
    BY OpaqueAssumption, ModulusAssumption DEF Numbers
  <1>2. CASE chain = NoValue
    BY <1>1, <1>2 DEF apply_chain, ChainAdd
  <1>3. CASE chain \in Numbers
    <2>1. wrapping_add(chain, d) = wrapping_add(d, chain) /\ wrapping_add(chain, d) \in Numbers
      BY <1>3, ModulusAssumption DEF Numbers, wrapping_add
    <2>2. apply(chain, apply(d, v)) = apply(wrapping_add(d, chain), v)
      BY <1>3, ApplyTwice
    <2> QED
      BY <1>1, <1>3, <2>1, <2>2 DEF apply_chain, ChainAdd
  <1> QED
    BY <1>2, <1>3

-----------------------------------------------------------------------------
(* Sorted pivots and routing                                               *)

Sorted(p) == \A i, j \in 1 .. Len(p) : i < j => p[i] < p[j]

(* A set of indices that has every index below each of its own is an       *)
(* interval.                                                               *)
LEMMA Prefix ==
    ASSUME NEW n \in Nat, NEW A \in SUBSET (1 .. n),
           \A i \in A : \A j \in 1 .. (i - 1) : j \in A
    PROVE  /\ Cardinality(A) \in 0 .. n
           /\ \A j \in 1 .. n : j \in A <=> j <= Cardinality(A)
<1> DEFINE T == {m \in Nat : m + 1 \notin A}
<1>1. T \subseteq Nat /\ n \in T
  OBVIOUS
<1>2. PICK m \in T : \A y \in T : m <= y
  BY <1>1, Least
<1>3. m \in 0 .. n
  BY <1>1, <1>2
<1>4. A = 1 .. m
  <2>1. ASSUME NEW i \in A PROVE i \in 1 .. m
    <3>1. m + 1 \notin A /\ i \in 1 .. n
      BY <1>2
    <3>2. CASE i > m + 1
      <4>1. m + 1 \in 1 .. (i - 1)
        BY <3>2, <1>3, <3>1
      <4> QED BY <4>1, <3>1
    <3> QED BY <3>1, <3>2, <1>3
  <2>2. ASSUME NEW i \in 1 .. m PROVE i \in A
    <3>1. i - 1 \in Nat /\ ~(m <= i - 1) /\ (i - 1) + 1 = i
      BY <1>3
    <3>2. i - 1 \notin T
      BY <3>1, <1>2
    <3> QED BY <3>1, <3>2
  <2> QED BY <2>1, <2>2
<1>5. Cardinality(A) = m
  BY <1>3, <1>4, FS_Interval
<1> QED BY <1>3, <1>4, <1>5

(* route: the pivots at or below the key are those before its child.       *)
LEMMA Routed ==
    ASSUME NEW p \in Seq(Nat), Sorted(p), NEW k \in Nat
    PROVE  /\ route(p, k) \in 1 .. (Len(p) + 1)
           /\ \A j \in 1 .. Len(p) : p[j] <= k <=> j < route(p, k)
<1> DEFINE A == {i \in DOMAIN p : p[i] <= k}
<1>1. Len(p) \in Nat /\ DOMAIN p = 1 .. Len(p) /\ \A i \in 1 .. Len(p) : p[i] \in Nat
  OBVIOUS
<1>2. A \in SUBSET (1 .. Len(p)) /\ \A i \in A : \A j \in 1 .. (i - 1) : j \in A
  <2>1. ASSUME NEW i \in A, NEW j \in 1 .. (i - 1) PROVE j \in A
    <3>1. i \in 1 .. Len(p) /\ j \in 1 .. Len(p) /\ j < i
      BY <1>1
    <3>2. p[j] < p[i] /\ p[i] <= k
      BY <3>1, Zenon DEF Sorted
    <3>3. p[j] <= k
      BY <3>1, <3>2, <1>1
    <3> QED BY <3>1, <3>3, <1>1
  <2> QED BY <2>1, <1>1
<1>3. /\ Cardinality(A) \in 0 .. Len(p)
      /\ \A j \in 1 .. Len(p) : j \in A <=> j <= Cardinality(A)
  <2> HIDE DEF A
  <2> QED BY <1>1, <1>2, Prefix
<1>4. route(p, k) = 1 + Cardinality(A)
  BY DEF route
<1>5. \A j \in 1 .. Len(p) : j \in A <=> p[j] <= k
  BY <1>1
<1> HIDE DEF A
<1> QED BY <1>1, <1>3, <1>4, <1>5

(* Which makes the child unique.                                           *)
LEMMA RouteIs ==
    ASSUME NEW p \in Seq(Nat), Sorted(p), NEW k \in Nat, NEW r \in 1 .. (Len(p) + 1),
           r > 1 => p[r - 1] <= k, r <= Len(p) => k < p[r]
    PROVE  route(p, k) = r
<1>1. /\ route(p, k) \in 1 .. (Len(p) + 1)
      /\ \A j \in 1 .. Len(p) : p[j] <= k <=> j < route(p, k)
  BY Routed
<1>2. Len(p) \in Nat /\ \A i \in 1 .. Len(p) : p[i] \in Nat
  OBVIOUS
<1>3. ~(route(p, k) < r)
  <2> SUFFICES ASSUME route(p, k) < r PROVE FALSE
    OBVIOUS
  <2>1. r - 1 \in 1 .. Len(p) /\ r > 1
    BY <1>1
  <2> QED BY <2>1, <1>1, <1>2
<1>4. ~(r < route(p, k))
  <2> SUFFICES ASSUME r < route(p, k) PROVE FALSE
    OBVIOUS
  <2>1. r \in 1 .. Len(p)
    BY <1>1, <1>2
  <2> QED BY <2>1, <1>1, <1>2
<1> QED BY <1>1, <1>3, <1>4

(* The place where integrate_splits puts a pivot that falls between two    *)
(* others.                                                                 *)
LEMMA PlaceIs ==
    ASSUME NEW p \in Seq(Nat), Sorted(p), NEW k \in Nat, NEW r \in 1 .. (Len(p) + 1),
           r > 1 => p[r - 1] < k, r <= Len(p) => k < p[r]
    PROVE  1 + Cardinality({i \in DOMAIN p : p[i] < k}) = r
<1> DEFINE A == {i \in DOMAIN p : p[i] < k}
<1>1. Len(p) \in Nat /\ DOMAIN p = 1 .. Len(p) /\ \A i \in 1 .. Len(p) : p[i] \in Nat
  OBVIOUS
<1>2. ASSUME NEW i \in 1 .. Len(p) PROVE i < r <=> p[i] < k
  <2>1. CASE i < r
    <3>1. r - 1 \in 1 .. Len(p) /\ r > 1 /\ (i = r - 1 \/ i < r - 1)
      BY <2>1, <1>1
    <3>2. i < r - 1 => p[i] < p[r - 1]
      BY <3>1, Zenon DEF Sorted
    <3> QED BY <2>1, <3>1, <3>2, <1>1
  <2>2. CASE r <= i
    <3>1. r \in 1 .. Len(p) /\ (r = i \/ r < i)
      BY <2>2, <1>1
    <3>2. r < i => p[r] < p[i]
      BY <3>1, Zenon DEF Sorted
    <3> QED BY <2>2, <3>1, <3>2, <1>1
  <2> QED BY <2>1, <2>2, <1>1
<1>3. A = 1 .. (r - 1)
  BY <1>1, <1>2
<1>4. Cardinality(A) = r - 1
  <2>1. r - 1 \in Int /\ 1 \in Int /\ r - 1 >= 0
    BY <1>1
  <2>2. Cardinality(1 .. (r - 1)) = IF 1 > r - 1 THEN 0 ELSE (r - 1) - 1 + 1
    BY <2>1, FS_Interval
  <2> HIDE DEF A
  <2> QED BY <1>3, <2>1, <2>2
<1> QED BY <1>4, <1>1

-----------------------------------------------------------------------------
(* The shape of an arena.  An arena is any function from node ids here, so *)
(* that the steps inside an operation are arenas, too.                     *)

(* Maps from finitely many keys, as a BTreeMap is one.                     *)
Maps(T) == {f \in UNION {[S -> T] : S \in SUBSET Keys} : IsFiniteSet(DOMAIN f)}

LeafNode == [leaf : {TRUE}, entries : Maps(Entries(Nat)), dirty : BOOLEAN]

InnerNode == [leaf : {FALSE}, pivots : Seq(Nat), children : Seq(Nat),
              buffer : Maps(MessagesOf(Nat)), dirty : BOOLEAN]

(* An internal node has one child more than pivots, unless its last child  *)
(* has just gone.                                                          *)
NodeOk(n) ==
    \/ n \in LeafNode
    \/ /\ n \in InnerNode /\ Sorted(n.pivots)
       /\ \/ Len(n.children) = Len(n.pivots) + 1
          \/ n.children = <<>> /\ n.pivots = <<>> /\ n.buffer = Empty

Arena(ns) == /\ ns = [i \in DOMAIN ns |-> ns[i]] /\ DOMAIN ns \subseteq Nat
             /\ \A i \in DOMAIN ns : NodeOk(ns[i])

(* The height of every node over its leaves, leaked nodes included.        *)
Ranked(ns, rk) ==
    /\ rk \in [DOMAIN ns -> Nat]
    /\ \E H \in Nat : \A i \in DOMAIN ns : rk[i] <= H
    /\ \A i \in DOMAIN ns :
          /\ ns[i].leaf <=> rk[i] = 0
          /\ ~ns[i].leaf => \A j \in 1 .. Len(ns[i].children) :
                               /\ ns[i].children[j] \in DOMAIN ns
                               /\ rk[i] = rk[ns[i].children[j]] + 1

(* The live nodes L form a tree below r: no node is the child of two       *)
(* parents, or twice the child of one.                                     *)
Tree(ns, r, L) ==
    /\ L \subseteq DOMAIN ns /\ r \in L
    /\ \A i \in L : ~ns[i].leaf =>
          \A j \in 1 .. Len(ns[i].children) :
             /\ ns[i].children[j] \in L /\ ns[i].children[j] # r
             /\ \A x \in L : ~ns[x].leaf =>
                   \A y \in 1 .. Len(ns[x].children) :
                      ns[x].children[y] = ns[i].children[j] => x = i /\ y = j

(* What node n holds, as messages or entries by key.                       *)
HeldBy(n) == IF n.leaf THEN n.entries ELSE n.buffer

(* iv gives each live node a range of keys, into which fall the keys it    *)
(* holds and its pivots (a pivot not as the least), and which its children *)
(* share as the pivots say.                                                *)
Ranges(ns, r, L, iv) ==
    /\ iv \in [DOMAIN ns -> SUBSET Nat] /\ iv[r] = Nat
    /\ \A i \in L :
          /\ DOMAIN HeldBy(ns[i]) \subseteq iv[i]
          /\ ~ns[i].leaf =>
                /\ \A p \in 1 .. Len(ns[i].pivots) :
                      ns[i].pivots[p] \in iv[i] /\ \E x \in iv[i] : x < ns[i].pivots[p]
                /\ \A j \in 1 .. Len(ns[i].children) :
                      \A k \in iv[ns[i].children[j]] :
                         k \in iv[i] /\ route(ns[i].pivots, k) = j

Shape(ns, r, L, rk, iv) ==
    Arena(ns) /\ Ranked(ns, rk) /\ Tree(ns, r, L) /\ Ranges(ns, r, L, iv)

-----------------------------------------------------------------------------
(* Induction over the height, and the value of a key at a node             *)

(* What holds at a node when it holds at all lower nodes holds everywhere. *)
LEMMA RankInduction ==
    ASSUME NEW D, NEW rk \in [D -> Nat], NEW G,
           \A i \in D : (\A c \in D : rk[c] < rk[i] => c \in G) => i \in G
    PROVE  \A i \in D : i \in G
<1> SUFFICES ASSUME NEW b \in D, b \notin G PROVE FALSE
  OBVIOUS
<1> DEFINE T == {rk[i] : i \in D \ G}
<1>1. T \subseteq Nat /\ T # {}
  OBVIOUS
<1>2. PICK x \in T : \A y \in T : x <= y
  BY <1>1, Least
<1>3. PICK i \in D \ G : rk[i] = x
  BY <1>2
<1>4. ASSUME NEW c \in D, rk[c] < rk[i] PROVE c \in G
  <2> SUFFICES ASSUME c \notin G PROVE FALSE
    OBVIOUS
  <2>1. rk[c] \in T /\ rk[c] \in Nat /\ rk[i] \in Nat
    OBVIOUS
  <2> HIDE DEF T
  <2> QED BY <1>2, <1>3, <1>4, <2>1
<1> QED BY <1>3, <1>4

(* What it is to be a map from finitely many keys.                         *)
LEMMA MapFacts ==
    ASSUME NEW T, NEW f
    PROVE  f \in Maps(T) <=> /\ f = [k \in DOMAIN f |-> f[k]]
                             /\ DOMAIN f \subseteq Keys /\ IsFiniteSet(DOMAIN f)
                             /\ \A k \in DOMAIN f : f[k] \in T
<1>1. ASSUME f \in Maps(T)
      PROVE  /\ f = [k \in DOMAIN f |-> f[k]]
             /\ DOMAIN f \subseteq Keys /\ IsFiniteSet(DOMAIN f)
             /\ \A k \in DOMAIN f : f[k] \in T
  <2>1. IsFiniteSet(DOMAIN f) /\ f \in UNION {[S -> T] : S \in SUBSET Keys}
    BY <1>1, Zenon DEF Maps
  <2>2. PICK S \in SUBSET Keys : f \in [S -> T]
    BY <2>1, Zenon
  <2> QED BY <2>1, <2>2
<1>2. ASSUME f = [k \in DOMAIN f |-> f[k]], DOMAIN f \subseteq Keys,
             IsFiniteSet(DOMAIN f), \A k \in DOMAIN f : f[k] \in T
      PROVE  f \in Maps(T)
  <2>1. f \in [DOMAIN f -> T]
    BY <1>2
  <2>2. f \in UNION {[S -> T] : S \in SUBSET Keys}
    BY <1>2, <2>1, Zenon
  <2> QED BY <1>2, <2>2, Zenon DEF Maps
<1> QED BY <1>1, <1>2, Zenon

(* The value that the messages and entries at and below node n give key k, *)
(* when v has the values at its children.                                  *)
Below(n, k, v) == IF n.children = <<>> THEN NoValue ELSE v[Child(n, k)]

ValueAt(n, k, v) ==
    IF n.leaf THEN ValueIn(n.entries, k)
    ELSE IF k \in DOMAIN n.buffer THEN Effect(n.buffer[k], Below(n, k, v))
    ELSE Below(n, k, v)

Vals(ns, k, v) == /\ v \in [DOMAIN ns -> MaybeValues]
                  /\ \A i \in DOMAIN ns : v[i] = ValueAt(ns[i], k, v)

(* A message leaves a value or none.                                       *)
LEMMA EffectType ==
    ASSUME NEW m \in MessagesOf(Nat), NEW v \in MaybeValues
    PROVE  Effect(m, v) \in MaybeValues
<1>1. CASE m.kind = "Put"
  BY <1>1 DEF Effect, MessagesOf, MaybeValues
<1>2. CASE m.kind = "Delete"
  BY <1>2 DEF Effect, MessagesOf, MaybeValues
<1>3. CASE m.kind = "Upsert"
  <2>1. m.delta \in Numbers
    BY <1>3 DEF MessagesOf
  <2>2. apply(m.delta, v) \in Numbers
    BY <2>1, ApplyTwice
  <2> QED BY <1>3, <2>2 DEF Effect, MaybeValues, Values
<1> QED BY <1>1, <1>2, <1>3 DEF MessagesOf

(* The child that routing leads to.                                        *)
Routable(ns, rk, i, k) ==
    /\ route(ns[i].pivots, k) \in 1 .. Len(ns[i].children)
    /\ Len(ns[i].children) = Len(ns[i].pivots) + 1
    /\ Child(ns[i], k) \in DOMAIN ns /\ rk[i] = rk[Child(ns[i], k)] + 1
    /\ rk[Child(ns[i], k)] \in Nat

(* Routing a key at a node with children leads to one of them, one level   *)
(* lower.                                                                  *)
LEMMA ChildFacts ==
    ASSUME NEW ns, NEW rk, Arena(ns), Ranked(ns, rk), NEW i \in DOMAIN ns, ~ns[i].leaf,
           ns[i].children # <<>>, NEW k \in Nat
    PROVE  Routable(ns, rk, i, k)
<1>1. /\ ns[i] \in InnerNode /\ Sorted(ns[i].pivots)
      /\ Len(ns[i].children) = Len(ns[i].pivots) + 1
  BY DEF Arena, NodeOk, LeafNode
<1>2. ns[i].pivots \in Seq(Nat)
  BY <1>1 DEF InnerNode
<1>3. route(ns[i].pivots, k) \in 1 .. (Len(ns[i].pivots) + 1)
  BY <1>1, <1>2, Routed
<1> QED BY <1>1, <1>3 DEF Ranked, Child, Routable

(* What is found below a node is a value or none.                          *)
LEMMA BelowType ==
    ASSUME NEW ns, NEW rk, Arena(ns), Ranked(ns, rk), NEW i \in DOMAIN ns, ~ns[i].leaf,
           NEW k \in Nat, NEW v \in [DOMAIN ns -> MaybeValues]
    PROVE  Below(ns[i], k, v) \in MaybeValues
<1>1. CASE ns[i].children = <<>>
  BY <1>1 DEF Below, MaybeValues
<1>2. CASE ns[i].children # <<>>
  <2>1. Child(ns[i], k) \in DOMAIN ns
    BY <1>2, ChildFacts DEF Routable
  <2> QED BY <1>2, <2>1 DEF Below
<1> QED BY <1>1, <1>2

(* What is found at a node is a value or none.                             *)
LEMMA ValueType ==
    ASSUME NEW ns, NEW rk, Arena(ns), Ranked(ns, rk), NEW i \in DOMAIN ns, NEW k \in Nat,
           NEW v \in [DOMAIN ns -> MaybeValues]
    PROVE  ValueAt(ns[i], k, v) \in MaybeValues
<1>1. CASE ns[i].leaf
  <2>1. ns[i] \in LeafNode
    BY <1>1 DEF Arena, NodeOk, InnerNode
  <2>2. ns[i].entries \in Maps(Entries(Nat))
    BY <2>1 DEF LeafNode
  <2>3. \A x \in DOMAIN ns[i].entries : ns[i].entries[x] \in Entries(Nat)
    BY <2>2, MapFacts
  <2>4. ValueIn(ns[i].entries, k) \in MaybeValues
    BY <2>3 DEF ValueIn, Entries, MaybeValues
  <2> QED BY <1>1, <2>4 DEF ValueAt
<1>2. CASE ~ns[i].leaf
  <2>1. ns[i] \in InnerNode
    BY <1>2 DEF Arena, NodeOk, LeafNode
  <2>2. ns[i].buffer \in Maps(MessagesOf(Nat))
    BY <2>1 DEF InnerNode
  <2>3. \A x \in DOMAIN ns[i].buffer : ns[i].buffer[x] \in MessagesOf(Nat)
    BY <2>2, MapFacts
  <2>4. Below(ns[i], k, v) \in MaybeValues
    BY <1>2, BelowType
  <2>5. k \in DOMAIN ns[i].buffer => Effect(ns[i].buffer[k], Below(ns[i], k, v)) \in MaybeValues
    BY <2>3, <2>4, EffectType
  <2> QED BY <1>2, <2>4, <2>5 DEF ValueAt
<1> QED BY <1>1, <1>2

(* The value at a node depends on the values at lower nodes only.          *)
LEMMA ValueLocal ==
    ASSUME NEW ns, NEW rk, Arena(ns), Ranked(ns, rk), NEW i \in DOMAIN ns, NEW k \in Nat,
           NEW v, NEW w, \A c \in DOMAIN ns : rk[c] < rk[i] => v[c] = w[c]
    PROVE  ValueAt(ns[i], k, v) = ValueAt(ns[i], k, w)
<1>1. CASE ns[i].leaf
  BY <1>1 DEF ValueAt
<1>2. CASE ~ns[i].leaf
  <2>1. Below(ns[i], k, v) = Below(ns[i], k, w)
    <3>1. CASE ns[i].children = <<>>
      BY <3>1 DEF Below
    <3>2. CASE ns[i].children # <<>>
      <4>1. /\ Child(ns[i], k) \in DOMAIN ns /\ rk[i] = rk[Child(ns[i], k)] + 1
            /\ rk[Child(ns[i], k)] \in Nat
        BY <1>2, <3>2, ChildFacts DEF Routable
      <4>2. v[Child(ns[i], k)] = w[Child(ns[i], k)]
        BY <4>1
      <4> QED BY <3>2, <4>2 DEF Below
    <3> QED BY <3>1, <3>2
  <2> QED BY <1>2, <2>1 DEF ValueAt
<1> QED BY <1>1, <1>2

(* Every key has a value at every node.                                    *)
LEMMA ValsExist ==
    ASSUME NEW ns, NEW rk, Arena(ns), Ranked(ns, rk), NEW k \in Nat
    PROVE  \E v : Vals(ns, k, v)
<1> DEFINE D == DOMAIN ns
           Upto(n) == \E v \in [D -> MaybeValues] :
                         \A i \in D : rk[i] < n => v[i] = ValueAt(ns[i], k, v)
           S == {n \in Nat : Upto(n)}
<1>0. rk \in [D -> Nat]
  BY DEF Ranked
<1>1. 0 \in S
  <2>1. [i \in D |-> NoValue] \in [D -> MaybeValues]
    BY DEF MaybeValues
  <2>2. \A i \in D : ~(rk[i] < 0)
    BY <1>0
  <2> QED BY <2>1, <2>2
<1>2. ASSUME NEW n \in Nat, n \in S PROVE n + 1 \in S
  <2>1. PICK v \in [D -> MaybeValues] : \A i \in D : rk[i] < n => v[i] = ValueAt(ns[i], k, v)
    BY <1>2
  <2> DEFINE w == [i \in D |-> IF rk[i] < n THEN v[i] ELSE ValueAt(ns[i], k, v)]
  <2>2. w \in [D -> MaybeValues]
    BY ValueType
  <2>3. ASSUME NEW i \in D, rk[i] < n + 1 PROVE w[i] = ValueAt(ns[i], k, w)
    <3>1. w[i] = ValueAt(ns[i], k, v)
      BY <2>1
    <3>2. \A c \in D : rk[c] < rk[i] => v[c] = w[c]
      BY <1>0, <2>3
    <3>3. ValueAt(ns[i], k, v) = ValueAt(ns[i], k, w)
      <4> HIDE DEF w
      <4> QED BY <3>2, ValueLocal
    <3> QED BY <3>1, <3>3
  <2> HIDE DEF w
  <2>4. Upto(n + 1) /\ n + 1 \in Nat
    BY <2>2, <2>3
  <2> QED BY <2>4
<1>3. \A n \in Nat : n \in S
  <2> HIDE DEF S
  <2> QED BY <1>1, <1>2, SetInduction
<1>4. PICK H \in Nat : \A i \in D : rk[i] <= H
  BY DEF Ranked
<1>5. Upto(H + 1)
  BY <1>3
<1>6. \A i \in D : rk[i] < H + 1
  BY <1>0, <1>4
<1> QED BY <1>5, <1>6 DEF Vals

(* get, which adds up the upserts on its way down, finds that value.       *)
LEMMA GetIs ==
    ASSUME NEW ns, NEW rk, Arena(ns), Ranked(ns, rk), NEW k \in Nat, NEW v, Vals(ns, k, v),
           NEW r \in DOMAIN ns
    PROVE  Get(ns, r, k) = v[r]
<1> DEFINE C == Numbers \cup {NoValue}
           below(f, n, c) == IF AtEnd(n) THEN apply_chain(c, NoValue) ELSE f[Child(n, k)][c]
           step(f, n, chain) ==
               IF n.leaf THEN apply_chain(chain, ValueIn(n.entries, k))
               ELSE IF k \notin DOMAIN n.buffer THEN below(f, n, chain)
               ELSE CASE n.buffer[k].kind = "Put" -> apply_chain(chain, n.buffer[k].value)
                      [] n.buffer[k].kind = "Delete" -> apply_chain(chain, NoValue)
                      [] n.buffer[k].kind = "Upsert" ->
                            below(f, n, ChainAdd(chain, n.buffer[k].delta))
           G(f) == [i \in DOMAIN ns |-> [chain \in C |-> step(f, ns[i], chain)]]
           w == [i \in DOMAIN ns |-> [chain \in C |-> apply_chain(chain, v[i])]]
           walk == CHOOSE f : f = G(f)
<1>0. /\ v \in [DOMAIN ns -> MaybeValues] /\ \A i \in DOMAIN ns : v[i] = ValueAt(ns[i], k, v)
      /\ rk \in [DOMAIN ns -> Nat]
  BY DEF Vals, Ranked
<1>1. Get(ns, r, k) = walk[r][NoValue]
  BY Zenon DEF Get
<1>2. ASSUME NEW f, NEW i \in DOMAIN ns, NEW chain \in C,
             ~AtEnd(ns[i]) => \A c \in C : f[Child(ns[i], k)][c] = apply_chain(c, v[Child(ns[i], k)])
      PROVE  step(f, ns[i], chain) = apply_chain(chain, v[i])
  <2>1. CASE ns[i].leaf
    BY <2>1, <1>0 DEF ValueAt
  <2>2. CASE ~ns[i].leaf
    <3> DEFINE b == Below(ns[i], k, v)
    <3>1. ns[i].buffer \in Maps(MessagesOf(Nat))
      BY <2>2 DEF Arena, NodeOk, LeafNode, InnerNode
    <3>2. k \in DOMAIN ns[i].buffer => ns[i].buffer[k] \in MessagesOf(Nat)
      BY <3>1, MapFacts
    <3>3. b \in MaybeValues
      BY <2>2, <1>0, BelowType
    <3>4. \A c \in C : below(f, ns[i], c) = apply_chain(c, b)
      BY <2>2, <1>2 DEF AtEnd, Below
    <3>5. v[i] = IF k \in DOMAIN ns[i].buffer THEN Effect(ns[i].buffer[k], b) ELSE b
      BY <2>2, <1>0 DEF ValueAt
    <3> HIDE DEF b, below
    <3>6. CASE k \notin DOMAIN ns[i].buffer
      BY <2>2, <3>4, <3>5, <3>6
    <3>7. CASE k \in DOMAIN ns[i].buffer /\ ns[i].buffer[k].kind = "Put"
      BY <2>2, <3>5, <3>7 DEF Effect
    <3>8. CASE k \in DOMAIN ns[i].buffer /\ ns[i].buffer[k].kind = "Delete"
      BY <2>2, <3>5, <3>8 DEF Effect
    <3>9. CASE k \in DOMAIN ns[i].buffer /\ ns[i].buffer[k].kind = "Upsert"
      <4> DEFINE d == ns[i].buffer[k].delta
      <4>1. d \in Numbers
        BY <3>2, <3>9 DEF MessagesOf
      <4>2. ChainAdd(chain, d) \in C
        BY <4>1, WrappingAdd DEF ChainAdd
      <4>3. apply_chain(ChainAdd(chain, d), b) = apply_chain(chain, apply(d, b))
        BY <4>1, <3>3, ChainSound
      <4>4. step(f, ns[i], chain) = below(f, ns[i], ChainAdd(chain, d))
        BY <2>2, <3>9
      <4>5. v[i] = apply(d, b)
        BY <3>5, <3>9 DEF Effect
      <4> QED BY <4>2, <4>3, <4>4, <4>5, <3>4
    <3> QED BY <3>2, <3>6, <3>7, <3>8, <3>9 DEF MessagesOf
  <2> QED BY <2>1, <2>2
<1> HIDE DEF step
<1>3. ASSUME NEW i \in DOMAIN ns, ~AtEnd(ns[i])
      PROVE  Child(ns[i], k) \in DOMAIN ns /\ rk[Child(ns[i], k)] < rk[i]
  <2>1. /\ Child(ns[i], k) \in DOMAIN ns /\ rk[i] = rk[Child(ns[i], k)] + 1
        /\ rk[Child(ns[i], k)] \in Nat
    BY <1>3, ChildFacts DEF AtEnd, Routable
  <2> QED BY <2>1
<1>4. w = G(w)
  <2>1. ASSUME NEW i \in DOMAIN ns, NEW chain \in C
        PROVE  step(w, ns[i], chain) = apply_chain(chain, v[i])
    <3>1. ~AtEnd(ns[i]) => \A c \in C : w[Child(ns[i], k)][c] = apply_chain(c, v[Child(ns[i], k)])
      BY <1>3
    <3> HIDE DEF w
    <3> QED BY <3>1, <1>2
  <2> QED BY <2>1, Zenon
<1>5. walk = G(walk)
  <2> HIDE DEF G, w
  <2> QED BY <1>4, Zenon
<1> HIDE DEF walk
<1>6. \A i \in DOMAIN ns, chain \in C : walk[i][chain] = step(walk, ns[i], chain)
  <2>1. ASSUME NEW i \in DOMAIN ns PROVE walk[i] = [chain \in C |-> step(walk, ns[i], chain)]
    BY <1>5, Zenon
  <2> QED BY <2>1
<1> DEFINE S == {i \in DOMAIN ns : \A chain \in C : walk[i][chain] = apply_chain(chain, v[i])}
<1>7. ASSUME NEW i \in DOMAIN ns, \A c \in DOMAIN ns : rk[c] < rk[i] => c \in S
      PROVE  i \in S
  <2>1. ~AtEnd(ns[i]) => \A c \in C : walk[Child(ns[i], k)][c] = apply_chain(c, v[Child(ns[i], k)])
    BY <1>3, <1>7
  <2>2. \A chain \in C : step(walk, ns[i], chain) = apply_chain(chain, v[i])
    BY <2>1, <1>2
  <2> QED BY <2>2, <1>6
<1>8. \A i \in DOMAIN ns : i \in S
  <2> HIDE DEF S
  <2> QED BY <1>0, <1>7, RankInduction
<1>9. walk[r][NoValue] = apply_chain(NoValue, v[r])
  BY <1>8
<1> QED BY <1>1, <1>9 DEF apply_chain

-----------------------------------------------------------------------------
(* What stays the same when a parent and one of its children change        *)

(* The same node but for its dirty flag.                                   *)
Alike(n, m) == /\ n.leaf <=> m.leaf
               /\ n.leaf => n.entries = m.entries
               /\ ~n.leaf => /\ n.pivots = m.pivots /\ n.children = m.children
                             /\ n.buffer = m.buffer

(* When only node P and its child C change, and P keeps its value, then    *)
(* every live node but C keeps its value: nothing else leads to C.         *)
LEMMA Frame ==
    ASSUME NEW ns, NEW r, NEW L, NEW rk, NEW iv, Shape(ns, r, L, rk, iv), NEW k \in Nat,
           NEW v, Vals(ns, k, v), NEW ns2, NEW v2, Vals(ns2, k, v2),
           NEW P \in L, ~ns[P].leaf, NEW j \in 1 .. Len(ns[P].children),
           L \ {ns[P].children[j]} \subseteq DOMAIN ns2,
           \A i \in L \ {P, ns[P].children[j]} : Alike(ns2[i], ns[i]),
           (\A c \in L \ {ns[P].children[j]} : rk[c] < rk[P] => v2[c] = v[c]) => v2[P] = v[P]
    PROVE  \A i \in L \ {ns[P].children[j]} : v2[i] = v[i]
<1> DEFINE C == ns[P].children[j]
           D == L \ {C}
           G == {i \in D : v2[i] = v[i]}
<1>1. /\ rk \in [DOMAIN ns -> Nat] /\ Arena(ns) /\ Ranked(ns, rk) /\ L \subseteq DOMAIN ns
  BY DEF Shape, Ranked, Tree
<1>4. ASSUME NEW i \in DOMAIN ns, ~ns[i].leaf, ns[i].children # <<>>
      PROVE  /\ route(ns[i].pivots, k) \in 1 .. Len(ns[i].children)
             /\ rk[i] = rk[Child(ns[i], k)] + 1 /\ rk[Child(ns[i], k)] \in Nat
  <2>1. Routable(ns, rk, i, k)
    BY <1>1, <1>4, ChildFacts
  <2> QED BY <2>1 DEF Routable
<1>2. ASSUME NEW i \in D, \A c \in D : rk[c] < rk[i] => c \in G PROVE i \in G
  <2>1. CASE i = P
    BY <2>1, <1>2
  <2>2. CASE i # P
    <3>1. Alike(ns2[i], ns[i]) /\ i \in DOMAIN ns2 /\ i \in DOMAIN ns
      BY <2>2, <1>1
    <3>2. v2[i] = ValueAt(ns2[i], k, v2) /\ v[i] = ValueAt(ns[i], k, v)
      BY <3>1 DEF Vals
    <3>3. CASE ns[i].leaf
      BY <3>1, <3>2, <3>3 DEF ValueAt, Alike
    <3>4. CASE ~ns[i].leaf
      <4>1. Below(ns2[i], k, v2) = Below(ns[i], k, v)
        <5>1. CASE ns[i].children = <<>>
          BY <5>1, <3>1, <3>4 DEF Below, Alike
        <5>2. CASE ns[i].children # <<>>
          <6> DEFINE q == route(ns[i].pivots, k)
          <6>1. /\ q \in 1 .. Len(ns[i].children) /\ rk[i] = rk[ns[i].children[q]] + 1
                /\ rk[ns[i].children[q]] \in Nat
            BY <1>4, <3>1, <3>4, <5>2 DEF Child
          <6>2. ns[i].children[q] \in L /\ (ns[i].children[q] = C => i = P)
            <7> HIDE DEF q
            <7> QED BY <3>4, <6>1 DEF Shape, Tree
          <6>3. ns[i].children[q] \in D
            BY <6>2, <2>2
          <6>4. v2[ns[i].children[q]] = v[ns[i].children[q]]
            BY <6>1, <6>3, <1>2, SMTT(30)
          <6> QED BY <5>2, <6>4, <3>1, <3>4 DEF Below, Alike, Child
        <5> QED BY <5>1, <5>2
      <4> QED BY <4>1, <3>1, <3>2, <3>4 DEF ValueAt, Alike
    <3> QED BY <3>3, <3>4
  <2> QED BY <2>1, <2>2
<1>3. [i \in D |-> rk[i]] \in [D -> Nat]
  BY <1>1
<1>5. \A i \in D : i \in G
  <2> DEFINE rank == [i \in D |-> rk[i]]
  <2>1. \A i \in D : (\A c \in D : rank[c] < rank[i] => c \in G) => i \in G
    BY <1>2
  <2> HIDE DEF G, D, rank
  <2> QED BY <1>3, <2>1, RankInduction DEF rank
<1> QED BY <1>5

(* The values at the root give what get returns.                           *)
LEMMA SameGet ==
    ASSUME NEW ns, NEW r \in DOMAIN ns, NEW rk, Arena(ns), Ranked(ns, rk), NEW k \in Nat,
           NEW ns2, NEW r2 \in DOMAIN ns2, NEW rk2, Arena(ns2), Ranked(ns2, rk2),
           \A v, v2 : Vals(ns, k, v) /\ Vals(ns2, k, v2) => v2[r2] = v[r]
    PROVE  Get(ns2, r2, k) = Get(ns, r, k)
<1>1. PICK v : Vals(ns, k, v)
  BY ValsExist
<1>2. PICK v2 : Vals(ns2, k, v2)
  BY ValsExist
<1> QED BY <1>1, <1>2, GetIs

(* A child is not its parent, nor the root.                                *)
Parented(ns, r, L, rk, P, j) ==
    /\ ns[P].children[j] \in L /\ ns[P].children[j] \in DOMAIN ns
    /\ ns[P].children[j] # P /\ ns[P].children[j] # r
    /\ rk[P] = rk[ns[P].children[j]] + 1
    /\ P \in DOMAIN ns /\ ns[P] \in InnerNode
    /\ rk[P] \in Nat /\ rk[ns[P].children[j]] \in Nat
    /\ ns[P].pivots \in Seq(Nat) /\ Sorted(ns[P].pivots)
    /\ Len(ns[P].children) = Len(ns[P].pivots) + 1
    /\ ns[P].children \in Seq(Nat)

(* What the shape says of a node and its j-th child.                       *)
LEMMA ChildApart ==
    ASSUME NEW ns, NEW r, NEW L, NEW rk, NEW iv, Shape(ns, r, L, rk, iv),
           NEW P \in L, ~ns[P].leaf, NEW j \in 1 .. Len(ns[P].children)
    PROVE  Parented(ns, r, L, rk, P, j)
<1>1. P \in DOMAIN ns /\ ns[P].children[j] \in L /\ ns[P].children[j] # r
      /\ ns[P].children[j] \in DOMAIN ns
  BY DEF Shape, Tree
<1>2. rk[P] = rk[ns[P].children[j]] + 1 /\ rk[P] \in Nat /\ rk[ns[P].children[j]] \in Nat
  BY <1>1 DEF Shape, Ranked
<1>3. ns[P].children[j] # P
  BY <1>2
<1>4. NodeOk(ns[P])
  BY <1>1 DEF Shape, Arena
<1>5. ns[P] \in InnerNode /\ Sorted(ns[P].pivots) /\ ns[P].children # <<>>
  <2>1. ns[P].children # <<>>
    OBVIOUS
  <2> QED BY <2>1, <1>4 DEF NodeOk, LeafNode
<1>6. Len(ns[P].children) = Len(ns[P].pivots) + 1
  BY <1>4, <1>5 DEF NodeOk, LeafNode
<1>7. ns[P].pivots \in Seq(Nat) /\ ns[P].children \in Seq(Nat)
  BY <1>5 DEF InnerNode
<1> QED BY <1>1, <1>2, <1>3, <1>5, <1>6, <1>7 DEF Parented

LinksKept(ns, ns2) ==
    /\ DOMAIN ns2 = DOMAIN ns
    /\ \A i \in DOMAIN ns : /\ ns2[i].leaf <=> ns[i].leaf
                            /\ ~ns[i].leaf => /\ ns2[i].pivots = ns[i].pivots
                                              /\ ns2[i].children = ns[i].children

(* Heights depend on the links alone.                                      *)
LEMMA LinksKeptRanked ==
    ASSUME NEW ns, NEW ns2, NEW rk, LinksKept(ns, ns2), Ranked(ns, rk)
    PROVE  Ranked(ns2, rk)
<1>1. rk \in [DOMAIN ns2 -> Nat] /\ \E H \in Nat : \A i \in DOMAIN ns2 : rk[i] <= H
  BY DEF LinksKept, Ranked
<1>2. ASSUME NEW i \in DOMAIN ns2
      PROVE  /\ ns2[i].leaf <=> rk[i] = 0
             /\ ~ns2[i].leaf => \A j \in 1 .. Len(ns2[i].children) :
                               /\ ns2[i].children[j] \in DOMAIN ns2
                               /\ rk[i] = rk[ns2[i].children[j]] + 1
  BY DEF LinksKept, Ranked
<1> QED BY <1>1, <1>2 DEF Ranked

(* So does being a tree.                                                   *)
LEMMA LinksKeptTree ==
    ASSUME NEW ns, NEW ns2, NEW r, NEW L, LinksKept(ns, ns2), Tree(ns, r, L)
    PROVE  Tree(ns2, r, L)
<1>1. L \subseteq DOMAIN ns2 /\ r \in L
  BY DEF LinksKept, Tree
<1>2. \A i \in L : /\ ns2[i].leaf <=> ns[i].leaf
                   /\ ~ns[i].leaf => ns2[i].children = ns[i].children
  BY DEF LinksKept, Tree
<1> QED BY <1>1, <1>2 DEF Tree

(* And the ranges stay when nothing is held outside them.                  *)
LEMMA LinksKeptRanges ==
    ASSUME NEW ns, NEW ns2, NEW r, NEW L, NEW iv, LinksKept(ns, ns2), Ranges(ns, r, L, iv),
           L \subseteq DOMAIN ns, \A i \in L : DOMAIN HeldBy(ns2[i]) \subseteq iv[i]
    PROVE  Ranges(ns2, r, L, iv)
<1>1. iv \in [DOMAIN ns2 -> SUBSET Nat] /\ iv[r] = Nat
  BY DEF LinksKept, Ranges
<1>2. ASSUME NEW i \in L, ~ns2[i].leaf
      PROVE  /\ \A p \in 1 .. Len(ns2[i].pivots) :
                   ns2[i].pivots[p] \in iv[i] /\ \E x \in iv[i] : x < ns2[i].pivots[p]
             /\ \A j \in 1 .. Len(ns2[i].children) :
                   \A k \in iv[ns2[i].children[j]] :
                      k \in iv[i] /\ route(ns2[i].pivots, k) = j
  <2>1. ~ns[i].leaf /\ ns2[i].pivots = ns[i].pivots /\ ns2[i].children = ns[i].children
    BY <1>2 DEF LinksKept
  <2> QED BY <2>1 DEF Ranges
<1> QED BY <1>1, <1>2 DEF Ranges

(* A child may be given the whole range that its parent's pivots leave it. *)
LEMMA Widen ==
    ASSUME NEW ns, NEW r, NEW L, NEW rk, NEW iv, Shape(ns, r, L, rk, iv),
           NEW P \in L, ~ns[P].leaf, NEW j \in 1 .. Len(ns[P].children)
    PROVE  Shape(ns, r, L, rk, [iv EXCEPT ![ns[P].children[j]] =
                                    {k \in iv[P] : route(ns[P].pivots, k) = j}])
<1> DEFINE C == ns[P].children[j]
           full == {k \in iv[P] : route(ns[P].pivots, k) = j}
           iv2 == [iv EXCEPT ![C] = full]
<1>1. C \in L /\ C \in DOMAIN ns /\ C # P /\ C # r /\ P \in DOMAIN ns
  <2>1. Parented(ns, r, L, rk, P, j)
    BY ChildApart
  <2> QED BY <2>1 DEF Parented
<1>2. iv \in [DOMAIN ns -> SUBSET Nat] /\ iv[r] = Nat /\ L \subseteq DOMAIN ns /\ r \in DOMAIN ns
  BY DEF Shape, Ranges, Tree
<1>3. iv2 \in [DOMAIN ns -> SUBSET Nat] /\ iv2[r] = Nat /\ iv2[P] = iv[P] /\ iv2[C] = full
  BY <1>1, <1>2
<1>4. \A i \in DOMAIN ns : i # C => iv2[i] = iv[i]
  BY <1>2
<1>5. iv[C] \subseteq full
  BY DEF Shape, Ranges
<1>6. \A i \in DOMAIN ns : iv[i] \subseteq iv2[i]
  BY <1>3, <1>4, <1>5
<1> HIDE DEF iv2, full
<1>7. ASSUME NEW i \in L
      PROVE  /\ DOMAIN HeldBy(ns[i]) \subseteq iv2[i]
             /\ ~ns[i].leaf =>
                /\ \A p \in 1 .. Len(ns[i].pivots) :
                      ns[i].pivots[p] \in iv2[i] /\ \E x \in iv2[i] : x < ns[i].pivots[p]
                /\ \A y \in 1 .. Len(ns[i].children) :
                      \A k \in iv2[ns[i].children[y]] :
                         k \in iv2[i] /\ route(ns[i].pivots, k) = y
  <2>1. i \in DOMAIN ns /\ iv[i] \subseteq iv2[i]
    BY <1>2, <1>6
  <2>2. DOMAIN HeldBy(ns[i]) \subseteq iv2[i]
    BY <2>1 DEF Shape, Ranges
  <2>3. ASSUME ~ns[i].leaf, NEW p \in 1 .. Len(ns[i].pivots)
        PROVE  ns[i].pivots[p] \in iv2[i] /\ \E x \in iv2[i] : x < ns[i].pivots[p]
    BY <2>1, <2>3 DEF Shape, Ranges
  <2>4. ASSUME ~ns[i].leaf, NEW y \in 1 .. Len(ns[i].children), NEW k \in iv2[ns[i].children[y]]
        PROVE  k \in iv2[i] /\ route(ns[i].pivots, k) = y
    <3>1. ns[i].children[y] \in L /\ ns[i].children[y] \in DOMAIN ns
      BY <2>4 DEF Shape, Tree
    <3>2. CASE ns[i].children[y] # C
      <4>1. k \in iv[ns[i].children[y]]
        BY <3>1, <3>2, <1>4, <2>4
      <4>2. k \in iv[i] /\ route(ns[i].pivots, k) = y
        BY <4>1, <2>4 DEF Shape, Ranges
      <4> QED BY <4>2, <2>1
    <3>3. CASE ns[i].children[y] = C
      <4>1. i = P /\ y = j
        BY <3>3, <2>4 DEF Shape, Tree
      <4>2. k \in full
        BY <3>3, <2>4, <1>3
      <4> QED BY <4>1, <4>2, <1>3 DEF full
    <3> QED BY <3>2, <3>3
  <2> QED BY <2>2, <2>3, <2>4
<1>8. Ranges(ns, r, L, iv2)
  BY <1>3, <1>7 DEF Ranges
<1> QED BY <1>8 DEF Shape, iv2, full

-----------------------------------------------------------------------------
(* Applying messages to a node                                             *)

(* What apply_batch makes of node n.                                       *)
Applied(n, batch) ==
    IF n.leaf THEN [n EXCEPT !.entries = apply_to_leaf(@, batch), !.dirty = TRUE]
              ELSE [n EXCEPT !.buffer = coalesce_into(@, batch), !.dirty = TRUE]

(* The last child of the node has gone.                                    *)
Barren(n) == ~n.leaf /\ n.children = <<>>

AppliedTo(n, batch, m) ==
    /\ NodeOk(m) /\ (m.leaf <=> n.leaf)
    /\ ~n.leaf => m.pivots = n.pivots /\ m.children = n.children
    /\ DOMAIN HeldBy(m) \subseteq DOMAIN HeldBy(n) \cup DOMAIN batch

(* apply_batch leaves the node well formed, and it then holds nothing but  *)
(* what it held and the batch.                                             *)
LEMMA AppliedShape ==
    ASSUME NEW n, NodeOk(n), ~Barren(n), NEW batch \in Maps(MessagesOf(Nat))
    PROVE  AppliedTo(n, batch, Applied(n, batch))
<1> DEFINE m == Applied(n, batch)
<1>1. /\ DOMAIN batch \subseteq Keys /\ IsFiniteSet(DOMAIN batch)
      /\ \A k \in DOMAIN batch : batch[k] \in MessagesOf(Nat)
  BY MapFacts
<1>2. CASE n.leaf
  <2> DEFINE e == n.entries
             f == apply_to_leaf(e, batch)
             after == [k \in DOMAIN batch |->
                    [seq |-> batch[k].seq, value |-> Effect(batch[k], ValueIn(e, k))]]
             gone == {k \in DOMAIN batch : after[k].value = NoValue}
             X == (DOMAIN e \cup DOMAIN batch) \ gone
  <2>1. n \in LeafNode
    BY <1>2 DEF NodeOk, InnerNode
  <2>2. e \in Maps(Entries(Nat))
    BY <2>1 DEF LeafNode
  <2>3. /\ DOMAIN e \subseteq Keys /\ IsFiniteSet(DOMAIN e)
        /\ \A k \in DOMAIN e : e[k] \in Entries(Nat)
    BY <2>2, MapFacts
  <2>4. f = [k \in X |-> IF k \in DOMAIN batch THEN after[k] ELSE e[k]]
    BY DEF apply_to_leaf
  <2>5. X \subseteq DOMAIN e \cup DOMAIN batch /\ X \subseteq Keys
    BY <1>1, <2>3
  <2>6. IsFiniteSet(X)
    <3>1. IsFiniteSet(DOMAIN e \cup DOMAIN batch)
      BY <1>1, <2>3, FS_Union
    <3> QED BY <3>1, <2>5, FS_Subset
  <2>7. ASSUME NEW k \in X
        PROVE  (IF k \in DOMAIN batch THEN after[k] ELSE e[k]) \in Entries(Nat)
    <3>1. CASE k \in DOMAIN batch
      <4>1. ValueIn(e, k) \in MaybeValues
        BY <2>3 DEF ValueIn, Entries, MaybeValues
      <4>2. Effect(batch[k], ValueIn(e, k)) \in MaybeValues
        BY <4>1, <3>1, <1>1, EffectType
      <4>3. batch[k].seq \in Nat
        BY <3>1, <1>1 DEF MessagesOf
      <4>4. Effect(batch[k], ValueIn(e, k)) # NoValue
        BY <3>1
      <4> QED BY <3>1, <4>2, <4>3, <4>4 DEF Entries, MaybeValues
    <3>2. CASE k \notin DOMAIN batch
      BY <3>2, <2>3
    <3> QED BY <3>1, <3>2
  <2>8. f \in Maps(Entries(Nat)) /\ DOMAIN f = X
    <3> HIDE DEF X, after, e, f
    <3>1. DOMAIN f = X /\ \A k \in X : f[k] = IF k \in DOMAIN batch THEN after[k] ELSE e[k]
      BY <2>4
    <3>2. f = [k \in DOMAIN f |-> f[k]]
      BY <2>4
    <3> QED BY <3>1, <3>2, <2>5, <2>6, <2>7, MapFacts
  <2>9. m = [n EXCEPT !.entries = f, !.dirty = TRUE]
    BY <1>2 DEF Applied
  <2> HIDE DEF f, m
  <2>10. m \in LeafNode /\ m.leaf /\ m.entries = f
    BY <2>1, <2>8, <2>9 DEF LeafNode
  <2> QED BY <1>2, <2>5, <2>8, <2>10 DEF AppliedTo, NodeOk, HeldBy, m
<1>3. CASE ~n.leaf
  <2> DEFINE b == n.buffer
             f == coalesce_into(b, batch)
  <2>1. n \in InnerNode /\ Sorted(n.pivots) /\ Len(n.children) = Len(n.pivots) + 1
    BY <1>3 DEF NodeOk, LeafNode, Barren
  <2>2. b \in Maps(MessagesOf(Nat))
    BY <2>1 DEF InnerNode
  <2>3. /\ DOMAIN b \subseteq Keys /\ IsFiniteSet(DOMAIN b)
        /\ \A k \in DOMAIN b : b[k] \in MessagesOf(Nat)
    BY <2>2, MapFacts
  <2>4. /\ DOMAIN f = DOMAIN b \cup DOMAIN batch /\ f = [k \in DOMAIN f |-> f[k]]
        /\ \A k \in DOMAIN f : f[k] = IF k \notin DOMAIN batch THEN b[k]
                                      ELSE IF k \notin DOMAIN b THEN batch[k]
                                      ELSE coalesce(batch[k], b[k])
    BY DEF coalesce_into
  <2> HIDE DEF f, b
  <2>5. IsFiniteSet(DOMAIN f) /\ DOMAIN f \subseteq Keys
    BY <1>1, <2>3, <2>4, FS_Union
  <2>6. ASSUME NEW k \in DOMAIN f PROVE f[k] \in MessagesOf(Nat)
    <3>1. CASE k \in DOMAIN b /\ k \in DOMAIN batch
      <4>1. NoValue \in MaybeValues
        BY DEF MaybeValues
      <4>2. coalesce(batch[k], b[k]) \in MessagesOf(Nat)
        BY <3>1, <4>1, <1>1, <2>3, CoalesceSound
      <4> QED BY <3>1, <4>2, <2>4
    <3> QED BY <3>1, <1>1, <2>3, <2>4
  <2>7. f \in Maps(MessagesOf(Nat))
    BY <2>4, <2>5, <2>6, MapFacts
  <2>8. m = [n EXCEPT !.buffer = f, !.dirty = TRUE]
    BY <1>3 DEF Applied, f, b
  <2> HIDE DEF m
  <2>9. /\ m \in InnerNode /\ ~m.leaf /\ m.buffer = f
        /\ m.pivots = n.pivots /\ m.children = n.children
    BY <2>1, <2>7, <2>8 DEF InnerNode
  <2> QED BY <1>3, <2>1, <2>4, <2>9 DEF AppliedTo, NodeOk, HeldBy, m, b
<1> QED BY <1>2, <1>3

(* A batch acts on the value that was there, key by key.                   *)
LEMMA AppliedValue ==
    ASSUME NEW n, NodeOk(n), NEW batch \in Maps(MessagesOf(Nat)), NEW k, NEW v,
           ~n.leaf => Below(n, k, v) \in MaybeValues
    PROVE  ValueAt(Applied(n, batch), k, v) =
              IF k \in DOMAIN batch THEN Effect(batch[k], ValueAt(n, k, v))
              ELSE ValueAt(n, k, v)
<1> DEFINE m == Applied(n, batch)
<1>1. \A x \in DOMAIN batch : batch[x] \in MessagesOf(Nat)
  BY MapFacts
<1>2. CASE n.leaf
  <2> DEFINE e == n.entries
             f == apply_to_leaf(e, batch)
             after == [x \in DOMAIN batch |->
                    [seq |-> batch[x].seq, value |-> Effect(batch[x], ValueIn(e, x))]]
             gone == {x \in DOMAIN batch : after[x].value = NoValue}
             X == (DOMAIN e \cup DOMAIN batch) \ gone
  <2>1. n \in LeafNode
    BY <1>2 DEF NodeOk, InnerNode
  <2>2. f = [x \in X |-> IF x \in DOMAIN batch THEN after[x] ELSE e[x]]
    BY DEF apply_to_leaf
  <2>3. m.leaf /\ m.entries = f
    <3> HIDE DEF f
    <3> QED BY <1>2, <2>1 DEF LeafNode, Applied, f
  <2>4. ValueAt(m, k, v) = ValueIn(f, k) /\ ValueAt(n, k, v) = ValueIn(e, k)
    BY <1>2, <2>3 DEF ValueAt
  <2>5. k \in DOMAIN batch => after[k].value = Effect(batch[k], ValueIn(e, k))
    OBVIOUS
  <2>6. ValueIn(f, k) = IF k \in DOMAIN batch THEN Effect(batch[k], ValueIn(e, k))
                        ELSE ValueIn(e, k)
    <3>1. CASE k \in DOMAIN batch /\ k \in gone
      <4>1. k \notin DOMAIN f
        BY <2>2, <3>1
      <4> QED BY <3>1, <4>1, <2>5 DEF ValueIn
    <3>2. CASE k \in DOMAIN batch /\ k \notin gone
      <4>1. k \in DOMAIN f /\ f[k] = after[k]
        BY <2>2, <3>2
      <4> QED BY <3>2, <4>1, <2>5 DEF ValueIn
    <3>3. CASE k \notin DOMAIN batch
      <4>1. (k \in DOMAIN f <=> k \in DOMAIN e) /\ (k \in DOMAIN f => f[k] = e[k])
        BY <2>2, <3>3
      <4> QED BY <3>3, <4>1 DEF ValueIn
    <3> QED BY <3>1, <3>2, <3>3
  <2> QED BY <2>4, <2>6
<1>3. CASE ~n.leaf
  <2> DEFINE b == n.buffer
             f == coalesce_into(b, batch)
             u == Below(n, k, v)
  <2>1. n \in InnerNode
    BY <1>3 DEF NodeOk, LeafNode
  <2>2. b \in Maps(MessagesOf(Nat))
    BY <2>1 DEF InnerNode
  <2>3. \A x \in DOMAIN b : b[x] \in MessagesOf(Nat)
    BY <2>2, MapFacts
  <2>4. /\ DOMAIN f = DOMAIN b \cup DOMAIN batch
        /\ \A x \in DOMAIN f : f[x] = IF x \notin DOMAIN batch THEN b[x]
                                      ELSE IF x \notin DOMAIN b THEN batch[x]
                                      ELSE coalesce(batch[x], b[x])
    BY DEF coalesce_into
  <2>5. /\ ~m.leaf /\ m.buffer = f
        /\ m.pivots = n.pivots /\ m.children = n.children
    <3> HIDE DEF f
    <3> QED BY <1>3, <2>1 DEF InnerNode, Applied, f
  <2>6. Below(m, k, v) = u
    BY <2>5 DEF Below, Child
  <2>7. /\ ValueAt(m, k, v) = IF k \in DOMAIN f THEN Effect(f[k], u) ELSE u
        /\ ValueAt(n, k, v) = IF k \in DOMAIN b THEN Effect(b[k], u) ELSE u
    BY <1>3, <2>5, <2>6 DEF ValueAt
  <2>8. u \in MaybeValues
    BY <1>3
  <2>9. k \in DOMAIN b /\ k \in DOMAIN batch =>
           Effect(coalesce(batch[k], b[k]), u) = Effect(batch[k], Effect(b[k], u))
    BY <1>1, <2>3, <2>8, CoalesceSound
  <2> HIDE DEF f, b, u
  <2> QED BY <2>4, <2>7, <2>9
<1> QED BY <1>2, <1>3

-----------------------------------------------------------------------------
(* A flush: a batch moves from a node to one of its children               *)

SameMap(ns, r, ns2, r2) == \A k \in Nat : Get(ns2, r2, k) = Get(ns, r, k)

(* What is left of node n when the messages for its j-th child are gone.   *)
Drained(n, j) == [n EXCEPT !.buffer = Restrict(@, DOMAIN @ \ Pending(n, j)), !.dirty = TRUE]

Flushed(ns, P, j) == apply_batch(extract(ns, P, j), ns[P].children[j],
                                 Restrict(ns[P].buffer, Pending(ns[P], j)))

(* Taking messages out of a buffer leaves the node well formed, and what   *)
(* is taken is a batch.                                                    *)
LEMMA DrainedShape ==
    ASSUME NEW n, n \in InnerNode, NodeOk(n), NEW j
    PROVE  /\ NodeOk(Drained(n, j)) /\ ~Drained(n, j).leaf
           /\ Drained(n, j).pivots = n.pivots /\ Drained(n, j).children = n.children
           /\ Drained(n, j).buffer = Restrict(n.buffer, DOMAIN n.buffer \ Pending(n, j))
           /\ Restrict(n.buffer, Pending(n, j)) \in Maps(MessagesOf(Nat))
<1> DEFINE m == Drained(n, j)
           f == Restrict(n.buffer, DOMAIN n.buffer \ Pending(n, j))
           batch == Restrict(n.buffer, Pending(n, j))
<1>1. n.buffer \in Maps(MessagesOf(Nat)) /\ ~n.leaf
  BY DEF InnerNode
<1>2. /\ DOMAIN n.buffer \subseteq Keys /\ IsFiniteSet(DOMAIN n.buffer)
      /\ \A k \in DOMAIN n.buffer : n.buffer[k] \in MessagesOf(Nat)
  BY <1>1, MapFacts
<1>3. Pending(n, j) \subseteq DOMAIN n.buffer
  BY DEF Pending
<1>4. IsFiniteSet(DOMAIN n.buffer \ Pending(n, j)) /\ IsFiniteSet(Pending(n, j))
  BY <1>2, <1>3, FS_Subset
<1>5. f \in Maps(MessagesOf(Nat))
  <2>1. DOMAIN f = DOMAIN n.buffer \ Pending(n, j) /\ f = [k \in DOMAIN f |-> f[k]]
        /\ \A k \in DOMAIN f : f[k] = n.buffer[k]
    BY DEF Restrict
  <2> HIDE DEF f
  <2> QED BY <2>1, <1>2, <1>4, MapFacts
<1>6. batch \in Maps(MessagesOf(Nat))
  <2>1. DOMAIN batch = Pending(n, j) /\ batch = [k \in DOMAIN batch |-> batch[k]]
        /\ \A k \in DOMAIN batch : batch[k] = n.buffer[k]
    BY DEF Restrict
  <2> HIDE DEF batch
  <2> QED BY <2>1, <1>2, <1>3, <1>4, MapFacts
<1>7. m = [n EXCEPT !.buffer = f, !.dirty = TRUE]
  BY DEF Drained
<1>8. n.buffer = Empty => f = Empty
  <2> SUFFICES ASSUME n.buffer = Empty PROVE f = Empty
    OBVIOUS
  <2>1. DOMAIN n.buffer = {}
    BY DEF Empty
  <2> QED BY <2>1 DEF Empty, Restrict
<1> HIDE DEF m, f, batch
<1>9. /\ m \in InnerNode /\ ~m.leaf /\ m.buffer = f
      /\ m.pivots = n.pivots /\ m.children = n.children
  BY <1>5, <1>7 DEF InnerNode
<1>10. NodeOk(m)
  BY <1>8, <1>9, <1>1 DEF NodeOk, LeafNode
<1> QED BY <1>6, <1>9, <1>10 DEF m, f, batch

(* A flush changes the parent and the child and no other node.             *)
LEMMA FlushedNodes ==
    ASSUME NEW ns, Arena(ns), NEW P \in DOMAIN ns, ns[P] \in InnerNode, NEW j,
           ns[P].children[j] \in DOMAIN ns, ns[P].children[j] # P
    PROVE  /\ DOMAIN Flushed(ns, P, j) = DOMAIN ns
           /\ Flushed(ns, P, j) = [i \in DOMAIN ns |-> Flushed(ns, P, j)[i]]
           /\ Flushed(ns, P, j)[P] = Drained(ns[P], j)
           /\ Flushed(ns, P, j)[ns[P].children[j]] =
                 Applied(ns[ns[P].children[j]], Restrict(ns[P].buffer, Pending(ns[P], j)))
           /\ \A i \in DOMAIN ns \ {P, ns[P].children[j]} : Flushed(ns, P, j)[i] = ns[i]
<1> DEFINE C == ns[P].children[j]
           batch == Restrict(ns[P].buffer, Pending(ns[P], j))
           e == extract(ns, P, j)
           f == Flushed(ns, P, j)
<1>1. /\ e = [ns EXCEPT ![P] = Drained(ns[P], j)]
  BY DEF extract, Drained, Arena
<1>2. DOMAIN e = DOMAIN ns /\ e[C] = ns[C] /\ e[P] = Drained(ns[P], j)
      /\ \A i \in DOMAIN ns \ {P} : e[i] = ns[i]
  BY <1>1
<1> HIDE DEF e
<1>3. f = [e EXCEPT ![C] = Applied(e[C], batch)]
  BY DEF Flushed, apply_batch, Applied, e
<1> HIDE DEF batch, f
<1>4. DOMAIN f = DOMAIN ns /\ f[C] = Applied(ns[C], batch) /\ f[P] = e[P]
      /\ \A i \in DOMAIN ns \ {P, C} : f[i] = e[i]
  BY <1>2, <1>3
<1>5. f = [i \in DOMAIN ns |-> f[i]]
  BY <1>2, <1>3
<1> QED BY <1>2, <1>4, <1>5 DEF f, batch

(* A flush keeps the shape, the links between nodes and the map: the child *)
(* applies to older values what its parent would have applied later.       *)
FlushKept(ns, r, L, rk, P, j) ==
    /\ \E iv : Shape(Flushed(ns, P, j), r, L, rk, iv)
    /\ LinksKept(ns, Flushed(ns, P, j))
    /\ SameMap(ns, r, Flushed(ns, P, j), r)

(* Every flush to a child that is not about to be unlinked does so.        *)
THEOREM FlushKeeps ==
    ASSUME NEW ns, NEW r, NEW L, NEW rk, NEW iv, Shape(ns, r, L, rk, iv),
           NEW P \in L, ~ns[P].leaf, NEW j \in 1 .. Len(ns[P].children),
           ~Barren(ns[ns[P].children[j]])
    PROVE  FlushKept(ns, r, L, rk, P, j)
<1> DEFINE C == ns[P].children[j]
           batch == Restrict(ns[P].buffer, Pending(ns[P], j))
           ns2 == Flushed(ns, P, j)
           iv2 == [iv EXCEPT ![C] = {k \in iv[P] : route(ns[P].pivots, k) = j}]
<1>1. Parented(ns, r, L, rk, P, j)
  BY ChildApart
<1>2. Shape(ns, r, L, rk, iv2)
  BY Widen
<1>3. /\ Arena(ns) /\ Ranked(ns, rk) /\ Tree(ns, r, L) /\ L \subseteq DOMAIN ns
      /\ r \in DOMAIN ns
  BY DEF Shape, Tree
<1>4. C \in DOMAIN ns /\ C # P /\ C # r /\ C \in L /\ P \in DOMAIN ns /\ ns[P] \in InnerNode
  BY <1>1 DEF Parented
<1>5. /\ DOMAIN ns2 = DOMAIN ns /\ ns2 = [i \in DOMAIN ns |-> ns2[i]]
      /\ ns2[P] = Drained(ns[P], j)
      /\ ns2[C] = Applied(ns[C], batch)
      /\ \A i \in DOMAIN ns \ {P, C} : ns2[i] = ns[i]
  BY <1>3, <1>4, FlushedNodes
<1>6. NodeOk(ns[P]) /\ NodeOk(ns[C])
  BY <1>3, <1>4 DEF Arena
<1>7. /\ NodeOk(ns2[P]) /\ ~ns2[P].leaf
      /\ ns2[P].pivots = ns[P].pivots /\ ns2[P].children = ns[P].children
      /\ ns2[P].buffer = Restrict(ns[P].buffer, DOMAIN ns[P].buffer \ Pending(ns[P], j))
      /\ batch \in Maps(MessagesOf(Nat))
  <2>1. /\ NodeOk(Drained(ns[P], j)) /\ ~Drained(ns[P], j).leaf
        /\ Drained(ns[P], j).pivots = ns[P].pivots
        /\ Drained(ns[P], j).children = ns[P].children
        /\ Drained(ns[P], j).buffer =
              Restrict(ns[P].buffer, DOMAIN ns[P].buffer \ Pending(ns[P], j))
        /\ Restrict(ns[P].buffer, Pending(ns[P], j)) \in Maps(MessagesOf(Nat))
    BY <1>4, <1>6, DrainedShape
  <2> HIDE DEF ns2
  <2> QED BY <2>1, <1>5
<1>8. AppliedTo(ns[C], batch, ns2[C])
  BY <1>5, <1>6, <1>7, AppliedShape
<1>9. DOMAIN batch = Pending(ns[P], j) /\ \A k \in DOMAIN batch : batch[k] = ns[P].buffer[k]
  BY DEF Restrict
<1> HIDE DEF ns2, batch
<1>10. LinksKept(ns, ns2)
  BY <1>5, <1>7, <1>8 DEF LinksKept, AppliedTo
<1>11. Ranked(ns2, rk) /\ Tree(ns2, r, L)
  BY <1>3, <1>10, LinksKeptRanked, LinksKeptTree
<1>12. Arena(ns2)
  BY <1>3, <1>5, <1>7, <1>8 DEF Arena, AppliedTo
<1>13. Ranges(ns2, r, L, iv2)
  <2>1. Ranges(ns, r, L, iv2)
    BY <1>2 DEF Shape
  <2>2. iv2 \in [DOMAIN ns2 -> SUBSET Nat] /\ iv2[r] = Nat
    BY <2>1, <1>5 DEF Ranges
  <2>3. iv2[C] = {k \in iv[P] : route(ns[P].pivots, k) = j} /\ iv2[P] = iv[P]
    BY <1>4 DEF Shape, Ranges
  <2> HIDE DEF iv2
  <2>4. ASSUME NEW i \in L PROVE DOMAIN HeldBy(ns2[i]) \subseteq iv2[i]
    <3>1. DOMAIN HeldBy(ns[i]) \subseteq iv2[i] /\ DOMAIN HeldBy(ns[P]) \subseteq iv2[P]
      BY <2>1 DEF Ranges
    <3>2. CASE i = P
      <4>1. DOMAIN HeldBy(ns2[P]) \subseteq DOMAIN HeldBy(ns[P])
        BY <1>7 DEF HeldBy, Restrict
      <4> QED BY <3>1, <3>2, <4>1
    <3>3. CASE i = C
      <4>1. Pending(ns[P], j) \subseteq iv2[C]
        BY <3>1, <2>3 DEF Pending, HeldBy
      <4> QED BY <3>1, <3>3, <4>1, <1>8, <1>9 DEF AppliedTo
    <3> QED BY <3>1, <3>2, <3>3, <1>3, <1>5
  <2> QED BY <2>1, <2>4, <1>3, <1>10, LinksKeptRanges
<1>14. SameMap(ns, r, ns2, r)
  <2> SUFFICES ASSUME NEW k \in Nat PROVE Get(ns2, r, k) = Get(ns, r, k)
    BY DEF SameMap
  <2> SUFFICES ASSUME NEW v, NEW v2, Vals(ns, k, v), Vals(ns2, k, v2) PROVE v2[r] = v[r]
    BY <1>3, <1>5, <1>11, <1>12, SameGet
  <2>1. ASSUME \A c \in L \ {C} : rk[c] < rk[P] => v2[c] = v[c] PROVE v2[P] = v[P]
    <3>1. /\ v2[P] = ValueAt(ns2[P], k, v2) /\ v[P] = ValueAt(ns[P], k, v)
          /\ v2[C] = ValueAt(ns2[C], k, v2) /\ v[C] = ValueAt(ns[C], k, v)
      BY <1>4, <1>5 DEF Vals
    <3>2. ~ns[C].leaf => Below(ns[C], k, v2) = Below(ns[C], k, v)
      <4> SUFFICES ASSUME ~ns[C].leaf, ns[C].children # <<>>
                   PROVE  v2[Child(ns[C], k)] = v[Child(ns[C], k)]
        BY DEF Below
      <4>1. Routable(ns, rk, C, k)
        BY <1>3, <1>4, ChildFacts
      <4> DEFINE q == route(ns[C].pivots, k)
      <4>2. q \in 1 .. Len(ns[C].children) /\ ns[C].children[q] = Child(ns[C], k)
            /\ rk[C] = rk[Child(ns[C], k)] + 1 /\ rk[Child(ns[C], k)] \in Nat
        BY <4>1 DEF Routable, Child
      <4>3. Parented(ns, r, L, rk, C, q)
        <5> HIDE DEF q
        <5> QED BY <4>2, <1>4, ChildApart
      <4>4. Child(ns[C], k) \in L /\ Child(ns[C], k) # C
        BY <4>2, <4>3 DEF Parented
      <4>5. rk[P] = rk[C] + 1 /\ rk[P] \in Nat /\ rk[C] \in Nat
        BY <1>1 DEF Parented
      <4> DEFINE d == Child(ns[C], k)
      <4>6. d \in L \ {C}
        BY <4>4
      <4>7. rk[d] < rk[P]
        <5>1. rk[C] = rk[d] + 1 /\ rk[d] \in Nat
          BY <4>2
        <5> HIDE DEF d
        <5> QED BY <5>1, <4>5
      <4> HIDE DEF d
      <4>8. v2[d] = v[d]
        BY <4>6, <4>7, <2>1, Zenon
      <4> QED BY <4>8 DEF d
    <3>3. ValueAt(ns[C], k, v2) = v[C]
      BY <3>1, <3>2 DEF ValueAt
    <3>4. ~ns[C].leaf => Below(ns[C], k, v2) \in MaybeValues
      <4>1. v \in [DOMAIN ns -> MaybeValues]
        BY DEF Vals
      <4> QED BY <3>2, <4>1, <1>3, <1>4, BelowType
    <3>5. v2[C] = IF k \in DOMAIN batch THEN Effect(batch[k], v[C]) ELSE v[C]
      <4>1. ValueAt(Applied(ns[C], batch), k, v2) =
              IF k \in DOMAIN batch THEN Effect(batch[k], ValueAt(ns[C], k, v2))
              ELSE ValueAt(ns[C], k, v2)
        BY <1>6, <1>7, <3>4, AppliedValue
      <4> QED BY <3>1, <3>3, <4>1, <1>5
    <3>6. route(ns[P].pivots, k) # j => k \notin DOMAIN batch
      BY <1>9 DEF Pending
    <3>7. ns[P].children # <<>>
      BY <1>1 DEF Parented
    <3>8. CASE route(ns[P].pivots, k) = j
      <4>1. Below(ns2[P], k, v2) = v2[C] /\ Below(ns[P], k, v) = v[C]
        BY <3>7, <3>8, <1>7 DEF Below, Child
      <4>2. k \in DOMAIN ns[P].buffer <=> k \in DOMAIN batch
        BY <3>8, <1>9 DEF Pending
      <4>3. k \notin DOMAIN ns2[P].buffer
        BY <4>2, <1>7, <1>9 DEF Restrict
      <4> QED BY <3>1, <3>5, <4>1, <4>2, <4>3, <1>7, <1>9 DEF ValueAt
    <3>9. CASE route(ns[P].pivots, k) # j
      <4>1. Routable(ns, rk, P, k)
        BY <1>3, <1>4, <3>7, ChildFacts
      <4> DEFINE q == route(ns[P].pivots, k)
      <4>2. q \in 1 .. Len(ns[P].children) /\ ns[P].children[q] = Child(ns[P], k)
            /\ rk[P] = rk[Child(ns[P], k)] + 1 /\ rk[Child(ns[P], k)] \in Nat
        BY <4>1 DEF Routable, Child
      <4>3. Child(ns[P], k) \in L /\ Child(ns[P], k) # C
        <5> HIDE DEF q
        <5>1. q # j
          BY <3>9 DEF q
        <5> QED BY <4>2, <5>1, <1>3 DEF Tree
      <4>4. v2[Child(ns[P], k)] = v[Child(ns[P], k)]
        BY <4>2, <4>3, <2>1
      <4>5. Below(ns2[P], k, v2) = Below(ns[P], k, v)
        BY <3>7, <4>4, <1>7 DEF Below, Child
      <4>6. /\ k \in DOMAIN ns2[P].buffer <=> k \in DOMAIN ns[P].buffer
            /\ k \in DOMAIN ns2[P].buffer => ns2[P].buffer[k] = ns[P].buffer[k]
        <5>1. k \notin Pending(ns[P], j)
          BY <3>9 DEF Pending
        <5>2. /\ DOMAIN ns2[P].buffer = DOMAIN ns[P].buffer \ Pending(ns[P], j)
              /\ \A x \in DOMAIN ns2[P].buffer : ns2[P].buffer[x] = ns[P].buffer[x]
          BY <1>7 DEF Restrict
        <5> QED BY <5>1, <5>2
      <4> QED BY <3>1, <4>5, <4>6, <1>7 DEF ValueAt
    <3> QED BY <3>8, <3>9
  <2>2. \A i \in L \ {P, C} : Alike(ns2[i], ns[i])
    BY <1>3, <1>5 DEF Alike
  <2>3. \A i \in L \ {C} : v2[i] = v[i]
    <3>1. L \ {C} \subseteq DOMAIN ns2
      BY <1>3, <1>5
    <3>2. (\A c \in L \ {C} : rk[c] < rk[P] => v2[c] = v[c]) => v2[P] = v[P]
      BY <2>1
    <3> QED BY <2>2, <3>1, <3>2, Frame
  <2> QED BY <2>3, <1>3, <1>4 DEF Tree
<1>15. Shape(ns2, r, L, rk, iv2)
  BY <1>11, <1>12, <1>13 DEF Shape
<1> QED BY <1>10, <1>14, <1>15, Zenon DEF FlushKept, ns2

(* Nodes that stay alike, with those that routing leads to from them, keep *)
(* their values.                                                           *)
LEMMA FrameClosed ==
    ASSUME NEW ns, NEW rk, Arena(ns), Ranked(ns, rk), NEW k \in Nat, NEW v, Vals(ns, k, v),
           NEW ns2, NEW v2, Vals(ns2, k, v2), NEW D, D \subseteq DOMAIN ns, D \subseteq DOMAIN ns2,
           \A i \in D : /\ Alike(ns2[i], ns[i])
                        /\ ~ns[i].leaf /\ ns[i].children # <<>> => Child(ns[i], k) \in D
    PROVE  \A i \in D : v2[i] = v[i]
<1> DEFINE G == {i \in D : v2[i] = v[i]}
           rank == [i \in D |-> rk[i]]
<1>1. rk \in [DOMAIN ns -> Nat]
  BY DEF Ranked
<1>2. rank \in [D -> Nat] /\ \A i \in D : rank[i] = rk[i]
  BY <1>1
<1> HIDE DEF rank
<1>3. ASSUME NEW i \in D, \A c \in D : rank[c] < rank[i] => c \in G PROVE i \in G
  <2>1. Alike(ns2[i], ns[i]) /\ i \in DOMAIN ns /\ i \in DOMAIN ns2
    OBVIOUS
  <2>2. v2[i] = ValueAt(ns2[i], k, v2) /\ v[i] = ValueAt(ns[i], k, v)
    BY <2>1 DEF Vals
  <2>3. CASE ns[i].leaf
    BY <2>1, <2>2, <2>3 DEF ValueAt, Alike
  <2>4. CASE ~ns[i].leaf
    <3>1. Below(ns2[i], k, v2) = Below(ns[i], k, v)
      <4>1. CASE ns[i].children = <<>>
        BY <4>1, <2>1, <2>4 DEF Below, Alike
      <4>2. CASE ns[i].children # <<>>
        <5>1. Routable(ns, rk, i, k)
          BY <2>1, <2>4, <4>2, ChildFacts
        <5>2. rk[i] = rk[Child(ns[i], k)] + 1 /\ rk[Child(ns[i], k)] \in Nat
          BY <5>1 DEF Routable
        <5>3. Child(ns[i], k) \in D
          BY <2>4, <4>2
        <5>4. v2[Child(ns[i], k)] = v[Child(ns[i], k)]
          BY <5>2, <5>3, <1>2, <1>3
        <5>5. Child(ns2[i], k) = Child(ns[i], k) /\ ns2[i].children # <<>>
          BY <2>1, <2>4, <4>2 DEF Alike, Child
        <5> QED BY <4>2, <5>4, <5>5 DEF Below
      <4> QED BY <4>1, <4>2
    <3> QED BY <3>1, <2>1, <2>2, <2>4 DEF ValueAt, Alike
  <2> QED BY <2>3, <2>4
<1>4. \A i \in D : i \in G
  <2> HIDE DEF G
  <2> QED BY <1>2, <1>3, RankInduction
<1> QED BY <1>4

(* In a tree, routing leads from a live node to a live node, and never to  *)
(* the root.                                                               *)
LEMMA ChildLive ==
    ASSUME NEW ns, NEW r, NEW L, NEW rk, NEW iv, Shape(ns, r, L, rk, iv), NEW k \in Nat,
           NEW i \in L, ~ns[i].leaf, ns[i].children # <<>>
    PROVE  /\ Child(ns[i], k) \in L \ {r} /\ Child(ns[i], k) # i
           /\ rk[i] = rk[Child(ns[i], k)] + 1 /\ rk[Child(ns[i], k)] \in Nat
<1>1. Arena(ns) /\ Ranked(ns, rk) /\ i \in DOMAIN ns
  BY DEF Shape, Tree
<1>2. Routable(ns, rk, i, k)
  BY <1>1, ChildFacts
<1> DEFINE q == route(ns[i].pivots, k)
<1>3. q \in 1 .. Len(ns[i].children) /\ ns[i].children[q] = Child(ns[i], k)
      /\ rk[i] = rk[Child(ns[i], k)] + 1 /\ rk[Child(ns[i], k)] \in Nat
  BY <1>2 DEF Routable, Child
<1>4. Child(ns[i], k) \in L \ {r}
  <2> HIDE DEF q
  <2> QED BY <1>3 DEF Shape, Tree
<1> QED BY <1>3, <1>4

-----------------------------------------------------------------------------
(* A mutation enters at the root                                           *)

WithMessage(ns, r, k, m) == apply_batch(ns, r, [key \in {k} |-> m])

RootApplied(ns, r, L, rk, k, m, ns2) ==
    /\ \E iv : Shape(ns2, r, L, rk, iv)
    /\ LinksKept(ns, ns2)
    /\ \A x \in Nat : Get(ns2, r, x) = IF x = k THEN Effect(m, Get(ns, r, x)) ELSE Get(ns, r, x)

(* apply_root: for get, a message has its effect on its key, and on no     *)
(* other key, as soon as it is in the root.                                *)
THEOREM ApplyRoot ==
    ASSUME NEW ns, NEW r, NEW L, NEW rk, NEW iv, Shape(ns, r, L, rk, iv), ~Barren(ns[r]),
           NEW k \in Keys, NEW m \in MessagesOf(Nat)
    PROVE  RootApplied(ns, r, L, rk, k, m, WithMessage(ns, r, k, m))
<1> DEFINE batch == [key \in {k} |-> m]
           ns2 == apply_batch(ns, r, batch)
<1>1. /\ Arena(ns) /\ Ranked(ns, rk) /\ Tree(ns, r, L) /\ L \subseteq DOMAIN ns
      /\ r \in DOMAIN ns /\ r \in L /\ NodeOk(ns[r])
  BY DEF Shape, Tree, Arena
<1>2. /\ DOMAIN batch = {k} /\ batch[k] = m /\ batch \in Maps(MessagesOf(Nat))
  <2>1. DOMAIN batch = {k} /\ batch[k] = m /\ batch = [x \in DOMAIN batch |-> batch[x]]
    OBVIOUS
  <2>2. IsFiniteSet({k})
    BY FS_Singleton
  <2> HIDE DEF batch
  <2> QED BY <2>1, <2>2, MapFacts
<1> HIDE DEF batch
<1>3. ns2 = [ns EXCEPT ![r] = Applied(ns[r], batch)]
  BY DEF apply_batch, Applied
<1>4. /\ DOMAIN ns2 = DOMAIN ns /\ ns2[r] = Applied(ns[r], batch)
      /\ \A i \in DOMAIN ns \ {r} : ns2[i] = ns[i]
      /\ ns2 = [i \in DOMAIN ns2 |-> ns2[i]]
  BY <1>1, <1>3
<1> HIDE DEF ns2
<1>5. AppliedTo(ns[r], batch, ns2[r])
  BY <1>1, <1>2, <1>4, AppliedShape
<1>6. LinksKept(ns, ns2)
  BY <1>4, <1>5 DEF LinksKept, AppliedTo
<1>7. Ranked(ns2, rk) /\ Tree(ns2, r, L)
  BY <1>1, <1>6, LinksKeptRanked, LinksKeptTree
<1>8. Arena(ns2)
  BY <1>1, <1>4, <1>5 DEF Arena, AppliedTo
<1>9. Ranges(ns2, r, L, iv)
  <2>1. Ranges(ns, r, L, iv)
    BY DEF Shape
  <2>2. iv \in [DOMAIN ns2 -> SUBSET Nat] /\ iv[r] = Nat
    BY <2>1, <1>4 DEF Ranges
  <2>3. ASSUME NEW i \in L PROVE DOMAIN HeldBy(ns2[i]) \subseteq iv[i]
    <3>1. DOMAIN HeldBy(ns[i]) \subseteq iv[i]
      BY <2>1 DEF Ranges
    <3>2. CASE i = r
      <4>1. k \in Nat
        BY KeysAssumption
      <4> QED BY <3>1, <3>2, <4>1, <1>2, <1>5, <2>2 DEF AppliedTo
    <3> QED BY <3>1, <3>2, <1>1, <1>4
  <2> QED BY <2>1, <2>3, <1>1, <1>6, LinksKeptRanges
<1>10. ASSUME NEW x \in Nat
       PROVE  Get(ns2, r, x) = IF x = k THEN Effect(m, Get(ns, r, x)) ELSE Get(ns, r, x)
  <2>1. PICK v : Vals(ns, x, v)
    BY <1>1, ValsExist
  <2>2. PICK v2 : Vals(ns2, x, v2)
    BY <1>7, <1>8, ValsExist
  <2>3. Get(ns, r, x) = v[r] /\ Get(ns2, r, x) = v2[r]
    BY <2>1, <2>2, <1>1, <1>4, <1>7, <1>8, GetIs
  <2> DEFINE D == L \ {r}
  <2>4. \A i \in D : Alike(ns2[i], ns[i])
    BY <1>1, <1>4 DEF Alike
  <2>5. \A i \in D : ~ns[i].leaf /\ ns[i].children # <<>> => Child(ns[i], x) \in D
    BY ChildLive
  <2>6. \A i \in D : v2[i] = v[i]
    <3>1. D \subseteq DOMAIN ns /\ D \subseteq DOMAIN ns2
      BY <1>1, <1>4
    <3>2. \A i \in D : /\ Alike(ns2[i], ns[i])
                       /\ ~ns[i].leaf /\ ns[i].children # <<>> => Child(ns[i], x) \in D
      BY <2>4, <2>5
    <3> HIDE DEF D
    <3> QED BY <2>1, <2>2, <3>1, <3>2, <1>1, FrameClosed
  <2>7. ~ns[r].leaf => Below(ns[r], x, v2) = Below(ns[r], x, v)
    BY <2>6, <1>1, ChildLive DEF Below
  <2>8. v[r] = ValueAt(ns[r], x, v) /\ v2[r] = ValueAt(ns2[r], x, v2)
    BY <2>1, <2>2, <1>1, <1>4 DEF Vals
  <2>9. ValueAt(ns[r], x, v2) = v[r]
    BY <2>7, <2>8 DEF ValueAt
  <2>10. ~ns[r].leaf => Below(ns[r], x, v2) \in MaybeValues
    <3>1. v \in [DOMAIN ns -> MaybeValues]
      BY <2>1 DEF Vals
    <3> QED BY <2>7, <3>1, <1>1, BelowType
  <2>11. v2[r] = IF x \in DOMAIN batch THEN Effect(batch[x], v[r]) ELSE v[r]
    <3>1. ValueAt(Applied(ns[r], batch), x, v2) =
              IF x \in DOMAIN batch THEN Effect(batch[x], ValueAt(ns[r], x, v2))
              ELSE ValueAt(ns[r], x, v2)
      BY <1>1, <1>2, <2>10, AppliedValue
    <3> QED BY <3>1, <2>8, <2>9, <1>4
  <2> QED BY <2>3, <2>11, <1>2
<1>11. Shape(ns2, r, L, rk, iv)
  BY <1>7, <1>8, <1>9 DEF Shape
<1>12. RootApplied(ns, r, L, rk, k, m, ns2)
  BY <1>6, <1>10, <1>11 DEF RootApplied
<1> QED BY <1>12 DEF WithMessage, ns2, batch

-----------------------------------------------------------------------------
(* Sequences with an element put in or taken out                           *)

(* RemoveAt, element by element.                                           *)
LEMMA RemoveAtFacts ==
    ASSUME NEW S, NEW s \in Seq(S), NEW i \in 1 .. Len(s)
    PROVE  /\ RemoveAt(s, i) \in Seq(S) /\ Len(RemoveAt(s, i)) = Len(s) - 1
           /\ \A j \in 1 .. (Len(s) - 1) : RemoveAt(s, i)[j] = IF j < i THEN s[j] ELSE s[j + 1]
<1> DEFINE a == SubSeq(s, 1, i - 1)
           b == SubSeq(s, i + 1, Len(s))
<1>1. Len(s) \in Nat /\ \A j \in 1 .. Len(s) : s[j] \in S
  OBVIOUS
<1>2. /\ a \in Seq(S) /\ Len(a) = i - 1
      /\ \A j \in 1 .. (i - 1) : a[j] = s[j]
  <2>1. 1 \in Int /\ i - 1 \in Int /\ \A j \in 1 .. (i - 1) : s[j] \in S
    BY <1>1
  <2>2. /\ a \in Seq(S)
        /\ Len(a) = IF 1 <= i - 1 THEN (i - 1) - 1 + 1 ELSE 0
        /\ \A j \in 1 .. ((i - 1) - 1 + 1) : a[j] = s[1 + j - 1]
    BY <2>1, SubSeqProperties
  <2>3. \A j \in 1 .. (i - 1) : 1 + j - 1 = j
    BY <1>1
  <2> HIDE DEF a
  <2> QED BY <2>2, <2>3, <1>1
<1>3. /\ b \in Seq(S) /\ Len(b) = Len(s) - i
      /\ \A j \in 1 .. (Len(s) - i) : b[j] = s[i + j]
  <2>1. i + 1 \in Int /\ Len(s) \in Int /\ \A j \in (i + 1) .. Len(s) : s[j] \in S
    BY <1>1
  <2>2. /\ b \in Seq(S)
        /\ Len(b) = IF i + 1 <= Len(s) THEN Len(s) - (i + 1) + 1 ELSE 0
        /\ \A j \in 1 .. (Len(s) - (i + 1) + 1) : b[j] = s[(i + 1) + j - 1]
    BY <2>1, SubSeqProperties
  <2>3. \A j \in 1 .. (Len(s) - i) : (i + 1) + j - 1 = i + j
    BY <1>1
  <2> HIDE DEF b
  <2> QED BY <2>2, <2>3, <1>1
<1> HIDE DEF a, b
<1>4. /\ a \o b \in Seq(S) /\ Len(a \o b) = Len(a) + Len(b)
      /\ \A j \in 1 .. Len(a) + Len(b) :
            (a \o b)[j] = IF j <= Len(a) THEN a[j] ELSE b[j - Len(a)]
  BY <1>2, <1>3, ConcatProperties
<1>5. RemoveAt(s, i) = a \o b
  BY DEF RemoveAt, a, b
<1>6. ASSUME NEW j \in 1 .. (Len(s) - 1)
      PROVE  (a \o b)[j] = IF j < i THEN s[j] ELSE s[j + 1]
  <2>1. CASE j < i
    BY <2>1, <1>1, <1>2, <1>3, <1>4
  <2>2. CASE ~(j < i)
    <3>1. (a \o b)[j] = b[j - (i - 1)] /\ j - (i - 1) \in 1 .. (Len(s) - i)
      BY <2>2, <1>1, <1>2, <1>3, <1>4
    <3>2. i + (j - (i - 1)) = j + 1
      BY <1>1
    <3> QED BY <2>2, <3>1, <3>2, <1>3
  <2> QED BY <2>1, <2>2
<1> QED BY <1>1, <1>2, <1>3, <1>4, <1>5, <1>6

Inserted(S, s, i, e, t) ==
    /\ t \in Seq(S) /\ Len(t) = Len(s) + 1
    /\ \A j \in 1 .. (Len(s) + 1) : t[j] = IF j < i THEN s[j] ELSE IF j = i THEN e ELSE s[j - 1]

(* InsertAt moves the elements from the place on to the right.             *)
LEMMA InsertAtFacts ==
    ASSUME NEW S, NEW s \in Seq(S), NEW i \in 1 .. (Len(s) + 1), NEW e \in S
    PROVE  Inserted(S, s, i, e, InsertAt(s, i, e))
<1> DEFINE a == SubSeq(s, 1, i - 1)
           b == SubSeq(s, i, Len(s))
           m == <<e>>
<1>1. Len(s) \in Nat /\ \A j \in 1 .. Len(s) : s[j] \in S
  OBVIOUS
<1>2. /\ a \in Seq(S) /\ Len(a) = i - 1
      /\ \A j \in 1 .. (i - 1) : a[j] = s[j]
  <2>1. 1 \in Int /\ i - 1 \in Int /\ \A j \in 1 .. (i - 1) : s[j] \in S
    BY <1>1
  <2>2. /\ a \in Seq(S)
        /\ Len(a) = IF 1 <= i - 1 THEN (i - 1) - 1 + 1 ELSE 0
        /\ \A j \in 1 .. ((i - 1) - 1 + 1) : a[j] = s[1 + j - 1]
    BY <2>1, SubSeqProperties
  <2>3. \A j \in 1 .. (i - 1) : 1 + j - 1 = j
    BY <1>1
  <2> HIDE DEF a
  <2> QED BY <2>2, <2>3, <1>1
<1>3. /\ b \in Seq(S) /\ Len(b) = Len(s) - (i - 1)
      /\ \A j \in 1 .. (Len(s) - (i - 1)) : b[j] = s[(i - 1) + j]
  <2>1. i \in Int /\ Len(s) \in Int /\ \A j \in i .. Len(s) : s[j] \in S
    BY <1>1
  <2>2. /\ b \in Seq(S)
        /\ Len(b) = IF i <= Len(s) THEN Len(s) - i + 1 ELSE 0
        /\ \A j \in 1 .. (Len(s) - i + 1) : b[j] = s[i + j - 1]
    BY <2>1, SubSeqProperties
  <2>3. \A j \in 1 .. (Len(s) - (i - 1)) : i + j - 1 = (i - 1) + j
    BY <1>1
  <2> HIDE DEF b
  <2> QED BY <2>2, <2>3, <1>1
<1>4. m \in Seq(S) /\ Len(m) = 1 /\ m[1] = e
  OBVIOUS
<1> HIDE DEF a, b, m
<1>5. /\ a \o m \in Seq(S) /\ Len(a \o m) = Len(a) + Len(m)
      /\ \A j \in 1 .. Len(a) + Len(m) :
            (a \o m)[j] = IF j <= Len(a) THEN a[j] ELSE m[j - Len(a)]
  BY <1>2, <1>4, ConcatProperties
<1> DEFINE am == a \o m
<1>6. /\ am \in Seq(S) /\ Len(am) = i
      /\ \A j \in 1 .. i : am[j] = IF j < i THEN s[j] ELSE e
  BY <1>1, <1>2, <1>4, <1>5
<1> HIDE DEF am
<1>7. /\ am \o b \in Seq(S) /\ Len(am \o b) = Len(am) + Len(b)
      /\ \A j \in 1 .. Len(am) + Len(b) :
            (am \o b)[j] = IF j <= Len(am) THEN am[j] ELSE b[j - Len(am)]
  BY <1>6, <1>3, ConcatProperties
<1>8. InsertAt(s, i, e) = am \o b
  BY DEF InsertAt, a, b, m, am
<1>9. ASSUME NEW j \in 1 .. (Len(s) + 1)
      PROVE  (am \o b)[j] = IF j < i THEN s[j] ELSE IF j = i THEN e ELSE s[j - 1]
  <2>1. CASE j <= i
    BY <2>1, <1>1, <1>3, <1>6, <1>7
  <2>2. CASE ~(j <= i)
    <3>1. (am \o b)[j] = b[j - i] /\ j - i \in 1 .. (Len(s) - (i - 1))
      BY <2>2, <1>1, <1>3, <1>6, <1>7
    <3>2. (i - 1) + (j - i) = j - 1
      BY <1>1
    <3>3. ~(j < i) /\ j # i
      BY <2>2, <1>1
    <3> QED BY <3>1, <3>2, <3>3, <1>3
  <2> QED BY <2>1, <2>2
<1> QED BY <1>1, <1>3, <1>6, <1>7, <1>8, <1>9 DEF Inserted

-----------------------------------------------------------------------------
(* A child that holds nothing is unlinked                                  *)

(* A key outside the range of a node has no value there.                   *)
LEMMA OutOfRange ==
    ASSUME NEW ns, NEW r, NEW L, NEW rk, NEW iv, Shape(ns, r, L, rk, iv), NEW k \in Nat,
           NEW v, Vals(ns, k, v)
    PROVE  \A i \in L : k \notin iv[i] => v[i] = NoValue
<1> DEFINE G == {i \in L : k \notin iv[i] => v[i] = NoValue}
           rank == [i \in L |-> rk[i]]
<1>1. rk \in [DOMAIN ns -> Nat] /\ L \subseteq DOMAIN ns
  BY DEF Shape, Ranked, Tree
<1>2. rank \in [L -> Nat] /\ \A i \in L : rank[i] = rk[i]
  BY <1>1
<1> HIDE DEF rank
<1>3. ASSUME NEW i \in L, \A c \in L : rank[c] < rank[i] => c \in G PROVE i \in G
  <2> SUFFICES ASSUME k \notin iv[i] PROVE v[i] = NoValue
    OBVIOUS
  <2>1. v[i] = ValueAt(ns[i], k, v) /\ k \notin DOMAIN HeldBy(ns[i])
    BY <1>1 DEF Vals, Shape, Ranges
  <2>2. CASE ns[i].leaf
    BY <2>1, <2>2 DEF ValueAt, HeldBy, ValueIn
  <2>3. CASE ~ns[i].leaf /\ ns[i].children = <<>>
    BY <2>1, <2>3 DEF ValueAt, HeldBy, Below
  <2>4. CASE ~ns[i].leaf /\ ns[i].children # <<>>
    <3> DEFINE c == Child(ns[i], k)
               q == route(ns[i].pivots, k)
    <3>1. Arena(ns) /\ Ranked(ns, rk) /\ i \in DOMAIN ns
      BY <1>1 DEF Shape
    <3>2. Routable(ns, rk, i, k)
      BY <2>4, <3>1, ChildFacts
    <3>3. q \in 1 .. Len(ns[i].children) /\ c = ns[i].children[q]
      BY <3>2 DEF Routable, Child
    <3>4. c \in L /\ rk[i] = rk[c] + 1 /\ rk[c] \in Nat
      BY <2>4, ChildLive
    <3>5. k \notin iv[c]
      <4> HIDE DEF q, c
      <4> QED BY <2>4, <3>3 DEF Shape, Ranges
    <3>6. v[c] = NoValue
      BY <3>4, <3>5, <1>2, <1>3
    <3>7. v[i] = Below(ns[i], k, v)
      BY <2>1, <2>4 DEF ValueAt, HeldBy
    <3> QED BY <2>4, <3>6, <3>7 DEF Below
  <2> QED BY <2>2, <2>3, <2>4
<1>4. \A i \in L : i \in G
  <2> HIDE DEF G
  <2> QED BY <1>2, <1>3, RankInduction
<1> QED BY <1>4

(* The pivots of a node whose j-th child goes.                             *)
PivotsWithout(p, j) == IF j > 1 THEN RemoveAt(p, j - 1) ELSE IF p # <<>> THEN RemoveAt(p, 1) ELSE p

Unlinked(n, j) == [n EXCEPT !.children = RemoveAt(@, j), !.pivots = PivotsWithout(@, j),
                            !.dirty = TRUE]

(* Without one of its pivots, a node routes every key that did not belong  *)
(* to the child that goes to the child it had.                             *)
LEMMA PivotsLeft ==
    ASSUME NEW p \in Seq(Nat), Sorted(p), Len(p) > 0, NEW j \in 1 .. (Len(p) + 1)
    PROVE  /\ PivotsWithout(p, j) \in Seq(Nat) /\ Sorted(PivotsWithout(p, j))
           /\ Len(PivotsWithout(p, j)) = Len(p) - 1
           /\ \A x \in 1 .. (Len(p) - 1) : \E y \in 1 .. Len(p) : PivotsWithout(p, j)[x] = p[y]
           /\ \A k \in Nat : route(p, k) # j =>
                 route(PivotsWithout(p, j), k) =
                    IF route(p, k) < j THEN route(p, k) ELSE route(p, k) - 1
<1> DEFINE d == IF j > 1 THEN j - 1 ELSE 1
           q == RemoveAt(p, d)
<1>1. Len(p) \in Nat /\ \A x \in 1 .. Len(p) : p[x] \in Nat
  OBVIOUS
<1>2. d \in 1 .. Len(p) /\ (j > 1 => d = j - 1) /\ (j = 1 => d = 1)
  BY <1>1
<1>3. PivotsWithout(p, j) = q
  <2>1. p # <<>>
    OBVIOUS
  <2> QED BY <2>1 DEF PivotsWithout
<1> HIDE DEF d
<1>4. /\ q \in Seq(Nat) /\ Len(q) = Len(p) - 1
      /\ \A x \in 1 .. (Len(p) - 1) : q[x] = IF x < d THEN p[x] ELSE p[x + 1]
  BY <1>2, RemoveAtFacts
<1> HIDE DEF q
<1>5. Sorted(q)
  <2> SUFFICES ASSUME NEW x \in 1 .. Len(q), NEW y \in 1 .. Len(q), x < y PROVE q[x] < q[y]
    BY DEF Sorted
  <2>1. x \in 1 .. (Len(p) - 1) /\ y \in 1 .. (Len(p) - 1)
    BY <1>4
  <2>2. /\ x \in 1 .. Len(p) /\ x + 1 \in 1 .. Len(p) /\ y \in 1 .. Len(p) /\ y + 1 \in 1 .. Len(p)
    BY <2>1, <1>1
  <2>3. \A a, b \in 1 .. Len(p) : a < b => p[a] < p[b]
    BY DEF Sorted
  <2>4. CASE x < d /\ y < d
    BY <2>1, <2>2, <2>3, <2>4, <1>4
  <2>5. CASE x < d /\ ~(y < d)
    <3>1. x < y + 1
      BY <2>1
    <3> QED BY <2>1, <2>2, <2>3, <2>5, <3>1, <1>4
  <2>6. CASE ~(x < d)
    <3>1. ~(y < d) /\ x + 1 < y + 1
      BY <2>1, <2>6, <1>2
    <3> QED BY <2>1, <2>2, <2>3, <2>6, <3>1, <1>4
  <2> QED BY <2>4, <2>5, <2>6
<1>6. ASSUME NEW x \in 1 .. (Len(p) - 1) PROVE \E y \in 1 .. Len(p) : q[x] = p[y]
  <2>1. x \in 1 .. Len(p) /\ x + 1 \in 1 .. Len(p)
    BY <1>1
  <2> QED BY <2>1, <1>4
<1>7. ASSUME NEW k \in Nat, route(p, k) # j
      PROVE  route(q, k) = IF route(p, k) < j THEN route(p, k) ELSE route(p, k) - 1
  <2> DEFINE y == route(p, k)
             z == IF y < j THEN y ELSE y - 1
  <2>1. y \in 1 .. (Len(p) + 1) /\ \A x \in 1 .. Len(p) : p[x] <= k <=> x < y
    BY Routed
  <2> HIDE DEF y
  <2>2. y # j
    BY <1>7 DEF y
  <2>7. (y < j => z = y) /\ (~(y < j) => z = y - 1)
    OBVIOUS
  <2>3. z \in 1 .. (Len(q) + 1)
    BY <2>1, <2>2, <1>1, <1>4
  <2> HIDE DEF z
  <2>4. z > 1 => q[z - 1] <= k
    <3> SUFFICES ASSUME z > 1 PROVE q[z - 1] <= k
      OBVIOUS
    <3>1. z - 1 \in 1 .. (Len(p) - 1) /\ z - 1 \in 1 .. Len(p) /\ (z - 1) + 1 \in 1 .. Len(p)
      BY <2>3, <1>1, <1>4
    <3>2. CASE z - 1 < d
      <4>1. z - 1 < y
        BY <2>1, <2>2, <2>3, <2>7
      <4> QED BY <3>1, <3>2, <4>1, <2>1, <1>4
    <3>3. CASE ~(z - 1 < d)
      <4>1. (z - 1) + 1 < y
        BY <3>1, <3>3, <2>1, <2>2, <2>7, <1>1, <1>2, SMTT(30)
      <4> QED BY <3>1, <3>3, <4>1, <2>1, <1>4
    <3> QED BY <3>2, <3>3
  <2>5. z <= Len(q) => k < q[z]
    <3> SUFFICES ASSUME z <= Len(q) PROVE k < q[z]
      OBVIOUS
    <3>1. z \in 1 .. (Len(p) - 1) /\ z \in 1 .. Len(p) /\ z + 1 \in 1 .. Len(p)
      BY <2>3, <1>1, <1>4
    <3>2. CASE z < d
      <4>1. ~(z < y)
        BY <3>2, <2>1, <2>2, <2>7, <1>1, <1>2
      <4> QED BY <3>1, <3>2, <4>1, <2>1, <1>1, <1>4, SMTT(30)
    <3>3. CASE ~(z < d)
      <4>1. ~(z + 1 < y)
        BY <3>1, <3>3, <2>1, <2>2, <2>7, <1>1, <1>2
      <4>2. q[z] = p[z + 1]
        BY <3>1, <3>3, <1>4
      <4>3. ~(p[z + 1] <= k) /\ p[z + 1] \in Nat
        BY <3>1, <4>1, <2>1, <1>1
      <4> QED BY <4>2, <4>3
    <3> QED BY <3>2, <3>3
  <2>6. route(q, k) = z
    BY <2>3, <2>4, <2>5, <1>4, <1>5, RouteIs
  <2> QED BY <2>6 DEF z, y
<1> QED BY <1>3, <1>4, <1>5, <1>6, <1>7

(* remove_child finds the child where it is, and changes its parent only.  *)
LEMMA RemovedNodes ==
    ASSUME NEW ns, NEW r, NEW L, NEW rk, NEW iv, Shape(ns, r, L, rk, iv),
           NEW P \in L, ~ns[P].leaf, NEW j \in 1 .. Len(ns[P].children)
    PROVE  remove_child(ns, P, ns[P].children[j]) = [ns EXCEPT ![P] = Unlinked(ns[P], j)]
<1> DEFINE C == ns[P].children[j]
           s == ns[P].children
           at == SelectInSeq(s, LAMBDA c : c = C)
<1>1. Parented(ns, r, L, rk, P, j)
  BY ChildApart
<1>2. {i \in 1 .. Len(s) : s[i] = C} = {j}
  BY DEF Shape, Tree
<1>3. at = j
  <2> DEFINE I == {i \in 1 .. Len(s) : s[i] = C}
  <2>1. at = IF I # {} THEN Min(I) ELSE 0
    BY DEF SelectInSeq
  <2>2. Min({j}) = j
    <3>1. \A x : x \in {j} /\ (\A y \in {j} : x <= y) <=> x = j
      OBVIOUS
    <3> QED BY <3>1, Zenon DEF Min
  <2> HIDE DEF I
  <2>3. I = {j}
    BY <1>2 DEF I
  <2> QED BY <2>1, <2>2, <2>3
<1>4. remove_child(ns, P, C) =
        [ns EXCEPT ![P].children = RemoveAt(@, at),
                   ![P].pivots = IF at > 1 THEN RemoveAt(@, at - 1)
                                 ELSE IF @ # <<>> THEN RemoveAt(@, 1) ELSE @,
                   ![P].dirty = TRUE]
  BY DEF remove_child
<1> HIDE DEF at
<1>5. remove_child(ns, P, C) =
        [ns EXCEPT ![P].children = RemoveAt(@, j),
                   ![P].pivots = PivotsWithout(@, j),
                   ![P].dirty = TRUE]
  BY <1>3, <1>4 DEF PivotsWithout
<1>6. ns[P] \in InnerNode /\ P \in DOMAIN ns /\ Arena(ns)
  BY <1>1 DEF Parented, Shape
<1> HIDE DEF s
<1> QED BY <1>5, <1>6 DEF Unlinked, InnerNode, Arena

(* The parent stays well formed.                                           *)
LEMMA UnlinkedShape ==
    ASSUME NEW n \in InnerNode, Sorted(n.pivots), Len(n.children) = Len(n.pivots) + 1,
           NEW j \in 1 .. Len(n.children), Pending(n, j) = {}
    PROVE  /\ NodeOk(Unlinked(n, j)) /\ ~Unlinked(n, j).leaf
           /\ Unlinked(n, j).pivots = PivotsWithout(n.pivots, j)
           /\ Unlinked(n, j).children = RemoveAt(n.children, j)
           /\ Unlinked(n, j).buffer = n.buffer
<1> DEFINE m == Unlinked(n, j)
           p == n.pivots
           c == n.children
<1>1. /\ p \in Seq(Nat) /\ c \in Seq(Nat) /\ n.buffer \in Maps(MessagesOf(Nat)) /\ ~n.leaf
      /\ Len(p) \in Nat
  <2>1. p \in Seq(Nat) /\ c \in Seq(Nat) /\ n.buffer \in Maps(MessagesOf(Nat)) /\ ~n.leaf
    BY DEF InnerNode
  <2> QED BY <2>1
<1>2. m = [n EXCEPT !.children = RemoveAt(c, j), !.pivots = PivotsWithout(p, j), !.dirty = TRUE]
  BY DEF Unlinked
<1>3. RemoveAt(c, j) \in Seq(Nat) /\ Len(RemoveAt(c, j)) = Len(c) - 1
  BY <1>1, RemoveAtFacts
<1>4. PivotsWithout(p, j) \in Seq(Nat) /\ Sorted(PivotsWithout(p, j))
      /\ (Len(p) > 0 => Len(PivotsWithout(p, j)) = Len(p) - 1)
      /\ (Len(p) = 0 => PivotsWithout(p, j) = <<>>)
  <2>1. CASE Len(p) > 0
    <3>1. j \in 1 .. (Len(p) + 1)
      OBVIOUS
    <3> QED BY <2>1, <3>1, <1>1, PivotsLeft
  <2>2. CASE Len(p) = 0
    <3>1. p = <<>> /\ j = 1
      BY <2>2, <1>1
    <3>2. PivotsWithout(p, j) = p
      BY <3>1 DEF PivotsWithout
    <3>3. ~(Len(p) > 0)
      BY <2>2
    <3>4. PivotsWithout(p, j) = <<>>
      BY <3>1, <3>2, Zenon
    <3>5. PivotsWithout(p, j) \in Seq(Nat) /\ Sorted(PivotsWithout(p, j))
      BY <3>2, <1>1, Zenon
    <3> QED BY <3>3, <3>4, <3>5, Zenon
  <2> QED BY <2>1, <2>2, <1>1
<1>5. Len(p) = 0 => n.buffer = Empty
  <2> SUFFICES ASSUME Len(p) = 0, NEW k \in DOMAIN n.buffer PROVE FALSE
    <3>1. n.buffer = [k \in DOMAIN n.buffer |-> n.buffer[k]]
      BY <1>1, MapFacts
    <3> QED BY <3>1 DEF Empty
  <2>1. DOMAIN n.buffer \subseteq Keys
    BY <1>1, MapFacts
  <2>2. k \in Nat
    BY <2>1, KeysAssumption
  <2>3. route(p, k) \in 1 .. (Len(p) + 1)
    BY <2>2, <1>1, Routed
  <2>4. route(p, k) = j
    BY <2>3
  <2> QED BY <2>4 DEF Pending
<1> HIDE DEF m
<1>6. /\ m \in InnerNode /\ m.pivots = PivotsWithout(p, j) /\ m.children = RemoveAt(c, j)
      /\ m.buffer = n.buffer /\ ~m.leaf
  BY <1>1, <1>2, <1>3, <1>4 DEF InnerNode
<1>7. NodeOk(m)
  <2>1. CASE Len(p) > 0
    <3>1. Len(m.children) = Len(m.pivots) + 1
      BY <2>1, <1>1, <1>3, <1>4, <1>6
    <3> QED BY <3>1, <1>4, <1>6 DEF NodeOk
  <2>2. CASE Len(p) = 0
    <3>1. m.children = <<>>
      BY <2>2, <1>1, <1>3, <1>6
    <3> QED BY <3>1, <2>2, <1>4, <1>5, <1>6 DEF NodeOk
  <2> QED BY <2>1, <2>2, <1>1
<1> QED BY <1>6, <1>7 DEF m

(* A node that holds nothing at all.                                       *)
Hollow(n) == IF n.leaf THEN n.entries = Empty ELSE n.children = <<>>

RemoveKept(ns, r, L, rk, P, C, ns2) ==
    /\ \E iv : Shape(ns2, r, L \ {C}, rk, iv)
    /\ DOMAIN ns2 = DOMAIN ns /\ ~ns2[P].leaf
    /\ \A i \in DOMAIN ns \ {P} : ns2[i] = ns[i]
    /\ SameMap(ns, r, ns2, r)

(* remove_child keeps the shape and the map: the keys that were routed to  *)
(* the child are routed to a neighbour, which holds nothing for them.      *)
THEOREM RemoveKeeps ==
    ASSUME NEW ns, NEW r, NEW L, NEW rk, NEW iv, Shape(ns, r, L, rk, iv),
           NEW P \in L, ~ns[P].leaf, NEW j \in 1 .. Len(ns[P].children),
           Hollow(ns[ns[P].children[j]]), Pending(ns[P], j) = {}
    PROVE  RemoveKept(ns, r, L, rk, P, ns[P].children[j],
                      remove_child(ns, P, ns[P].children[j]))
<1> DEFINE C == ns[P].children[j]
           ns2 == remove_child(ns, P, C)
           L2 == L \ {C}
           n == ns[P]
           m == Unlinked(n, j)
<1>1. Parented(ns, r, L, rk, P, j)
  BY ChildApart
<1>2. /\ Arena(ns) /\ Ranked(ns, rk) /\ Tree(ns, r, L) /\ L \subseteq DOMAIN ns
      /\ r \in DOMAIN ns /\ r \in L
  BY DEF Shape, Tree
<1>3. /\ C \in DOMAIN ns /\ C # P /\ C # r /\ C \in L /\ P \in DOMAIN ns /\ n \in InnerNode
      /\ Sorted(n.pivots) /\ Len(n.children) = Len(n.pivots) + 1
      /\ n.pivots \in Seq(Nat) /\ n.children \in Seq(Nat) /\ Len(n.pivots) \in Nat
  <2>1. /\ C \in DOMAIN ns /\ C # P /\ C # r /\ C \in L /\ P \in DOMAIN ns /\ n \in InnerNode
        /\ Sorted(n.pivots) /\ Len(n.children) = Len(n.pivots) + 1
        /\ n.pivots \in Seq(Nat) /\ n.children \in Seq(Nat)
    BY <1>1 DEF Parented
  <2> QED BY <2>1
<1>4. /\ NodeOk(m) /\ ~m.leaf /\ m.pivots = PivotsWithout(n.pivots, j)
      /\ m.children = RemoveAt(n.children, j) /\ m.buffer = n.buffer
  BY <1>3, UnlinkedShape
<1>5. /\ DOMAIN ns2 = DOMAIN ns /\ ns2[P] = m /\ \A i \in DOMAIN ns \ {P} : ns2[i] = ns[i]
      /\ ns2 = [i \in DOMAIN ns |-> ns2[i]]
  <2>1. ns2 = [ns EXCEPT ![P] = m]
    BY RemovedNodes
  <2> HIDE DEF ns2, m
  <2> QED BY <2>1, <1>3
<1> HIDE DEF ns2, m
(* The children that stay.                                                 *)
<1> DEFINE old(y) == IF y < j THEN y ELSE y + 1
<1>6. /\ Len(m.children) = Len(n.children) - 1
      /\ \A y \in 1 .. Len(m.children) :
            /\ m.children[y] = n.children[old(y)] /\ old(y) \in 1 .. Len(n.children)
            /\ old(y) # j
  <2>1. /\ Len(m.children) = Len(n.children) - 1
        /\ \A y \in 1 .. (Len(n.children) - 1) :
              m.children[y] = IF y < j THEN n.children[y] ELSE n.children[y + 1]
    <3> DEFINE w == n.children
    <3>1. w \in Seq(Nat) /\ j \in 1 .. Len(w) /\ m.children = RemoveAt(w, j)
      BY <1>3, <1>4
    <3> HIDE DEF w
    <3>2. /\ Len(RemoveAt(w, j)) = Len(w) - 1
          /\ \A y \in 1 .. (Len(w) - 1) : RemoveAt(w, j)[y] = IF y < j THEN w[y] ELSE w[y + 1]
      BY <3>1, RemoveAtFacts
    <3>3. /\ Len(m.children) = Len(w) - 1
          /\ \A y \in 1 .. (Len(w) - 1) : m.children[y] = IF y < j THEN w[y] ELSE w[y + 1]
      BY <3>1, <3>2
    <3> QED BY <3>3 DEF w
  <2>2. ASSUME NEW y \in 1 .. Len(m.children)
        PROVE  /\ m.children[y] = n.children[old(y)] /\ old(y) \in 1 .. Len(n.children)
               /\ old(y) # j
    <3>1. y \in 1 .. (Len(n.children) - 1) /\ Len(n.children) \in Nat
      BY <2>1, <1>3
    <3>2. CASE y < j
      <4>1. old(y) = y
        BY <3>2
      <4> HIDE DEF old
      <4> QED BY <3>1, <3>2, <4>1, <2>1
    <3>3. CASE ~(y < j)
      <4>1. old(y) = y + 1
        BY <3>3
      <4> HIDE DEF old
      <4> QED BY <3>1, <3>3, <4>1, <2>1
    <3> QED BY <3>2, <3>3
  <2> QED BY <2>1, <2>2
<1>7. \A y \in 1 .. Len(m.children) : /\ m.children[y] \in L2
                                      /\ \A k \in Nat : route(n.pivots, k) = old(y) =>
                                            route(m.pivots, k) = y
  <2> SUFFICES ASSUME NEW y \in 1 .. Len(m.children)
               PROVE  /\ m.children[y] \in L2
                      /\ \A k \in Nat : route(n.pivots, k) = old(y) => route(m.pivots, k) = y
    OBVIOUS
  <2>1. m.children[y] = n.children[old(y)] /\ old(y) \in 1 .. Len(n.children) /\ old(y) # j
    BY <1>6
  <2>2. m.children[y] \in L2
    <3> HIDE DEF old
    <3> QED BY <2>1, <1>2 DEF Tree
  <2>3. Len(n.pivots) > 0 /\ j \in 1 .. (Len(n.pivots) + 1)
    BY <1>3, <1>6
  <2>4. \A k \in Nat : route(n.pivots, k) # j =>
           route(PivotsWithout(n.pivots, j), k) =
              IF route(n.pivots, k) < j THEN route(n.pivots, k) ELSE route(n.pivots, k) - 1
    BY <2>3, <1>3, PivotsLeft
  <2>5. ASSUME NEW k \in Nat, route(n.pivots, k) = old(y) PROVE route(m.pivots, k) = y
    <3>1. route(m.pivots, k) = IF old(y) < j THEN old(y) ELSE old(y) - 1
      <4> HIDE DEF old
      <4> QED BY <2>1, <2>4, <2>5, <1>4
    <3> QED BY <3>1, <1>6
  <2> QED BY <2>2, <2>5
<1> HIDE DEF old
<1>8. Arena(ns2)
  BY <1>2, <1>4, <1>5 DEF Arena
<1>9. Ranked(ns2, rk)
  <2>1. ASSUME NEW i \in DOMAIN ns2, ~ns2[i].leaf, NEW y \in 1 .. Len(ns2[i].children)
        PROVE  ns2[i].children[y] \in DOMAIN ns2 /\ rk[i] = rk[ns2[i].children[y]] + 1
    <3>1. CASE i = P
      <4>1. /\ ns2[i].children[y] = n.children[old(y)] /\ old(y) \in 1 .. Len(n.children)
        BY <3>1, <2>1, <1>5, <1>6
      <4> QED BY <4>1, <3>1, <1>2, <1>3, <1>5, SMTT(30) DEF Ranked
    <3>2. CASE i # P
      BY <3>2, <2>1, <1>2, <1>5, SMTT(30) DEF Ranked
    <3> QED BY <3>1, <3>2
  <2>2. \A i \in DOMAIN ns2 : ns2[i].leaf <=> rk[i] = 0
    BY <1>2, <1>4, <1>5 DEF Ranked
  <2>3. rk \in [DOMAIN ns2 -> Nat] /\ \E H \in Nat : \A i \in DOMAIN ns2 : rk[i] <= H
    BY <1>2, <1>5 DEF Ranked
  <2> QED BY <2>1, <2>2, <2>3 DEF Ranked
<1>10. Tree(ns2, r, L2)
  <2> DEFINE at(i, y) == IF i = P THEN old(y) ELSE y
  <2>1. ASSUME NEW i \in L2, ~ns2[i].leaf, NEW y \in 1 .. Len(ns2[i].children)
        PROVE  /\ ~ns[i].leaf /\ at(i, y) \in 1 .. Len(ns[i].children)
               /\ ns2[i].children[y] = ns[i].children[at(i, y)]
               /\ i = P => at(i, y) # j
    BY <2>1, <1>2, <1>5, <1>6
  <2>2. ASSUME NEW i \in L2, ~ns2[i].leaf, NEW y \in 1 .. Len(ns2[i].children)
        PROVE  ns2[i].children[y] \in L2 /\ ns2[i].children[y] # r
    <3>1. /\ ~ns[i].leaf /\ at(i, y) \in 1 .. Len(ns[i].children)
          /\ ns2[i].children[y] = ns[i].children[at(i, y)]
          /\ i = P => at(i, y) # j
      BY <2>1, <2>2
    <3> HIDE DEF at
    <3> QED BY <3>1, <1>2 DEF Tree
  <2>3. ASSUME NEW i \in L2, ~ns2[i].leaf, NEW y \in 1 .. Len(ns2[i].children),
               NEW x \in L2, ~ns2[x].leaf, NEW z \in 1 .. Len(ns2[x].children),
               ns2[x].children[z] = ns2[i].children[y]
        PROVE  x = i /\ z = y
    <3>1. /\ ~ns[i].leaf /\ at(i, y) \in 1 .. Len(ns[i].children)
          /\ ns2[i].children[y] = ns[i].children[at(i, y)]
      BY <2>1, <2>3
    <3>2. /\ ~ns[x].leaf /\ at(x, z) \in 1 .. Len(ns[x].children)
          /\ ns2[x].children[z] = ns[x].children[at(x, z)]
      BY <2>1, <2>3
    <3>3. x = i /\ at(x, z) = at(i, y)
      <4> HIDE DEF at
      <4> QED BY <3>1, <3>2, <2>3, <1>2 DEF Tree
    <3>4. CASE i # P
      BY <3>3, <3>4
    <3>5. CASE i = P
      <4>1. old(z) = old(y) /\ y \in 1 .. Len(m.children) /\ z \in 1 .. Len(m.children)
        BY <3>3, <3>5, <2>3, <1>5
      <4>2. y \in Int /\ z \in Int /\ j \in Int
        BY <4>1
      <4>3. z = y
        <5>1. (IF z < j THEN z ELSE z + 1) = (IF y < j THEN y ELSE y + 1)
          BY <4>1 DEF old
        <5> QED BY <4>2, <5>1
      <4> QED BY <4>3, <3>3
    <3> QED BY <3>4, <3>5
  <2>4. L2 \subseteq DOMAIN ns2 /\ r \in L2
    BY <1>2, <1>3, <1>5
  <2> QED BY <2>2, <2>3, <2>4 DEF Tree
<1>11. Ranges(ns2, r, L2, iv)
  <2>1. Ranges(ns, r, L, iv)
    BY DEF Shape
  <2>2. iv \in [DOMAIN ns2 -> SUBSET Nat] /\ iv[r] = Nat
    BY <2>1, <1>5 DEF Ranges
  <2>3. ASSUME NEW i \in L2, i # P
        PROVE  /\ DOMAIN HeldBy(ns2[i]) \subseteq iv[i]
               /\ ~ns2[i].leaf =>
                  /\ \A p \in 1 .. Len(ns2[i].pivots) :
                      ns2[i].pivots[p] \in iv[i] /\ \E x \in iv[i] : x < ns2[i].pivots[p]
                  /\ \A y \in 1 .. Len(ns2[i].children) :
                      \A k \in iv[ns2[i].children[y]] :
                         k \in iv[i] /\ route(ns2[i].pivots, k) = y
    <3>1. ns2[i] = ns[i]
      BY <2>3, <1>2, <1>5
    <3> QED BY <2>1, <3>1 DEF Ranges
  <2>4. DOMAIN HeldBy(m) \subseteq iv[P]
    BY <2>1, <1>4 DEF Ranges, HeldBy
  <2>5. ASSUME NEW p \in 1 .. Len(m.pivots)
        PROVE  m.pivots[p] \in iv[P] /\ \E x \in iv[P] : x < m.pivots[p]
    <3>1. CASE Len(n.pivots) > 0
      <4>1. j \in 1 .. (Len(n.pivots) + 1)
        BY <1>3
      <4>2. /\ Len(PivotsWithout(n.pivots, j)) = Len(n.pivots) - 1
            /\ \A x \in 1 .. (Len(n.pivots) - 1) :
                  \E y \in 1 .. Len(n.pivots) : PivotsWithout(n.pivots, j)[x] = n.pivots[y]
        BY <3>1, <4>1, <1>3, PivotsLeft
      <4>3. PICK y \in 1 .. Len(n.pivots) : m.pivots[p] = n.pivots[y]
        BY <4>2, <1>4
      <4> QED BY <4>3, <2>1 DEF Ranges
    <3>2. CASE ~(Len(n.pivots) > 0)
      <4>1. n.pivots = <<>> /\ j = 1
        BY <3>2, <1>3
      <4>2. m.pivots = <<>>
        BY <4>1, <1>4 DEF PivotsWithout
      <4> QED BY <4>2
    <3> QED BY <3>1, <3>2
  <2>6. ASSUME NEW y \in 1 .. Len(m.children), NEW k \in iv[m.children[y]]
        PROVE  k \in iv[P] /\ route(m.pivots, k) = y
    <3>1. m.children[y] = n.children[old(y)] /\ old(y) \in 1 .. Len(n.children)
      BY <1>6
    <3>2. k \in iv[P] /\ route(n.pivots, k) = old(y)
      BY <2>6, <3>1, <2>1 DEF Ranges
    <3>3. k \in Nat
      BY <3>2, <2>2, <1>3, <1>5
    <3> QED BY <3>2, <3>3, <1>7
  <2>7. ns2[P] = m
    BY <1>5
  <2> QED BY <2>2, <2>3, <2>4, <2>5, <2>6, <2>7 DEF Ranges
<1>12. SameMap(ns, r, ns2, r)
  <2> SUFFICES ASSUME NEW k \in Nat PROVE Get(ns2, r, k) = Get(ns, r, k)
    BY DEF SameMap
  <2> SUFFICES ASSUME NEW v, NEW v2, Vals(ns, k, v), Vals(ns2, k, v2) PROVE v2[r] = v[r]
    BY <1>2, <1>5, <1>8, <1>9, SameGet
  <2>1. ASSUME \A c \in L \ {C} : rk[c] < rk[P] => v2[c] = v[c] PROVE v2[P] = v[P]
    <3>1. /\ v2[P] = ValueAt(m, k, v2) /\ v[P] = ValueAt(n, k, v) /\ v[C] = ValueAt(ns[C], k, v)
      BY <1>3, <1>5 DEF Vals
    <3> DEFINE y == route(n.pivots, k)
    <3>2. Routable(ns, rk, P, k) /\ n.children # <<>>
      <4>1. n.children # <<>>
        BY <1>3
      <4> QED BY <4>1, <1>2, <1>3, ChildFacts
    <3>3. y \in 1 .. Len(n.children) /\ n.children[y] = Child(n, k)
      BY <3>2 DEF Routable, Child
    <3>4. ASSUME NEW z \in 1 .. Len(m.children)
          PROVE  m.children[z] \in L2 /\ v2[m.children[z]] = v[m.children[z]]
      <4>1. m.children[z] \in L2 /\ m.children[z] = n.children[old(z)]
            /\ old(z) \in 1 .. Len(n.children)
        BY <1>6, <1>7
      <4>2. rk[P] = rk[m.children[z]] + 1 /\ rk[m.children[z]] \in Nat
        <5>1. P \in DOMAIN ns /\ ~ns[P].leaf /\ n = ns[P] /\ Ranked(ns, rk)
          BY <1>2, <1>3
        <5>2. /\ n.children[old(z)] \in DOMAIN ns
              /\ rk[P] = rk[n.children[old(z)]] + 1
          BY <5>1, <4>1, Zenon DEF Ranked
        <5>3. rk[n.children[old(z)]] \in Nat
          BY <5>1, <5>2 DEF Ranked
        <5> QED BY <5>2, <5>3, <4>1
      <4> QED BY <4>1, <4>2, <2>1, SMTT(30)
    <3> HIDE DEF y
    <3>5. Below(m, k, v2) = Below(n, k, v)
      <4>1. CASE y # j
        <5>1. PICK z \in 1 .. Len(m.children) : y = old(z)
          <6> DEFINE z == IF y < j THEN y ELSE y - 1
          <6>1. z \in 1 .. Len(m.children) /\ y = old(z)
            <7>1. y \in Nat /\ j \in Nat /\ y <= Len(n.children) /\ j <= Len(n.children)
                  /\ 1 <= y /\ 1 <= j /\ Len(n.children) \in Nat
              BY <3>3, <1>3
            <7>2. CASE y < j
              <8>1. z = y /\ old(z) = y
                BY <7>2 DEF old
              <8> HIDE DEF z
              <8> QED BY <7>1, <7>2, <8>1, <1>6
            <7>3. CASE ~(y < j)
              <8>1. z = y - 1
                BY <7>3
              <8> HIDE DEF z
              <8>2. ~(z < j) /\ z + 1 = y /\ z \in 1 .. Len(m.children)
                BY <7>1, <7>3, <8>1, <4>1, <1>6
              <8> QED BY <8>2 DEF old
            <7> QED BY <7>2, <7>3
          <6> QED BY <6>1
        <5>2. route(m.pivots, k) = z /\ m.children[z] = n.children[y]
          BY <5>1, <1>6, <1>7 DEF y
        <5>3. m.children # <<>>
          BY <5>1
        <5> QED BY <3>2, <3>3, <3>4, <5>1, <5>2, <5>3 DEF Below, Child
      <4>2. CASE y = j
        <5>1. v[C] = NoValue
          <6>1. CASE ns[C].leaf
            BY <6>1, <3>1 DEF Hollow, ValueAt, ValueIn, Empty
          <6>2. CASE ~ns[C].leaf
            <7>1. ns[C].children = <<>> /\ NodeOk(ns[C])
              BY <6>2, <1>2, <1>3 DEF Hollow, Arena
            <7>2. ns[C].buffer = Empty
              <8>1. ns[C] \in InnerNode
                BY <6>2, <7>1 DEF NodeOk, LeafNode
              <8>2. Len(ns[C].children) = 0 /\ Len(ns[C].pivots) \in Nat
                <9>1. ns[C].pivots \in Seq(Nat)
                  BY <8>1 DEF InnerNode
                <9> QED BY <7>1, <9>1, SMTT(30)
              <8>3. ns[C] \notin LeafNode /\ ~(Len(ns[C].children) = Len(ns[C].pivots) + 1)
                <9>1. ns[C] \notin LeafNode
                  BY <6>2 DEF LeafNode
                <9>2. ~(Len(ns[C].children) = Len(ns[C].pivots) + 1)
                  BY <8>2
                <9> QED BY <9>1, <9>2
              <8> QED BY <7>1, <8>3 DEF NodeOk
            <7> QED BY <6>2, <7>1, <7>2, <3>1 DEF ValueAt, Below, Empty
          <6> QED BY <6>1, <6>2
        <5>2. Below(n, k, v) = NoValue
          BY <4>2, <3>2, <3>3, <5>1 DEF Below
        <5>3. CASE m.children = <<>>
          BY <5>2, <5>3 DEF Below
        <5>4. CASE m.children # <<>>
          <6> DEFINE z == route(m.pivots, k)
          <6>1. Routable(ns2, rk, P, k)
            BY <5>4, <1>3, <1>4, <1>5, <1>8, <1>9, ChildFacts
          <6>2. z \in 1 .. Len(m.children) /\ m.children[z] = Child(m, k)
            BY <6>1, <1>5 DEF Routable, Child
          <6> HIDE DEF z
          <6>3. m.children[z] = n.children[old(z)] /\ old(z) \in 1 .. Len(n.children) /\ old(z) # j
            BY <6>2, <1>6
          <6>4. k \notin iv[m.children[z]]
            <7> SUFFICES ASSUME k \in iv[m.children[z]] PROVE FALSE
              OBVIOUS
            <7>1. route(n.pivots, k) = old(z)
              BY <6>3 DEF Shape, Ranges
            <7> QED BY <7>1, <6>3, <4>2 DEF y
          <6>5. v[m.children[z]] = NoValue
            BY <6>2, <6>4, <3>4, OutOfRange
          <6> QED BY <5>2, <5>4, <6>2, <6>5, <3>4 DEF Below
        <5> QED BY <5>3, <5>4
      <4> QED BY <4>1, <4>2
    <3> QED BY <3>1, <3>5, <1>4 DEF ValueAt
  <2>2. \A i \in L \ {P, C} : Alike(ns2[i], ns[i])
    BY <1>2, <1>5 DEF Alike
  <2>3. \A i \in L \ {C} : v2[i] = v[i]
    <3>1. L \ {C} \subseteq DOMAIN ns2
      BY <1>2, <1>5
    <3>2. (\A c \in L \ {C} : rk[c] < rk[P] => v2[c] = v[c]) => v2[P] = v[P]
      BY <2>1
    <3> QED BY <2>2, <3>1, <3>2, Frame
  <2> QED BY <2>3, <1>2, <1>3
<1>13. Shape(ns2, r, L2, rk, iv)
  BY <1>8, <1>9, <1>10, <1>11 DEF Shape
<1>14. ~ns2[P].leaf
  BY <1>4, <1>5
<1> QED BY <1>5, <1>12, <1>13, <1>14 DEF RemoveKept, ns2

-----------------------------------------------------------------------------
(* A node is split in two                                                  *)

(* With one more pivot in order, only the keys of the child that it        *)
(* divides are routed anew, by the side of the pivot that they are on.     *)
LEMMA RouteInserted ==
    ASSUME NEW p \in Seq(Nat), Sorted(p), NEW s \in Nat, NEW j \in 1 .. (Len(p) + 1),
           j > 1 => p[j - 1] < s, j <= Len(p) => s < p[j]
    PROVE  /\ InsertAt(p, j, s) \in Seq(Nat) /\ Sorted(InsertAt(p, j, s))
           /\ Len(InsertAt(p, j, s)) = Len(p) + 1
           /\ \A x \in 1 .. (Len(p) + 1) :
                 InsertAt(p, j, s)[x] = IF x < j THEN p[x] ELSE IF x = j THEN s ELSE p[x - 1]
           /\ \A k \in Nat :
                 /\ route(p, k) < j => route(InsertAt(p, j, s), k) = route(p, k)
                 /\ route(p, k) = j => route(InsertAt(p, j, s), k) = IF k < s THEN j ELSE j + 1
                 /\ route(p, k) > j => route(InsertAt(p, j, s), k) = route(p, k) + 1
<1> DEFINE q == InsertAt(p, j, s)
<1>1. Len(p) \in Nat /\ \A x \in 1 .. Len(p) : p[x] \in Nat
  OBVIOUS
<1>2. /\ q \in Seq(Nat) /\ Len(q) = Len(p) + 1
      /\ \A x \in 1 .. (Len(p) + 1) : q[x] = IF x < j THEN p[x] ELSE IF x = j THEN s ELSE p[x - 1]
  <2>1. Inserted(Nat, p, j, s, InsertAt(p, j, s))
    BY InsertAtFacts
  <2> QED BY <2>1, Zenon DEF Inserted
<1> HIDE DEF q
<1>3. \A a, b \in 1 .. Len(p) : a < b => p[a] < p[b]
  BY DEF Sorted
<1>4. ASSUME NEW x \in 1 .. Len(p) PROVE (x < j => p[x] < s) /\ (~(x < j) => s < p[x])
  <2>1. CASE x < j
    <3>1. j - 1 \in 1 .. Len(p) /\ j > 1 /\ (x = j - 1 \/ x < j - 1)
      BY <2>1, <1>1
    <3>2. x < j - 1 => p[x] < p[j - 1]
      BY <3>1, <1>3
    <3> QED BY <2>1, <3>1, <3>2, <1>1
  <2>2. CASE ~(x < j)
    <3>1. j \in 1 .. Len(p) /\ (x = j \/ j < x)
      BY <2>2, <1>1
    <3>2. j < x => p[j] < p[x]
      BY <3>1, <1>3
    <3> QED BY <2>2, <3>1, <3>2, <1>1
  <2> QED BY <2>1, <2>2
<1>5. Sorted(q)
  <2> SUFFICES ASSUME NEW x \in 1 .. Len(q), NEW y \in 1 .. Len(q), x < y PROVE q[x] < q[y]
    BY DEF Sorted
  <2>0. x \in 1 .. (Len(p) + 1) /\ y \in 1 .. (Len(p) + 1)
    BY <1>2
  <2>1. CASE y < j
    <3>1. x < j /\ x \in 1 .. Len(p) /\ y \in 1 .. Len(p)
      BY <2>0, <2>1, <1>1, SMTT(30)
    <3> QED BY <2>0, <2>1, <3>1, <1>2, <1>3
  <2>2. CASE y = j
    <3>1. x < j /\ x \in 1 .. Len(p)
      BY <2>0, <2>2, <1>1
    <3>2. q[x] = p[x] /\ q[y] = s /\ p[x] < s
      BY <2>0, <2>2, <3>1, <1>2, <1>4, SMTT(30)
    <3> QED BY <3>2
  <2>3. CASE ~(y < j) /\ y # j
    <3>1. y - 1 \in 1 .. Len(p) /\ ~(y - 1 < j) /\ q[y] = p[y - 1]
      BY <2>0, <2>3, <1>1, <1>2
    <3>2. s < p[y - 1]
      BY <3>1, <1>4
    <3>3. CASE x < j
      <4>1. x \in 1 .. Len(p) /\ x < y - 1 /\ q[x] = p[x]
        BY <2>0, <3>3, <3>1, <1>1, <1>2
      <4> QED BY <3>1, <4>1, <1>3
    <3>4. CASE x = j
      BY <2>0, <3>4, <3>1, <3>2, <1>2, SMTT(30)
    <3>5. CASE ~(x < j) /\ x # j
      <4>1. x - 1 \in 1 .. Len(p) /\ x - 1 < y - 1 /\ q[x] = p[x - 1]
        BY <2>0, <3>5, <1>1, <1>2
      <4> QED BY <3>1, <4>1, <1>3
    <3> QED BY <3>3, <3>4, <3>5
  <2> QED BY <2>1, <2>2, <2>3
<1>6. ASSUME NEW k \in Nat, NEW z \in 1 .. (Len(p) + 2),
             z > 1 => q[z - 1] <= k, z <= Len(p) + 1 => k < q[z]
      PROVE  route(q, k) = z
  <2>1. z \in 1 .. (Len(q) + 1) /\ (z <= Len(q) => k < q[z])
    BY <1>1, <1>2, <1>6
  <2> QED BY <2>1, <1>2, <1>5, <1>6, RouteIs
<1>7. ASSUME NEW k \in Nat
      PROVE  /\ route(p, k) < j => route(q, k) = route(p, k)
             /\ route(p, k) = j => route(q, k) = IF k < s THEN j ELSE j + 1
             /\ route(p, k) > j => route(q, k) = route(p, k) + 1
  <2> DEFINE y == route(p, k)
  <2>1. y \in 1 .. (Len(p) + 1) /\ \A x \in 1 .. Len(p) : p[x] <= k <=> x < y
    BY Routed
  <2> HIDE DEF y
  <2>2. CASE y < j
    <3>1. y \in 1 .. (Len(p) + 2) /\ y \in 1 .. Len(p) /\ y \in 1 .. (Len(p) + 1)
      BY <2>1, <2>2, <1>1
    <3>2. k < q[y]
      <4>1. q[y] = p[y] /\ ~(y < y) /\ p[y] \in Nat
        BY <3>1, <2>2, <1>1, <1>2, SMTT(30)
      <4> QED BY <3>1, <4>1, <2>1
    <3>3. y > 1 => q[y - 1] <= k
      <4> SUFFICES ASSUME y > 1 PROVE q[y - 1] <= k
        OBVIOUS
      <4>1. y - 1 \in 1 .. Len(p) /\ y - 1 \in 1 .. (Len(p) + 1) /\ y - 1 < j /\ y - 1 < y
        BY <2>2, <3>1, <1>1
      <4> QED BY <4>1, <2>1, <1>2
    <3>4. route(q, k) = y
      BY <3>1, <3>2, <3>3, <1>6
    <3> QED BY <2>2, <3>4, <2>1 DEF y
  <2>3. CASE y = j /\ k < s
    <3>1. j \in 1 .. (Len(p) + 2) /\ k < q[j]
      BY <2>3, <1>1, <1>2
    <3>2. j > 1 => q[j - 1] <= k
      <4> SUFFICES ASSUME j > 1 PROVE q[j - 1] <= k
        OBVIOUS
      <4>1. j - 1 \in 1 .. Len(p) /\ j - 1 \in 1 .. (Len(p) + 1) /\ j - 1 < j /\ j - 1 < y
        BY <2>3, <1>1
      <4> QED BY <4>1, <2>1, <1>2
    <3>3. route(q, k) = j
      BY <3>1, <3>2, <1>6
    <3> QED BY <2>3, <3>3 DEF y
  <2>4. CASE y = j /\ ~(k < s)
    <3>1. j + 1 \in 1 .. (Len(p) + 2) /\ q[(j + 1) - 1] <= k
      BY <2>4, <1>1, <1>2
    <3>2. j + 1 <= Len(p) + 1 => k < q[j + 1]
      <4> SUFFICES ASSUME j + 1 <= Len(p) + 1 PROVE k < q[j + 1]
        OBVIOUS
      <4>1. j \in 1 .. Len(p) /\ j + 1 \in 1 .. (Len(p) + 1) /\ ~(j < y) /\ q[j + 1] = p[(j + 1) - 1]
            /\ (j + 1) - 1 = j
        BY <2>4, <1>1, <1>2, SMTT(30)
      <4> QED BY <4>1, <2>1, <1>1
    <3>3. route(q, k) = j + 1
      BY <3>1, <3>2, <1>6
    <3> QED BY <2>4, <3>3 DEF y
  <2>5. CASE y > j
    <3>1. y + 1 \in 1 .. (Len(p) + 2) /\ y - 1 \in 1 .. Len(p) /\ y \in 1 .. (Len(p) + 1)
          /\ (y + 1) - 1 = y
      BY <2>1, <2>5, <1>1
    <3>2. q[y] = p[y - 1] /\ y - 1 < y
      BY <2>5, <3>1, <1>2
    <3>3. q[(y + 1) - 1] <= k
      BY <3>1, <3>2, <2>1
    <3>4. y + 1 <= Len(p) + 1 => k < q[y + 1]
      <4> SUFFICES ASSUME y + 1 <= Len(p) + 1 PROVE k < q[y + 1]
        OBVIOUS
      <4>1. y \in 1 .. Len(p) /\ y + 1 \in 1 .. (Len(p) + 1) /\ ~(y < y) /\ ~(y + 1 < j) /\ y + 1 # j
        BY <2>1, <2>5, <1>1
      <4>2. q[y + 1] = p[(y + 1) - 1]
        BY <4>1, <1>2
      <4> QED BY <3>1, <4>1, <4>2, <2>1, <1>1
    <3>5. route(q, k) = y + 1
      BY <3>1, <3>3, <3>4, <1>6
    <3> QED BY <2>5, <3>5, <2>1 DEF y
  <2>6. y \in Nat /\ j \in Nat
    BY <2>1, <1>1
  <2> QED BY <2>2, <2>3, <2>4, <2>5, <2>6 DEF y
<1> QED BY <1>2, <1>5, <1>7 DEF q

(* a and b are the halves of node n that hold the keys below s and from s  *)
(* on; an internal node is cut at its t-th pivot, which is s.              *)
HalvesOf(n, s, t, a, b) ==
    /\ NodeOk(a) /\ NodeOk(b) /\ (a.leaf <=> n.leaf) /\ (b.leaf <=> n.leaf)
    /\ HeldBy(a) = Restrict(HeldBy(n), {k \in DOMAIN HeldBy(n) : k < s})
    /\ HeldBy(b) = Restrict(HeldBy(n), {k \in DOMAIN HeldBy(n) : ~(k < s)})
    /\ ~n.leaf =>
          /\ t \in 1 .. Len(n.pivots) /\ s = n.pivots[t]
          /\ Len(a.pivots) = t - 1 /\ Len(b.pivots) = Len(n.pivots) - t
          /\ \A x \in 1 .. (t - 1) : a.pivots[x] = n.pivots[x]
          /\ \A x \in 1 .. (Len(n.pivots) - t) : b.pivots[x] = n.pivots[t + x]
          /\ Len(a.children) = t /\ Len(b.children) = Len(n.children) - t
          /\ \A x \in 1 .. t : a.children[x] = n.children[x]
          /\ \A x \in 1 .. (Len(n.children) - t) : b.children[x] = n.children[t + x]

(* A half of an internal node routes its keys as the whole did.            *)
LEMMA HalfRoutes ==
    ASSUME NEW n, NodeOk(n), ~n.leaf, NEW s \in Nat, NEW t, NEW a, NEW b, HalvesOf(n, s, t, a, b),
           NEW k \in Nat
    PROVE  /\ k < s => route(a.pivots, k) = route(n.pivots, k) /\ route(n.pivots, k) \in 1 .. t
           /\ ~(k < s) => /\ route(b.pivots, k) = route(n.pivots, k) - t
                          /\ route(n.pivots, k) - t \in 1 .. (Len(n.children) - t)
           /\ Len(n.children) = Len(n.pivots) + 1 /\ Len(n.pivots) \in Nat
           /\ route(n.pivots, k) \in Nat
<1> DEFINE p == n.pivots
           y == route(p, k)
<1>1. n \in InnerNode /\ a \in InnerNode /\ b \in InnerNode
  BY DEF HalvesOf, NodeOk, LeafNode
<1>2. p \in Seq(Nat) /\ a.pivots \in Seq(Nat) /\ b.pivots \in Seq(Nat)
  BY <1>1 DEF InnerNode
<1>3. Sorted(p) /\ Sorted(a.pivots) /\ Sorted(b.pivots)
  BY DEF HalvesOf, NodeOk, LeafNode
<1>4. /\ t \in 1 .. Len(p) /\ s = p[t]
      /\ Len(a.pivots) = t - 1 /\ Len(b.pivots) = Len(p) - t
      /\ \A x \in 1 .. (t - 1) : a.pivots[x] = p[x]
      /\ \A x \in 1 .. (Len(p) - t) : b.pivots[x] = p[t + x]
  BY DEF HalvesOf
<1>5. Len(p) \in Nat /\ \A x \in 1 .. Len(p) : p[x] \in Nat
  BY <1>2
<1>6. Len(n.children) = Len(p) + 1
  <2>1. p # <<>>
    BY <1>4, <1>5
  <2> QED BY <2>1 DEF NodeOk, LeafNode
<1>7. y \in 1 .. (Len(p) + 1) /\ \A x \in 1 .. Len(p) : p[x] <= k <=> x < y
  BY <1>2, <1>3, Routed
<1> HIDE DEF y, p
<1>8. ASSUME k < s PROVE route(a.pivots, k) = y /\ y \in 1 .. t
  <2>1. ~(t < y)
    BY <1>4, <1>5, <1>7, <1>8
  <2>2. y \in 1 .. (Len(a.pivots) + 1) /\ y \in 1 .. t
    BY <2>1, <1>4, <1>5, <1>7
  <2>3. y > 1 => a.pivots[y - 1] <= k
    <3> SUFFICES ASSUME y > 1 PROVE a.pivots[y - 1] <= k
      OBVIOUS
    <3>1. y - 1 \in 1 .. (t - 1) /\ y - 1 \in 1 .. Len(p) /\ y - 1 < y
      BY <2>2, <1>4, <1>5
    <3> QED BY <3>1, <1>4, <1>7
  <2>4. y <= Len(a.pivots) => k < a.pivots[y]
    <3> SUFFICES ASSUME y <= Len(a.pivots) PROVE k < a.pivots[y]
      OBVIOUS
    <3>1. y \in 1 .. (t - 1) /\ y \in 1 .. Len(p) /\ ~(y < y)
      BY <2>2, <1>4, <1>5
    <3>2. a.pivots[y] = p[y] /\ p[y] \in Nat /\ ~(p[y] <= k)
      BY <3>1, <1>4, <1>5, <1>7
    <3> QED BY <3>2
  <2> QED BY <2>2, <2>3, <2>4, <1>2, <1>3, RouteIs
<1>9. ASSUME ~(k < s)
      PROVE  route(b.pivots, k) = y - t /\ y - t \in 1 .. (Len(n.children) - t)
  <2>1. t < y
    BY <1>4, <1>5, <1>7, <1>9
  <2>2. y - t \in 1 .. (Len(b.pivots) + 1) /\ y - t \in 1 .. (Len(n.children) - t)
    BY <2>1, <1>4, <1>5, <1>6, <1>7
  <2>3. y - t > 1 => b.pivots[(y - t) - 1] <= k
    <3> SUFFICES ASSUME y - t > 1 PROVE b.pivots[(y - t) - 1] <= k
      OBVIOUS
    <3>1. (y - t) - 1 \in 1 .. (Len(p) - t) /\ t + ((y - t) - 1) = y - 1
          /\ y - 1 \in 1 .. Len(p) /\ y - 1 < y
      BY <2>2, <1>4, <1>5, <1>7
    <3> QED BY <3>1, <1>4, <1>7
  <2>4. y - t <= Len(b.pivots) => k < b.pivots[y - t]
    <3> SUFFICES ASSUME y - t <= Len(b.pivots) PROVE k < b.pivots[y - t]
      OBVIOUS
    <3>1. y - t \in 1 .. (Len(p) - t) /\ t + (y - t) = y /\ y \in 1 .. Len(p) /\ ~(y < y)
      BY <2>2, <1>4, <1>5, <1>7
    <3>2. b.pivots[y - t] = p[y] /\ p[y] \in Nat /\ ~(p[y] <= k)
      BY <3>1, <1>4, <1>5, <1>7
    <3> QED BY <3>2
  <2> QED BY <2>2, <2>3, <2>4, <1>2, <1>3, RouteIs
<1>10. y \in Nat
  BY <1>5, <1>7
<1> QED BY <1>5, <1>6, <1>8, <1>9, <1>10 DEF y, p

(* Each half gives the keys on its side the value that the node gave them. *)
LEMMA HalfValue ==
    ASSUME NEW n, NodeOk(n), NEW s \in Nat, NEW t, NEW a, NEW b, HalvesOf(n, s, t, a, b),
           NEW k \in Nat, NEW v, NEW w, ~n.leaf => w[Child(n, k)] = v[Child(n, k)]
    PROVE  /\ k < s => ValueAt(a, k, w) = ValueAt(n, k, v)
           /\ ~(k < s) => ValueAt(b, k, w) = ValueAt(n, k, v)
<1> DEFINE h == HeldBy(n)
<1>1. (a.leaf <=> n.leaf) /\ (b.leaf <=> n.leaf)
  BY DEF HalvesOf
<1>2. /\ k < s => /\ k \in DOMAIN HeldBy(a) <=> k \in DOMAIN h
                  /\ k \in DOMAIN h => HeldBy(a)[k] = h[k]
      /\ ~(k < s) => /\ k \in DOMAIN HeldBy(b) <=> k \in DOMAIN h
                     /\ k \in DOMAIN h => HeldBy(b)[k] = h[k]
  <2>1. /\ HeldBy(a) = Restrict(h, {x \in DOMAIN h : x < s})
        /\ HeldBy(b) = Restrict(h, {x \in DOMAIN h : ~(x < s)})
    BY DEF HalvesOf
  <2> HIDE DEF h
  <2> QED BY <2>1 DEF Restrict
<1>3. CASE n.leaf
  BY <1>1, <1>2, <1>3 DEF ValueAt, ValueIn, HeldBy
<1>4. CASE ~n.leaf
  <2> DEFINE y == route(n.pivots, k)
  <2>1. /\ k < s => route(a.pivots, k) = y /\ y \in 1 .. t
        /\ ~(k < s) => route(b.pivots, k) = y - t /\ y - t \in 1 .. (Len(n.children) - t)
        /\ Len(n.children) = Len(n.pivots) + 1 /\ Len(n.pivots) \in Nat
        /\ y \in Nat
    BY <1>4, HalfRoutes
  <2>2. /\ t \in 1 .. Len(n.pivots)
        /\ Len(a.children) = t /\ Len(b.children) = Len(n.children) - t
        /\ \A x \in 1 .. t : a.children[x] = n.children[x]
        /\ \A x \in 1 .. (Len(n.children) - t) : b.children[x] = n.children[t + x]
    BY <1>4 DEF HalvesOf
  <2>3. y \in Nat
    BY <2>1, <2>2
  <2> HIDE DEF y
  <2>4. a.children # <<>> /\ b.children # <<>> /\ n.children # <<>>
    BY <2>1, <2>2
  <2>5. Child(n, k) = n.children[y]
    BY DEF Child, y
  <2>6. k < s => Below(a, k, w) = Below(n, k, v)
    BY <1>4, <2>1, <2>2, <2>4, <2>5 DEF Below, Child
  <2>7. ~(k < s) => Below(b, k, w) = Below(n, k, v)
    <3> SUFFICES ASSUME ~(k < s) PROVE Below(b, k, w) = Below(n, k, v)
      OBVIOUS
    <3>1. Child(b, k) = n.children[t + (y - t)] /\ t + (y - t) = y
      BY <2>1, <2>2, <2>3 DEF Child
    <3> QED BY <3>1, <1>4, <2>4, <2>5 DEF Below
  <2> QED BY <1>1, <1>2, <1>4, <2>6, <2>7 DEF ValueAt, HeldBy
<1> QED BY <1>3, <1>4

(* Promote puts pivot and child where they belong.                         *)
LEMMA PromoteIs ==
    ASSUME NEW n \in InnerNode, Sorted(n.pivots), Len(n.children) = Len(n.pivots) + 1,
           NEW s \in Nat, NEW q \in Nat, NEW j \in 1 .. Len(n.children),
           j > 1 => n.pivots[j - 1] < s, j <= Len(n.pivots) => s < n.pivots[j]
    PROVE  LET m == Promote(n, <<s, q>>)
           IN  /\ NodeOk(m) /\ m \in InnerNode /\ ~m.leaf /\ m.buffer = n.buffer
               /\ m.pivots = InsertAt(n.pivots, j, s)
               /\ Len(m.children) = Len(n.children) + 1
               /\ Len(m.children) = Len(m.pivots) + 1
               /\ \A y \in 1 .. (Len(n.children) + 1) :
                     m.children[y] = IF y <= j THEN n.children[y] ELSE IF y = j + 1 THEN q
                                     ELSE n.children[y - 1]
<1> DEFINE m == Promote(n, <<s, q>>)
           pos == 1 + Cardinality({i \in DOMAIN n.pivots : n.pivots[i] < s})
<1>1. /\ n.pivots \in Seq(Nat) /\ n.children \in Seq(Nat) /\ n.buffer \in Maps(MessagesOf(Nat))
      /\ ~n.leaf
  BY DEF InnerNode
<1>2. Len(n.pivots) \in Nat /\ Len(n.children) \in Nat /\ j \in 1 .. (Len(n.pivots) + 1)
  BY <1>1
<1>3. pos = j
  BY <1>1, <1>2, PlaceIs
<1>4. m = [n EXCEPT !.pivots = InsertAt(@, pos, s), !.children = InsertAt(@, pos + 1, q),
                    !.dirty = TRUE]
  <2>1. <<s, q>>[1] = s /\ <<s, q>>[2] = q
    OBVIOUS
  <2> QED BY <2>1 DEF Promote
<1> HIDE DEF pos
<1>5. m = [n EXCEPT !.pivots = InsertAt(n.pivots, j, s), !.children = InsertAt(n.children, j + 1, q),
                    !.dirty = TRUE]
  BY <1>3, <1>4
<1>6. /\ InsertAt(n.pivots, j, s) \in Seq(Nat) /\ Sorted(InsertAt(n.pivots, j, s))
      /\ Len(InsertAt(n.pivots, j, s)) = Len(n.pivots) + 1
  BY <1>1, <1>2, RouteInserted
<1>7. /\ InsertAt(n.children, j + 1, q) \in Seq(Nat)
      /\ Len(InsertAt(n.children, j + 1, q)) = Len(n.children) + 1
      /\ \A y \in 1 .. (Len(n.children) + 1) : InsertAt(n.children, j + 1, q)[y] =
            IF y < j + 1 THEN n.children[y] ELSE IF y = j + 1 THEN q ELSE n.children[y - 1]
  <2> DEFINE c == n.children
             i == j + 1
  <2>1. c \in Seq(Nat) /\ i \in 1 .. (Len(c) + 1)
    BY <1>1, <1>2
  <2> HIDE DEF c, i
  <2>2. /\ InsertAt(c, i, q) \in Seq(Nat) /\ Len(InsertAt(c, i, q)) = Len(c) + 1
        /\ \A y \in 1 .. (Len(c) + 1) :
              InsertAt(c, i, q)[y] = IF y < i THEN c[y] ELSE IF y = i THEN q ELSE c[y - 1]
    <3>1. q \in Nat
      OBVIOUS
    <3>2. Inserted(Nat, c, i, q, InsertAt(c, i, q))
      BY <2>1, <3>1, InsertAtFacts
    <3> QED BY <3>2, Zenon DEF Inserted
  <2> QED BY <2>2, Zenon DEF c, i
<1> HIDE DEF m
<1>8. /\ m \in InnerNode /\ ~m.leaf /\ m.buffer = n.buffer
      /\ m.pivots = InsertAt(n.pivots, j, s) /\ m.children = InsertAt(n.children, j + 1, q)
  BY <1>1, <1>5, <1>6, <1>7 DEF InnerNode
<1>9. Len(m.children) = Len(n.children) + 1 /\ Len(m.children) = Len(m.pivots) + 1
  BY <1>2, <1>6, <1>7, <1>8
<1>10. NodeOk(m)
  BY <1>6, <1>8, <1>9 DEF NodeOk
<1>11. ASSUME NEW y \in 1 .. (Len(n.children) + 1)
       PROVE  m.children[y] = IF y <= j THEN n.children[y] ELSE IF y = j + 1 THEN q
                              ELSE n.children[y - 1]
  <2>1. y <= j <=> y < j + 1
    BY <1>2
  <2> QED BY <2>1, <1>7, <1>8, SMTT(30)
<1> QED BY <1>8, <1>9, <1>10, <1>11 DEF m

(* Node C of the arena becomes a, and b gets the new id q, to the right of *)
(* C in their parent P.                                                    *)
SplitOff(ns, P, C, q, s, a, b) ==
    [i \in DOMAIN ns \cup {q} |->
        IF i = q THEN b ELSE IF i = C THEN a
        ELSE IF i = P THEN Promote(ns[P], <<s, q>>) ELSE ns[i]]

SplitRanks(ns, rk, C, q) == [i \in DOMAIN ns \cup {q} |-> IF i = q THEN rk[C] ELSE rk[i]]

SplitRanges(ns, iv, C, q, s) ==
    [i \in DOMAIN ns \cup {q} |-> IF i = q THEN {k \in iv[C] : ~(k < s)}
                                  ELSE IF i = C THEN {k \in iv[C] : k < s} ELSE iv[i]]

SplitContext(ns, r, L, rk, iv, P, j, q, s, t, a, b) ==
    /\ Shape(ns, r, L, rk, iv) /\ P \in L /\ ~ns[P].leaf /\ j \in 1 .. Len(ns[P].children)
    /\ q \in Nat /\ q \notin DOMAIN ns
    /\ s \in iv[ns[P].children[j]] /\ \E x \in iv[ns[P].children[j]] : x < s
    /\ HalvesOf(ns[ns[P].children[j]], s, t, a, b)

(* What the proofs about the split need to know of the nodes involved.     *)
SplitFacts(ns, r, L, rk, iv, P, j, q, s, t, a, b) ==
    LET C == ns[P].children[j]
        ns2 == SplitOff(ns, P, C, q, s, a, b)
        p == ns[P].pivots
        c == ns[P].children
    IN  /\ Parented(ns, r, L, rk, P, j)
        /\ s \in Nat /\ q # C /\ q # P /\ q # r /\ q \notin L
        /\ DOMAIN ns2 = DOMAIN ns \cup {q} /\ ns2 = [i \in DOMAIN ns2 |-> ns2[i]]
        /\ ns2[q] = b /\ ns2[C] = a /\ ns2[P] = Promote(ns[P], <<s, q>>)
        /\ \A i \in DOMAIN ns \ {P, C} : ns2[i] = ns[i]
        /\ NodeOk(ns2[P]) /\ ~ns2[P].leaf /\ ns2[P].buffer = ns[P].buffer
        /\ Len(ns2[P].children) = Len(c) + 1
        /\ \A y \in 1 .. (Len(c) + 1) :
              ns2[P].children[y] = IF y <= j THEN c[y] ELSE IF y = j + 1 THEN q ELSE c[y - 1]
        /\ Len(ns2[P].pivots) = Len(p) + 1
        /\ \A x \in 1 .. (Len(p) + 1) :
              ns2[P].pivots[x] = IF x < j THEN p[x] ELSE IF x = j THEN s ELSE p[x - 1]
        /\ \A k \in Nat :
              /\ route(p, k) < j => route(ns2[P].pivots, k) = route(p, k)
              /\ route(p, k) = j => route(ns2[P].pivots, k) = IF k < s THEN j ELSE j + 1
              /\ route(p, k) > j => route(ns2[P].pivots, k) = route(p, k) + 1

(* A node is cut in two: the facts that the next lemmas share.             *)
LEMMA SplitFactsHold ==
    ASSUME NEW ns, NEW r, NEW L, NEW rk, NEW iv, NEW P, NEW j, NEW q, NEW s, NEW t, NEW a, NEW b,
           SplitContext(ns, r, L, rk, iv, P, j, q, s, t, a, b)
    PROVE  SplitFacts(ns, r, L, rk, iv, P, j, q, s, t, a, b)
<1> DEFINE C == ns[P].children[j]
           ns2 == SplitOff(ns, P, C, q, s, a, b)
           p == ns[P].pivots
           c == ns[P].children
<1>1. /\ Shape(ns, r, L, rk, iv) /\ P \in L /\ ~ns[P].leaf /\ j \in 1 .. Len(c)
      /\ q \in Nat /\ q \notin DOMAIN ns /\ s \in iv[C] /\ \E x \in iv[C] : x < s
  BY DEF SplitContext
<1>2. Parented(ns, r, L, rk, P, j)
  BY <1>1, ChildApart
<1>3. /\ C \in L /\ C \in DOMAIN ns /\ C # P /\ C # r /\ P \in DOMAIN ns /\ ns[P] \in InnerNode
      /\ Sorted(p) /\ Len(c) = Len(p) + 1 /\ p \in Seq(Nat)
  BY <1>2 DEF Parented
<1>4. L \subseteq DOMAIN ns /\ r \in L /\ iv \in [DOMAIN ns -> SUBSET Nat]
  BY <1>1 DEF Shape, Tree, Ranges
<1>5. s \in Nat
  BY <1>1, <1>3, <1>4
<1>6. q # C /\ q # P /\ q # r /\ q \notin L
  BY <1>1, <1>3, <1>4
<1>7. PICK x \in iv[C] : x < s
  BY <1>1
<1>8. x \in Nat /\ route(p, s) = j /\ route(p, x) = j
  BY <1>1, <1>3, <1>4 DEF Shape, Ranges
<1>9. /\ \A z \in 1 .. Len(p) : p[z] <= s <=> z < j
      /\ \A z \in 1 .. Len(p) : p[z] <= x <=> z < j
      /\ Len(p) \in Nat /\ \A z \in 1 .. Len(p) : p[z] \in Nat
  <2>1. \A z \in 1 .. Len(p) : p[z] <= s <=> z < route(p, s)
    BY <1>3, <1>5, Routed
  <2>2. \A z \in 1 .. Len(p) : p[z] <= x <=> z < route(p, x)
    BY <1>3, <1>8, Routed
  <2>3. Len(p) \in Nat /\ \A z \in 1 .. Len(p) : p[z] \in Nat
    <3> HIDE DEF p
    <3> QED BY <1>3
  <2> QED BY <2>1, <2>2, <2>3, <1>8
<1>10. (j > 1 => p[j - 1] < s) /\ (j <= Len(p) => s < p[j])
  <2>1. ASSUME j > 1 PROVE p[j - 1] < s
    <3>1. j - 1 \in 1 .. Len(p) /\ j - 1 < j
      BY <2>1, <1>1, <1>3, <1>9
    <3>2. p[j - 1] <= x /\ p[j - 1] \in Nat
      BY <3>1, <1>9
    <3> QED BY <3>2, <1>5, <1>7, <1>8
  <2>2. ASSUME j <= Len(p) PROVE s < p[j]
    <3>1. j \in 1 .. Len(p) /\ ~(j < j)
      BY <2>2, <1>1, <1>9
    <3>2. ~(p[j] <= s) /\ p[j] \in Nat
      BY <3>1, <1>9
    <3> QED BY <3>2, <1>5
  <2> QED BY <2>1, <2>2
<1>11. /\ DOMAIN ns2 = DOMAIN ns \cup {q} /\ ns2 = [i \in DOMAIN ns2 |-> ns2[i]]
       /\ ns2[q] = b /\ ns2[C] = a /\ ns2[P] = Promote(ns[P], <<s, q>>)
       /\ \A i \in DOMAIN ns \ {P, C} : ns2[i] = ns[i]
  BY <1>1, <1>3, <1>6 DEF SplitOff
<1> HIDE DEF ns2
<1>12. /\ NodeOk(ns2[P]) /\ ~ns2[P].leaf /\ ns2[P].buffer = ns[P].buffer
       /\ ns2[P].pivots = InsertAt(p, j, s) /\ Len(ns2[P].children) = Len(c) + 1
       /\ \A y \in 1 .. (Len(c) + 1) :
              ns2[P].children[y] = IF y <= j THEN c[y] ELSE IF y = j + 1 THEN q ELSE c[y - 1]
  BY <1>1, <1>3, <1>5, <1>10, <1>11, PromoteIs, SMTT(30)
<1>13. /\ Len(InsertAt(p, j, s)) = Len(p) + 1
       /\ \A z \in 1 .. (Len(p) + 1) :
             InsertAt(p, j, s)[z] = IF z < j THEN p[z] ELSE IF z = j THEN s ELSE p[z - 1]
       /\ \A k \in Nat :
                 /\ route(p, k) < j => route(InsertAt(p, j, s), k) = route(p, k)
                 /\ route(p, k) = j => route(InsertAt(p, j, s), k) = IF k < s THEN j ELSE j + 1
                 /\ route(p, k) > j => route(InsertAt(p, j, s), k) = route(p, k) + 1
  <2>1. j \in 1 .. (Len(p) + 1)
    BY <1>1, <1>3
  <2>2. p \in Seq(Nat) /\ Sorted(p) /\ s \in Nat
    BY <1>3, <1>5
  <2> HIDE DEF p
  <2> QED BY <2>1, <2>2, <1>10, RouteInserted, ZenonT(40)
<1> QED BY <1>2, <1>5, <1>6, <1>11, <1>12, <1>13 DEF SplitFacts, ns2

(* The halves have the children of the node between them.                  *)
SplitBack(ns, ns2, L, P, C, j, q, t, i, y, oi, oy) ==
    /\ oi \in L /\ ~ns[oi].leaf /\ oy \in 1 .. Len(ns[oi].children)
    /\ ns2[i].children[y] = ns[oi].children[oy]
    /\ \/ i \notin {P, C, q} /\ oi = i /\ oy = y
       \/ i = C /\ oi = C /\ oy = y /\ y <= t
       \/ i = q /\ oi = C /\ oy = t + y /\ y > 0
       \/ i = P /\ oi = P /\ y <= j /\ oy = y
       \/ i = P /\ oi = P /\ y > j + 1 /\ oy = y - 1

(* Every link after the cut is the new one or was there before.            *)
LEMMA SplitLinks ==
    ASSUME NEW ns, NEW r, NEW L, NEW rk, NEW iv, NEW P, NEW j, NEW q, NEW s, NEW t, NEW a, NEW b,
           SplitContext(ns, r, L, rk, iv, P, j, q, s, t, a, b),
           SplitFacts(ns, r, L, rk, iv, P, j, q, s, t, a, b),
           NEW ns2, ns2 = SplitOff(ns, P, ns[P].children[j], q, s, a, b),
           NEW i \in L \cup {q}, ~ns2[i].leaf, NEW y \in 1 .. Len(ns2[i].children)
    PROVE  \/ i = P /\ y = j + 1 /\ ns2[i].children[y] = q
           \/ \E oi, oy : SplitBack(ns, ns2, L, P, ns[P].children[j], j, q, t, i, y, oi, oy)
<1> DEFINE C == ns[P].children[j]
           c == ns[P].children
<1>1. /\ L \subseteq DOMAIN ns /\ P \in L /\ ~ns[P].leaf /\ j \in 1 .. Len(c)
      /\ HalvesOf(ns[C], s, t, a, b) /\ Arena(ns)
  BY DEF SplitContext, Shape, Tree
<1>2. /\ ns2[q] = b /\ ns2[C] = a /\ Len(ns2[P].children) = Len(c) + 1
      /\ \A z \in DOMAIN ns \ {P, C} : ns2[z] = ns[z]
      /\ \A z \in 1 .. (Len(c) + 1) :
            ns2[P].children[z] = IF z <= j THEN c[z] ELSE IF z = j + 1 THEN q ELSE c[z - 1]
      /\ q # C /\ q # P /\ C # P /\ C \in L /\ C \in DOMAIN ns /\ c \in Seq(Nat)
  BY DEF SplitFacts, Parented
<1>3. Len(c) \in Nat
  BY <1>2
<1>4. CASE i \notin {P, C, q}
  <2>1. i \in L /\ ns2[i] = ns[i]
    BY <1>1, <1>2, <1>4
  <2>2. SplitBack(ns, ns2, L, P, C, j, q, t, i, y, i, y)
    BY <1>4, <2>1 DEF SplitBack
  <2> QED BY <2>2
<1>5. ASSUME i = C \/ i = q
      PROVE  /\ ~ns[C].leaf /\ t \in Nat /\ t < Len(ns[C].children) /\ Len(ns[C].children) \in Nat
             /\ Len(a.children) = t /\ Len(b.children) = Len(ns[C].children) - t
             /\ \A x \in 1 .. t : a.children[x] = ns[C].children[x]
             /\ \A x \in 1 .. (Len(ns[C].children) - t) : b.children[x] = ns[C].children[t + x]
  <2>1. ~ns[C].leaf
    BY <1>1, <1>2, <1>5 DEF HalvesOf
  <2>2. NodeOk(ns[C]) /\ 0 \in Nat
    BY <1>1, <1>2 DEF Arena
  <2>3. Len(ns[C].children) = Len(ns[C].pivots) + 1 /\ Len(ns[C].pivots) \in Nat
    <3>1. s \in Nat
      BY DEF SplitFacts
    <3> QED BY <2>1, <2>2, <3>1, <1>1, HalfRoutes
  <2>4. t \in 1 .. Len(ns[C].pivots)
    BY <2>1, <1>1 DEF HalvesOf
  <2>5. /\ Len(a.children) = t /\ Len(b.children) = Len(ns[C].children) - t
        /\ \A x \in 1 .. t : a.children[x] = ns[C].children[x]
        /\ \A x \in 1 .. (Len(ns[C].children) - t) : b.children[x] = ns[C].children[t + x]
    BY <2>1, <1>1 DEF HalvesOf
  <2>6. t \in Nat /\ t < Len(ns[C].children) /\ Len(ns[C].children) \in Nat
    BY <2>3, <2>4
  <2> QED BY <2>1, <2>5, <2>6
<1>6. CASE i = C
  <2>1. y \in 1 .. t /\ y <= t /\ y \in 1 .. Len(ns[C].children)
    BY <1>2, <1>5, <1>6, SMTT(30)
  <2>2. ns2[i].children[y] = ns[C].children[y]
    BY <1>2, <1>5, <1>6, <2>1
  <2>3. SplitBack(ns, ns2, L, P, C, j, q, t, i, y, C, y)
    BY <1>2, <1>5, <1>6, <2>1, <2>2 DEF SplitBack
  <2> QED BY <2>3
<1>7. CASE i = q
  <2>1. /\ y \in 1 .. (Len(ns[C].children) - t) /\ y > 0
        /\ t + y \in 1 .. Len(ns[C].children)
    <3>1. Len(ns2[i].children) = Len(ns[C].children) - t
      BY <1>2, <1>5, <1>7
    <3>2. t \in Nat /\ Len(ns[C].children) \in Nat
      BY <1>5, <1>7
    <3> HIDE DEF C
    <3> QED BY <3>1, <3>2
  <2>2. ns2[i].children[y] = ns[C].children[t + y]
    BY <1>2, <1>5, <1>7, <2>1
  <2>3. SplitBack(ns, ns2, L, P, C, j, q, t, i, y, C, t + y)
    BY <1>2, <1>5, <1>7, <2>1, <2>2 DEF SplitBack
  <2> QED BY <2>3
<1>8. CASE i = P
  <2>1. y \in 1 .. (Len(c) + 1)
    BY <1>2, <1>8
  <2>2. ns2[P].children[y] = IF y <= j THEN c[y] ELSE IF y = j + 1 THEN q ELSE c[y - 1]
    BY <1>2, <2>1
  <2>3. CASE y <= j
    <3>1. y \in 1 .. Len(c) /\ ns2[P].children[y] = c[y]
      BY <2>1, <2>2, <2>3, <1>1, <1>3
    <3>2. SplitBack(ns, ns2, L, P, C, j, q, t, i, y, P, y)
      BY <1>1, <1>8, <2>3, <3>1 DEF SplitBack
    <3> QED BY <3>2
  <2>4. CASE y = j + 1
    BY <1>1, <1>8, <2>2, <2>4
  <2>5. CASE y > j + 1
    <3>1. y - 1 \in 1 .. Len(c) /\ ~(y <= j) /\ y # j + 1
      BY <2>1, <2>5, <1>1, <1>3
    <3>2. SplitBack(ns, ns2, L, P, C, j, q, t, i, y, P, y - 1)
      BY <1>1, <1>8, <2>2, <2>5, <3>1 DEF SplitBack
    <3> QED BY <3>2
  <2> QED BY <2>1, <2>3, <2>4, <2>5, <1>1, <1>3
<1> QED BY <1>4, <1>6, <1>7, <1>8

(* So the live nodes still form a tree, with the new node in it.           *)
LEMMA SplitTree ==
    ASSUME NEW ns, NEW r, NEW L, NEW rk, NEW iv, NEW P, NEW j, NEW q, NEW s, NEW t, NEW a, NEW b,
           SplitContext(ns, r, L, rk, iv, P, j, q, s, t, a, b),
           SplitFacts(ns, r, L, rk, iv, P, j, q, s, t, a, b)
    PROVE  Tree(SplitOff(ns, P, ns[P].children[j], q, s, a, b), r, L \cup {q})
<1> DEFINE C == ns[P].children[j]
           ns2 == SplitOff(ns, P, C, q, s, a, b)
           New(i, y) == i = P /\ y = j + 1 /\ ns2[i].children[y] = q
           Back(i, y, oi, oy) == SplitBack(ns, ns2, L, P, C, j, q, t, i, y, oi, oy)
<1>1. Tree(ns, r, L) /\ j \in Nat
  BY DEF SplitContext, Shape
<1>2. /\ q # C /\ q # P /\ q # r /\ q \notin L /\ C # P /\ C \in L
      /\ DOMAIN ns2 = DOMAIN ns \cup {q} /\ P \in L
  BY DEF SplitFacts, SplitContext, Parented
<1>3. ASSUME NEW i \in L \cup {q}, ~ns2[i].leaf, NEW y \in 1 .. Len(ns2[i].children)
      PROVE  New(i, y) \/ \E oi, oy : Back(i, y, oi, oy)
  BY <1>3, SplitLinks
<1> HIDE DEF ns2, C
<1>4. ASSUME NEW i, NEW y, NEW oi, NEW oy, Back(i, y, oi, oy)
      PROVE  ns2[i].children[y] \in L /\ ns2[i].children[y] # r
  <2>1. /\ oi \in L /\ ~ns[oi].leaf /\ oy \in 1 .. Len(ns[oi].children)
        /\ ns2[i].children[y] = ns[oi].children[oy]
    BY <1>4 DEF SplitBack
  <2> QED BY <2>1, <1>1 DEF Tree
<1>5. ASSUME NEW i \in L \cup {q}, ~ns2[i].leaf, NEW y \in 1 .. Len(ns2[i].children)
      PROVE  ns2[i].children[y] \in L \cup {q} /\ ns2[i].children[y] # r
  <2>1. New(i, y) \/ \E oi, oy : Back(i, y, oi, oy)
    BY <1>3, <1>5
  <2>2. CASE New(i, y)
    BY <2>2, <1>2
  <2>3. ASSUME NEW oi, NEW oy, Back(i, y, oi, oy)
        PROVE  ns2[i].children[y] \in L \cup {q} /\ ns2[i].children[y] # r
    BY <2>3, <1>4
  <2> QED BY <2>1, <2>2, <2>3
<1>6. ASSUME NEW i, NEW y \in Nat, NEW x, NEW z \in Nat, NEW oi, NEW oy, NEW ox, NEW oz,
             Back(i, y, oi, oy), Back(x, z, ox, oz), ns2[x].children[z] = ns2[i].children[y]
      PROVE  x = i /\ z = y
  <2>1. /\ oi \in L /\ ~ns[oi].leaf /\ oy \in 1 .. Len(ns[oi].children)
        /\ ns2[i].children[y] = ns[oi].children[oy]
        /\ ox \in L /\ ~ns[ox].leaf /\ oz \in 1 .. Len(ns[ox].children)
        /\ ns2[x].children[z] = ns[ox].children[oz]
    BY <1>6 DEF SplitBack
  <2>2. ox = oi /\ oz = oy
    <3>1. ns[ox].children[oz] = ns[oi].children[oy]
      BY <2>1, <1>6
    <3>2. \A x1 \in L : ~ns[x1].leaf =>
             \A y1 \in 1 .. Len(ns[x1].children) :
                ns[x1].children[y1] = ns[oi].children[oy] => x1 = oi /\ y1 = oy
      BY <2>1, <1>1, Zenon DEF Tree
    <3> QED BY <3>1, <3>2, <2>1, Zenon
  <2>3. oi = C => t \in Nat
    <3>1. HalvesOf(ns[C], s, t, a, b)
      BY DEF SplitContext, C
    <3> QED BY <2>1, <3>1 DEF HalvesOf
  <2>4. \/ i \notin {P, C, q} /\ oi = i /\ oy = y
        \/ i = C /\ oi = C /\ oy = y /\ y <= t
        \/ i = q /\ oi = C /\ oy = t + y /\ y > 0
        \/ i = P /\ oi = P /\ y <= j /\ oy = y
        \/ i = P /\ oi = P /\ y > j + 1 /\ oy = y - 1
    BY <1>6 DEF SplitBack
  <2>5. \/ x \notin {P, C, q} /\ ox = x /\ oz = z
        \/ x = C /\ ox = C /\ oz = z /\ z <= t
        \/ x = q /\ ox = C /\ oz = t + z /\ z > 0
        \/ x = P /\ ox = P /\ z <= j /\ oz = z
        \/ x = P /\ ox = P /\ z > j + 1 /\ oz = z - 1
    BY <1>6 DEF SplitBack
  <2>6. CASE oi \notin {P, C}
    BY <2>2, <2>4, <2>5, <2>6
  <2>7. CASE oi = C
    BY <2>2, <2>3, <2>4, <2>5, <2>7, <1>2
  <2>8. CASE oi = P
    BY <2>2, <2>4, <2>5, <2>8, <1>1, <1>2
  <2> QED BY <2>6, <2>7, <2>8
<1>7. ASSUME NEW i \in L \cup {q}, ~ns2[i].leaf, NEW y \in 1 .. Len(ns2[i].children),
             NEW x \in L \cup {q}, ~ns2[x].leaf, NEW z \in 1 .. Len(ns2[x].children),
             ns2[x].children[z] = ns2[i].children[y]
      PROVE  x = i /\ z = y
  <2>1. New(i, y) \/ \E oi, oy : Back(i, y, oi, oy)
    BY <1>3, <1>7
  <2>2. New(x, z) \/ \E oi, oy : Back(x, z, oi, oy)
    BY <1>3, <1>7
  <2>3. CASE New(i, y) /\ New(x, z)
    BY <2>3
  <2>4. ASSUME New(i, y), NEW ox, NEW oz, Back(x, z, ox, oz) PROVE FALSE
    BY <2>4, <1>2, <1>4, <1>7
  <2>5. ASSUME New(x, z), NEW oi, NEW oy, Back(i, y, oi, oy) PROVE FALSE
    BY <2>5, <1>2, <1>4, <1>7
  <2>6. ASSUME NEW oi, NEW oy, Back(i, y, oi, oy), NEW ox, NEW oz, Back(x, z, ox, oz)
        PROVE  x = i /\ z = y
    <3>1. y \in Nat /\ z \in Nat
      OBVIOUS
    <3> HIDE DEF Back
    <3> QED BY <3>1, <2>6, <1>6, <1>7
  <2> HIDE DEF New, Back
  <2> QED BY <2>1, <2>2, <2>3, <2>4, <2>5, <2>6
<1>8. L \cup {q} \subseteq DOMAIN ns2 /\ r \in L \cup {q}
  BY <1>1, <1>2 DEF Tree
<1> QED BY <1>5, <1>7, <1>8 DEF Tree, ns2, C

(* The two halves have the height of the whole.                            *)
LEMMA SplitRanked ==
    ASSUME NEW ns, NEW r, NEW L, NEW rk, NEW iv, NEW P, NEW j, NEW q, NEW s, NEW t, NEW a, NEW b,
           SplitContext(ns, r, L, rk, iv, P, j, q, s, t, a, b),
           SplitFacts(ns, r, L, rk, iv, P, j, q, s, t, a, b)
    PROVE  /\ Arena(SplitOff(ns, P, ns[P].children[j], q, s, a, b))
           /\ Ranked(SplitOff(ns, P, ns[P].children[j], q, s, a, b),
                     SplitRanks(ns, rk, ns[P].children[j], q))
<1> DEFINE C == ns[P].children[j]
           ns2 == SplitOff(ns, P, C, q, s, a, b)
           rk2 == SplitRanks(ns, rk, C, q)
<1>1. /\ Arena(ns) /\ Ranked(ns, rk) /\ L \subseteq DOMAIN ns /\ q \in Nat /\ q \notin DOMAIN ns
      /\ ~ns[P].leaf /\ HalvesOf(ns[C], s, t, a, b)
  BY DEF SplitContext, Shape, Tree
<1>2. /\ q # C /\ q # P /\ q \notin L /\ C # P /\ C \in L /\ P \in L /\ C \in DOMAIN ns
      /\ P \in DOMAIN ns
      /\ DOMAIN ns2 = DOMAIN ns \cup {q} /\ ns2 = [i \in DOMAIN ns2 |-> ns2[i]]
      /\ ns2[q] = b /\ ns2[C] = a /\ \A i \in DOMAIN ns \ {P, C} : ns2[i] = ns[i]
      /\ NodeOk(ns2[P]) /\ ~ns2[P].leaf /\ rk[P] = rk[C] + 1 /\ rk[C] \in Nat
  BY DEF SplitFacts, SplitContext, Parented
<1>3. ASSUME NEW i \in L \cup {q}, ~ns2[i].leaf, NEW y \in 1 .. Len(ns2[i].children)
      PROVE  \/ i = P /\ y = j + 1 /\ ns2[i].children[y] = q
             \/ \E oi, oy : SplitBack(ns, ns2, L, P, C, j, q, t, i, y, oi, oy)
  BY <1>3, SplitLinks
<1>4. rk2 = [i \in DOMAIN ns \cup {q} |-> IF i = q THEN rk[C] ELSE rk[i]]
  BY DEF SplitRanks
<1> HIDE DEF ns2, rk2, C
<1>5. rk2[q] = rk[C] /\ \A i \in DOMAIN ns : rk2[i] = rk[i]
  BY <1>1, <1>4
<1>6. Arena(ns2)
  <2>1. NodeOk(a) /\ NodeOk(b)
    BY <1>1 DEF HalvesOf
  <2>2. DOMAIN ns2 \subseteq Nat
    BY <1>1, <1>2 DEF Arena
  <2>3. \A i \in DOMAIN ns2 : NodeOk(ns2[i])
    BY <2>1, <1>1, <1>2 DEF Arena
  <2> QED BY <2>2, <2>3, <1>2 DEF Arena
<1>7. rk2 \in [DOMAIN ns2 -> Nat] /\ \E H \in Nat : \A i \in DOMAIN ns2 : rk2[i] <= H
  <2>1. PICK H \in Nat : \A i \in DOMAIN ns : rk[i] <= H
    BY <1>1 DEF Ranked
  <2>2. rk \in [DOMAIN ns -> Nat]
    BY <1>1 DEF Ranked
  <2>3. rk2 \in [DOMAIN ns2 -> Nat]
    BY <2>2, <1>2, <1>4
  <2>4. \A i \in DOMAIN ns2 : rk2[i] <= H
    BY <2>1, <1>2, <1>5
  <2> QED BY <2>3, <2>4
<1>8. \A i \in DOMAIN ns2 : ns2[i].leaf <=> rk2[i] = 0
  <2>1. (a.leaf <=> ns[C].leaf) /\ (b.leaf <=> ns[C].leaf)
    BY <1>1 DEF HalvesOf
  <2>2. \A i \in DOMAIN ns : ns[i].leaf <=> rk[i] = 0
    BY <1>1 DEF Ranked
  <2>3. ASSUME NEW i \in DOMAIN ns2 PROVE ns2[i].leaf <=> rk2[i] = 0
    <3>1. CASE i = q
      BY <3>1, <2>1, <2>2, <1>2, <1>5
    <3>2. CASE i = C
      BY <3>2, <2>1, <2>2, <1>2, <1>5
    <3>3. CASE i = P
      BY <3>3, <2>2, <1>1, <1>2, <1>5
    <3>4. CASE i \notin {q, C, P}
      BY <3>4, <2>2, <1>2, <1>5
    <3> QED BY <3>1, <3>2, <3>3, <3>4
  <2> QED BY <2>3
<1>9. ASSUME NEW i \in DOMAIN ns2, ~ns2[i].leaf, NEW y \in 1 .. Len(ns2[i].children)
      PROVE  ns2[i].children[y] \in DOMAIN ns2 /\ rk2[i] = rk2[ns2[i].children[y]] + 1
  <2>1. CASE i \notin L \cup {q}
    <3>1. i \in DOMAIN ns /\ ns2[i] = ns[i]
      BY <2>1, <1>2
    <3>2. ns[i].children[y] \in DOMAIN ns /\ rk[i] = rk[ns[i].children[y]] + 1
      BY <3>1, <1>1, <1>9 DEF Ranked
    <3> QED BY <3>1, <3>2, <1>2, <1>5
  <2>2. CASE i \in L \cup {q}
    <3>1. \/ i = P /\ y = j + 1 /\ ns2[i].children[y] = q
          \/ \E oi, oy : SplitBack(ns, ns2, L, P, C, j, q, t, i, y, oi, oy)
      BY <2>2, <1>3, <1>9
    <3>2. CASE i = P /\ y = j + 1 /\ ns2[i].children[y] = q
      BY <3>2, <1>2, <1>5
    <3>3. ASSUME NEW oi, NEW oy, SplitBack(ns, ns2, L, P, C, j, q, t, i, y, oi, oy)
          PROVE  ns2[i].children[y] \in DOMAIN ns2 /\ rk2[i] = rk2[ns2[i].children[y]] + 1
      <4>1. /\ oi \in DOMAIN ns /\ ~ns[oi].leaf /\ oy \in 1 .. Len(ns[oi].children)
            /\ ns2[i].children[y] = ns[oi].children[oy]
        BY <3>3, <1>1 DEF SplitBack
      <4>2. ns[oi].children[oy] \in DOMAIN ns /\ rk[oi] = rk[ns[oi].children[oy]] + 1
        BY <4>1, <1>1 DEF Ranked
      <4>3. rk2[i] = rk[oi]
        BY <3>3, <1>1, <1>2, <1>5 DEF SplitBack
      <4> QED BY <4>1, <4>2, <4>3, <1>2, <1>5
    <3> QED BY <3>1, <3>2, <3>3
  <2> QED BY <2>1, <2>2
<1>10. Ranked(ns2, rk2)
  BY <1>7, <1>8, <1>9 DEF Ranked
<1> QED BY <1>6, <1>10 DEF ns2, rk2, C

(* They share its range at the separator.                                  *)
LEMMA SplitRanged ==
    ASSUME NEW ns, NEW r, NEW L, NEW rk, NEW iv, NEW P, NEW j, NEW q, NEW s, NEW t, NEW a, NEW b,
           SplitContext(ns, r, L, rk, iv, P, j, q, s, t, a, b),
           SplitFacts(ns, r, L, rk, iv, P, j, q, s, t, a, b)
    PROVE  Ranges(SplitOff(ns, P, ns[P].children[j], q, s, a, b), r, L \cup {q},
                  SplitRanges(ns, iv, ns[P].children[j], q, s))
<1> DEFINE C == ns[P].children[j]
           ns2 == SplitOff(ns, P, C, q, s, a, b)
           iv2 == SplitRanges(ns, iv, C, q, s)
           n == ns[C]
           p == ns[P].pivots
           c == ns[P].children
<1>1. /\ Arena(ns) /\ Ranked(ns, rk) /\ Tree(ns, r, L) /\ L \subseteq DOMAIN ns /\ q \notin DOMAIN ns
      /\ ~ns[P].leaf /\ HalvesOf(n, s, t, a, b) /\ r \in L /\ j \in 1 .. Len(c)
      /\ s \in iv[C] /\ \E x \in iv[C] : x < s
  BY DEF SplitContext, Shape, Tree
<1>2. Ranges(ns, r, L, iv)
  BY DEF SplitContext, Shape
<1>3. /\ q # C /\ q # P /\ q \notin L /\ C # P /\ C # r /\ C \in L /\ P \in L /\ C \in DOMAIN ns
      /\ P \in DOMAIN ns /\ q # r /\ s \in Nat /\ c \in Seq(Nat) /\ p \in Seq(Nat)
      /\ DOMAIN ns2 = DOMAIN ns \cup {q} /\ Len(c) = Len(p) + 1
      /\ ns2[q] = b /\ ns2[C] = a /\ \A i \in DOMAIN ns \ {P, C} : ns2[i] = ns[i]
      /\ ~ns2[P].leaf /\ ns2[P].buffer = ns[P].buffer
  BY DEF SplitFacts, SplitContext, Parented
<1>4. iv2 = [i \in DOMAIN ns \cup {q} |-> IF i = q THEN {k \in iv[C] : ~(k < s)}
                                  ELSE IF i = C THEN {k \in iv[C] : k < s} ELSE iv[i]]
  BY DEF SplitRanges
<1>5. iv \in [DOMAIN ns -> SUBSET Nat] /\ iv[r] = Nat
  BY <1>2 DEF Ranges
<1>6. ASSUME NEW i \in L, i # C PROVE DOMAIN HeldBy(ns[i]) \subseteq iv[i]
  BY <1>2, <1>6 DEF Ranges
<1>7. ASSUME NEW i \in L, ~ns[i].leaf, NEW y \in 1 .. Len(ns[i].children)
      PROVE  /\ ns[i].children[y] \in L /\ (ns[i].children[y] = C => i = P /\ y = j)
             /\ ns[i].children[y] # q
             /\ \A k \in iv[ns[i].children[y]] : k \in Nat /\ k \in iv[i] /\ route(ns[i].pivots, k) = y
  <2>1. ns[i].children[y] \in L /\ ns[i].children[y] \in DOMAIN ns
    BY <1>1, <1>7 DEF Tree
  <2>2. ns[i].children[y] = C => i = P /\ y = j
    <3>1. \A x1 \in L : ~ns[x1].leaf =>
             \A y1 \in 1 .. Len(ns[x1].children) :
                ns[x1].children[y1] = ns[P].children[j] => x1 = P /\ y1 = j
      BY <1>1, <1>3, Zenon DEF Tree
    <3> QED BY <3>1, <1>7
  <2>3. \A k \in iv[ns[i].children[y]] : k \in iv[i] /\ route(ns[i].pivots, k) = y
    BY <1>2, <1>7 DEF Ranges
  <2> QED BY <2>1, <2>2, <2>3, <1>3, <1>5
<1>8. /\ \A x \in 1 .. (Len(c) + 1) :
            ns2[P].children[x] = IF x <= j THEN c[x] ELSE IF x = j + 1 THEN q ELSE c[x - 1]
      /\ \A x \in 1 .. (Len(p) + 1) :
            ns2[P].pivots[x] = IF x < j THEN p[x] ELSE IF x = j THEN s ELSE p[x - 1]
      /\ Len(ns2[P].children) = Len(c) + 1 /\ Len(ns2[P].pivots) = Len(p) + 1
      /\ \A k \in Nat :
              /\ route(p, k) < j => route(ns2[P].pivots, k) = route(p, k)
              /\ route(p, k) = j => route(ns2[P].pivots, k) = IF k < s THEN j ELSE j + 1
              /\ route(p, k) > j => route(ns2[P].pivots, k) = route(p, k) + 1
  BY DEF SplitFacts
<1>9. NodeOk(n)
  BY <1>1, <1>3 DEF Arena
<1> HIDE DEF ns2, iv2, C
<1>10. /\ iv2[q] = {k \in iv[C] : ~(k < s)} /\ iv2[C] = {k \in iv[C] : k < s}
       /\ \A i \in DOMAIN ns \ {C} : iv2[i] = iv[i]
  BY <1>1, <1>3, <1>4
<1>11. iv2 \in [DOMAIN ns2 -> SUBSET Nat] /\ iv2[r] = Nat
  <2>1. \A i \in DOMAIN ns : iv[i] \subseteq Nat
    BY <1>5
  <2> QED BY <2>1, <1>1, <1>3, <1>4, <1>5
(* The nodes that stay.                                                    *)
<1>12. ASSUME NEW i \in L, i \notin {P, C}
       PROVE  /\ DOMAIN HeldBy(ns2[i]) \subseteq iv2[i]
              /\ ~ns2[i].leaf =>
                   /\ \A x \in 1 .. Len(ns2[i].pivots) :
                        ns2[i].pivots[x] \in iv2[i] /\ \E z \in iv2[i] : z < ns2[i].pivots[x]
                   /\ \A y \in 1 .. Len(ns2[i].children) :
                        \A k \in iv2[ns2[i].children[y]] :
                           k \in iv2[i] /\ route(ns2[i].pivots, k) = y
  <2>1. ns2[i] = ns[i] /\ iv2[i] = iv[i] /\ i \in DOMAIN ns
    BY <1>1, <1>3, <1>10, <1>12
  <2>2. ASSUME ~ns[i].leaf, NEW x \in 1 .. Len(ns[i].pivots)
        PROVE  ns[i].pivots[x] \in iv[i] /\ \E z \in iv[i] : z < ns[i].pivots[x]
    BY <2>2, <1>2 DEF Ranges
  <2>3. ASSUME ~ns[i].leaf, NEW y \in 1 .. Len(ns[i].children),
               NEW k \in iv2[ns[i].children[y]]
        PROVE  k \in iv[i] /\ route(ns[i].pivots, k) = y
    <3>1. ns[i].children[y] \in L /\ ns[i].children[y] # C
      BY <2>3, <1>7, <1>12
    <3>2. iv2[ns[i].children[y]] = iv[ns[i].children[y]]
      BY <3>1, <1>1, <1>10
    <3> QED BY <2>3, <3>2, <1>7
  <2> QED BY <2>1, <2>2, <2>3, <1>6, <1>12
(* The halves.                                                             *)
<1>13. /\ DOMAIN HeldBy(a) \subseteq iv2[C] /\ DOMAIN HeldBy(b) \subseteq iv2[q]
  <2> DEFINE h == HeldBy(n)
  <2>1. /\ HeldBy(a) = Restrict(h, {x \in DOMAIN h : x < s})
        /\ HeldBy(b) = Restrict(h, {x \in DOMAIN h : ~(x < s)})
    BY <1>1 DEF HalvesOf
  <2>2. DOMAIN h \subseteq iv[C]
    BY <1>2, <1>3 DEF Ranges
  <2> HIDE DEF h
  <2> QED BY <2>1, <2>2, <1>10 DEF Restrict
<1>14. ASSUME ~n.leaf
       PROVE  /\ Len(n.children) = Len(n.pivots) + 1 /\ Len(n.pivots) \in Nat
              /\ t \in 1 .. Len(n.pivots) /\ s = n.pivots[t]
              /\ Len(a.pivots) = t - 1 /\ Len(b.pivots) = Len(n.pivots) - t
              /\ \A x \in 1 .. (t - 1) : a.pivots[x] = n.pivots[x]
              /\ \A x \in 1 .. (Len(n.pivots) - t) : b.pivots[x] = n.pivots[t + x]
              /\ Len(a.children) = t /\ Len(b.children) = Len(n.children) - t
              /\ \A x \in 1 .. t : a.children[x] = n.children[x]
              /\ \A x \in 1 .. (Len(n.children) - t) : b.children[x] = n.children[t + x]
              /\ Sorted(n.pivots)
              /\ \A x \in 1 .. Len(n.pivots) : n.pivots[x] \in iv[C] /\ n.pivots[x] \in Nat
                                               /\ \E z \in iv[C] : z < n.pivots[x]
  <2>1. Len(n.children) = Len(n.pivots) + 1 /\ Len(n.pivots) \in Nat
    <3>1. 0 \in Nat
      OBVIOUS
    <3> QED BY <3>1, <1>1, <1>3, <1>9, <1>14, HalfRoutes
  <2>2. Sorted(n.pivots)
    BY <1>9, <1>14 DEF NodeOk, LeafNode
  <2>3. \A x \in 1 .. Len(n.pivots) : n.pivots[x] \in iv[C] /\ \E z \in iv[C] : z < n.pivots[x]
    BY <1>2, <1>3, <1>14 DEF Ranges
  <2>4. iv[C] \subseteq Nat
    BY <1>3, <1>5
  <2>5. \A x \in 1 .. Len(n.pivots) : n.pivots[x] \in Nat
    BY <2>3, <2>4
  <2>6. /\ t \in 1 .. Len(n.pivots) /\ s = n.pivots[t]
        /\ Len(a.pivots) = t - 1 /\ Len(b.pivots) = Len(n.pivots) - t
        /\ \A x \in 1 .. (t - 1) : a.pivots[x] = n.pivots[x]
        /\ \A x \in 1 .. (Len(n.pivots) - t) : b.pivots[x] = n.pivots[t + x]
        /\ Len(a.children) = t /\ Len(b.children) = Len(n.children) - t
        /\ \A x \in 1 .. t : a.children[x] = n.children[x]
        /\ \A x \in 1 .. (Len(n.children) - t) : b.children[x] = n.children[t + x]
    BY <1>1, <1>14 DEF HalvesOf
  <2> HIDE DEF n
  <2> QED BY <2>1, <2>2, <2>3, <2>5, <2>6
<1>15. ASSUME ~n.leaf, NEW y \in 1 .. Len(n.children)
       PROVE  /\ iv2[n.children[y]] = iv[n.children[y]]
              /\ \A k \in iv[n.children[y]] : k \in Nat /\ k \in iv[C] /\ route(n.pivots, k) = y
  <2>1. /\ n.children[y] \in L /\ n.children[y] # C
        /\ \A k \in iv[n.children[y]] : k \in Nat /\ k \in iv[C] /\ route(n.pivots, k) = y
    BY <1>3, <1>7, <1>15
  <2> QED BY <2>1, <1>1, <1>10
<1>16. ASSUME ~n.leaf, NEW x \in 1 .. Len(a.pivots)
       PROVE  a.pivots[x] \in iv2[C] /\ \E z \in iv2[C] : z < a.pivots[x]
  <2>1. x \in 1 .. (t - 1) /\ x \in 1 .. Len(n.pivots) /\ t \in 1 .. Len(n.pivots) /\ x < t
    <3> HIDE DEF n
    <3> QED BY <1>14, <1>16
  <2>2. a.pivots[x] = n.pivots[x] /\ n.pivots[x] < s
    BY <2>1, <1>14, <1>16 DEF Sorted
  <2>3. PICK z \in iv[C] : z < n.pivots[x]
    BY <2>1, <1>14, <1>16
  <2>4. n.pivots[x] \in iv[C] /\ n.pivots[x] \in Nat /\ z \in Nat
    <3>1. iv[C] \subseteq Nat
      BY <1>3, <1>5
    <3> QED BY <2>1, <2>3, <3>1, <1>14, <1>16
  <2>5. z < s
    BY <2>2, <2>3, <2>4, <1>3
  <2> QED BY <2>2, <2>3, <2>4, <2>5, <1>10
<1>17. ASSUME ~n.leaf, NEW x \in 1 .. Len(b.pivots)
       PROVE  b.pivots[x] \in iv2[q] /\ \E z \in iv2[q] : z < b.pivots[x]
  <2>1. /\ x \in 1 .. (Len(n.pivots) - t) /\ t + x \in 1 .. Len(n.pivots)
        /\ t \in 1 .. Len(n.pivots) /\ t < t + x
    <3> HIDE DEF n
    <3> QED BY <1>14, <1>17, SMTT(30)
  <2>2. b.pivots[x] = n.pivots[t + x] /\ s < n.pivots[t + x]
    BY <2>1, <1>14, <1>17 DEF Sorted
  <2>3. n.pivots[t + x] \in iv[C] /\ n.pivots[t + x] \in Nat
    BY <2>1, <1>14, <1>17
  <2>4. s \in iv2[q] /\ ~(n.pivots[t + x] < s)
    BY <2>2, <2>3, <1>1, <1>3, <1>10
  <2> QED BY <2>2, <2>3, <2>4, <1>10
<1>18. ASSUME ~n.leaf, NEW y \in 1 .. Len(a.children), NEW k \in iv2[a.children[y]]
       PROVE  k \in iv2[C] /\ route(a.pivots, k) = y
  <2>1. y \in 1 .. t /\ y \in 1 .. Len(n.children) /\ t \in Nat /\ y \in Nat
    <3> HIDE DEF n
    <3> QED BY <1>14, <1>18
  <2>2. a.children[y] = n.children[y]
    BY <2>1, <1>14, <1>18
  <2>3. k \in Nat /\ k \in iv[C] /\ route(n.pivots, k) = y
    BY <2>1, <2>2, <1>15, <1>18
  <2>4. /\ k < s => route(a.pivots, k) = route(n.pivots, k) /\ route(n.pivots, k) \in 1 .. t
        /\ ~(k < s) => route(n.pivots, k) - t \in 1 .. (Len(n.children) - t)
    <3>1. ~n.leaf /\ NodeOk(n) /\ HalvesOf(n, s, t, a, b) /\ s \in Nat /\ k \in Nat
      BY <2>3, <1>1, <1>3, <1>9, <1>18
    <3> HIDE DEF n
    <3> QED BY <3>1, HalfRoutes
  <2>5. k < s
    BY <2>1, <2>3, <2>4
  <2> QED BY <2>3, <2>4, <2>5, <1>10
<1>19. ASSUME ~n.leaf, NEW y \in 1 .. Len(b.children), NEW k \in iv2[b.children[y]]
       PROVE  k \in iv2[q] /\ route(b.pivots, k) = y
  <2>1. /\ y \in 1 .. (Len(n.children) - t) /\ t + y \in 1 .. Len(n.children)
        /\ t \in Nat /\ y \in Nat /\ y > 0
    <3>1. /\ Len(b.children) = Len(n.children) - t /\ t \in 1 .. Len(n.pivots)
          /\ Len(n.pivots) \in Nat /\ Len(n.children) = Len(n.pivots) + 1
      BY <1>14, <1>19
    <3> HIDE DEF n
    <3> QED BY <3>1
  <2>2. b.children[y] = n.children[t + y]
    BY <2>1, <1>14, <1>19
  <2>3. k \in Nat /\ k \in iv[C] /\ route(n.pivots, k) = t + y
    BY <2>1, <2>2, <1>15, <1>19
  <2>4. /\ k < s => route(n.pivots, k) \in 1 .. t
        /\ ~(k < s) => route(b.pivots, k) = route(n.pivots, k) - t
    <3>1. ~n.leaf /\ NodeOk(n) /\ HalvesOf(n, s, t, a, b) /\ s \in Nat /\ k \in Nat
      BY <2>3, <1>1, <1>3, <1>9, <1>19
    <3> HIDE DEF n
    <3> QED BY <3>1, HalfRoutes
  <2>5. ~(k < s)
    BY <2>1, <2>3, <2>4
  <2> QED BY <2>1, <2>3, <2>4, <2>5, <1>10
(* The parent.                                                             *)
<1>20. /\ iv2[P] = iv[P] /\ iv[P] \subseteq Nat /\ iv[C] \subseteq Nat
       /\ \A k \in iv[C] : k \in iv[P] /\ route(p, k) = j
  <2>1. \A k \in iv[ns[P].children[j]] : k \in iv[P] /\ route(ns[P].pivots, k) = j
    BY <1>2, <1>1, <1>3 DEF Ranges
  <2> QED BY <2>1, <1>3, <1>5, <1>10 DEF C
<1>21. ASSUME NEW x \in 1 .. Len(ns2[P].pivots)
       PROVE  ns2[P].pivots[x] \in iv[P] /\ \E z \in iv[P] : z < ns2[P].pivots[x]
  <2>1. /\ x \in 1 .. (Len(p) + 1) /\ Len(p) \in Nat
        /\ ns2[P].pivots[x] = IF x < j THEN p[x] ELSE IF x = j THEN s ELSE p[x - 1]
    BY <1>3, <1>8
  <2>2. \A z \in 1 .. Len(p) : p[z] \in iv[P] /\ \E y \in iv[P] : y < p[z]
    BY <1>1, <1>2, <1>3 DEF Ranges
  <2>3. CASE x = j
    <3>1. ns2[P].pivots[x] = s
      BY <2>1, <2>3, <1>1
    <3> QED BY <3>1, <1>1, <1>20
  <2>4. CASE x < j
    <3>1. x \in 1 .. Len(p) /\ ns2[P].pivots[x] = p[x]
      BY <2>1, <2>4, <1>1, <1>3
    <3> QED BY <3>1, <2>2
  <2>5. CASE ~(x < j) /\ x # j
    <3>1. x - 1 \in 1 .. Len(p) /\ ns2[P].pivots[x] = p[x - 1]
      BY <2>1, <2>5, <1>1, <1>3
    <3> QED BY <3>1, <2>2
  <2> QED BY <2>3, <2>4, <2>5
<1>22. ASSUME NEW y \in 1 .. Len(ns2[P].children), NEW k \in iv2[ns2[P].children[y]]
       PROVE  k \in iv[P] /\ route(ns2[P].pivots, k) = y
  <2>1. /\ y \in 1 .. (Len(c) + 1) /\ Len(c) \in Nat
        /\ ns2[P].children[y] = IF y <= j THEN c[y] ELSE IF y = j + 1 THEN q ELSE c[y - 1]
    BY <1>3, <1>8
  <2>2. ASSUME NEW z \in 1 .. Len(c), z # j
        PROVE  /\ iv2[c[z]] = iv[c[z]]
               /\ \A x \in iv[c[z]] : x \in Nat /\ x \in iv[P] /\ route(p, x) = z
    <3>1. /\ c[z] \in L /\ c[z] # C
          /\ \A x \in iv[c[z]] : x \in Nat /\ x \in iv[P] /\ route(p, x) = z
      BY <2>2, <1>1, <1>3, <1>7
    <3> QED BY <3>1, <1>1, <1>10
  <2>3. CASE y < j
    <3>1. y \in 1 .. Len(c) /\ y # j /\ ns2[P].children[y] = c[y]
      BY <2>1, <2>3, <1>1
    <3>2. k \in Nat /\ k \in iv[P] /\ route(p, k) = y
      BY <3>1, <2>2, <1>22
    <3> QED BY <3>2, <2>3, <1>8
  <2>4. CASE y = j
    <3>1. ns2[P].children[y] = C
      BY <2>1, <2>4, <1>1 DEF C
    <3>2. k \in iv[C] /\ k < s
      BY <3>1, <1>10, <1>22
    <3>3. k \in Nat /\ k \in iv[P] /\ route(p, k) = j
      BY <3>2, <1>20
    <3> QED BY <3>2, <3>3, <2>4, <1>8
  <2>5. CASE y = j + 1
    <3>1. ns2[P].children[y] = q
      BY <2>1, <2>5, <1>1
    <3>2. k \in iv[C] /\ ~(k < s)
      BY <3>1, <1>10, <1>22
    <3>3. k \in Nat /\ k \in iv[P] /\ route(p, k) = j
      BY <3>2, <1>20
    <3> QED BY <3>2, <3>3, <2>5, <1>8
  <2>6. CASE y > j + 1
    <3>1. y - 1 \in 1 .. Len(c) /\ y - 1 # j /\ ns2[P].children[y] = c[y - 1] /\ y - 1 > j
      BY <2>1, <2>6, <1>1
    <3>2. k \in Nat /\ k \in iv[P] /\ route(p, k) = y - 1
      BY <3>1, <2>2, <1>22
    <3>3. route(ns2[P].pivots, k) = (y - 1) + 1
      BY <3>1, <3>2, <1>8
    <3> QED BY <3>2, <3>3, <2>1
  <2> QED BY <2>1, <2>3, <2>4, <2>5, <2>6, <1>1
<1>23. DOMAIN HeldBy(ns2[P]) \subseteq iv[P]
  BY <1>1, <1>3, <1>6 DEF HeldBy
<1>24. ~a.leaf => ~n.leaf
  BY <1>1 DEF HalvesOf
<1>25. ~b.leaf => ~n.leaf
  BY <1>1 DEF HalvesOf
<1> HIDE DEF n
<1>26. ASSUME NEW i \in L \cup {q}
       PROVE  /\ DOMAIN HeldBy(ns2[i]) \subseteq iv2[i]
              /\ ~ns2[i].leaf =>
                   /\ \A x \in 1 .. Len(ns2[i].pivots) :
                        ns2[i].pivots[x] \in iv2[i] /\ \E z \in iv2[i] : z < ns2[i].pivots[x]
                   /\ \A y \in 1 .. Len(ns2[i].children) :
                        \A k \in iv2[ns2[i].children[y]] :
                           k \in iv2[i] /\ route(ns2[i].pivots, k) = y
  <2>1. CASE i = q
    BY <2>1, <1>3, <1>13, <1>17, <1>19, <1>25
  <2>2. CASE i = C
    BY <2>2, <1>3, <1>13, <1>16, <1>18, <1>24
  <2>3. CASE i = P
    BY <2>3, <1>20, <1>21, <1>22, <1>23
  <2>4. CASE i \notin {P, C, q}
    BY <2>4, <1>12
  <2> QED BY <2>1, <2>2, <2>3, <2>4
<1> QED BY <1>11, <1>26 DEF Ranges, ns2, iv2, C

(* And no key has another value than before.                               *)
LEMMA SplitValues ==
    ASSUME NEW ns, NEW r, NEW L, NEW rk, NEW iv, NEW P, NEW j, NEW q, NEW s, NEW t, NEW a, NEW b,
           SplitContext(ns, r, L, rk, iv, P, j, q, s, t, a, b),
           SplitFacts(ns, r, L, rk, iv, P, j, q, s, t, a, b),
           NEW ns2, ns2 = SplitOff(ns, P, ns[P].children[j], q, s, a, b),
           NEW k \in Nat, NEW v, NEW v2, Vals(ns, k, v), Vals(ns2, k, v2)
    PROVE  v2[r] = v[r]
<1> DEFINE C == ns[P].children[j]
           n == ns[C]
           p == ns[P].pivots
           c == ns[P].children
           y == route(p, k)
<1>1. /\ Shape(ns, r, L, rk, iv) /\ Arena(ns) /\ Ranked(ns, rk) /\ Tree(ns, r, L)
      /\ L \subseteq DOMAIN ns /\ ~ns[P].leaf /\ HalvesOf(n, s, t, a, b) /\ r \in L
      /\ j \in 1 .. Len(c)
  BY DEF SplitContext, Shape, Tree
<1>2. /\ q # C /\ q # P /\ q \notin L /\ C # P /\ C # r /\ C \in L /\ P \in L /\ C \in DOMAIN ns
      /\ P \in DOMAIN ns /\ s \in Nat /\ c \in Seq(Nat) /\ p \in Seq(Nat) /\ Sorted(p)
      /\ DOMAIN ns2 = DOMAIN ns \cup {q} /\ Len(c) = Len(p) + 1
      /\ ns2[q] = b /\ ns2[C] = a /\ \A i \in DOMAIN ns \ {P, C} : ns2[i] = ns[i]
      /\ ~ns2[P].leaf /\ ns2[P].buffer = ns[P].buffer
      /\ rk[P] = rk[C] + 1 /\ rk[C] \in Nat
  BY DEF SplitFacts, SplitContext, Parented
<1>3. /\ \A x \in 1 .. (Len(c) + 1) :
            ns2[P].children[x] = IF x <= j THEN c[x] ELSE IF x = j + 1 THEN q ELSE c[x - 1]
      /\ Len(ns2[P].children) = Len(c) + 1
      /\ y < j => route(ns2[P].pivots, k) = y
      /\ y = j => route(ns2[P].pivots, k) = IF k < s THEN j ELSE j + 1
      /\ y > j => route(ns2[P].pivots, k) = y + 1
  BY DEF SplitFacts
<1>4. NodeOk(n)
  BY <1>1, <1>2 DEF Arena
<1>5. y \in 1 .. Len(c) /\ Len(c) \in Nat
  BY <1>2, Routed
<1>6. ASSUME NEW z \in 1 .. Len(c), z # j
      PROVE  c[z] \in L \ {C} /\ rk[c[z]] < rk[P]
  <2>1. \A x1 \in L : ~ns[x1].leaf =>
           \A y1 \in 1 .. Len(ns[x1].children) :
              ns[x1].children[y1] = ns[P].children[j] => x1 = P /\ y1 = j
    BY <1>1, <1>2, Zenon DEF Tree
  <2>2. c[z] \in L /\ c[z] # C
    BY <2>1, <1>1, <1>2, <1>6 DEF Tree
  <2>3. rk[P] = rk[c[z]] + 1 /\ rk[c[z]] \in Nat
    BY <1>1, <1>2 DEF Ranked
  <2> QED BY <2>2, <2>3
<1>7. ~n.leaf => n.children # <<>>
  <2> SUFFICES ASSUME ~n.leaf PROVE n.children # <<>>
    OBVIOUS
  <2> HIDE DEF n
  <2>1. 0 \in Nat
    OBVIOUS
  <2>2. Len(n.children) = Len(n.pivots) + 1 /\ Len(n.pivots) \in Nat
    BY <2>1, <1>1, <1>2, <1>4, HalfRoutes
  <2> QED BY <2>2
<1>8. ~n.leaf => Child(n, k) \in L \ {C} /\ rk[Child(n, k)] < rk[P]
  <2> SUFFICES ASSUME ~n.leaf PROVE Child(n, k) \in L \ {C} /\ rk[Child(n, k)] < rk[P]
    OBVIOUS
  <2>0. C \in L /\ ~ns[C].leaf /\ ns[C].children # <<>>
    BY <1>2, <1>7
  <2> HIDE DEF C
  <2>1. Child(n, k) \in L /\ Child(n, k) # C
    BY <2>0, <1>1, ChildLive
  <2>2. rk[C] = rk[Child(n, k)] + 1 /\ rk[Child(n, k)] \in Nat
    BY <2>0, <1>1, ChildLive
  <2> QED BY <2>1, <2>2, <1>2
<1> HIDE DEF C, y
<1>9. ASSUME \A x \in L \ {C} : rk[x] < rk[P] => v2[x] = v[x] PROVE v2[P] = v[P]
  <2>1. ~n.leaf => v2[Child(n, k)] = v[Child(n, k)]
    BY <1>8, <1>9
  <2>2. /\ k < s => ValueAt(a, k, v2) = ValueAt(n, k, v)
        /\ ~(k < s) => ValueAt(b, k, v2) = ValueAt(n, k, v)
    <3>1. HalvesOf(n, s, t, a, b) /\ NodeOk(n) /\ s \in Nat
      BY <1>1, <1>2, <1>4
    <3> HIDE DEF n
    <3> QED BY <2>1, <3>1, HalfValue
  <2>3. /\ v2[C] = ValueAt(a, k, v2) /\ v2[q] = ValueAt(b, k, v2) /\ v[C] = ValueAt(n, k, v)
        /\ v2[P] = ValueAt(ns2[P], k, v2) /\ v[P] = ValueAt(ns[P], k, v)
    BY <1>2 DEF Vals
  <2>4. Below(ns[P], k, v) = v[c[y]]
    <3>1. c # <<>>
      BY <1>5
    <3> QED BY <3>1 DEF Below, Child, y
  <2>5. ns2[P].children # <<>>
    BY <1>3, <1>5
  <2> DEFINE w == route(ns2[P].pivots, k)
  <2>6. Below(ns2[P], k, v2) = v2[ns2[P].children[w]]
    BY <2>5 DEF Below, Child
  <2>10. ~ns2[P].leaf /\ ns2[P].buffer = ns[P].buffer /\ ~ns[P].leaf
    BY <1>1, <1>2
  <2>7. CASE y < j
    <3>1. w = y /\ y \in 1 .. (Len(c) + 1) /\ y <= j /\ y # j
      BY <2>7, <1>1, <1>3, <1>5
    <3>2. ns2[P].children[w] = c[y]
      BY <3>1, <1>3
    <3>3. v2[c[y]] = v[c[y]]
      BY <3>1, <1>5, <1>6, <1>9
    <3>4. Below(ns2[P], k, v2) = Below(ns[P], k, v)
      BY <3>2, <3>3, <2>4, <2>6
    <3> QED BY <3>4, <2>3, <2>10 DEF ValueAt
  <2>8. CASE y > j
    <3>1. w = y + 1 /\ y + 1 \in 1 .. (Len(c) + 1) /\ ~(y + 1 <= j) /\ y + 1 # j + 1 /\ y # j
          /\ (y + 1) - 1 = y
      BY <2>8, <1>1, <1>3, <1>5
    <3>2. ns2[P].children[w] = c[y]
      BY <3>1, <1>3
    <3>3. v2[c[y]] = v[c[y]]
      BY <3>1, <1>5, <1>6, <1>9
    <3>4. Below(ns2[P], k, v2) = Below(ns[P], k, v)
      BY <3>2, <3>3, <2>4, <2>6
    <3> QED BY <3>4, <2>3, <2>10 DEF ValueAt
  <2>9. CASE y = j
    <3>1. v2[ns2[P].children[w]] = v[C]
      <4>1. CASE k < s
        <5>1. w = j /\ j \in 1 .. (Len(c) + 1) /\ j <= j
          BY <2>9, <4>1, <1>1, <1>3, <1>5
        <5>2. ns2[P].children[w] = C
          BY <5>1, <1>3 DEF C
        <5> QED BY <4>1, <5>2, <2>2, <2>3
      <4>2. CASE ~(k < s)
        <5>1. w = j + 1 /\ j + 1 \in 1 .. (Len(c) + 1) /\ ~(j + 1 <= j)
          BY <2>9, <4>2, <1>1, <1>3, <1>5
        <5>2. ns2[P].children[w] = q
          BY <5>1, <1>3
        <5> QED BY <4>2, <5>2, <2>2, <2>3
      <4> QED BY <4>1, <4>2
    <3>2. c[y] = C
      BY <2>9 DEF C
    <3>4. Below(ns2[P], k, v2) = Below(ns[P], k, v)
      BY <3>1, <3>2, <2>4, <2>6
    <3> QED BY <3>4, <2>3, <2>10 DEF ValueAt
  <2> QED BY <2>7, <2>8, <2>9, <1>1, <1>5
<1>10. \A i \in L \ {P, C} : Alike(ns2[i], ns[i])
  BY <1>1, <1>2 DEF Alike
<1>11. L \ {C} \subseteq DOMAIN ns2
  BY <1>1, <1>2
<1>12. (\A x \in L \ {C} : rk[x] < rk[P] => v2[x] = v[x]) => v2[P] = v[P]
  BY <1>9
<1>13. \A i \in L \ {C} : v2[i] = v[i]
  <2>1. /\ Shape(ns, r, L, rk, iv) /\ P \in L /\ ~ns[P].leaf /\ j \in 1 .. Len(ns[P].children)
        /\ C = ns[P].children[j]
    BY <1>1, <1>2 DEF C
  <2> QED BY <2>1, <1>10, <1>11, <1>12, Frame
<1> QED BY <1>1, <1>2, <1>13

(* The range of a node that a split leaves in two parts, the order and the *)
(* tree stay as they have to be, and get finds what it found.              *)
SplitKept(ns, r, L, rk, iv, P, j, q, s, a, b) ==
    LET C == ns[P].children[j]
        ns2 == SplitOff(ns, P, C, q, s, a, b)
    IN  /\ Shape(ns2, r, L \cup {q}, SplitRanks(ns, rk, C, q), SplitRanges(ns, iv, C, q, s))
        /\ SameMap(ns, r, ns2, r)

(* Cutting a child in two and promoting the second half keeps the shape    *)
(* and the map.                                                            *)
THEOREM SplitInTwoKeeps ==
    ASSUME NEW ns, NEW r, NEW L, NEW rk, NEW iv, NEW P, NEW j, NEW q, NEW s, NEW t, NEW a, NEW b,
           SplitContext(ns, r, L, rk, iv, P, j, q, s, t, a, b)
    PROVE  SplitKept(ns, r, L, rk, iv, P, j, q, s, a, b)
<1> DEFINE C == ns[P].children[j]
           ns2 == SplitOff(ns, P, C, q, s, a, b)
           rk2 == SplitRanks(ns, rk, C, q)
           iv2 == SplitRanges(ns, iv, C, q, s)
<1>1. SplitFacts(ns, r, L, rk, iv, P, j, q, s, t, a, b)
  BY SplitFactsHold
<1>2. Arena(ns2) /\ Ranked(ns2, rk2)
  BY <1>1, SplitRanked
<1>3. Tree(ns2, r, L \cup {q})
  BY <1>1, SplitTree
<1>4. Ranges(ns2, r, L \cup {q}, iv2)
  BY <1>1, SplitRanged
<1>5. Arena(ns) /\ Ranked(ns, rk) /\ r \in DOMAIN ns
  BY DEF SplitContext, Shape, Tree
<1>6. \A k \in Nat : \A v, v2 : Vals(ns, k, v) /\ Vals(ns2, k, v2) => v2[r] = v[r]
  BY <1>1, SplitValues
<1> HIDE DEF ns2, rk2, iv2
<1>7. r \in DOMAIN ns2
  BY <1>3 DEF Tree
<1>8. SameMap(ns, r, ns2, r)
  <2> SUFFICES ASSUME NEW k \in Nat PROVE Get(ns2, r, k) = Get(ns, r, k)
    BY DEF SameMap
  <2> QED BY <1>2, <1>5, <1>6, <1>7, SameGet
<1>9. Shape(ns2, r, L \cup {q}, rk2, iv2)
  BY <1>2, <1>3, <1>4 DEF Shape
<1> QED BY <1>8, <1>9 DEF SplitKept, ns2, rk2, iv2

-----------------------------------------------------------------------------
(* The pieces that partition_sizes makes                                   *)

(* What Start adds up.                                                     *)
LEMMA StartLoop ==
    ASSUME NEW sizes, NEW N \in Nat
    PROVE  \E f : /\ f[0] = 0
                  /\ \A i \in 1 .. N : f[i] = f[i - 1] + sizes[i]
                  /\ Start(sizes, N + 1) = f[N]
<1> DEFINE Meets(f, n) == f[0] = 0 /\ \A i \in 1 .. n : f[i] = f[i - 1] + sizes[i]
           S == {n \in Nat : \E f : Meets(f, n)}
           G(f) == [i \in 0 .. N |-> IF i = 0 THEN 0 ELSE f[i - 1] + sizes[i]]
<1>0. N \in Nat
  OBVIOUS
<1>1. 0 \in S
  <2>1. Meets([i \in 0 .. 0 |-> 0], 0)
    OBVIOUS
  <2> QED BY <2>1, Zenon
<1>2. ASSUME NEW n \in Nat, n \in S PROVE n + 1 \in S
  <2>1. PICK f : Meets(f, n)
    BY <1>2
  <2> DEFINE g == [i \in 0 .. n + 1 |-> IF i = n + 1 THEN f[n] + sizes[n + 1] ELSE f[i]]
  <2>2. \A i \in 0 .. n : g[i] = f[i]
    OBVIOUS
  <2>3. g[n + 1] = f[n] + sizes[n + 1]
    OBVIOUS
  <2> HIDE DEF g
  <2>4. g[0] = 0
    BY <2>1, <2>2
  <2>5. ASSUME NEW i \in 1 .. n + 1 PROVE g[i] = g[i - 1] + sizes[i]
    <3>1. CASE i = n + 1
      <4>1. i - 1 = n /\ n \in 0 .. n
        BY <3>1
      <4> QED BY <3>1, <4>1, <2>2, <2>3
    <3>2. CASE i # n + 1
      <4>1. i \in 1 .. n /\ i \in 0 .. n /\ i - 1 \in 0 .. n
        BY <3>2
      <4>2. g[i] = f[i] /\ g[i - 1] = f[i - 1] /\ f[i] = f[i - 1] + sizes[i]
        BY <4>1, <2>1, <2>2
      <4> QED BY <4>2
    <3> QED BY <3>1, <3>2
  <2>6. Meets(g, n + 1) /\ n + 1 \in Nat
    BY <2>4, <2>5
  <2> QED BY <2>6, Zenon
<1>3. N \in S
  <2> HIDE DEF S
  <2> QED BY <1>0, <1>1, <1>2, SetInduction
<1>4. PICK f : Meets(f, N)
  BY <1>3
<1> DEFINE r == [i \in 0 .. N |-> f[i]]
<1>5. r = G(r)
  <2>1. ASSUME NEW i \in 0 .. N
        PROVE  f[i] = IF i = 0 THEN 0 ELSE r[i - 1] + sizes[i]
    <3>1. CASE i = 0
      BY <1>4, <3>1
    <3>2. CASE i # 0
      <4>1. i \in 1 .. N /\ i - 1 \in 0 .. N
        BY <1>0, <3>2
      <4>2. r[i - 1] = f[i - 1] /\ f[i] = f[i - 1] + sizes[i]
        BY <1>4, <4>1
      <4> HIDE DEF r
      <4> QED BY <3>2, <4>2
    <3> QED BY <3>1, <3>2
  <2> QED BY <2>1, Zenon
<1> DEFINE h == CHOOSE g : g = G(g)
<1>6. h = G(h)
  <2> HIDE DEF G, r
  <2> QED BY <1>5, Zenon
<1>7. Start(sizes, N + 1) = h[N]
  <2>1. (N + 1) - 1 = N
    OBVIOUS
  <2>2. Start(sizes, N + 1) = (CHOOSE g : g = [i \in 0 .. ((N + 1) - 1) |->
                                 IF i = 0 THEN 0 ELSE g[i - 1] + sizes[i]])[(N + 1) - 1]
    BY Zenon DEF Start
  <2> QED BY <2>1, <2>2
<1> HIDE DEF h
<1>8. \A i \in 0 .. N : h[i] = IF i = 0 THEN 0 ELSE h[i - 1] + sizes[i]
  BY <1>6, Zenon
<1>9. h[0] = 0
  BY <1>8, <1>0
<1>10. ASSUME NEW i \in 1 .. N PROVE h[i] = h[i - 1] + sizes[i]
  <2>1. i \in 0 .. N /\ i # 0
    BY <1>0
  <2> QED BY <2>1, <1>8, Zenon
<1> QED BY <1>7, <1>9, <1>10, Zenon


(* Start adds up the sizes before a piece.                                 *)
LEMMA Starts ==
    ASSUME NEW sizes \in Seq(Nat)
    PROVE  /\ Start(sizes, 1) = 0
           /\ \A j \in 1 .. Len(sizes) : Start(sizes, j + 1) = Start(sizes, j) + sizes[j]
           /\ \A j \in 1 .. (Len(sizes) + 1) : Start(sizes, j) \in Nat
<1> DEFINE M == Len(sizes)
<1>1. M \in Nat /\ \A i \in 1 .. M : sizes[i] \in Nat
  OBVIOUS
<1> HIDE DEF M
<1>2. PICK f : /\ f[0] = 0
               /\ \A i \in 1 .. M : f[i] = f[i - 1] + sizes[i]
               /\ Start(sizes, M + 1) = f[M]
  BY <1>1, StartLoop
<1>3. ASSUME NEW N \in 0 .. M PROVE Start(sizes, N + 1) = f[N]
  <2>1. N \in Nat
    BY <1>1
  <2>2. PICK g : /\ g[0] = 0
                 /\ \A i \in 1 .. N : g[i] = g[i - 1] + sizes[i]
                 /\ Start(sizes, N + 1) = g[N]
    BY <2>1, StartLoop
  <2> DEFINE S == {i \in 0 .. N : g[i] = f[i]}
  <2>3. 0 \in S
    BY <1>2, <2>1, <2>2
  <2>4. ASSUME NEW i \in 0 .. N - 1, i \in S PROVE i + 1 \in S
    <3>1. i + 1 \in 1 .. N /\ i + 1 \in 1 .. M /\ (i + 1) - 1 = i /\ i + 1 \in 0 .. N
      BY <2>1, <1>1
    <3>2. g[i + 1] = g[i] + sizes[i + 1] /\ f[i + 1] = f[i] + sizes[i + 1]
      BY <3>1, <1>2, <2>2
    <3>3. g[i] = f[i]
      BY <2>4
    <3> QED BY <3>1, <3>2, <3>3
  <2>5. \A i \in 0 .. N : i \in S
    <3> HIDE DEF S
    <3> QED BY <2>1, <2>3, <2>4, BoundedInduction
  <2>6. N \in S
    BY <2>1, <2>5
  <2> QED BY <2>2, <2>6
<1>4. Start(sizes, 1) = 0
  <2>1. 0 \in 0 .. M /\ 0 + 1 = 1
    BY <1>1
  <2> QED BY <2>1, <1>2, <1>3
<1>5. ASSUME NEW j \in 1 .. M PROVE Start(sizes, j + 1) = Start(sizes, j) + sizes[j]
  <2>1. j \in 0 .. M /\ j - 1 \in 0 .. M /\ (j - 1) + 1 = j
    BY <1>1
  <2>2. Start(sizes, j + 1) = f[j] /\ Start(sizes, j) = f[j - 1]
    BY <2>1, <1>3
  <2> QED BY <2>2, <1>2
<1> DEFINE S == {i \in 0 .. M : Start(sizes, i + 1) \in Nat}
<1>6. 0 \in S
  BY <1>1, <1>4
<1>7. ASSUME NEW i \in 0 .. M - 1, i \in S PROVE i + 1 \in S
  <2>1. i + 1 \in 1 .. M /\ i + 1 \in 0 .. M
    BY <1>1
  <2>2. Start(sizes, (i + 1) + 1) = Start(sizes, i + 1) + sizes[i + 1]
    BY <2>1, <1>5
  <2>3. Start(sizes, i + 1) \in Nat /\ sizes[i + 1] \in Nat
    BY <2>1, <1>1, <1>7
  <2> QED BY <2>1, <2>2, <2>3
<1>8. \A i \in 0 .. M : i \in S
  <2> HIDE DEF S
  <2> QED BY <1>1, <1>6, <1>7, BoundedInduction
<1>9. ASSUME NEW j \in 1 .. (M + 1) PROVE Start(sizes, j) \in Nat
  <2>1. j - 1 \in 0 .. M /\ (j - 1) + 1 = j
    BY <1>1
  <2>2. j - 1 \in S
    BY <2>1, <1>8
  <2> QED BY <2>1, <2>2
<1> QED BY <1>4, <1>5, <1>9 DEF M

(* The sizes of two lists of pieces, one after the other.                  *)
LEMMA StartConcat ==
    ASSUME NEW a \in Seq(Nat), NEW b \in Seq(Nat)
    PROVE  Start(a \o b, Len(a \o b) + 1) = Start(a, Len(a) + 1) + Start(b, Len(b) + 1)
<1> DEFINE c == a \o b
           m == Len(a)
           n == Len(b)
<1>1. /\ m \in Nat /\ n \in Nat /\ c \in Seq(Nat) /\ Len(c) = m + n
      /\ \A i \in 1 .. m : c[i] = a[i]
      /\ \A i \in 1 .. n : c[m + i] = b[i]
      /\ \A i \in 1 .. m : a[i] \in Nat
      /\ \A i \in 1 .. n : b[i] \in Nat
  OBVIOUS
<1>2. /\ Start(a, 1) = 0
      /\ \A j \in 1 .. m : Start(a, j + 1) = Start(a, j) + a[j]
      /\ \A j \in 1 .. (m + 1) : Start(a, j) \in Nat
  BY Starts
<1>3. /\ Start(b, 1) = 0
      /\ \A j \in 1 .. n : Start(b, j + 1) = Start(b, j) + b[j]
      /\ \A j \in 1 .. (n + 1) : Start(b, j) \in Nat
  BY Starts
<1>4. /\ Start(c, 1) = 0
      /\ \A j \in 1 .. (m + n) : Start(c, j + 1) = Start(c, j) + c[j]
      /\ \A j \in 1 .. ((m + n) + 1) : Start(c, j) \in Nat
  <2> HIDE DEF c, m, n
  <2>1. /\ Start(c, 1) = 0
        /\ \A j \in 1 .. Len(c) : Start(c, j + 1) = Start(c, j) + c[j]
        /\ \A j \in 1 .. (Len(c) + 1) : Start(c, j) \in Nat
    BY <1>1, Starts
  <2> QED BY <1>1, <2>1
<1> HIDE DEF c, m, n
<1> DEFINE S == {i \in 0 .. m : Start(c, i + 1) = Start(a, i + 1)}
           T == {i \in 0 .. n : Start(c, (m + i) + 1) = Start(a, m + 1) + Start(b, i + 1)}
<1>5. 0 \in S
  BY <1>1, <1>2, <1>4
<1>6. ASSUME NEW i \in 0 .. m - 1, i \in S PROVE i + 1 \in S
  <2>1. i + 1 \in 1 .. m /\ i + 1 \in 0 .. m /\ i + 1 \in 1 .. (m + n)
    BY <1>1
  <2>2. /\ Start(c, (i + 1) + 1) = Start(c, i + 1) + c[i + 1]
        /\ Start(a, (i + 1) + 1) = Start(a, i + 1) + a[i + 1] /\ c[i + 1] = a[i + 1]
    BY <2>1, <1>1, <1>2, <1>4
  <2>3. Start(c, i + 1) = Start(a, i + 1)
    BY <1>6
  <2> QED BY <2>1, <2>2, <2>3
<1>7. \A i \in 0 .. m : i \in S
  <2> HIDE DEF S
  <2> QED BY <1>1, <1>5, <1>6, BoundedInduction
<1>8. 0 \in T
  <2>1. m \in S /\ m + 0 = m /\ 0 + 1 = 1 /\ m + 1 \in 1 .. (m + 1) /\ 0 \in 0 .. n
    BY <1>1, <1>7
  <2>2. Start(a, m + 1) \in Nat /\ Start(c, m + 1) = Start(a, m + 1)
    BY <2>1, <1>2
  <2> QED BY <2>1, <2>2, <1>3
<1>9. ASSUME NEW i \in 0 .. n - 1, i \in T PROVE i + 1 \in T
  <2>1. /\ i + 1 \in 1 .. n /\ i + 1 \in 0 .. n /\ (m + i) + 1 \in 1 .. (m + n)
        /\ (m + i) + 1 = m + (i + 1)
    BY <1>1
  <2>2. /\ Start(c, (m + (i + 1)) + 1) = Start(c, (m + i) + 1) + c[m + (i + 1)]
        /\ Start(b, (i + 1) + 1) = Start(b, i + 1) + b[i + 1] /\ c[m + (i + 1)] = b[i + 1]
    BY <2>1, <1>1, <1>3, <1>4
  <2>3. Start(c, (m + i) + 1) = Start(a, m + 1) + Start(b, i + 1)
    BY <1>9
  <2>4. Start(a, m + 1) \in Nat /\ Start(b, i + 1) \in Nat /\ b[i + 1] \in Nat
    <3>1. m + 1 \in 1 .. (m + 1) /\ i + 1 \in 1 .. (n + 1)
      BY <1>1, <2>1
    <3> QED BY <3>1, <2>1, <1>1, <1>2, <1>3
  <2>5. Start(c, (m + (i + 1)) + 1) = Start(a, m + 1) + Start(b, (i + 1) + 1)
    BY <2>2, <2>3, <2>4
  <2> QED BY <2>1, <2>5
<1>10. \A i \in 0 .. n : i \in T
  <2> HIDE DEF T
  <2> QED BY <1>1, <1>8, <1>9, BoundedInduction
<1>11. n \in T
  BY <1>1, <1>10
<1>12. Start(c, (m + n) + 1) = Start(a, m + 1) + Start(b, n + 1)
  BY <1>11
<1> QED BY <1>1, <1>12 DEF c, m, n

(* s cuts n items into pieces, none of them empty and none above cap.      *)
Pieces(s, n, cap) ==
    /\ s \in Seq(Nat) /\ Len(s) >= 1
    /\ \A i \in 1 .. Len(s) : s[i] >= 1 /\ s[i] <= cap
    /\ Start(s, Len(s) + 1) = n
    /\ n > cap => Len(s) >= 2

(* Two partitions, one after the other, are a partition.                   *)
LEMMA PiecesJoin ==
    ASSUME NEW a, NEW b, NEW m \in Nat, NEW n \in Nat, NEW cap \in Nat,
           Pieces(a, m, cap), Pieces(b, n, cap)
    PROVE  Pieces(a \o b, m + n, cap)
<1>1. /\ a \in Seq(Nat) /\ b \in Seq(Nat) /\ Len(a) >= 1 /\ Len(b) >= 1
      /\ \A i \in 1 .. Len(a) : a[i] >= 1 /\ a[i] <= cap
      /\ \A i \in 1 .. Len(b) : b[i] >= 1 /\ b[i] <= cap
  BY DEF Pieces
<1>2. /\ a \o b \in Seq(Nat) /\ Len(a \o b) = Len(a) + Len(b)
      /\ Len(a) \in Nat /\ Len(b) \in Nat
      /\ \A i \in 1 .. (Len(a) + Len(b)) :
            (a \o b)[i] = IF i <= Len(a) THEN a[i] ELSE b[i - Len(a)]
  BY <1>1
<1>3. ASSUME NEW i \in 1 .. Len(a \o b) PROVE (a \o b)[i] >= 1 /\ (a \o b)[i] <= cap
  <2>1. CASE i <= Len(a)
    <3>1. i \in 1 .. Len(a) /\ (a \o b)[i] = a[i]
      BY <2>1, <1>2
    <3> QED BY <3>1, <1>1
  <2>2. CASE ~(i <= Len(a))
    <3>1. i - Len(a) \in 1 .. Len(b) /\ (a \o b)[i] = b[i - Len(a)]
      BY <2>2, <1>2
    <3> QED BY <3>1, <1>1
  <2> QED BY <2>1, <2>2
<1>4. Start(a \o b, Len(a \o b) + 1) = m + n
  BY <1>1, StartConcat DEF Pieces
<1>5. Len(a \o b) >= 2
  BY <1>1, <1>2
<1> QED BY <1>2, <1>3, <1>4, <1>5, SMTT(30) DEF Pieces

(* What fits is its own partition.                                         *)
LEMMA PieceAlone ==
    ASSUME NEW cap \in Nat, NEW n \in 1 .. cap PROVE Pieces(<<n>>, n, cap)
<1> DEFINE s == <<n>>
<1>1. s \in Seq(Nat) /\ Len(s) = 1 /\ s[1] = n
  OBVIOUS
<1> HIDE DEF s
<1>2. Start(s, 1) = 0 /\ \A j \in 1 .. Len(s) : Start(s, j + 1) = Start(s, j) + s[j]
  BY <1>1, Starts
<1>3. 1 \in 1 .. Len(s)
  BY <1>1
<1>4. Start(s, 1 + 1) = 0 + s[1]
  BY <1>2, <1>3
<1>5. Start(s, Len(s) + 1) = n
  BY <1>1, <1>4
<1>6. \A i \in 1 .. Len(s) : s[i] >= 1 /\ s[i] <= cap
  BY <1>1
<1>7. Pieces(s, n, cap)
  BY <1>1, <1>5, <1>6 DEF Pieces
<1> QED BY <1>7 DEF s

(* partition_sizes halves until no piece is above the capacity.            *)
LEMMA PartitionIs ==
    ASSUME NEW n \in Nat, NEW cap \in Nat, cap >= 1
    PROVE  \E h : /\ partition_sizes(n, cap) = h[n]
                  /\ \A m \in 0 .. n : h[m] = IF m <= cap THEN <<m>>
                                              ELSE h[m \div 2] \o h[m - (m \div 2)]
<1> DEFINE step(f, m) == IF m <= cap THEN <<m>> ELSE f[m \div 2] \o f[m - (m \div 2)]
           G(f) == [m \in 0 .. n |-> step(f, m)]
           Upto(x) == \E f : \A m \in 0 .. n : m < x => f[m] = step(f, m)
           S == {x \in Nat : Upto(x)}
<1>1. ASSUME NEW m \in 0 .. n, ~(m <= cap)
      PROVE  /\ m \div 2 \in 0 .. n /\ m - (m \div 2) \in 0 .. n
             /\ m \div 2 < m /\ m - (m \div 2) < m
  BY <1>1
<1>2. ASSUME NEW f, NEW g, NEW x \in Nat, \A m \in 0 .. n : m < x => f[m] = g[m],
             NEW m \in 0 .. n, m <= x
      PROVE  step(f, m) = step(g, m)
  <2>1. CASE m <= cap
    BY <2>1
  <2>2. CASE ~(m <= cap)
    <3> DEFINE y == m \div 2
               z == m - (m \div 2)
    <3>1. y \in 0 .. n /\ z \in 0 .. n /\ y < m /\ z < m
      BY <2>2, <1>1
    <3> HIDE DEF y, z
    <3>2. y < x /\ z < x
      BY <3>1, <1>2
    <3>3. f[y] = g[y] /\ f[z] = g[z]
      BY <3>1, <3>2, <1>2
    <3> QED BY <2>2, <3>3 DEF y, z
  <2> QED BY <2>1, <2>2
<1>3. 0 \in S
  <2>1. \A m \in 0 .. n : ~(m < 0)
    OBVIOUS
  <2>2. Upto(0)
    BY <2>1, Zenon
  <2> QED BY <2>2
<1>4. ASSUME NEW x \in Nat, x \in S PROVE x + 1 \in S
  <2>1. PICK f : \A m \in 0 .. n : m < x => f[m] = step(f, m)
    BY <1>4
  <2> DEFINE g == [m \in 0 .. n |-> IF m < x THEN f[m] ELSE step(f, m)]
  <2>2. \A m \in 0 .. n : g[m] = IF m < x THEN f[m] ELSE step(f, m)
    BY Zenon
  <2> HIDE DEF g, step
  <2>3. \A m \in 0 .. n : m < x => f[m] = g[m]
    BY <2>2
  <2>4. ASSUME NEW m \in 0 .. n, m < x + 1 PROVE g[m] = step(g, m)
    <3>1. m <= x
      BY <2>4
    <3>2. step(f, m) = step(g, m)
      BY <3>1, <2>3, <1>2
    <3>3. g[m] = step(f, m)
      BY <2>1, <2>2
    <3> QED BY <3>2, <3>3
  <2>5. Upto(x + 1)
    BY <2>4, Zenon
  <2>6. x + 1 \in Nat
    OBVIOUS
  <2> QED BY <2>5, <2>6
<1>5. n + 1 \in S
  <2> HIDE DEF S
  <2>1. \A x \in Nat : x \in S
    BY <1>3, <1>4, SetInduction
  <2>2. n + 1 \in Nat
    OBVIOUS
  <2> QED BY <2>1, <2>2
<1>6. PICK f : \A m \in 0 .. n : m < n + 1 => f[m] = step(f, m)
  BY <1>5
<1>7. \A m \in 0 .. n : f[m] = step(f, m)
  <2>1. \A m \in 0 .. n : m < n + 1
    OBVIOUS
  <2> QED BY <2>1, <1>6, Zenon
<1> DEFINE r == [m \in 0 .. n |-> f[m]]
<1>8. r = G(r)
  <2>1. \A m \in 0 .. n : f[m] = r[m]
    BY Zenon
  <2> HIDE DEF r, step
  <2>2. ASSUME NEW m \in 0 .. n PROVE f[m] = step(r, m)
    <3>1. \A i \in 0 .. n : i < n => f[i] = r[i]
      BY <2>1
    <3>2. m <= n /\ n \in Nat
      OBVIOUS
    <3>3. step(f, m) = step(r, m)
      BY <3>1, <3>2, <1>2
    <3> QED BY <3>3, <1>7
  <2> QED BY <2>2, Zenon DEF r
<1> DEFINE h == CHOOSE g : g = G(g)
<1>9. h = G(h)
  <2> HIDE DEF G, r
  <2> QED BY <1>8, Zenon
<1>10. partition_sizes(n, cap) = h[n]
  BY Zenon DEF partition_sizes
<1> HIDE DEF h
<1>11. \A m \in 0 .. n : h[m] = step(h, m)
  BY <1>9, Zenon
<1> QED BY <1>10, <1>11, Zenon

(* partition_sizes: pieces that are not empty, add up to n, and none of    *)
(* which is above cap.                                                     *)
LEMMA PartitionPieces ==
    ASSUME NEW n \in Nat, n >= 1, NEW cap \in Nat, cap >= 1
    PROVE  Pieces(partition_sizes(n, cap), n, cap)
<1>1. PICK h : /\ partition_sizes(n, cap) = h[n]
               /\ \A m \in 0 .. n : h[m] = IF m <= cap THEN <<m>>
                                           ELSE h[m \div 2] \o h[m - (m \div 2)]
  BY PartitionIs
<1> DEFINE D == 0 .. n
           rank == [m \in D |-> m]
           T == {m \in D : m >= 1 => Pieces(h[m], m, cap)}
<1>2. rank \in [D -> Nat] /\ \A m \in D : rank[m] = m
  OBVIOUS
<1>3. ASSUME NEW m \in D, \A c \in D : rank[c] < rank[m] => c \in T PROVE m \in T
  <2> SUFFICES ASSUME m >= 1 PROVE Pieces(h[m], m, cap)
    OBVIOUS
  <2>1. CASE m <= cap
    <3>1. h[m] = <<m>>
      BY <2>1, <1>1, Zenon
    <3>2. m \in 1 .. cap
      BY <2>1
    <3> QED BY <3>1, <3>2, PieceAlone
  <2>2. CASE ~(m <= cap)
    <3> DEFINE y == m \div 2
               z == m - (m \div 2)
    <3>1. y \in D /\ z \in D /\ y < m /\ z < m /\ y >= 1 /\ z >= 1 /\ y + z = m
      BY <2>2
    <3>2. h[m] = h[y] \o h[z]
      BY <2>2, <1>1
    <3> HIDE DEF y, z
    <3>3. Pieces(h[y], y, cap) /\ Pieces(h[z], z, cap)
      <4>1. y \in T /\ z \in T
        <5> HIDE DEF T, rank
        <5> QED BY <3>1, <1>2, <1>3
      <4> QED BY <4>1, <3>1
    <3>4. y \in Nat /\ z \in Nat
      BY <3>1
    <3> QED BY <3>1, <3>2, <3>3, <3>4, PiecesJoin
  <2> QED BY <2>1, <2>2
<1>4. \A m \in D : m \in T
  <2> HIDE DEF D, rank, T
  <2> QED BY <1>2, <1>3, RankInduction
<1>5. n \in T
  BY <1>4
<1> QED BY <1>1, <1>5

(* The pieces start one after the other and the last one ends at n.        *)
LEMMA StartOrder ==
    ASSUME NEW s, NEW n \in Nat, NEW cap \in Nat, Pieces(s, n, cap)
    PROVE  /\ \A j \in 1 .. (Len(s) + 1) : Start(s, j) \in 0 .. n
           /\ \A i, j \in 1 .. (Len(s) + 1) : i < j => Start(s, i) < Start(s, j)
<1> DEFINE M == Len(s)
<1>1. s \in Seq(Nat) /\ \A i \in 1 .. M : s[i] >= 1
  BY DEF Pieces
<1>2. M \in Nat /\ \A i \in 1 .. M : s[i] \in Nat
  BY <1>1
<1>3. /\ Start(s, 1) = 0
      /\ \A j \in 1 .. M : Start(s, j + 1) = Start(s, j) + s[j]
      /\ \A j \in 1 .. (M + 1) : Start(s, j) \in Nat
  BY <1>1, Starts
<1>4. Start(s, M + 1) = n
  BY DEF Pieces
<1> HIDE DEF M
<1>5. ASSUME NEW i \in 1 .. (M + 1), NEW j \in 1 .. (M + 1), i < j
      PROVE  Start(s, i) < Start(s, j)
  <2> DEFINE S == {d \in 0 .. M : i + 1 + d <= M + 1 => Start(s, i) < Start(s, i + 1 + d)}
  <2>1. 0 \in S
    <3> SUFFICES ASSUME i + 1 <= M + 1 PROVE Start(s, i) < Start(s, i + 1)
      BY <1>2
    <3>1. i \in 1 .. M
      BY <1>2
    <3>2. Start(s, i + 1) = Start(s, i) + s[i] /\ s[i] >= 1 /\ s[i] \in Nat /\ Start(s, i) \in Nat
      BY <3>1, <1>1, <1>2, <1>3 DEF M
    <3> QED BY <3>2
  <2>2. ASSUME NEW d \in 0 .. M - 1, d \in S PROVE d + 1 \in S
    <3> SUFFICES ASSUME i + 1 + (d + 1) <= M + 1 PROVE Start(s, i) < Start(s, i + 1 + (d + 1))
      BY <1>2
    <3> DEFINE x == i + 1 + d
    <3>1. x \in 1 .. M /\ i + 1 + (d + 1) = x + 1 /\ x <= M + 1 /\ x \in 1 .. (M + 1)
      BY <1>2
    <3>2. Start(s, x + 1) = Start(s, x) + s[x] /\ s[x] \in Nat /\ Start(s, x) \in Nat
      <4> HIDE DEF x
      <4> QED BY <3>1, <1>2, <1>3
    <3>3. Start(s, i) < Start(s, x) /\ Start(s, i) \in Nat
      BY <2>2, <3>1, <1>3
    <3> HIDE DEF x
    <3> QED BY <3>1, <3>2, <3>3
  <2>3. \A d \in 0 .. M : d \in S
    <3> HIDE DEF S
    <3> QED BY <1>2, <2>1, <2>2, BoundedInduction
  <2>4. j - (i + 1) \in 0 .. M /\ i + 1 + (j - (i + 1)) = j /\ j <= M + 1
    BY <1>2, <1>5
  <2>5. j - (i + 1) \in S
    BY <2>3, <2>4
  <2> QED BY <2>4, <2>5
<1>6. ASSUME NEW j \in 1 .. (M + 1) PROVE Start(s, j) \in 0 .. n
  <2>1. M + 1 \in 1 .. (M + 1) /\ (j = M + 1 \/ j < M + 1)
    BY <1>2
  <2>2. j < M + 1 => Start(s, j) < Start(s, M + 1)
    BY <2>1, <1>5
  <2>3. Start(s, j) \in Nat
    BY <1>3
  <2> QED BY <2>1, <2>2, <2>3, <1>4
<1> QED BY <1>5, <1>6 DEF M

-----------------------------------------------------------------------------
(* A node is split into M pieces, one cut after the other                  *)

(* Of node rest[t], piece[t] is cut off and rest[t + 1] is left.           *)
Cuts(n, M, rest, piece, sep, cut) ==
    /\ M \in Nat /\ M >= 2 /\ rest[1] = n /\ rest[M] = piece[M]
    /\ \A t \in 1 .. (M - 1) :
          /\ HalvesOf(rest[t], sep[t], cut[t], piece[t], rest[t + 1])
          /\ rest[t].leaf => /\ sep[t] \in DOMAIN HeldBy(rest[t])
                             /\ \E x \in DOMAIN HeldBy(rest[t]) : x < sep[t]

(* The node that is still to be cut after t cuts.                          *)
CutId(C, Q, t) == IF t = 0 THEN C ELSE Q + t

CutArena(ns, P, C, Q, rest, piece, merged, t) ==
    [i \in DOMAIN ns \cup ((Q + 1) .. (Q + t)) |->
        IF i = P THEN merged[t]
        ELSE IF i = CutId(C, Q, t) THEN rest[t + 1]
        ELSE IF i = C THEN piece[1]
        ELSE IF i \in (Q + 1) .. (Q + t) THEN piece[(i - Q) + 1]
        ELSE ns[i]]

CutContext(ns, r, L, rk, iv, P, j, Q, M, rest, piece, sep, cut, merged) ==
    /\ Shape(ns, r, L, rk, iv) /\ P \in L /\ ~ns[P].leaf /\ j \in 1 .. Len(ns[P].children)
    /\ Q \in Nat /\ \A t \in 1 .. (M - 1) : Q + t \notin DOMAIN ns
    /\ Cuts(ns[ns[P].children[j]], M, rest, piece, sep, cut)
    /\ merged[0] = ns[P]
    /\ \A t \in 1 .. (M - 1) : merged[t] = Promote(merged[t - 1], <<sep[t], Q + t>>)

(* The parent after t cuts.                                                *)
CutParent(n, m, j, Q, sep, t) ==
    /\ ~m.leaf /\ m.buffer = n.buffer
    /\ Len(m.children) = Len(n.children) + t
    /\ \A y \in 1 .. (Len(n.children) + t) :
          m.children[y] = IF y <= j THEN n.children[y] ELSE IF y <= j + t THEN Q + (y - j)
                          ELSE n.children[y - t]
    /\ Len(m.pivots) = Len(n.pivots) + t
    /\ \A x \in 1 .. (Len(n.pivots) + t) :
          m.pivots[x] = IF x < j THEN n.pivots[x] ELSE IF x < j + t THEN sep[(x - j) + 1]
                        ELSE n.pivots[x - t]

CutKept(ns, r, L, P, j, Q, sep, t, ns2) ==
    /\ \E rk, iv : Shape(ns2, r, L \cup ((Q + 1) .. (Q + t)), rk, iv)
    /\ SameMap(ns, r, ns2, r)
    /\ CutParent(ns[P], ns2[P], j, Q, sep, t)

(* Before the first cut nothing has changed.                               *)
LEMMA CutStart ==
    ASSUME NEW ns, NEW r, NEW L, NEW rk, NEW iv, NEW P, NEW j, NEW Q, NEW M,
           NEW rest, NEW piece, NEW sep, NEW cut, NEW merged,
           CutContext(ns, r, L, rk, iv, P, j, Q, M, rest, piece, sep, cut, merged)
    PROVE  CutKept(ns, r, L, P, j, Q, sep, 0,
                   CutArena(ns, P, ns[P].children[j], Q, rest, piece, merged, 0))
<1> DEFINE C == ns[P].children[j]
           A == CutArena(ns, P, C, Q, rest, piece, merged, 0)
<1>1. /\ Shape(ns, r, L, rk, iv) /\ P \in L /\ ~ns[P].leaf /\ j \in 1 .. Len(ns[P].children)
      /\ Q \in Nat /\ merged[0] = ns[P] /\ rest[1] = ns[C]
  BY DEF CutContext, Cuts
<1>2. (Q + 1) .. (Q + 0) = {} /\ 0 + 1 = 1 /\ CutId(C, Q, 0) = C
  BY <1>1 DEF CutId
<1>3. ns = [i \in DOMAIN ns |-> ns[i]]
  BY <1>1 DEF Shape, Arena
<1>4. A = ns
  <2>1. DOMAIN ns \cup ((Q + 1) .. (Q + 0)) = DOMAIN ns
    BY <1>2
  <2>2. ASSUME NEW i \in DOMAIN ns
        PROVE  (IF i = P THEN merged[0]
                ELSE IF i = CutId(C, Q, 0) THEN rest[0 + 1]
                ELSE IF i = C THEN piece[1]
                ELSE IF i \in (Q + 1) .. (Q + 0) THEN piece[(i - Q) + 1]
                ELSE ns[i]) = ns[i]
    <3> HIDE DEF C
    <3> QED BY <1>1, <1>2
  <2>3. A = [i \in DOMAIN ns |-> ns[i]]
    <3> HIDE DEF C
    <3> QED BY <2>1, <2>2 DEF CutArena
  <2> QED BY <2>3, <1>3
<1>5. L \cup ((Q + 1) .. (Q + 0)) = L
  BY <1>2
<1>6. CutParent(ns[P], ns[P], j, Q, sep, 0)
  <2> DEFINE n == ns[P]
  <2>1. n \in InnerNode
    BY <1>1, ChildApart DEF Parented
  <2>2. n.children \in Seq(Nat) /\ n.pivots \in Seq(Nat)
    BY <2>1 DEF InnerNode
  <2>3. Len(n.children) \in Nat /\ Len(n.pivots) \in Nat /\ j \in Nat
    BY <2>2, <1>1
  <2>4. ~n.leaf
    BY <1>1
  <2> HIDE DEF n
  <2>5. \A y \in 1 .. (Len(n.children) + 0) :
          n.children[y] = IF y <= j THEN n.children[y] ELSE IF y <= j + 0 THEN Q + (y - j)
                          ELSE n.children[y - 0]
    BY <2>3
  <2>6. \A x \in 1 .. (Len(n.pivots) + 0) :
          n.pivots[x] = IF x < j THEN n.pivots[x] ELSE IF x < j + 0 THEN sep[(x - j) + 1]
                        ELSE n.pivots[x - 0]
    BY <2>3
  <2>7. CutParent(n, n, j, Q, sep, 0)
    BY <2>3, <2>4, <2>5, <2>6 DEF CutParent
  <2> QED BY <2>7 DEF n
<1>7. SameMap(ns, r, ns, r)
  BY DEF SameMap
<1>8. CutKept(ns, r, L, P, j, Q, sep, 0, ns)
  BY <1>1, <1>5, <1>6, <1>7 DEF CutKept
<1> QED BY <1>4, <1>8

(* One more cut is a cut in two of the node that is left.                  *)
LEMMA CutArenaNext ==
    ASSUME NEW ns, NEW r, NEW L, NEW rk, NEW iv, NEW P, NEW j, NEW Q, NEW M,
           NEW rest, NEW piece, NEW sep, NEW cut, NEW merged,
           CutContext(ns, r, L, rk, iv, P, j, Q, M, rest, piece, sep, cut, merged),
           NEW t \in 0 .. (M - 2)
    PROVE  LET C == ns[P].children[j]
               A == CutArena(ns, P, C, Q, rest, piece, merged, t)
           IN  /\ CutArena(ns, P, C, Q, rest, piece, merged, t + 1) =
                  SplitOff(A, P, CutId(C, Q, t), (Q + t) + 1, sep[t + 1], piece[t + 1], rest[t + 2])
               /\ CutId(C, Q, t) \in DOMAIN A /\ A[CutId(C, Q, t)] = rest[t + 1]
               /\ A[P] = merged[t] /\ (Q + t) + 1 \notin DOMAIN A
               /\ CutId(C, Q, t) # P /\ CutId(C, Q, t) \in L \cup ((Q + 1) .. (Q + t))
<1> DEFINE C == ns[P].children[j]
           A == CutArena(ns, P, C, Q, rest, piece, merged, t)
           B == CutArena(ns, P, C, Q, rest, piece, merged, t + 1)
           D == DOMAIN ns \cup ((Q + 1) .. (Q + t))
           c == CutId(C, Q, t)
           q == (Q + t) + 1
<1>1. /\ Shape(ns, r, L, rk, iv) /\ P \in L /\ ~ns[P].leaf /\ j \in 1 .. Len(ns[P].children)
      /\ Q \in Nat /\ M \in Nat /\ M >= 2 /\ \A x \in 1 .. (M - 1) : Q + x \notin DOMAIN ns
      /\ \A x \in 1 .. (M - 1) : merged[x] = Promote(merged[x - 1], <<sep[x], Q + x>>)
  BY DEF CutContext, Cuts
<1>2. Parented(ns, r, L, rk, P, j)
  BY <1>1, ChildApart
<1>3. C \in L /\ C \in DOMAIN ns /\ C # P /\ P \in DOMAIN ns /\ L \subseteq DOMAIN ns
  BY <1>1, <1>2 DEF Parented, Shape, Tree
<1>4. DOMAIN ns \subseteq Nat
  BY <1>1 DEF Shape, Arena
<1> HIDE DEF C
<1>5. \A x \in (Q + 1) .. (Q + (t + 1)) : x \notin DOMAIN ns
  <2> SUFFICES ASSUME NEW x \in (Q + 1) .. (Q + (t + 1)) PROVE x \notin DOMAIN ns
    OBVIOUS
  <2>1. x - Q \in 1 .. (M - 1) /\ Q + (x - Q) = x
    BY <1>1
  <2> QED BY <2>1, <1>1
<1>6. /\ q \in (Q + 1) .. (Q + (t + 1)) /\ q \notin (Q + 1) .. (Q + t) /\ q = Q + (t + 1)
      /\ q \notin D /\ D \cup {q} = DOMAIN ns \cup ((Q + 1) .. (Q + (t + 1)))
      /\ (Q + 1) .. (Q + t) \subseteq (Q + 1) .. (Q + (t + 1))
  <2>1. /\ q \in (Q + 1) .. (Q + (t + 1)) /\ q \notin (Q + 1) .. (Q + t) /\ q = Q + (t + 1)
        /\ (Q + 1) .. (Q + (t + 1)) = ((Q + 1) .. (Q + t)) \cup {q}
    BY <1>1
  <2> QED BY <2>1, <1>5
<1>7. (t = 0 => c = C) /\ (t # 0 => c = Q + t /\ c \in (Q + 1) .. (Q + t))
  BY <1>1 DEF CutId
<1>8. c \in D /\ c # P /\ c # q /\ c \in L \cup ((Q + 1) .. (Q + t)) /\ P \in D
  BY <1>3, <1>5, <1>6, <1>7
<1>9. CutId(C, Q, t + 1) = q
  BY <1>1, <1>6 DEF CutId
<1>10. A = [i \in D |-> IF i = P THEN merged[t]
                       ELSE IF i = c THEN rest[t + 1]
                       ELSE IF i = C THEN piece[1]
                       ELSE IF i \in (Q + 1) .. (Q + t) THEN piece[(i - Q) + 1]
                       ELSE ns[i]]
  BY Zenon DEF CutArena
<1>11. (t + 1) + 1 = t + 2 /\ t + 1 \in 1 .. (M - 1) /\ (t + 1) - 1 = t
  BY <1>1
<1>12. B = [i \in D \cup {q} |-> IF i = P THEN merged[t + 1]
                       ELSE IF i = q THEN rest[t + 2]
                       ELSE IF i = C THEN piece[1]
                       ELSE IF i \in (Q + 1) .. (Q + (t + 1)) THEN piece[(i - Q) + 1]
                       ELSE ns[i]]
  BY <1>6, <1>9, <1>11 DEF CutArena
<1>13. merged[t + 1] = Promote(merged[t], <<sep[t + 1], q>>)
  BY <1>1, <1>6, <1>11
<1> DEFINE S == SplitOff(A, P, c, q, sep[t + 1], piece[t + 1], rest[t + 2])
<1> HIDE DEF A, B, D, c, q
<1>14. DOMAIN A = D /\ A[P] = merged[t] /\ A[c] = rest[t + 1]
  BY <1>8, <1>10
<1>15. S = [i \in D \cup {q} |->
              IF i = q THEN rest[t + 2] ELSE IF i = c THEN piece[t + 1]
              ELSE IF i = P THEN Promote(A[P], <<sep[t + 1], q>>) ELSE A[i]]
  BY <1>14 DEF SplitOff
<1>16. ASSUME NEW i \in D \cup {q}
       PROVE  (IF i = P THEN merged[t + 1]
               ELSE IF i = q THEN rest[t + 2]
               ELSE IF i = C THEN piece[1]
               ELSE IF i \in (Q + 1) .. (Q + (t + 1)) THEN piece[(i - Q) + 1]
               ELSE ns[i])
              = (IF i = q THEN rest[t + 2] ELSE IF i = c THEN piece[t + 1]
                 ELSE IF i = P THEN Promote(A[P], <<sep[t + 1], q>>) ELSE A[i])
  <2>1. CASE i = q
    BY <2>1, <1>6, <1>8
  <2>2. CASE i = P
    BY <2>2, <1>6, <1>8, <1>13, <1>14
  <2>3. CASE i = c
    <3>1. CASE t = 0
      BY <2>3, <3>1, <1>7, <1>8
    <3>2. CASE t # 0
      <4>1. c = Q + t /\ c \in (Q + 1) .. (Q + t) /\ c # C /\ (c - Q) + 1 = t + 1
        BY <3>2, <1>1, <1>3, <1>5, <1>6, <1>7
      <4>2. c \in (Q + 1) .. (Q + (t + 1))
        BY <4>1, <1>6
      <4> QED BY <2>3, <4>1, <4>2, <1>8
    <3> QED BY <3>1, <3>2
  <2>4. CASE i \notin {q, P, c}
    <3>1. i \in D
      BY <2>4
    <3>2. A[i] = IF i = C THEN piece[1]
                 ELSE IF i \in (Q + 1) .. (Q + t) THEN piece[(i - Q) + 1]
                 ELSE ns[i]
      BY <2>4, <3>1, <1>10
    <3>3. i \in (Q + 1) .. (Q + (t + 1)) <=> i \in (Q + 1) .. (Q + t)
      <4>1. i # q /\ q = Q + (t + 1)
        BY <2>4, <1>6
      <4> QED BY <4>1, <1>1
    <3> QED BY <2>4, <3>2, <3>3
  <2> QED BY <2>1, <2>2, <2>3, <2>4
<1>17. B = S
  <2> HIDE DEF S
  <2> QED BY <1>12, <1>15, <1>16
<1> QED BY <1>6, <1>8, <1>14, <1>17 DEF A, B, D, c, q, C

(* Where a pivot behind the cuts was one cut before.                       *)
LEMMA PivotBeyond ==
    ASSUME NEW p \in Nat, NEW t \in Nat, NEW j \in Nat, j >= 1, NEW x \in 1 .. (p + (t + 1)),
           ~(x < j + t), x # j + t
    PROVE  /\ x - 1 \in 1 .. (p + t) /\ ~(x - 1 < j) /\ ~(x - 1 < j + t)
           /\ (x - 1) - t = x - (t + 1) /\ ~(x < j) /\ ~(x < j + (t + 1))
OBVIOUS

(* One more promoted piece to the right of those before it.                *)
LEMMA CutParentNext ==
    ASSUME NEW n, NEW m, NEW m2, NEW j \in Nat, NEW Q \in Nat, NEW sep, NEW t \in Nat,
           Len(n.children) \in Nat, Len(n.pivots) \in Nat, Len(n.children) = Len(n.pivots) + 1,
           j \in 1 .. Len(n.children), CutParent(n, m, j, Q, sep, t),
           ~m2.leaf, m2.buffer = m.buffer, Len(m2.children) = Len(m.children) + 1,
           \A y \in 1 .. (Len(m.children) + 1) :
              m2.children[y] = IF y <= j + t THEN m.children[y]
                               ELSE IF y = (j + t) + 1 THEN (Q + t) + 1 ELSE m.children[y - 1],
           Len(m2.pivots) = Len(m.pivots) + 1,
           \A x \in 1 .. (Len(m.pivots) + 1) :
              m2.pivots[x] = IF x < j + t THEN m.pivots[x]
                             ELSE IF x = j + t THEN sep[t + 1] ELSE m.pivots[x - 1]
    PROVE  CutParent(n, m2, j, Q, sep, t + 1)
<1> DEFINE c == Len(n.children)
           p == Len(n.pivots)
<1>1. /\ c \in Nat /\ p \in Nat /\ c = p + 1 /\ j \in 1 .. c
      /\ Len(m.children) = c + t /\ Len(m.pivots) = p + t /\ m.buffer = n.buffer
      /\ \A y \in 1 .. (c + t) :
            m.children[y] = IF y <= j THEN n.children[y] ELSE IF y <= j + t THEN Q + (y - j)
                          ELSE n.children[y - t]
      /\ \A x \in 1 .. (p + t) :
            m.pivots[x] = IF x < j THEN n.pivots[x] ELSE IF x < j + t THEN sep[(x - j) + 1]
                        ELSE n.pivots[x - t]
  BY DEF CutParent
<1> HIDE DEF c, p
<1>2. ASSUME NEW y \in 1 .. (c + (t + 1))
      PROVE  m2.children[y] = IF y <= j THEN n.children[y]
                              ELSE IF y <= j + (t + 1) THEN Q + (y - j)
                              ELSE n.children[y - (t + 1)]
  <2>1. /\ y \in 1 .. ((c + t) + 1)
        /\ m2.children[y] = IF y <= j + t THEN m.children[y]
                               ELSE IF y = (j + t) + 1 THEN (Q + t) + 1 ELSE m.children[y - 1]
    <3>1. c \in Nat /\ Len(m.children) + 1 = (c + t) + 1
      BY <1>1
    <3>2. y \in 1 .. ((c + t) + 1)
      BY <3>1
    <3> QED BY <3>1, <3>2
  <2>2. CASE y <= j + t
    <3>1. y \in 1 .. (c + t) /\ y <= j + (t + 1)
      BY <1>1, <2>2, SMTT(30)
    <3> QED BY <3>1, <2>1, <2>2, <1>1
  <2>3. CASE y = (j + t) + 1
    <3>1. ~(y <= j + t) /\ ~(y <= j) /\ y <= j + (t + 1) /\ Q + (y - j) = (Q + t) + 1
      BY <1>1, <2>3
    <3> QED BY <3>1, <2>1, <2>3
  <2>4. CASE ~(y <= j + t) /\ y # (j + t) + 1
    <3>1. /\ y - 1 \in 1 .. (c + t) /\ ~(y - 1 <= j) /\ ~(y - 1 <= j + t)
          /\ (y - 1) - t = y - (t + 1) /\ ~(y <= j) /\ ~(y <= j + (t + 1))
      <4>1. c \in Nat /\ y \in 1 .. (c + (t + 1))
        BY <1>1
      <4> QED BY <4>1, <2>4
    <3>2. m2.children[y] = m.children[y - 1]
      BY <2>1, <2>4
    <3>3. m.children[y - 1] = n.children[(y - 1) - t]
      BY <3>1, <1>1, Zenon
    <3> QED BY <3>1, <3>2, <3>3, Zenon
  <2> QED BY <2>2, <2>3, <2>4
<1>3. ASSUME NEW x \in 1 .. (p + (t + 1))
      PROVE  m2.pivots[x] = IF x < j THEN n.pivots[x]
                            ELSE IF x < j + (t + 1) THEN sep[(x - j) + 1]
                            ELSE n.pivots[x - (t + 1)]
  <2>1. /\ x \in 1 .. ((p + t) + 1)
        /\ m2.pivots[x] = IF x < j + t THEN m.pivots[x]
                             ELSE IF x = j + t THEN sep[t + 1] ELSE m.pivots[x - 1]
    <3>1. p \in Nat /\ Len(m.pivots) + 1 = (p + t) + 1
      BY <1>1
    <3>2. x \in 1 .. ((p + t) + 1)
      BY <3>1
    <3> QED BY <3>1, <3>2
  <2>2. CASE x < j + t
    <3>1. x \in 1 .. (p + t) /\ x < j + (t + 1)
      BY <1>1, <2>2, SMTT(30)
    <3> QED BY <3>1, <2>1, <2>2, <1>1
  <2>3. CASE x = j + t
    <3>1. ~(x < j + t) /\ ~(x < j) /\ x < j + (t + 1) /\ (x - j) + 1 = t + 1
      BY <1>1, <2>3
    <3> QED BY <3>1, <2>1, <2>3
  <2>4. CASE ~(x < j + t) /\ x # j + t
    <3>1. /\ x - 1 \in 1 .. (p + t) /\ ~(x - 1 < j) /\ ~(x - 1 < j + t)
          /\ (x - 1) - t = x - (t + 1) /\ ~(x < j) /\ ~(x < j + (t + 1))
      <4>1. p \in Nat /\ x \in 1 .. (p + (t + 1))
        BY <1>1
      <4>2. j \in Nat /\ j >= 1 /\ t \in Nat /\ x \in Nat
        BY <1>1, <4>1
      <4> QED BY <4>1, <4>2, <2>4, PivotBeyond
    <3>2. m2.pivots[x] = m.pivots[x - 1]
      BY <2>1, <2>4
    <3>3. m.pivots[x - 1] = n.pivots[(x - 1) - t]
      BY <3>1, <1>1, Zenon
    <3> QED BY <3>1, <3>2, <3>3, Zenon
  <2> QED BY <2>2, <2>3, <2>4
<1>4. Len(m2.children) = c + (t + 1) /\ Len(m2.pivots) = p + (t + 1)
  BY <1>1
<1>5. ~m2.leaf /\ m2.buffer = n.buffer
  BY <1>1
<1> QED BY <1>2, <1>3, <1>4, <1>5 DEF CutParent, c, p

(* One more cut keeps the shape and the map.                               *)
LEMMA CutNext ==
    ASSUME NEW ns, NEW r, NEW L, NEW rk, NEW iv, NEW P, NEW j, NEW Q, NEW M,
           NEW rest, NEW piece, NEW sep, NEW cut, NEW merged,
           CutContext(ns, r, L, rk, iv, P, j, Q, M, rest, piece, sep, cut, merged),
           NEW t \in 0 .. (M - 2),
           CutKept(ns, r, L, P, j, Q, sep, t,
                   CutArena(ns, P, ns[P].children[j], Q, rest, piece, merged, t))
    PROVE  CutKept(ns, r, L, P, j, Q, sep, t + 1,
                   CutArena(ns, P, ns[P].children[j], Q, rest, piece, merged, t + 1))
<1> DEFINE C == ns[P].children[j]
           A == CutArena(ns, P, C, Q, rest, piece, merged, t)
           B == CutArena(ns, P, C, Q, rest, piece, merged, t + 1)
           K == L \cup ((Q + 1) .. (Q + t))
           c == CutId(C, Q, t)
           q == (Q + t) + 1
           n == ns[P]
           s == sep[t + 1]
           a == piece[t + 1]
           b == rest[t + 2]
           u == cut[t + 1]
<1>1. /\ Shape(ns, r, L, rk, iv) /\ P \in L /\ ~n.leaf /\ j \in 1 .. Len(n.children)
      /\ Q \in Nat /\ M \in Nat /\ M >= 2
  BY DEF CutContext, Cuts
<1>2. /\ HalvesOf(rest[t + 1], s, u, a, b)
      /\ rest[t + 1].leaf => /\ s \in DOMAIN HeldBy(rest[t + 1])
                             /\ \E x \in DOMAIN HeldBy(rest[t + 1]) : x < s
  <2>1. t + 1 \in 1 .. (M - 1) /\ (t + 1) + 1 = t + 2
    BY <1>1
  <2> QED BY <2>1 DEF CutContext, Cuts
<1>3. PICK rkA, ivA : Shape(A, r, K, rkA, ivA)
  BY DEF CutKept
<1>4. SameMap(ns, r, A, r) /\ CutParent(n, A[P], j, Q, sep, t)
  BY DEF CutKept
<1>5. /\ B = SplitOff(A, P, c, q, s, a, b)
      /\ c \in DOMAIN A /\ A[c] = rest[t + 1] /\ q \notin DOMAIN A /\ c # P /\ c \in K
  BY CutArenaNext
<1>6. /\ n \in InnerNode /\ Len(n.children) = Len(n.pivots) + 1
      /\ n.children \in Seq(Nat) /\ n.pivots \in Seq(Nat)
  BY <1>1, ChildApart DEF Parented
<1>7. Len(n.children) \in Nat /\ Len(n.pivots) \in Nat /\ j \in Nat
  <2> DEFINE w == n.children
             z == n.pivots
  <2>1. w \in Seq(Nat) /\ z \in Seq(Nat) /\ j \in 1 .. Len(w)
    BY <1>1, <1>6
  <2> HIDE DEF w, z
  <2>2. Len(w) \in Nat /\ Len(z) \in Nat /\ j \in Nat
    BY <2>1
  <2> QED BY <2>2 DEF w, z
<1> HIDE DEF A, B, c, n, s, a, b, u
<1>8. Len(A[P].children) = Len(n.children) + t /\ ~A[P].leaf
  BY <1>4 DEF CutParent
<1>9. j + t \in 1 .. Len(A[P].children) /\ j + t \in 1 .. (Len(n.children) + t) /\ t \in Nat
  BY <1>1, <1>7, <1>8
<1>10. A[P].children[j + t] = c
  <2>1. A[P].children[j + t] = IF j + t <= j THEN n.children[j + t]
                               ELSE IF j + t <= j + t THEN Q + ((j + t) - j)
                               ELSE n.children[(j + t) - t]
    BY <1>4, <1>9 DEF CutParent
  <2>2. CASE t = 0
    BY <2>1, <2>2, <1>7 DEF c, CutId, C, n
  <2>3. CASE t # 0
    <3>1. ~(j + t <= j) /\ j + t <= j + t /\ (j + t) - j = t
      BY <2>3, <1>7, <1>9
    <3> QED BY <2>1, <2>3, <3>1 DEF c, CutId
  <2> QED BY <2>2, <2>3
<1>11. s \in ivA[c] /\ \E x \in ivA[c] : x < s
  <2>1. Ranges(A, r, K, ivA)
    BY <1>3 DEF Shape
  <2>2. CASE rest[t + 1].leaf
    <3>1. DOMAIN HeldBy(rest[t + 1]) \subseteq ivA[c]
      BY <2>1, <1>5 DEF Ranges
    <3> QED BY <2>2, <3>1, <1>2
  <2>3. CASE ~rest[t + 1].leaf
    <3>1. u \in 1 .. Len(A[c].pivots) /\ s = A[c].pivots[u] /\ ~A[c].leaf
      BY <2>3, <1>2, <1>5 DEF HalvesOf
    <3> QED BY <3>1, <2>1, <1>5 DEF Ranges
  <2> QED BY <2>2, <2>3
<1>12. P \in K /\ q \in Nat
  BY <1>1
<1>13. SplitContext(A, r, K, rkA, ivA, P, j + t, q, s, u, a, b)
  BY <1>2, <1>3, <1>5, <1>8, <1>9, <1>10, <1>11, <1>12 DEF SplitContext
<1>14. SplitKept(A, r, K, rkA, ivA, P, j + t, q, s, a, b)
  BY <1>13, SplitInTwoKeeps
<1>15. /\ Shape(B, r, K \cup {q}, SplitRanks(A, rkA, c, q), SplitRanges(A, ivA, c, q, s))
       /\ SameMap(A, r, B, r)
  BY <1>5, <1>10, <1>14 DEF SplitKept
<1>16. K \cup {q} = L \cup ((Q + 1) .. (Q + (t + 1)))
  BY <1>1
<1>17. SameMap(ns, r, B, r)
  BY <1>4, <1>15 DEF SameMap
<1>18. SplitFacts(A, r, K, rkA, ivA, P, j + t, q, s, u, a, b)
  BY <1>13, SplitFactsHold
<1>19. /\ ~B[P].leaf /\ B[P].buffer = A[P].buffer
       /\ Len(B[P].children) = Len(A[P].children) + 1
       /\ \A y \in 1 .. (Len(A[P].children) + 1) :
             B[P].children[y] = IF y <= j + t THEN A[P].children[y]
                                ELSE IF y = (j + t) + 1 THEN q ELSE A[P].children[y - 1]
       /\ Len(B[P].pivots) = Len(A[P].pivots) + 1
       /\ \A x \in 1 .. (Len(A[P].pivots) + 1) :
              B[P].pivots[x] = IF x < j + t THEN A[P].pivots[x]
                               ELSE IF x = j + t THEN s ELSE A[P].pivots[x - 1]
  BY <1>5, <1>10, <1>18 DEF SplitFacts
<1>20. CutParent(n, B[P], j, Q, sep, t + 1)
  BY <1>1, <1>4, <1>6, <1>7, <1>9, <1>19, CutParentNext DEF s
<1>21. CutKept(ns, r, L, P, j, Q, sep, t + 1, B)
  BY <1>15, <1>16, <1>17, <1>20 DEF CutKept, n
<1> QED BY <1>21 DEF B

(* So all cuts do.                                                         *)
LEMMA CutsKeep ==
    ASSUME NEW ns, NEW r, NEW L, NEW rk, NEW iv, NEW P, NEW j, NEW Q, NEW M,
           NEW rest, NEW piece, NEW sep, NEW cut, NEW merged,
           CutContext(ns, r, L, rk, iv, P, j, Q, M, rest, piece, sep, cut, merged)
    PROVE  CutKept(ns, r, L, P, j, Q, sep, M - 1,
                   CutArena(ns, P, ns[P].children[j], Q, rest, piece, merged, M - 1))
<1> DEFINE A(t) == CutArena(ns, P, ns[P].children[j], Q, rest, piece, merged, t)
           S == {t \in Nat : CutKept(ns, r, L, P, j, Q, sep, t, A(t))}
<1>1. M \in Nat /\ M >= 2
  BY DEF CutContext, Cuts
<1>2. 0 \in S
  BY CutStart
<1>3. ASSUME NEW t \in 0 .. (M - 1) - 1, t \in S PROVE t + 1 \in S
  <2>1. t \in 0 .. (M - 2) /\ t + 1 \in Nat
    BY <1>1
  <2>2. CutKept(ns, r, L, P, j, Q, sep, t, A(t))
    BY <1>3
  <2>3. CutKept(ns, r, L, P, j, Q, sep, t + 1, A(t + 1))
    BY <2>1, <2>2, CutNext
  <2> QED BY <2>1, <2>3
<1>4. \A t \in 0 .. (M - 1) : t \in S
  <2>1. M - 1 \in Nat
    BY <1>1
  <2> HIDE DEF S
  <2> QED BY <2>1, <1>2, <1>3, BoundedInduction
<1>5. M - 1 \in S
  BY <1>1, <1>4
<1> QED BY <1>5

-----------------------------------------------------------------------------
(* Where a leaf is cut                                                     *)

(* How many of the keys of S are below k.                                  *)
Rank(S, k) == Cardinality({x \in S : x < k})

(* Ranks number the elements of a finite set, in order.                    *)
LEMMA RankFacts ==
    ASSUME NEW S \in SUBSET Nat, IsFiniteSet(S)
    PROVE  /\ Cardinality(S) \in Nat
           /\ \A k \in S : Rank(S, k) \in 0 .. (Cardinality(S) - 1)
           /\ \A k, l \in S : k < l => Rank(S, k) < Rank(S, l)
           /\ \A x \in 0 .. (Cardinality(S) - 1) : \E k \in S : Rank(S, k) = x
<1>1. Cardinality(S) \in Nat
  BY FS_CardinalityType
<1>2. ASSUME NEW k \in S PROVE Rank(S, k) \in 0 .. (Cardinality(S) - 1)
  <2> DEFINE A == {x \in S : x < k}
  <2>1. A \in SUBSET (S \ {k})
    OBVIOUS
  <2>2. IsFiniteSet(S \ {k}) /\ Cardinality(S \ {k}) = Cardinality(S) - 1
    BY FS_RemoveElement
  <2> HIDE DEF A
  <2>3. IsFiniteSet(A) /\ Cardinality(A) <= Cardinality(S) - 1
    BY <2>1, <2>2, FS_Subset
  <2>4. Cardinality(A) \in Nat
    BY <2>3, FS_CardinalityType
  <2>5. Rank(S, k) = Cardinality(A)
    BY DEF Rank, A
  <2> QED BY <1>1, <2>3, <2>4, <2>5
<1>3. ASSUME NEW k \in S, NEW l \in S, k < l PROVE Rank(S, k) < Rank(S, l)
  <2> DEFINE A == {x \in S : x < k}
             B == {x \in S : x < l}
  <2>1. A \in SUBSET (B \ {k}) /\ k \in B /\ B \in SUBSET S
    <3>1. k \in Nat /\ l \in Nat
      OBVIOUS
    <3>2. ASSUME NEW x \in A PROVE x \in B /\ x # k
      <4>1. x \in S /\ x \in Nat /\ x < k
        OBVIOUS
      <4>2. x < l /\ x # k
        BY <4>1, <3>1, <1>3
      <4> QED BY <4>1, <4>2
    <3> QED BY <3>2, <1>3
  <2>2. Rank(S, k) = Cardinality(A) /\ Rank(S, l) = Cardinality(B)
    BY DEF Rank
  <2> HIDE DEF A, B
  <2>3. IsFiniteSet(B)
    BY <2>1, FS_Subset
  <2>4. IsFiniteSet(B \ {k}) /\ Cardinality(B \ {k}) = Cardinality(B) - 1
    BY <2>1, <2>3, FS_RemoveElement
  <2>5. IsFiniteSet(A) /\ Cardinality(A) <= Cardinality(B) - 1
    BY <2>1, <2>4, FS_Subset
  <2>6. Cardinality(A) \in Nat /\ Cardinality(B) \in Nat
    BY <2>3, <2>5, FS_CardinalityType
  <2> QED BY <2>2, <2>5, <2>6
<1>4. ASSUME NEW x \in 0 .. (Cardinality(S) - 1) PROVE \E k \in S : Rank(S, k) = x
  <2> DEFINE T == 0 .. (Cardinality(S) - 1)
             f == [k \in S |-> Rank(S, k)]
  <2>1. f \in [S -> T] /\ \A k \in S : f[k] = Rank(S, k)
    BY <1>2
  <2>2. \A k, l \in S : f[k] = f[l] => k = l
    <3> SUFFICES ASSUME NEW k \in S, NEW l \in S, f[k] = f[l] PROVE k = l
      OBVIOUS
    <3>1. k \in Nat /\ l \in Nat /\ Rank(S, k) = Rank(S, l) /\ Rank(S, k) \in Int
      BY <2>1, <1>2
    <3>2. ~(k < l) /\ ~(l < k)
      <4> HIDE DEF f
      <4> QED BY <3>1, <1>3
    <3> QED BY <3>1, <3>2
  <2>3. IsFiniteSet(T) /\ Cardinality(T) = Cardinality(S)
    <3> DEFINE m == Cardinality(S)
    <3>1. m \in Nat
      BY <1>1
    <3> HIDE DEF m
    <3>2. /\ IsFiniteSet(0 .. (m - 1))
          /\ Cardinality(0 .. (m - 1)) = IF 0 > m - 1 THEN 0 ELSE (m - 1) - 0 + 1
      BY <3>1, FS_Interval
    <3>3. Cardinality(0 .. (m - 1)) = m
      BY <3>1, <3>2
    <3> QED BY <3>2, <3>3 DEF m
  <2> HIDE DEF f, T
  <2>4. f \in Injection(S, T)
    BY <2>1, <2>2 DEF Injection, IsInjective
  <2>5. f \in Surjection(S, T)
    BY <2>3, <2>4, FS_Injection
  <2>6. \A y \in T : \E k \in S : f[k] = y
    BY <2>5 DEF Surjection
  <2> QED BY <2>1, <2>6 DEF T
<1> QED BY <1>1, <1>2, <1>3, <1>4

(* The pieces of a leaf are not empty, and a key is below the separator    *)
(* between two pieces if and only if it comes before the right one.        *)
ChunkKept(e, sizes) ==
    /\ \A j \in 1 .. Len(sizes) : Chunk(e, sizes, j) # {} /\ Chunk(e, sizes, j) \subseteq DOMAIN e
    /\ \A j \in 1 .. Len(sizes) : \A k \in DOMAIN e :
          k \in Chunk(e, sizes, j) <=> /\ Start(sizes, j) <= Rank(DOMAIN e, k)
                                       /\ Rank(DOMAIN e, k) < Start(sizes, j + 1)
    /\ \A j \in 1 .. (Len(sizes) - 1) :
          /\ Min(Chunk(e, sizes, j + 1)) \in Chunk(e, sizes, j + 1)
          /\ Min(Chunk(e, sizes, j + 1)) \in DOMAIN e
          /\ \A k \in DOMAIN e :
                k < Min(Chunk(e, sizes, j + 1)) <=> Rank(DOMAIN e, k) < Start(sizes, j + 1)
    /\ \A j \in 1 .. (Len(sizes) + 1) : Start(sizes, j) \in Nat
    /\ \A i, j \in 1 .. (Len(sizes) + 1) : i < j => Start(sizes, i) < Start(sizes, j)
    /\ \A k \in DOMAIN e : /\ Rank(DOMAIN e, k) \in Nat
                           /\ Rank(DOMAIN e, k) < Start(sizes, Len(sizes) + 1)
    /\ Start(sizes, 1) = 0

(* The chunks of a leaf are not empty, are disjoint and in order, and      *)
(* leave no key out.                                                       *)
LEMMA ChunkFacts ==
    ASSUME NEW e, DOMAIN e \subseteq Nat, IsFiniteSet(DOMAIN e), NEW cap \in Nat, NEW sizes,
           Pieces(sizes, Cardinality(DOMAIN e), cap)
    PROVE  ChunkKept(e, sizes)
<1> DEFINE S == DOMAIN e
           n == Cardinality(S)
           M == Len(sizes)
<1>1. /\ n \in Nat
      /\ \A k \in S : Rank(S, k) \in 0 .. (n - 1)
      /\ \A k, l \in S : k < l => Rank(S, k) < Rank(S, l)
      /\ \A x \in 0 .. (n - 1) : \E k \in S : Rank(S, k) = x
  BY RankFacts
<1>2. sizes \in Seq(Nat) /\ Start(sizes, M + 1) = n
  BY DEF Pieces
<1>3. M \in Nat /\ Start(sizes, 1) = 0
  BY <1>2, Starts
<1>4. /\ \A j \in 1 .. (M + 1) : Start(sizes, j) \in 0 .. n
      /\ \A i, j \in 1 .. (M + 1) : i < j => Start(sizes, i) < Start(sizes, j)
  <2> HIDE DEF n, S
  <2> QED BY <1>1, StartOrder DEF n, S
<1>5. ASSUME NEW j \in 1 .. M
      PROVE  Chunk(e, sizes, j) =
                {k \in S : Start(sizes, j) <= Rank(S, k) /\ Rank(S, k) < Start(sizes, j + 1)}
  BY DEF Chunk, Rank
<1> HIDE DEF S, n, M
<1>6. ASSUME NEW j \in 1 .. M PROVE Chunk(e, sizes, j) # {}
  <2>1. j \in 1 .. (M + 1) /\ j + 1 \in 1 .. (M + 1) /\ j < j + 1
    BY <1>3
  <2>2. Start(sizes, j) < Start(sizes, j + 1) /\ Start(sizes, j + 1) \in 0 .. n
        /\ Start(sizes, j) \in 0 .. n
    BY <2>1, <1>4
  <2>3. Start(sizes, j) \in 0 .. (n - 1) /\ Start(sizes, j) <= Start(sizes, j)
    BY <2>2, <1>1
  <2>4. PICK k \in S : Rank(S, k) = Start(sizes, j)
    BY <2>3, <1>1
  <2> QED BY <2>2, <2>3, <2>4, <1>5
<1>7. ASSUME NEW j \in 1 .. (M - 1)
      PROVE  /\ Min(Chunk(e, sizes, j + 1)) \in Chunk(e, sizes, j + 1)
             /\ Min(Chunk(e, sizes, j + 1)) \in S
             /\ \A k \in S :
                  k < Min(Chunk(e, sizes, j + 1)) <=> Rank(S, k) < Start(sizes, j + 1)
  <2> DEFINE c == Chunk(e, sizes, j + 1)
             s == Min(c)
  <2>1. j + 1 \in 1 .. M /\ j + 1 \in 1 .. (M + 1) /\ (j + 1) + 1 \in 1 .. (M + 1)
    BY <1>3
  <2>2. c = {k \in S : Start(sizes, j + 1) <= Rank(S, k)
                       /\ Rank(S, k) < Start(sizes, (j + 1) + 1)}
    BY <2>1, <1>5
  <2>3. c # {}
    BY <2>1, <1>6
  <2>4. c \subseteq Nat
    BY <2>2 DEF S
  <2>5. \E x \in c : \A y \in c : x <= y
    <3> HIDE DEF c
    <3> QED BY <2>3, <2>4, Least
  <2>6. s \in c /\ \A y \in c : s <= y
    <3> HIDE DEF c
    <3> QED BY <2>5, Zenon DEF Min
  <2> HIDE DEF s, c
  <2>7. s \in S /\ Start(sizes, j + 1) <= Rank(S, s) /\ Rank(S, s) < Start(sizes, (j + 1) + 1)
    BY <2>2, <2>6
  <2>8. ASSUME NEW k \in S PROVE k < s <=> Rank(S, k) < Start(sizes, j + 1)
    <3>1. /\ k \in Nat /\ s \in Nat /\ Rank(S, k) \in Nat /\ Rank(S, s) \in Nat
          /\ Start(sizes, j + 1) \in Nat /\ Start(sizes, (j + 1) + 1) \in Nat
      <4>1. k \in Nat /\ s \in Nat
        BY <2>7 DEF S
      <4> QED BY <4>1, <2>1, <2>7, <1>1, <1>4
    <3>2. ASSUME k < s PROVE Rank(S, k) < Start(sizes, j + 1)
      <4>1. Rank(S, k) < Rank(S, s)
        BY <3>2, <2>7, <1>1
      <4>2. k \notin c
        BY <3>1, <3>2, <2>6
      <4>3. ~(Start(sizes, j + 1) <= Rank(S, k) /\ Rank(S, k) < Start(sizes, (j + 1) + 1))
        BY <4>2, <2>2
      <4> QED BY <3>1, <4>1, <4>3, <2>7
    <3>3. ASSUME ~(k < s) PROVE ~(Rank(S, k) < Start(sizes, j + 1))
      <4>1. k = s \/ s < k
        BY <3>1, <3>3
      <4>2. s < k => Rank(S, s) < Rank(S, k)
        BY <2>7, <1>1
      <4> QED BY <3>1, <4>1, <4>2, <2>7
    <3> QED BY <3>2, <3>3
  <2> QED BY <2>6, <2>7, <2>8 DEF s, c
<1>8. \A j \in 1 .. (M + 1) : Start(sizes, j) \in Nat
  BY <1>1, <1>4
<1>9. \A k \in S : Rank(S, k) \in Nat /\ Rank(S, k) < Start(sizes, M + 1)
  BY <1>1, <1>2 DEF n, M
<1>10. \A j \in 1 .. M : /\ Chunk(e, sizes, j) \subseteq S
                         /\ \A k \in S : k \in Chunk(e, sizes, j) <=>
                              /\ Start(sizes, j) <= Rank(S, k) /\ Rank(S, k) < Start(sizes, j + 1)
  BY <1>5
<1> QED BY <1>3, <1>4, <1>6, <1>7, <1>8, <1>9, <1>10 DEF ChunkKept, S, M

(* A leaf with some of the entries of another is well formed.              *)
LEMMA LeafPart ==
    ASSUME NEW e \in Maps(Entries(Nat)), NEW X \in SUBSET DOMAIN e
    PROVE  /\ NodeOk(Leaf(Restrict(e, X))) /\ Leaf(Restrict(e, X)).leaf
           /\ HeldBy(Leaf(Restrict(e, X))) = Restrict(e, X)
           /\ DOMAIN Restrict(e, X) = X
<1> DEFINE f == Restrict(e, X)
<1>1. /\ e = [k \in DOMAIN e |-> e[k]]
      /\ DOMAIN e \subseteq Keys /\ IsFiniteSet(DOMAIN e)
      /\ \A k \in DOMAIN e : e[k] \in Entries(Nat)
  BY MapFacts
<1>2. f = [k \in X |-> e[k]]
  BY DEF Restrict
<1>3. IsFiniteSet(X)
  BY <1>1, FS_Subset
<1>4. DOMAIN f = X /\ \A k \in X : f[k] = e[k]
  BY <1>2
<1> HIDE DEF f
<1>5. f = [k \in DOMAIN f |-> f[k]]
  BY <1>2, <1>4
<1>6. f \in Maps(Entries(Nat))
  BY <1>1, <1>3, <1>4, <1>5, MapFacts
<1>7. Leaf(f) \in LeafNode /\ Leaf(f).leaf /\ Leaf(f).entries = f
  BY <1>6 DEF Leaf, LeafNode
<1> QED BY <1>4, <1>7 DEF NodeOk, HeldBy, f

(* A part of a part.                                                       *)
LEMMA RestrictTwice ==
    ASSUME NEW f, NEW X, NEW Y, Y \subseteq X
    PROVE  Restrict(Restrict(f, X), Y) = Restrict(f, Y) /\ DOMAIN Restrict(f, X) = X
BY DEF Restrict

LeafPieces(e, sizes) == [j \in DOMAIN sizes |-> Leaf(Restrict(e, Chunk(e, sizes, j)))]

LeafSeparators(e, sizes) == [j \in 1 .. (Len(sizes) - 1) |-> Min(Chunk(e, sizes, j + 1))]

(* split_leaf cuts off its pieces from the left, at the separators that it *)
(* promotes.                                                               *)
LEMMA LeafCuts ==
    ASSUME NEW n, NodeOk(n), n.leaf, Count(n.entries) > LeafCapacity, NEW sizes,
           sizes = partition_sizes(Count(n.entries), LeafCapacity)
    PROVE  \E rest, cut : Cuts(n, Len(sizes), rest, LeafPieces(n.entries, sizes),
                               LeafSeparators(n.entries, sizes), cut)
<1> DEFINE e == n.entries
           S == DOMAIN e
           M == Len(sizes)
           R(j) == {k \in S : Start(sizes, j) <= Rank(S, k)}
           C(j) == Chunk(e, sizes, j)
           rest == [j \in 1 .. M |-> IF j = 1 THEN n ELSE Leaf(Restrict(e, R(j)))]
           cut == [j \in 1 .. M |-> 0]
           piece == LeafPieces(e, sizes)
           sep == LeafSeparators(e, sizes)
<1>1. n \in LeafNode
  BY DEF NodeOk, InnerNode
<1>2. e \in Maps(Entries(Nat))
  BY <1>1 DEF LeafNode
<1>3. S \subseteq Nat /\ IsFiniteSet(S) /\ e = [k \in S |-> e[k]]
  BY <1>2, MapFacts, KeysAssumption
<1>4. Cardinality(S) \in Nat /\ Count(n.entries) = Cardinality(S)
  BY <1>3, FS_CardinalityType DEF Count
<1>5. Pieces(sizes, Cardinality(S), LeafCapacity) /\ Cardinality(S) > LeafCapacity
      /\ LeafCapacity \in Nat
  <2>1. Cardinality(S) >= 1 /\ LeafCapacity \in Nat /\ LeafCapacity >= 1
    BY <1>4, ParamsAssumption
  <2>2. Cardinality(S) > LeafCapacity
    BY <1>4
  <2>3. Pieces(partition_sizes(Cardinality(S), LeafCapacity), Cardinality(S), LeafCapacity)
    <3> HIDE DEF S
    <3> QED BY <2>1, <1>4, PartitionPieces
  <2> QED BY <2>1, <2>2, <2>3, <1>4
<1>6. sizes \in Seq(Nat) /\ M >= 2
  BY <1>5 DEF Pieces
<1>7. M \in Nat /\ DOMAIN sizes = 1 .. M
  BY <1>6
<1>8. ChunkKept(e, sizes)
  BY <1>3, <1>5, ChunkFacts
<1> HIDE DEF M, S
<1>9. /\ \A j \in 1 .. M : C(j) # {} /\ C(j) \subseteq S
      /\ \A j \in 1 .. M : \A k \in S :
            k \in C(j) <=> Start(sizes, j) <= Rank(S, k) /\ Rank(S, k) < Start(sizes, j + 1)
      /\ \A j \in 1 .. (M - 1) :
            /\ Min(C(j + 1)) \in C(j + 1) /\ Min(C(j + 1)) \in S
            /\ \A k \in S : k < Min(C(j + 1)) <=> Rank(S, k) < Start(sizes, j + 1)
      /\ \A j \in 1 .. (M + 1) : Start(sizes, j) \in Nat
      /\ \A i, j \in 1 .. (M + 1) : i < j => Start(sizes, i) < Start(sizes, j)
      /\ \A k \in S : Rank(S, k) \in Nat /\ Rank(S, k) < Start(sizes, M + 1)
      /\ Start(sizes, 1) = 0
  BY <1>8 DEF ChunkKept, S, M
<1>10. /\ \A j \in 1 .. M : piece[j] = Leaf(Restrict(e, C(j)))
       /\ \A j \in 1 .. (M - 1) : sep[j] = Min(C(j + 1))
  BY <1>7 DEF LeafPieces, LeafSeparators, M
<1>11. rest[1] = n /\ \A j \in 2 .. M : rest[j] = Leaf(Restrict(e, R(j)))
  <2>1. 1 \in 1 .. M /\ \A j \in 2 .. M : j \in 1 .. M /\ j # 1
    BY <1>6, <1>7 DEF M
  <2> QED BY <2>1, Zenon
<1> HIDE DEF rest, piece, sep
<1>12. ASSUME NEW j \in 1 .. M
       PROVE  NodeOk(rest[j]) /\ rest[j].leaf /\ HeldBy(rest[j]) = Restrict(e, R(j))
  <2>1. CASE j = 1
    <3>1. R(1) = S
      BY <1>9
    <3>2. HeldBy(n) = e
      BY DEF HeldBy
    <3>3. Restrict(e, S) = e
      BY <1>3 DEF Restrict
    <3> QED BY <2>1, <3>1, <3>2, <3>3, <1>11
  <2>2. CASE j # 1
    <3>1. j \in 2 .. M /\ R(j) \in SUBSET DOMAIN e
      BY <2>2, <1>7 DEF S
    <3>2. rest[j] = Leaf(Restrict(e, R(j)))
      BY <3>1, <1>11
    <3> HIDE DEF R
    <3> QED BY <3>1, <3>2, <1>2, LeafPart
  <2> QED BY <2>1, <2>2
<1>13. ASSUME NEW j \in 1 .. M
       PROVE  NodeOk(piece[j]) /\ piece[j].leaf /\ HeldBy(piece[j]) = Restrict(e, C(j))
  <2>1. C(j) \in SUBSET DOMAIN e
    BY <1>9 DEF S
  <2> HIDE DEF C
  <2> QED BY <2>1, <1>2, <1>10, LeafPart
<1>14. rest[M] = piece[M]
  <2>1. M \in 2 .. M /\ M \in 1 .. M /\ M \in 1 .. (M + 1) /\ M + 1 \in 1 .. (M + 1)
    BY <1>6, <1>7 DEF M
  <2>2. R(M) = C(M)
    <3>1. C(M) \subseteq S /\ \A k \in S : k \in C(M) <=> k \in R(M)
      BY <2>1, <1>9
    <3>2. R(M) \subseteq S
      OBVIOUS
    <3> HIDE DEF R, C
    <3> QED BY <3>1, <3>2
  <2> HIDE DEF R, C
  <2> QED BY <2>1, <2>2, <1>10, <1>11
<1>15. ASSUME NEW t \in 1 .. (M - 1)
       PROVE  /\ HalvesOf(rest[t], sep[t], cut[t], piece[t], rest[t + 1])
              /\ sep[t] \in DOMAIN HeldBy(rest[t])
              /\ \E x \in DOMAIN HeldBy(rest[t]) : x < sep[t]
  <2> DEFINE s == sep[t]
  <2>1. /\ t \in 1 .. M /\ t + 1 \in 1 .. M /\ t \in 1 .. (M + 1) /\ t + 1 \in 1 .. (M + 1)
        /\ t < t + 1
    BY <1>7
  <2>2. /\ s \in C(t + 1) /\ s \in S
        /\ \A k \in S : k < s <=> Rank(S, k) < Start(sizes, t + 1)
    BY <1>9, <1>10
  <2>3. /\ Start(sizes, t) \in Nat /\ Start(sizes, t + 1) \in Nat
        /\ Start(sizes, t) < Start(sizes, t + 1)
    BY <2>1, <1>9
  <2> HIDE DEF s
  <2>4. {k \in R(t) : k < s} = C(t)
    <3>1. ASSUME NEW k \in S PROVE (k \in R(t) /\ k < s) <=> k \in C(t)
      BY <2>1, <2>2, <1>9
    <3>2. C(t) \subseteq S /\ R(t) \subseteq S
      BY <2>1, <1>9
    <3> HIDE DEF R, C
    <3> QED BY <3>1, <3>2
  <2>5. {k \in R(t) : ~(k < s)} = R(t + 1)
    <3>1. ASSUME NEW k \in S PROVE (k \in R(t) /\ ~(k < s)) <=> k \in R(t + 1)
      <4>1. Rank(S, k) \in Nat /\ (k < s <=> Rank(S, k) < Start(sizes, t + 1))
        BY <2>2, <1>9
      <4>2. (k \in R(t) <=> Start(sizes, t) <= Rank(S, k))
            /\ (k \in R(t + 1) <=> Start(sizes, t + 1) <= Rank(S, k))
        OBVIOUS
      <4> HIDE DEF R
      <4> QED BY <4>1, <4>2, <2>3
    <3>2. R(t + 1) \subseteq S /\ R(t) \subseteq S
      OBVIOUS
    <3> HIDE DEF R
    <3> QED BY <3>1, <3>2
  <2>6. /\ NodeOk(rest[t]) /\ rest[t].leaf /\ HeldBy(rest[t]) = Restrict(e, R(t))
        /\ NodeOk(rest[t + 1]) /\ rest[t + 1].leaf /\ HeldBy(rest[t + 1]) = Restrict(e, R(t + 1))
        /\ NodeOk(piece[t]) /\ piece[t].leaf /\ HeldBy(piece[t]) = Restrict(e, C(t))
    BY <2>1, <1>12, <1>13
  <2>7. C(t) # {} /\ s \in R(t)
    <3>1. s \in R(t + 1)
      BY <2>1, <2>2, <1>9
    <3>2. C(t) # {}
      BY <2>1, <1>9
    <3> HIDE DEF R, C
    <3> QED BY <3>1, <3>2, <2>5
  <2> HIDE DEF R, C
  <2>8. /\ DOMAIN Restrict(e, R(t)) = R(t)
        /\ Restrict(Restrict(e, R(t)), {k \in R(t) : k < s}) = Restrict(e, C(t))
        /\ Restrict(Restrict(e, R(t)), {k \in R(t) : ~(k < s)}) = Restrict(e, R(t + 1))
    <3>1. C(t) \subseteq R(t) /\ R(t + 1) \subseteq R(t)
      BY <2>4, <2>5
    <3>2. /\ DOMAIN Restrict(e, R(t)) = R(t)
          /\ Restrict(Restrict(e, R(t)), C(t)) = Restrict(e, C(t))
      BY <3>1, RestrictTwice, ZenonT(30)
    <3>3. Restrict(Restrict(e, R(t)), R(t + 1)) = Restrict(e, R(t + 1))
      BY <3>1, RestrictTwice, Zenon
    <3> QED BY <3>2, <3>3, <2>4, <2>5, Zenon
  <2>9. HalvesOf(rest[t], s, cut[t], piece[t], rest[t + 1])
    BY <2>6, <2>8 DEF HalvesOf
  <2>10. \E x \in R(t) : x < s
    BY <2>4, <2>7
  <2> QED BY <2>6, <2>7, <2>8, <2>9, <2>10 DEF s
<1>16. Cuts(n, M, rest, piece, sep, cut)
  <2>1. M >= 2
    BY <1>6 DEF M
  <2> HIDE DEF cut
  <2> QED BY <2>1, <1>7, <1>11, <1>14, <1>15 DEF Cuts
<1> QED BY <1>16 DEF M, piece, sep

-----------------------------------------------------------------------------
(* Where an internal node is cut                                           *)

(* SubSeq, element by element.                                             *)
LEMMA SubSeqFacts ==
    ASSUME NEW S, NEW s \in Seq(S), NEW a \in Nat, NEW b \in Nat, a <= b, b <= Len(s)
    PROVE  /\ SubSeq(s, a + 1, b) \in Seq(S) /\ Len(SubSeq(s, a + 1, b)) = b - a
           /\ \A x \in 1 .. (b - a) : SubSeq(s, a + 1, b)[x] = s[a + x]
<1>1. Len(s) \in Nat /\ \A x \in 1 .. Len(s) : s[x] \in S
  OBVIOUS
<1>2. \A x \in (a + 1) .. b : x \in 1 .. Len(s)
  BY <1>1
<1>3. SubSeq(s, a + 1, b) \in Seq(S)
  BY <1>1, <1>2
<1>4. Len(SubSeq(s, a + 1, b)) = b - a
  BY <1>1
<1>5. ASSUME NEW x \in 1 .. (b - a) PROVE SubSeq(s, a + 1, b)[x] = s[a + x]
  <2>1. SubSeq(s, a + 1, b)[x] = s[((a + 1) + x) - 1]
    BY <1>1
  <2>2. ((a + 1) + x) - 1 = a + x
    OBVIOUS
  <2> QED BY <2>1, <2>2
<1> QED BY <1>3, <1>4, <1>5

(* The children lo + 1 .. hi of node n, with the pivots between them.      *)
InnerPart(n, lo, hi, X) ==
    Internal(SubSeq(n.pivots, lo + 1, hi - 1), SubSeq(n.children, lo + 1, hi),
             Restrict(n.buffer, X))

PartOf(n, lo, hi, X, m) ==
    /\ NodeOk(m) /\ ~m.leaf /\ HeldBy(m) = Restrict(n.buffer, X)
    /\ Len(m.pivots) = (hi - lo) - 1
    /\ \A x \in 1 .. ((hi - lo) - 1) : m.pivots[x] = n.pivots[lo + x]
    /\ Len(m.children) = hi - lo
    /\ \A x \in 1 .. (hi - lo) : m.children[x] = n.children[lo + x]

(* A run of the children of an internal node, with the pivots between      *)
(* them, is a well-formed node.                                            *)
LEMMA InnerPartIs ==
    ASSUME NEW n \in InnerNode, Sorted(n.pivots), Len(n.children) = Len(n.pivots) + 1,
           NEW lo \in Nat, NEW hi \in Nat, lo < hi, hi <= Len(n.children),
           NEW X \in SUBSET DOMAIN n.buffer
    PROVE  PartOf(n, lo, hi, X, InnerPart(n, lo, hi, X))
<1> DEFINE p == n.pivots
           c == n.children
           f == Restrict(n.buffer, X)
           sp == SubSeq(p, lo + 1, hi - 1)
           sc == SubSeq(c, lo + 1, hi)
           m == InnerPart(n, lo, hi, X)
<1>1. p \in Seq(Nat) /\ c \in Seq(Nat) /\ n.buffer \in Maps(MessagesOf(Nat))
  BY DEF InnerNode
<1>2. Len(p) \in Nat /\ Len(c) \in Nat /\ \A x \in 1 .. Len(p) : p[x] \in Nat
  BY <1>1, SMTT(30)
<1>3. hi - 1 \in Nat /\ lo <= hi - 1 /\ hi - 1 <= Len(p) /\ lo <= hi
      /\ (hi - 1) - lo = (hi - lo) - 1
  BY <1>2
<1>4. /\ sp \in Seq(Nat) /\ Len(sp) = (hi - 1) - lo
      /\ \A x \in 1 .. ((hi - 1) - lo) : sp[x] = p[lo + x]
  <2> HIDE DEF p
  <2>1. \A h \in Nat : lo <= h /\ h <= Len(p) =>
           /\ SubSeq(p, lo + 1, h) \in Seq(Nat) /\ Len(SubSeq(p, lo + 1, h)) = h - lo
           /\ \A x \in 1 .. (h - lo) : SubSeq(p, lo + 1, h)[x] = p[lo + x]
    BY <1>1, SubSeqFacts
  <2> QED BY <2>1, <1>3
<1>5. /\ sc \in Seq(Nat) /\ Len(sc) = hi - lo
      /\ \A x \in 1 .. (hi - lo) : sc[x] = c[lo + x]
  <2> HIDE DEF c
  <2> QED BY <1>1, <1>3, SubSeqFacts DEF c
<1>6. Sorted(sp)
  <2> SUFFICES ASSUME NEW x \in 1 .. Len(sp), NEW y \in 1 .. Len(sp), x < y PROVE sp[x] < sp[y]
    BY DEF Sorted
  <2>1. /\ x \in 1 .. ((hi - 1) - lo) /\ y \in 1 .. ((hi - 1) - lo)
        /\ lo + x \in 1 .. Len(p) /\ lo + y \in 1 .. Len(p) /\ lo + x < lo + y
    <3> HIDE DEF sp, p
    <3> QED BY <1>2, <1>3, <1>4
  <2>2. p[lo + x] < p[lo + y]
    BY <2>1 DEF Sorted
  <2> HIDE DEF sp
  <2> QED BY <2>1, <2>2, <1>4
<1>7. f \in Maps(MessagesOf(Nat))
  <2>1. /\ DOMAIN n.buffer \subseteq Keys /\ IsFiniteSet(DOMAIN n.buffer)
        /\ \A k \in DOMAIN n.buffer : n.buffer[k] \in MessagesOf(Nat)
    BY <1>1, MapFacts
  <2>2. f = [k \in X |-> n.buffer[k]] /\ IsFiniteSet(X)
    BY <2>1, FS_Subset DEF Restrict
  <2>3. DOMAIN f = X /\ \A k \in X : f[k] = n.buffer[k]
    BY <2>2
  <2>4. f = [k \in DOMAIN f |-> f[k]]
    BY <2>2, <2>3
  <2> HIDE DEF f
  <2> QED BY <2>1, <2>2, <2>3, <2>4, MapFacts
<1>8. m = Internal(sp, sc, f)
  BY DEF InnerPart
<1> HIDE DEF m, sp, sc, f
<1>9. /\ m \in InnerNode /\ ~m.leaf /\ m.pivots = sp /\ m.children = sc /\ m.buffer = f
  BY <1>4, <1>5, <1>7, <1>8 DEF Internal, InnerNode
<1>10. NodeOk(m)
  <2>1. Len(m.children) = Len(m.pivots) + 1
    BY <1>3, <1>4, <1>5, <1>9
  <2> QED BY <2>1, <1>6, <1>9 DEF NodeOk
<1>11. HeldBy(m) = f
  BY <1>9 DEF HeldBy
<1>12. PartOf(n, lo, hi, X, m)
  BY <1>3, <1>4, <1>5, <1>9, <1>10, <1>11 DEF PartOf, f
<1> QED BY <1>12 DEF m

InnerSeparators(n, sizes) == [j \in 1 .. (Len(sizes) - 1) |-> n.pivots[Start(sizes, j + 1)]]

InnerPieces(n, sizes) ==
    [j \in DOMAIN sizes |->
        InnerPart(n, Start(sizes, j), Start(sizes, j + 1),
                  {k \in DOMAIN n.buffer : route(InnerSeparators(n, sizes), k) = j})]

(* Two parts of a node, cut at the pivot between them.                     *)
LEMMA PartHalves ==
    ASSUME NEW n, NEW lo \in Nat, NEW mid \in Nat, NEW hi \in Nat, lo < mid, mid < hi,
           NEW X, NEW Y, NEW Z, NEW m, NEW a, NEW b, NEW s, s = n.pivots[mid],
           PartOf(n, lo, hi, X, m), PartOf(n, lo, mid, Y, a), PartOf(n, mid, hi, Z, b),
           Y = {k \in X : k < s}, Z = {k \in X : ~(k < s)}
    PROVE  HalvesOf(m, s, mid - lo, a, b)
<1>1. /\ NodeOk(a) /\ NodeOk(b) /\ (a.leaf <=> m.leaf) /\ (b.leaf <=> m.leaf)
  BY DEF PartOf
<1>2. /\ HeldBy(a) = Restrict(HeldBy(m), {k \in DOMAIN HeldBy(m) : k < s})
      /\ HeldBy(b) = Restrict(HeldBy(m), {k \in DOMAIN HeldBy(m) : ~(k < s)})
  <2>1. /\ HeldBy(m) = Restrict(n.buffer, X) /\ HeldBy(a) = Restrict(n.buffer, Y)
        /\ HeldBy(b) = Restrict(n.buffer, Z)
    BY DEF PartOf
  <2>2. Y \subseteq X /\ Z \subseteq X
    OBVIOUS
  <2>3. DOMAIN HeldBy(m) = X /\ Restrict(HeldBy(m), Y) = Restrict(n.buffer, Y)
    BY <2>1, <2>2, RestrictTwice
  <2>4. Restrict(HeldBy(m), Z) = Restrict(n.buffer, Z)
    BY <2>1, <2>2, RestrictTwice
  <2> QED BY <2>1, <2>3, <2>4
<1>3. /\ Len(m.pivots) = (hi - lo) - 1
      /\ \A x \in 1 .. ((hi - lo) - 1) : m.pivots[x] = n.pivots[lo + x]
      /\ Len(m.children) = hi - lo
      /\ \A x \in 1 .. (hi - lo) : m.children[x] = n.children[lo + x]
      /\ Len(a.pivots) = (mid - lo) - 1
      /\ \A x \in 1 .. ((mid - lo) - 1) : a.pivots[x] = n.pivots[lo + x]
      /\ Len(a.children) = mid - lo
      /\ \A x \in 1 .. (mid - lo) : a.children[x] = n.children[lo + x]
      /\ Len(b.pivots) = (hi - mid) - 1
      /\ \A x \in 1 .. ((hi - mid) - 1) : b.pivots[x] = n.pivots[mid + x]
      /\ Len(b.children) = hi - mid
      /\ \A x \in 1 .. (hi - mid) : b.children[x] = n.children[mid + x]
  BY DEF PartOf
<1> DEFINE t == mid - lo
<1>4. /\ t \in 1 .. ((hi - lo) - 1) /\ lo + t = mid /\ ((hi - lo) - 1) - t = (hi - mid) - 1
      /\ (hi - lo) - t = hi - mid
  OBVIOUS
<1>5. s = m.pivots[t]
  <2> HIDE DEF t
  <2> QED BY <1>3, <1>4
<1>6. \A x \in 1 .. (t - 1) : a.pivots[x] = m.pivots[x]
  <2> SUFFICES ASSUME NEW x \in 1 .. (t - 1) PROVE a.pivots[x] = m.pivots[x]
    OBVIOUS
  <2>1. x \in 1 .. ((hi - lo) - 1) /\ x \in 1 .. ((mid - lo) - 1)
    OBVIOUS
  <2> QED BY <2>1, <1>3
<1>7. \A x \in 1 .. t : a.children[x] = m.children[x]
  <2> SUFFICES ASSUME NEW x \in 1 .. t PROVE a.children[x] = m.children[x]
    OBVIOUS
  <2>1. x \in 1 .. (hi - lo) /\ x \in 1 .. (mid - lo)
    OBVIOUS
  <2> QED BY <2>1, <1>3
<1>8. \A x \in 1 .. (((hi - lo) - 1) - t) : b.pivots[x] = m.pivots[t + x]
  <2> SUFFICES ASSUME NEW x \in 1 .. (((hi - lo) - 1) - t) PROVE b.pivots[x] = m.pivots[t + x]
    OBVIOUS
  <2>1. /\ x \in 1 .. ((hi - mid) - 1) /\ t + x \in 1 .. ((hi - lo) - 1)
        /\ lo + (t + x) = mid + x
    OBVIOUS
  <2>2. b.pivots[x] = n.pivots[mid + x] /\ m.pivots[t + x] = n.pivots[lo + (t + x)]
    <3> HIDE DEF t
    <3> QED BY <2>1, <1>3
  <2> QED BY <2>1, <2>2
<1>9. \A x \in 1 .. ((hi - lo) - t) : b.children[x] = m.children[t + x]
  <2> SUFFICES ASSUME NEW x \in 1 .. ((hi - lo) - t) PROVE b.children[x] = m.children[t + x]
    OBVIOUS
  <2>1. /\ x \in 1 .. (hi - mid) /\ t + x \in 1 .. (hi - lo)
        /\ lo + (t + x) = mid + x
    OBVIOUS
  <2>2. b.children[x] = n.children[mid + x] /\ m.children[t + x] = n.children[lo + (t + x)]
    <3> HIDE DEF t
    <3> QED BY <2>1, <1>3
  <2> QED BY <2>1, <2>2
<1>10. /\ t \in 1 .. Len(m.pivots) /\ Len(a.pivots) = t - 1
       /\ Len(b.pivots) = Len(m.pivots) - t /\ Len(a.children) = t
       /\ Len(b.children) = Len(m.children) - t
  <2>1. /\ t \in 1 .. Len(m.pivots) /\ Len(a.pivots) = t - 1 /\ Len(a.children) = t
    BY <1>3, <1>4
  <2>2. Len(b.pivots) = Len(m.pivots) - t /\ Len(b.children) = Len(m.children) - t
    BY <1>3, <1>4
  <2> QED BY <2>1, <2>2
<1>11. /\ \A x \in 1 .. (Len(m.pivots) - t) : b.pivots[x] = m.pivots[t + x]
       /\ \A x \in 1 .. (Len(m.children) - t) : b.children[x] = m.children[t + x]
  BY <1>3, <1>8, <1>9
<1> HIDE DEF t
<1> QED BY <1>1, <1>2, <1>5, <1>6, <1>7, <1>10, <1>11 DEF HalvesOf, t

(* split_internal cuts off its pieces from the left, each time at the      *)
(* pivot that it promotes.                                                 *)
LEMMA InnerCuts ==
    ASSUME NEW n, NodeOk(n), ~n.leaf, Len(n.children) > Fanout, NEW sizes,
           sizes = partition_sizes(Len(n.children), Fanout)
    PROVE  \E rest, cut : Cuts(n, Len(sizes), rest, InnerPieces(n, sizes),
                               InnerSeparators(n, sizes), cut)
<1> DEFINE p == n.pivots
           c == n.children
           B == DOMAIN n.buffer
           M == Len(sizes)
           N == Len(c)
           St(j) == Start(sizes, j)
           piece == InnerPieces(n, sizes)
           sep == InnerSeparators(n, sizes)
           R(j) == {k \in B : j <= route(sep, k)}
           X(j) == {k \in B : route(sep, k) = j}
           rest == [j \in 1 .. M |-> IF j = 1 THEN n ELSE InnerPart(n, St(j), N, R(j))]
           cut == [j \in 1 .. M |-> St(j + 1) - St(j)]
<1>1. n \in InnerNode /\ Sorted(p)
  BY DEF NodeOk, LeafNode
<1>2. p \in Seq(Nat) /\ c \in Seq(Nat) /\ n.buffer \in Maps(MessagesOf(Nat))
  BY <1>1 DEF InnerNode
<1>3. Len(p) \in Nat /\ N \in Nat /\ \A x \in 1 .. Len(p) : p[x] \in Nat
  BY <1>2
<1>4. N >= 1 /\ N > Fanout /\ Fanout \in Nat /\ Fanout >= 1
  BY <1>3, ParamsAssumption
<1>5. N = Len(p) + 1
  <2>1. c # <<>>
    BY <1>4
  <2> QED BY <2>1, <1>1 DEF NodeOk, LeafNode
<1>6. B \subseteq Nat
  BY <1>2, MapFacts, KeysAssumption
<1>7. Pieces(sizes, N, Fanout)
  <2> HIDE DEF N
  <2> QED BY <1>3, <1>4, PartitionPieces DEF N
<1>8. sizes \in Seq(Nat) /\ M >= 2 /\ St(M + 1) = N
  <2> HIDE DEF N
  <2> QED BY <1>4, <1>7 DEF Pieces
<1>9. M \in Nat /\ DOMAIN sizes = 1 .. M
  BY <1>8
<1>10. St(1) = 0
  BY <1>8, Starts
<1>11. /\ \A j \in 1 .. (M + 1) : St(j) \in 0 .. N
       /\ \A i, j \in 1 .. (M + 1) : i < j => St(i) < St(j)
  <2> HIDE DEF N
  <2> QED BY <1>3, <1>4, <1>7, StartOrder
<1>12. \A j \in 1 .. (M - 1) : sep[j] = p[St(j + 1)]
  BY DEF InnerSeparators
<1>13. \A j \in 1 .. M : piece[j] = InnerPart(n, St(j), St(j + 1), X(j))
  BY <1>9 DEF InnerPieces
<1>14. Len(sep) = M - 1 /\ DOMAIN sep = 1 .. (M - 1) /\ sep \in Seq(Nat) /\ Sorted(sep)
  <2>1. ASSUME NEW j \in 1 .. (M - 1) PROVE St(j + 1) \in 1 .. Len(p) /\ p[St(j + 1)] \in Nat
    <3>1. /\ j + 1 \in 1 .. (M + 1) /\ 1 \in 1 .. (M + 1) /\ M + 1 \in 1 .. (M + 1)
          /\ 1 < j + 1 /\ j + 1 < M + 1
      BY <1>9
    <3>2. St(1) < St(j + 1) /\ St(j + 1) < St(M + 1) /\ St(j + 1) \in 0 .. N
      BY <3>1, <1>11
    <3>3. St(j + 1) \in 1 .. Len(p)
      <4> HIDE DEF St, N, M, p
      <4> QED BY <3>2, <1>3, <1>5, <1>8, <1>10
    <3> QED BY <3>3, <1>3
  <2>2. sep = [j \in 1 .. (M - 1) |-> p[St(j + 1)]]
    BY DEF InnerSeparators
  <2> HIDE DEF sep, St, M, p
  <2>3. sep \in [1 .. (M - 1) -> Nat] /\ M - 1 \in Nat
    BY <2>1, <2>2, <1>8, <1>9
  <2>4. sep \in Seq(Nat) /\ Len(sep) = M - 1 /\ DOMAIN sep = 1 .. (M - 1)
    BY <2>3
  <2>5. ASSUME NEW x \in 1 .. Len(sep), NEW y \in 1 .. Len(sep), x < y PROVE sep[x] < sep[y]
    <3>1. /\ x \in 1 .. (M - 1) /\ y \in 1 .. (M - 1) /\ x + 1 < y + 1
          /\ x + 1 \in 1 .. (M + 1) /\ y + 1 \in 1 .. (M + 1)
      BY <2>4, <2>5, <1>9
    <3>2. St(x + 1) < St(y + 1) /\ St(x + 1) \in 1 .. Len(p) /\ St(y + 1) \in 1 .. Len(p)
      BY <3>1, <2>1, <1>11
    <3>3. p[St(x + 1)] < p[St(y + 1)]
      BY <3>2, <1>1 DEF Sorted
    <3> QED BY <3>1, <3>3, <1>12
  <2> QED BY <2>4, <2>5 DEF Sorted
<1>15. ASSUME NEW k \in B
       PROVE  /\ route(sep, k) \in 1 .. M
              /\ \A t \in 1 .. (M - 1) : k < sep[t] <=> route(sep, k) <= t
  <2> HIDE DEF sep, M
  <2>1. k \in Nat
    BY <1>6
  <2>2. route(sep, k) \in 1 .. ((M - 1) + 1)
        /\ \A t \in 1 .. (M - 1) : sep[t] <= k <=> t < route(sep, k)
    BY <2>1, <1>14, Routed
  <2>3. \A t \in 1 .. (M - 1) : sep[t] \in Nat
    BY <1>14
  <2>4. route(sep, k) \in 1 .. M
    BY <2>2, <1>9
  <2>5. ASSUME NEW t \in 1 .. (M - 1) PROVE k < sep[t] <=> route(sep, k) <= t
    <3>1. sep[t] \in Nat /\ (sep[t] <= k <=> t < route(sep, k))
      BY <2>2, <2>3
    <3> QED BY <3>1, <2>1, <2>4, <1>9
  <2> QED BY <2>4, <2>5
<1> HIDE DEF sep, piece, M, N, p, B
<1>16. ASSUME NEW j \in 1 .. (M - 1)
       PROVE  /\ j \in 1 .. M /\ j + 1 \in 1 .. M /\ St(j) \in Nat /\ St(j + 1) \in Nat
              /\ St(j) < St(j + 1) /\ St(j + 1) < N
  <2>1. /\ j \in 1 .. M /\ j + 1 \in 1 .. M /\ j \in 1 .. (M + 1) /\ j + 1 \in 1 .. (M + 1)
        /\ M + 1 \in 1 .. (M + 1) /\ j < j + 1 /\ j + 1 < M + 1
    BY <1>9
  <2>2. /\ St(j) \in 0 .. N /\ St(j + 1) \in 0 .. N /\ St(j) < St(j + 1)
        /\ St(j + 1) < St(M + 1)
    BY <2>1, <1>11
  <2> QED BY <2>1, <2>2, <1>3, <1>8
<1>17. rest[1] = n /\ \A j \in 2 .. M : rest[j] = InnerPart(n, St(j), N, R(j))
  <2>1. 1 \in 1 .. M /\ \A j \in 2 .. M : j \in 1 .. M /\ j # 1
    BY <1>8, <1>9 DEF M
  <2> QED BY <2>1, Zenon
<1> HIDE DEF rest
<1>18. ASSUME NEW j \in 1 .. M PROVE PartOf(n, St(j), N, R(j), rest[j])
  <2>1. CASE j = 1
    <3>1. R(1) = B
      <4>1. \A k \in B : 1 <= route(sep, k)
        BY <1>15, <1>9
      <4> QED BY <4>1
    <3>2. HeldBy(n) = Restrict(n.buffer, B)
      <4>1. n.buffer = [k \in B |-> n.buffer[k]]
        BY <1>2, MapFacts DEF B
      <4> QED BY <4>1 DEF HeldBy, Restrict
    <3>3. (N - 0) - 1 = Len(n.pivots) /\ N - 0 = Len(n.children)
      <4>1. Len(n.pivots) \in Nat /\ Len(n.children) = Len(n.pivots) + 1
        BY <1>3, <1>5 DEF p, N
      <4> QED BY <4>1 DEF N
    <3>4. \A x \in 1 .. Len(n.pivots) : n.pivots[0 + x] = n.pivots[x]
      OBVIOUS
    <3>5. \A x \in 1 .. Len(n.children) : n.children[0 + x] = n.children[x]
      OBVIOUS
    <3>6. PartOf(n, 0, N, B, n)
      BY <3>2, <3>3, <3>4, <3>5 DEF PartOf
    <3> QED BY <2>1, <3>1, <3>6, <1>10, <1>17
  <2>2. CASE j # 1
    <3>1. j \in 2 .. M /\ j \in 1 .. (M + 1) /\ M + 1 \in 1 .. (M + 1) /\ j < M + 1
      BY <2>2, <1>9
    <3>2. St(j) \in Nat /\ St(j) < N
      BY <3>1, <1>3, <1>8, <1>11
    <3>3. rest[j] = InnerPart(n, St(j), N, R(j))
      BY <3>1, <1>17
    <3>4. R(j) \in SUBSET DOMAIN n.buffer
      BY DEF B
    <3>5. N <= Len(n.children) /\ Len(n.children) = Len(n.pivots) + 1 /\ Sorted(n.pivots)
      BY <1>1, <1>3, <1>5 DEF N, p
    <3> HIDE DEF R, St
    <3>6. PartOf(n, St(j), N, R(j), InnerPart(n, St(j), N, R(j)))
      BY <3>2, <3>4, <3>5, <1>1, <1>3, InnerPartIs
    <3> QED BY <3>3, <3>6
  <2> QED BY <2>1, <2>2
<1>19. ASSUME NEW j \in 1 .. M PROVE PartOf(n, St(j), St(j + 1), X(j), piece[j])
  <2>1. j \in 1 .. (M + 1) /\ j + 1 \in 1 .. (M + 1) /\ j < j + 1
    BY <1>9
  <2>2. St(j) \in Nat /\ St(j + 1) \in Nat /\ St(j) < St(j + 1) /\ St(j + 1) <= N
    BY <2>1, <1>3, <1>11
  <2>3. X(j) \in SUBSET DOMAIN n.buffer
    BY DEF B
  <2>4. N = Len(n.children) /\ Len(n.children) = Len(n.pivots) + 1 /\ Sorted(n.pivots)
    BY <1>1, <1>5 DEF N, p
  <2> HIDE DEF X, St
  <2>5. PartOf(n, St(j), St(j + 1), X(j), InnerPart(n, St(j), St(j + 1), X(j)))
    BY <2>2, <2>3, <2>4, <1>1, InnerPartIs
  <2> QED BY <2>5, <1>13
<1>20. rest[M] = piece[M]
  <2>1. M \in 2 .. M /\ M \in 1 .. M
    BY <1>8, <1>9 DEF M
  <2>2. R(M) = X(M)
    <3>1. ASSUME NEW k \in B PROVE M <= route(sep, k) <=> route(sep, k) = M
      <4>1. route(sep, k) \in 1 .. M
        BY <1>15
      <4> QED BY <4>1, <1>9
    <3> QED BY <3>1
  <2>3. rest[M] = InnerPart(n, St(M), N, R(M)) /\ piece[M] = InnerPart(n, St(M), St(M + 1), X(M))
    BY <2>1, <1>13, <1>17
  <2> HIDE DEF R, X, St
  <2> QED BY <2>2, <2>3, <1>8
<1>21. ASSUME NEW t \in 1 .. (M - 1)
       PROVE  HalvesOf(rest[t], sep[t], cut[t], piece[t], rest[t + 1]) /\ ~rest[t].leaf
  <2>1. /\ t \in 1 .. M /\ t + 1 \in 1 .. M /\ St(t) \in Nat /\ St(t + 1) \in Nat
        /\ St(t) < St(t + 1) /\ St(t + 1) < N /\ N \in Nat
    BY <1>3, <1>16
  <2>2. X(t) = {k \in R(t) : k < sep[t]}
    <3>1. ASSUME NEW k \in B PROVE (t <= route(sep, k) /\ k < sep[t]) <=> route(sep, k) = t
      <4>1. route(sep, k) \in 1 .. M /\ (k < sep[t] <=> route(sep, k) <= t)
        BY <1>15
      <4> QED BY <4>1, <1>9
    <3> QED BY <3>1
  <2>3. R(t + 1) = {k \in R(t) : ~(k < sep[t])}
    <3>1. ASSUME NEW k \in B PROVE (t <= route(sep, k) /\ ~(k < sep[t])) <=> t + 1 <= route(sep, k)
      <4>1. route(sep, k) \in 1 .. M /\ (k < sep[t] <=> route(sep, k) <= t)
        BY <1>15
      <4> QED BY <4>1, <1>9
    <3> QED BY <3>1
  <2>4. /\ PartOf(n, St(t), N, R(t), rest[t]) /\ PartOf(n, St(t + 1), N, R(t + 1), rest[t + 1])
        /\ PartOf(n, St(t), St(t + 1), X(t), piece[t])
    BY <2>1, <1>18, <1>19
  <2>5. sep[t] = n.pivots[St(t + 1)]
    BY <1>12 DEF p
  <2>6. cut[t] = St(t + 1) - St(t)
    BY <2>1
  <2> HIDE DEF R, X, St, cut
  <2>7. HalvesOf(rest[t], sep[t], St(t + 1) - St(t), piece[t], rest[t + 1])
    BY <2>1, <2>2, <2>3, <2>4, <2>5, PartHalves
  <2> QED BY <2>4, <2>6, <2>7 DEF PartOf
<1>22. Cuts(n, M, rest, piece, sep, cut)
  <2>1. M >= 2
    BY <1>8 DEF M
  <2> HIDE DEF cut
  <2> QED BY <2>1, <1>9, <1>17, <1>20, <1>21 DEF Cuts
<1> QED BY <1>22 DEF M, piece, sep

-----------------------------------------------------------------------------
(* A split, as the cascade does it: split_if_needed, then integrate_splits *)

(* What integrate_splits makes of the parent, promoted piece by piece.     *)
MergedAs(ns, id, promoted, N, f) ==
    /\ f[0] = ns[id]
    /\ \A i \in 1 .. N : f[i] = Promote(f[i - 1], promoted[i])
    /\ integrate_splits(ns, id, promoted) = [ns EXCEPT ![id] = f[N]]

(* The loop of integrate_splits: one Promote after the other.              *)
LEMMA MergeLoop ==
    ASSUME NEW ns, NEW id, NEW promoted, NEW N \in Nat, Len(promoted) = N
    PROVE  \E f : MergedAs(ns, id, promoted, N, f)
<1> DEFINE Meets(f, n) == f[0] = ns[id] /\ \A i \in 1 .. n : f[i] = Promote(f[i - 1], promoted[i])
           S == {n \in Nat : \E f : Meets(f, n)}
           G(f) == [i \in 0 .. N |-> IF i = 0 THEN ns[id] ELSE Promote(f[i - 1], promoted[i])]
<1>0. N \in Nat
  OBVIOUS
<1>1. 0 \in S
  <2>1. Meets([i \in 0 .. 0 |-> ns[id]], 0)
    OBVIOUS
  <2> QED BY <2>1, Zenon
<1>2. ASSUME NEW n \in Nat, n \in S PROVE n + 1 \in S
  <2>1. PICK f : Meets(f, n)
    BY <1>2
  <2> DEFINE g == [i \in 0 .. n + 1 |-> IF i = n + 1 THEN Promote(f[n], promoted[n + 1]) ELSE f[i]]
  <2>2. \A i \in 0 .. n : g[i] = f[i]
    OBVIOUS
  <2>3. g[n + 1] = Promote(f[n], promoted[n + 1])
    OBVIOUS
  <2> HIDE DEF g
  <2>4. g[0] = ns[id]
    BY <2>1, <2>2
  <2>5. ASSUME NEW i \in 1 .. n + 1 PROVE g[i] = Promote(g[i - 1], promoted[i])
    <3>1. CASE i = n + 1
      <4>1. i - 1 = n /\ n \in 0 .. n
        BY <3>1
      <4> QED BY <3>1, <4>1, <2>2, <2>3
    <3>2. CASE i # n + 1
      <4>1. i \in 1 .. n /\ i \in 0 .. n /\ i - 1 \in 0 .. n
        BY <3>2
      <4>2. g[i] = f[i] /\ g[i - 1] = f[i - 1] /\ f[i] = Promote(f[i - 1], promoted[i])
        BY <4>1, <2>1, <2>2
      <4> QED BY <4>2
    <3> QED BY <3>1, <3>2
  <2>6. Meets(g, n + 1) /\ n + 1 \in Nat
    BY <2>4, <2>5
  <2> QED BY <2>6, Zenon
<1>3. N \in S
  <2> HIDE DEF S
  <2> QED BY <1>0, <1>1, <1>2, SetInduction
<1>4. PICK f : Meets(f, N)
  BY <1>3
<1> DEFINE r == [i \in 0 .. N |-> f[i]]
<1>5. r = G(r)
  <2>1. ASSUME NEW i \in 0 .. N
        PROVE  f[i] = IF i = 0 THEN ns[id] ELSE Promote(r[i - 1], promoted[i])
    <3>1. CASE i = 0
      BY <1>4, <3>1
    <3>2. CASE i # 0
      <4>1. i \in 1 .. N /\ i - 1 \in 0 .. N
        BY <1>0, <3>2
      <4>2. r[i - 1] = f[i - 1] /\ f[i] = Promote(f[i - 1], promoted[i])
        BY <1>4, <4>1
      <4> HIDE DEF r
      <4> QED BY <3>2, <4>2
    <3> QED BY <3>1, <3>2
  <2> QED BY <2>1, Zenon
<1> DEFINE h == CHOOSE g : g = G(g)
<1>6. h = G(h)
  <2> HIDE DEF G, r
  <2> QED BY <1>5, Zenon
<1>7. integrate_splits(ns, id, promoted) = [ns EXCEPT ![id] = h[N]]
  <2>1. integrate_splits(ns, id, promoted) =
           [ns EXCEPT ![id] = (CHOOSE g : g = [i \in 0 .. Len(promoted) |->
                                 IF i = 0 THEN ns[id] ELSE Promote(g[i - 1], promoted[i])])[Len(promoted)]]
    BY Zenon DEF integrate_splits
  <2>2. Len(promoted) = N
    OBVIOUS
  <2> QED BY <2>1, <2>2, Zenon
<1> HIDE DEF h
<1>8. \A i \in 0 .. N : h[i] = IF i = 0 THEN ns[id] ELSE Promote(h[i - 1], promoted[i])
  BY <1>6, Zenon
<1>9. h[0] = ns[id]
  BY <1>8, <1>0
<1>10. ASSUME NEW i \in 1 .. N PROVE h[i] = Promote(h[i - 1], promoted[i])
  <2>1. i \in 0 .. N /\ i # 0
    BY <1>0
  <2> QED BY <2>1, <1>8, Zenon
<1>11. MergedAs(ns, id, promoted, N, h)
  BY <1>7, <1>9, <1>10, Zenon DEF MergedAs
<1> QED BY <1>11, Zenon

(* Neither half is without children.                                       *)
LEMMA HalfKept ==
    ASSUME NEW n, NodeOk(n), NEW s, NEW t, NEW a, NEW b, HalvesOf(n, s, t, a, b)
    PROVE  /\ NodeOk(a) /\ NodeOk(b) /\ (a.leaf <=> n.leaf) /\ (b.leaf <=> n.leaf)
           /\ ~Barren(a) /\ ~Barren(b)
<1>1. NodeOk(a) /\ NodeOk(b) /\ (a.leaf <=> n.leaf) /\ (b.leaf <=> n.leaf)
  BY DEF HalvesOf
<1>2. ASSUME ~n.leaf PROVE Len(a.children) # 0 /\ Len(b.children) # 0
  <2>1. /\ t \in 1 .. Len(n.pivots) /\ Len(a.children) = t
        /\ Len(b.children) = Len(n.children) - t
    BY <1>2 DEF HalvesOf
  <2>2. /\ n \in InnerNode
        /\ Len(n.children) = Len(n.pivots) + 1 \/ n.pivots = <<>>
    BY <1>2 DEF NodeOk, LeafNode
  <2>3. n.pivots \in Seq(Nat)
    BY <2>2 DEF InnerNode
  <2>4. Len(n.pivots) \in Nat
    BY <2>3
  <2>5. n.pivots = <<>> => Len(n.pivots) = 0
    OBVIOUS
  <2> QED BY <2>1, <2>2, <2>4, <2>5
<1>3. ~Barren(a) /\ ~Barren(b)
  <2>1. Len(<<>>) = 0
    OBVIOUS
  <2> QED BY <1>1, <1>2, <2>1 DEF Barren
<1> QED BY <1>1, <1>3

(* The pieces are nodes of the same kind, and none is without children.    *)
LEMMA CutPieces ==
    ASSUME NEW n, NodeOk(n), NEW M, NEW rest, NEW piece, NEW sep, NEW cut,
           Cuts(n, M, rest, piece, sep, cut)
    PROVE  /\ M \in Nat /\ M >= 2
           /\ \A t \in 1 .. M :
                 NodeOk(piece[t]) /\ ~Barren(piece[t]) /\ (piece[t].leaf <=> n.leaf)
<1>1. /\ M \in Nat /\ M >= 2 /\ rest[1] = n /\ rest[M] = piece[M]
      /\ \A t \in 1 .. (M - 1) : HalvesOf(rest[t], sep[t], cut[t], piece[t], rest[t + 1])
  BY DEF Cuts
<1> DEFINE Fine(m) == NodeOk(m) /\ (m.leaf <=> n.leaf)
           S == {i \in 0 .. (M - 1) : Fine(rest[i + 1]) /\ (i > 0 => ~Barren(rest[i + 1]))}
<1>2. 0 \in S
  <2>1. 0 \in 0 .. (M - 1) /\ 0 + 1 = 1 /\ ~(0 > 0)
    BY <1>1
  <2>2. Fine(rest[1])
    BY <1>1
  <2> HIDE DEF Fine
  <2> QED BY <2>1, <2>2
<1>3. ASSUME NEW i \in 0 .. (M - 1) - 1, i \in S
      PROVE  /\ i + 1 \in S /\ Fine(piece[i + 1]) /\ ~Barren(piece[i + 1])
  <2>1. i + 1 \in 1 .. (M - 1) /\ i + 1 \in 0 .. (M - 1)
    BY <1>1
  <2>2. Fine(rest[i + 1])
    BY <1>3
  <2>3. HalvesOf(rest[i + 1], sep[i + 1], cut[i + 1], piece[i + 1], rest[(i + 1) + 1])
    BY <1>1, <2>1
  <2>4. Fine(piece[i + 1]) /\ ~Barren(piece[i + 1]) /\ Fine(rest[(i + 1) + 1])
        /\ ~Barren(rest[(i + 1) + 1])
    BY <2>2, <2>3, HalfKept
  <2> HIDE DEF Fine
  <2> QED BY <2>1, <2>4
<1>4. \A i \in 0 .. (M - 1) : i \in S
  <2>1. M - 1 \in Nat
    BY <1>1
  <2> HIDE DEF S, Fine
  <2> QED BY <2>1, <1>2, <1>3, BoundedInduction
<1>5. ASSUME NEW t \in 1 .. M PROVE Fine(piece[t]) /\ ~Barren(piece[t])
  <2>1. CASE t = M
    <3>1. M - 1 \in 0 .. (M - 1) /\ (M - 1) + 1 = M /\ M - 1 > 0
      BY <1>1
    <3>2. M - 1 \in S
      BY <3>1, <1>4
    <3>3. Fine(rest[(M - 1) + 1]) /\ ~Barren(rest[(M - 1) + 1])
      <4> HIDE DEF Fine
      <4> QED BY <3>1, <3>2
    <3> HIDE DEF S, Fine
    <3> QED BY <2>1, <1>1, <3>1, <3>3
  <2>2. CASE t # M
    <3>1. t - 1 \in 0 .. (M - 1) - 1 /\ t - 1 \in 0 .. (M - 1) /\ (t - 1) + 1 = t
      BY <2>2, <1>1
    <3>2. t - 1 \in S
      BY <3>1, <1>4
    <3> HIDE DEF S, Fine
    <3> QED BY <3>1, <3>2, <1>3
  <2> QED BY <2>1, <2>2
<1> QED BY <1>1, <1>5

(* An arena as the code has one: a vector.                                 *)
AnyNode == LeafNode \cup InnerNode

(* m holds a part of what n holds, and has some of its children.           *)
PartlyAs(n, m) ==
    /\ m.leaf <=> n.leaf
    /\ DOMAIN HeldBy(m) \subseteq DOMAIN HeldBy(n)
    /\ \A k \in DOMAIN HeldBy(m) : HeldBy(m)[k] = HeldBy(n)[k]
    /\ Children(m) \subseteq Children(n)

(* And it is a piece that fits; the piece of a leaf is not empty.          *)
PieceOf(n, m) == /\ PartlyAs(n, m) /\ ~Overfull(m)
                 /\ n.leaf /\ n.entries # Empty => m.entries # Empty

(* A set of numbers of which none is beyond a gap is no larger than it.    *)
LEMMA RanksFit ==
    ASSUME NEW S, NEW X \in SUBSET S, NEW f \in [S -> Nat], NEW a \in Nat, NEW d \in Nat, d >= 1,
           \A k, l \in S : f[k] = f[l] => k = l,
           \A k \in X : a <= f[k] /\ f[k] < a + d
    PROVE  IsFiniteSet(X) /\ Cardinality(X) <= d
<1> DEFINE T == a .. (a + (d - 1))
           g == [k \in X |-> f[k]]
<1>1. a \in Int /\ a + (d - 1) \in Int /\ ~(a > a + (d - 1)) /\ (a + (d - 1)) - a + 1 = d
  OBVIOUS
<1>2. IsFiniteSet(T) /\ Cardinality(T) = d
  BY <1>1, FS_Interval
<1>3. \A k \in X : f[k] \in T
  OBVIOUS
<1>4. g \in [X -> T] /\ \A k, l \in X : g[k] = g[l] => k = l
  BY <1>3
<1>5. g \in Injection(X, T)
  <2> HIDE DEF g, T
  <2> QED BY <1>4, Zenon DEF Injection, IsInjective
<1> HIDE DEF T, g
<1> QED BY <1>2, <1>5, FS_Injection

(* The pieces of a leaf.                                                   *)
LEMMA LeafPiecesFit ==
    ASSUME NEW n, NodeOk(n), n.leaf, Count(n.entries) > LeafCapacity, NEW sizes,
           sizes = partition_sizes(Count(n.entries), LeafCapacity)
    PROVE  \A t \in 1 .. Len(sizes) : PieceOf(n, LeafPieces(n.entries, sizes)[t])
<1> DEFINE e == n.entries
           S == DOMAIN e
           M == Len(sizes)
<1>1. n \in LeafNode
  BY DEF NodeOk, InnerNode
<1>2. e \in Maps(Entries(Nat))
  BY <1>1 DEF LeafNode
<1>3. S \subseteq Nat /\ IsFiniteSet(S) /\ e = [k \in S |-> e[k]]
  BY <1>2, MapFacts, KeysAssumption
<1>4. Cardinality(S) \in Nat /\ Count(n.entries) = Cardinality(S)
  BY <1>3, FS_CardinalityType DEF Count
<1>5. Pieces(sizes, Cardinality(S), LeafCapacity) /\ LeafCapacity \in Nat
  <2>1. Cardinality(S) >= 1 /\ LeafCapacity \in Nat /\ LeafCapacity >= 1
    BY <1>4, ParamsAssumption
  <2>2. Pieces(partition_sizes(Cardinality(S), LeafCapacity), Cardinality(S), LeafCapacity)
    <3> HIDE DEF S
    <3> QED BY <2>1, <1>4, PartitionPieces
  <2> QED BY <2>1, <2>2, <1>4
<1>6. sizes \in Seq(Nat) /\ \A i \in 1 .. M : sizes[i] >= 1 /\ sizes[i] <= LeafCapacity
  BY <1>5 DEF Pieces
<1>7. ChunkKept(e, sizes)
  BY <1>3, <1>5, ChunkFacts
<1>8. /\ \A k \in S : Rank(S, k) \in Nat
      /\ \A k, l \in S : Rank(S, k) = Rank(S, l) => k = l
  <2>1. /\ \A k \in S : Rank(S, k) \in 0 .. (Cardinality(S) - 1)
        /\ \A k, l \in S : k < l => Rank(S, k) < Rank(S, l)
    BY <1>3, RankFacts
  <2>2. \A k \in S : Rank(S, k) \in Nat
    BY <2>1, <1>4
  <2>3. ASSUME NEW k \in S, NEW l \in S, Rank(S, k) = Rank(S, l) PROVE k = l
    <3>1. ~(k < l) /\ ~(l < k)
      BY <2>1, <2>2, <2>3
    <3>2. k \in Nat /\ l \in Nat
      BY <1>3
    <3> QED BY <3>1, <3>2
  <2> QED BY <2>2, <2>3
<1> SUFFICES ASSUME NEW t \in 1 .. M PROVE PieceOf(n, LeafPieces(e, sizes)[t])
  OBVIOUS
<1> DEFINE X == Chunk(e, sizes, t)
           a == Start(sizes, t)
           d == sizes[t]
           m == Leaf(Restrict(e, X))
<1>9. LeafPieces(e, sizes)[t] = m
  BY <1>6 DEF LeafPieces
<1>10. /\ X # {} /\ X \subseteq S
       /\ \A k \in S : k \in X <=> a <= Rank(S, k) /\ Rank(S, k) < Start(sizes, t + 1)
  BY <1>7 DEF ChunkKept
<1>11. Start(sizes, t + 1) = a + d /\ a \in Nat /\ d \in Nat /\ d >= 1 /\ d <= LeafCapacity
  <2>1. t \in 1 .. (M + 1) /\ d \in Nat
    BY <1>6
  <2> QED BY <2>1, <1>6, Starts
<1>12. /\ m.leaf /\ HeldBy(m) = Restrict(e, X) /\ DOMAIN Restrict(e, X) = X
       /\ m.entries = Restrict(e, X)
  <2>1. X \in SUBSET DOMAIN e
    BY <1>10
  <2>2. m.leaf /\ HeldBy(m) = Restrict(e, X) /\ DOMAIN Restrict(e, X) = X
    <3> HIDE DEF X, e
    <3> QED BY <2>1, <1>2, LeafPart
  <2> QED BY <2>2 DEF HeldBy
<1>13. IsFiniteSet(X) /\ Cardinality(X) <= d
  <2> DEFINE f == [k \in S |-> Rank(S, k)]
  <2>1. f \in [S -> Nat] /\ \A k \in S : f[k] = Rank(S, k)
    BY <1>8
  <2>2. \A k, l \in S : f[k] = f[l] => k = l
    BY <2>1, <1>8
  <2>3. \A k \in X : a <= f[k] /\ f[k] < a + d
    <3> HIDE DEF X, a, d
    <3> QED BY <2>1, <1>10, <1>11
  <2>4. X \in SUBSET S
    BY <1>10
  <2> HIDE DEF f, X, a, d, S
  <2> QED BY <2>1, <2>2, <2>3, <2>4, <1>11, RanksFit
<1> HIDE DEF X, a, d, m
<1>14. ~Overfull(m)
  <2>1. Cardinality(X) \in Nat
    BY <1>13, FS_CardinalityType
  <2>2. Cardinality(X) <= LeafCapacity
    BY <2>1, <1>5, <1>11, <1>13
  <2>3. ~(Cardinality(X) > LeafCapacity)
    BY <2>1, <2>2, <1>5
  <2> QED BY <1>12, <2>3 DEF Overfull, Count
<1>15. m.entries # Empty
  BY <1>10, <1>12 DEF Empty
<1>16. PartlyAs(n, m)
  <2>1. HeldBy(n) = e
    BY DEF HeldBy
  <2>2. \A k \in X : Restrict(e, X)[k] = e[k]
    BY DEF Restrict
  <2>3. Children(m) = {}
    BY <1>12 DEF Children
  <2> HIDE DEF e
  <2> QED BY <2>1, <2>2, <2>3, <1>10, <1>12 DEF PartlyAs, S
<1> QED BY <1>9, <1>14, <1>15, <1>16 DEF PieceOf

(* The pieces of an internal node.                                         *)
LEMMA InnerPiecesFit ==
    ASSUME NEW n, NodeOk(n), ~n.leaf, Len(n.children) > Fanout, NEW sizes,
           sizes = partition_sizes(Len(n.children), Fanout)
    PROVE  \A t \in 1 .. Len(sizes) : PieceOf(n, InnerPieces(n, sizes)[t])
<1> DEFINE c == n.children
           N == Len(c)
           M == Len(sizes)
<1>1. n \in InnerNode /\ Sorted(n.pivots)
  BY DEF NodeOk, LeafNode
<1>2. c \in Seq(Nat)
  BY <1>1 DEF InnerNode
<1>3. N \in Nat /\ N >= 1 /\ Fanout \in Nat /\ Fanout >= 1
  BY <1>2, ParamsAssumption
<1>4. N = Len(n.pivots) + 1
  <2>1. c # <<>>
    BY <1>3
  <2> QED BY <2>1, <1>1 DEF NodeOk, LeafNode
<1>5. Pieces(sizes, N, Fanout)
  <2> HIDE DEF N
  <2> QED BY <1>3, PartitionPieces DEF N
<1>6. sizes \in Seq(Nat) /\ \A i \in 1 .. M : sizes[i] >= 1 /\ sizes[i] <= Fanout
  BY <1>5 DEF Pieces
<1>7. \A j \in 1 .. (M + 1) : Start(sizes, j) \in 0 .. N
  <2> HIDE DEF N
  <2> QED BY <1>3, <1>5, StartOrder
<1> SUFFICES ASSUME NEW t \in 1 .. M PROVE PieceOf(n, InnerPieces(n, sizes)[t])
  OBVIOUS
<1> DEFINE X == {k \in DOMAIN n.buffer : route(InnerSeparators(n, sizes), k) = t}
           lo == Start(sizes, t)
           hi == Start(sizes, t + 1)
           m == InnerPart(n, lo, hi, X)
<1>8. InnerPieces(n, sizes)[t] = m
  BY <1>6 DEF InnerPieces
<1>9. hi = lo + sizes[t] /\ lo \in 0 .. N /\ hi \in 0 .. N /\ sizes[t] \in Nat
  <2>1. t \in 1 .. (M + 1) /\ t + 1 \in 1 .. (M + 1) /\ sizes[t] \in Nat
    BY <1>6
  <2>2. hi = lo + sizes[t]
    BY <1>6, Starts
  <2> QED BY <2>1, <2>2, <1>7
<1> DEFINE d == sizes[t]
<1>10. d \in Nat /\ d >= 1 /\ d <= Fanout
  BY <1>6, <1>9
<1> HIDE DEF lo, hi, X, d
<1>11. lo \in Nat /\ hi \in Nat /\ lo < hi /\ hi <= N /\ hi - lo = d
  BY <1>3, <1>9, <1>10 DEF d
<1>12. PartOf(n, lo, hi, X, InnerPart(n, lo, hi, X))
  <2>1. X \in SUBSET DOMAIN n.buffer
    BY DEF X
  <2> QED BY <2>1, <1>1, <1>4, <1>11, InnerPartIs
<1> HIDE DEF m
<1>13. /\ ~m.leaf /\ HeldBy(m) = Restrict(n.buffer, X) /\ Len(m.children) = d
       /\ \A x \in 1 .. d : m.children[x] = c[lo + x]
       /\ NodeOk(m)
  BY <1>11, <1>12 DEF PartOf, m
<1>14. ~Overfull(m)
  BY <1>3, <1>10, <1>13 DEF Overfull
<1>15. Children(m) \subseteq Children(n)
  <2>1. m.children \in Seq(Nat)
    BY <1>13 DEF NodeOk, LeafNode, InnerNode
  <2>2. DOMAIN m.children = 1 .. d /\ DOMAIN c = 1 .. N
    BY <2>1, <1>2, <1>13
  <2>3. \A x \in 1 .. d : lo + x \in 1 .. N
    BY <1>3, <1>10, <1>11
  <2> QED BY <2>2, <2>3, <1>13 DEF Children, Range
<1>16. PartlyAs(n, m)
  <2>1. HeldBy(n) = n.buffer
    BY DEF HeldBy
  <2>2. /\ DOMAIN Restrict(n.buffer, X) = X /\ X \subseteq DOMAIN n.buffer
        /\ \A k \in X : Restrict(n.buffer, X)[k] = n.buffer[k]
    BY DEF Restrict, X
  <2> QED BY <2>1, <2>2, <1>13, <1>15 DEF PartlyAs
<1> QED BY <1>8, <1>14, <1>16 DEF PieceOf

(* split_if_needed cuts an overfull node into pieces.                      *)
CutInto(ns, id, M, rest, piece, sep, cut) ==
    /\ Cuts(ns[id], M, rest, piece, sep, cut)
    /\ piece \in Seq(AnyNode) /\ Len(piece) = M
    /\ DOMAIN sep = 1 .. (M - 1)
    /\ split_if_needed(ns, id) = Split(ns, id, piece, sep)
    /\ \A t \in 1 .. M : PieceOf(ns[id], piece[t])
    /\ \A t \in 1 .. M : piece[t].dirty

(* split_leaf and split_internal both are a sequence of cuts.              *)
LEMMA SplitIs ==
    ASSUME NEW ns, NEW id, NodeOk(ns[id]), Overfull(ns[id])
    PROVE  \E M, rest, piece, sep, cut : CutInto(ns, id, M, rest, piece, sep, cut)
<1> DEFINE n == ns[id]
<1>1. CASE n.leaf
  <2> DEFINE sizes == partition_sizes(Count(n.entries), LeafCapacity)
  <2>1. Count(n.entries) > LeafCapacity
    BY <1>1 DEF Overfull
  <2>2. PICK rest, cut : Cuts(n, Len(sizes), rest, LeafPieces(n.entries, sizes),
                              LeafSeparators(n.entries, sizes), cut)
    <3> HIDE DEF sizes
    <3>1. sizes = partition_sizes(Count(n.entries), LeafCapacity)
      BY DEF sizes
    <3> HIDE DEF n
    <3>2. NodeOk(n)
      BY DEF n
    <3> QED BY <1>1, <2>1, <3>1, <3>2, LeafCuts
  <2>12. \A t \in 1 .. Len(sizes) : PieceOf(n, LeafPieces(n.entries, sizes)[t])
    <3> HIDE DEF sizes
    <3>1. sizes = partition_sizes(Count(n.entries), LeafCapacity)
      BY DEF sizes
    <3> HIDE DEF n
    <3>2. NodeOk(n)
      BY DEF n
    <3> QED BY <1>1, <2>1, <3>1, <3>2, LeafPiecesFit
  <2>3. split_if_needed(ns, id) =
           Split(ns, id, LeafPieces(n.entries, sizes), LeafSeparators(n.entries, sizes))
    BY <1>1, Zenon DEF split_if_needed, split_leaf, LeafPieces, LeafSeparators
  <2>4. sizes \in Seq(Nat)
    <3>1. n \in LeafNode
      BY <1>1 DEF NodeOk, InnerNode
    <3>2. n.entries \in Maps(Entries(Nat))
      BY <3>1 DEF LeafNode
    <3>3. IsFiniteSet(DOMAIN n.entries)
      BY <3>2, MapFacts
    <3>4. Count(n.entries) \in Nat
      BY <3>3, FS_CardinalityType DEF Count
    <3>5. Count(n.entries) >= 1 /\ LeafCapacity \in Nat /\ LeafCapacity >= 1
      BY <3>4, <2>1, ParamsAssumption
    <3>6. Pieces(sizes, Count(n.entries), LeafCapacity)
      <4> HIDE DEF n
      <4> QED BY <3>4, <3>5, PartitionPieces
    <3> QED BY <3>6 DEF Pieces
  <2> HIDE DEF sizes, n
  <2>5. /\ \A t \in 1 .. Len(sizes) : NodeOk(LeafPieces(n.entries, sizes)[t])
    BY <2>2, CutPieces DEF n
  <2>6. LeafPieces(n.entries, sizes) = [j \in 1 .. Len(sizes) |-> LeafPieces(n.entries, sizes)[j]]
    BY <2>4 DEF LeafPieces
  <2>7. \A t \in 1 .. Len(sizes) : LeafPieces(n.entries, sizes)[t] \in AnyNode
    BY <2>5 DEF NodeOk, AnyNode
  <2> DEFINE piece == LeafPieces(n.entries, sizes)
             sep == LeafSeparators(n.entries, sizes)
  <2>8. Len(sizes) \in Nat
    BY <2>4
  <2>9. DOMAIN sep = 1 .. (Len(sizes) - 1)
    BY DEF LeafSeparators
  <2> HIDE DEF piece, sep
  <2>10. piece \in Seq(AnyNode) /\ Len(piece) = Len(sizes)
    <3>1. piece = [j \in 1 .. Len(sizes) |-> piece[j]]
      BY <2>6 DEF piece
    <3>2. \A t \in 1 .. Len(sizes) : piece[t] \in AnyNode
      BY <2>7 DEF piece
    <3>3. piece \in [1 .. Len(sizes) -> AnyNode]
      BY <3>1, <3>2
    <3> QED BY <3>3, <2>8
  <2>13. \A t \in 1 .. Len(sizes) : piece[t].dirty
    BY <2>4 DEF piece, LeafPieces, Leaf
  <2>11. CutInto(ns, id, Len(sizes), rest, piece, sep, cut)
    BY <2>2, <2>3, <2>9, <2>10, <2>12, <2>13 DEF CutInto, piece, sep, n
  <2> QED BY <2>11, Zenon
<1>2. CASE ~n.leaf
  <2> DEFINE sizes == partition_sizes(Len(n.children), Fanout)
  <2>1. Len(n.children) > Fanout
    BY <1>2 DEF Overfull
  <2>2. PICK rest, cut : Cuts(n, Len(sizes), rest, InnerPieces(n, sizes),
                              InnerSeparators(n, sizes), cut)
    <3> HIDE DEF sizes
    <3>1. sizes = partition_sizes(Len(n.children), Fanout)
      BY DEF sizes
    <3> HIDE DEF n
    <3>2. NodeOk(n)
      BY DEF n
    <3> QED BY <1>2, <2>1, <3>1, <3>2, InnerCuts
  <2>12. \A t \in 1 .. Len(sizes) : PieceOf(n, InnerPieces(n, sizes)[t])
    <3> HIDE DEF sizes
    <3>1. sizes = partition_sizes(Len(n.children), Fanout)
      BY DEF sizes
    <3> HIDE DEF n
    <3>2. NodeOk(n)
      BY DEF n
    <3> QED BY <1>2, <2>1, <3>1, <3>2, InnerPiecesFit
  <2>3. split_if_needed(ns, id) =
           Split(ns, id, InnerPieces(n, sizes), InnerSeparators(n, sizes))
    BY <1>2, Zenon DEF split_if_needed, split_internal, InnerPieces, InnerSeparators, InnerPart
  <2>4. sizes \in Seq(Nat)
    <3>1. n \in InnerNode
      BY <1>2 DEF NodeOk, LeafNode
    <3>2. n.children \in Seq(Nat)
      BY <3>1 DEF InnerNode
    <3>3. Len(n.children) \in Nat
      BY <3>2
    <3>5. Len(n.children) >= 1 /\ Fanout \in Nat /\ Fanout >= 1
      BY <3>3, <2>1, ParamsAssumption
    <3>6. Pieces(sizes, Len(n.children), Fanout)
      <4> HIDE DEF n
      <4> QED BY <3>3, <3>5, PartitionPieces
    <3> QED BY <3>6 DEF Pieces
  <2> HIDE DEF sizes, n
  <2>5. /\ \A t \in 1 .. Len(sizes) : NodeOk(InnerPieces(n, sizes)[t])
    BY <2>2, CutPieces DEF n
  <2>6. InnerPieces(n, sizes) = [j \in 1 .. Len(sizes) |-> InnerPieces(n, sizes)[j]]
    BY <2>4 DEF InnerPieces
  <2>7. \A t \in 1 .. Len(sizes) : InnerPieces(n, sizes)[t] \in AnyNode
    BY <2>5 DEF NodeOk, AnyNode
  <2> DEFINE piece == InnerPieces(n, sizes)
             sep == InnerSeparators(n, sizes)
  <2>8. Len(sizes) \in Nat
    BY <2>4
  <2>9. DOMAIN sep = 1 .. (Len(sizes) - 1)
    BY DEF InnerSeparators
  <2> HIDE DEF piece, sep
  <2>10. piece \in Seq(AnyNode) /\ Len(piece) = Len(sizes)
    <3>1. piece = [j \in 1 .. Len(sizes) |-> piece[j]]
      BY <2>6 DEF piece
    <3>2. \A t \in 1 .. Len(sizes) : piece[t] \in AnyNode
      BY <2>7 DEF piece
    <3>3. piece \in [1 .. Len(sizes) -> AnyNode]
      BY <3>1, <3>2
    <3> QED BY <3>3, <2>8
  <2>13. \A t \in 1 .. Len(sizes) : piece[t].dirty
    BY <2>4 DEF piece, InnerPieces, InnerPart, Internal
  <2>11. CutInto(ns, id, Len(sizes), rest, piece, sep, cut)
    BY <2>2, <2>3, <2>9, <2>10, <2>12, <2>13 DEF CutInto, piece, sep, n
  <2> QED BY <2>11, Zenon
<1> QED BY <1>1, <1>2

(* Where the pieces are in the arena.                                      *)
SplitPlaces(ns, id, M, piece, sep, S) ==
    /\ S.nodes \in Seq(AnyNode) /\ Len(S.nodes) = Len(ns) + (M - 1)
    /\ S.nodes[id] = piece[1]
    /\ \A i \in 1 .. Len(ns) : i # id => S.nodes[i] = ns[i]
    /\ \A t \in 1 .. (M - 1) : S.nodes[Len(ns) + t] = piece[t + 1]
    /\ Len(S.promoted) = M - 1
    /\ \A t \in 1 .. (M - 1) : S.promoted[t] = <<sep[t], Len(ns) + t>>

(* Where Split puts the pieces.                                            *)
LEMMA SplitNodes ==
    ASSUME NEW ns \in Seq(AnyNode), NEW id \in 1 .. Len(ns), NEW piece \in Seq(AnyNode),
           NEW M \in Nat, M >= 2, Len(piece) = M, NEW sep, DOMAIN sep = 1 .. (M - 1)
    PROVE  SplitPlaces(ns, id, M, piece, sep, Split(ns, id, piece, sep))
<1> DEFINE a == [ns EXCEPT ![id] = Head(piece)]
           b == Tail(piece)
<1>1. Head(piece) = piece[1] /\ piece[1] \in AnyNode
  <2>1. 1 \in 1 .. Len(piece)
    OBVIOUS
  <2> QED BY <2>1
<1>2. /\ a \in Seq(AnyNode) /\ Len(a) = Len(ns) /\ a[id] = piece[1]
      /\ \A i \in 1 .. Len(ns) : i # id => a[i] = ns[i]
  BY <1>1
<1>3. /\ b \in Seq(AnyNode) /\ Len(b) = M - 1
      /\ \A t \in 1 .. (M - 1) : b[t] = piece[t + 1]
  <2>1. piece # <<>>
    OBVIOUS
  <2> QED BY <2>1, HeadTailProperties
<1>4. /\ Split(ns, id, piece, sep).nodes = a \o b
      /\ Split(ns, id, piece, sep).promoted = [j \in 1 .. (M - 1) |-> <<sep[j], Len(ns) + j>>]
  BY DEF Split
<1> HIDE DEF a, b
<1>5. /\ a \o b \in Seq(AnyNode) /\ Len(a \o b) = Len(ns) + (M - 1)
      /\ \A i \in 1 .. Len(ns) : (a \o b)[i] = a[i]
      /\ \A t \in 1 .. (M - 1) : (a \o b)[Len(ns) + t] = b[t]
  <2>1. a \in Seq(AnyNode) /\ b \in Seq(AnyNode)
    BY <1>2, <1>3
  <2>2. /\ a \o b \in Seq(AnyNode) /\ Len(a \o b) = Len(a) + Len(b)
        /\ \A i \in 1 .. Len(a) : (a \o b)[i] = a[i]
        /\ \A i \in 1 .. Len(b) : (a \o b)[Len(a) + i] = b[i]
    BY <2>1
  <2> QED BY <1>2, <1>3, <2>2
<1>6. Len([j \in 1 .. (M - 1) |-> <<sep[j], Len(ns) + j>>]) = M - 1
  <2>1. M - 1 \in Nat
    OBVIOUS
  <2> QED BY <2>1
<1>7. \A t \in 1 .. (M - 1) : [j \in 1 .. (M - 1) |-> <<sep[j], Len(ns) + j>>][t] = <<sep[t], Len(ns) + t>>
  OBVIOUS
<1> QED BY <1>2, <1>3, <1>4, <1>5, <1>6, <1>7, SMTT(30) DEF SplitPlaces

(* The j-th child C of P is split if it has to be, and P takes what is     *)
(* promoted: only P and C change, there may be new nodes, and get finds    *)
(* what it found.                                                          *)
Integrated(ns, P, C) ==
    LET split == split_if_needed(ns, C)
    IN integrate_splits(split.nodes, P, split.promoted)

IntegrateNodes(ns, P, C, ns2) ==
    /\ DOMAIN ns \subseteq DOMAIN ns2
    /\ \A i \in DOMAIN ns \ {P, C} : ns2[i] = ns[i]
    /\ ~ns2[P].leaf /\ ns2[P].buffer = ns[P].buffer
    /\ Children(ns2[P]) \subseteq Children(ns[P]) \cup (DOMAIN ns2 \ DOMAIN ns)
    /\ \A i \in (DOMAIN ns2 \ DOMAIN ns) \cup {C} : PieceOf(ns[C], ns2[i])

IntegrateKept(ns, r, L, P, C, ns2) ==
    /\ \E L2, rk2, iv2 : /\ Shape(ns2, r, L2, rk2, iv2) /\ L \subseteq L2
                         /\ \A i \in L2 : Barren(ns2[i]) => i \in L /\ Barren(ns[i])
    /\ ns2 \in Seq(AnyNode)
    /\ SameMap(ns, r, ns2, r)
    /\ \A i \in L \ {P, C} : ns2[i] = ns[i]
    /\ ~ns2[P].leaf
    /\ IntegrateNodes(ns, P, C, ns2)

(* A node that fits stays as it is, and so does its parent.                *)
LEMMA FitsKept ==
    ASSUME NEW ns \in Seq(AnyNode), NEW r, NEW L, NEW rk, NEW iv, Shape(ns, r, L, rk, iv),
           NEW P \in L, ~ns[P].leaf, NEW C, ~Overfull(ns[C])
    PROVE  IntegrateKept(ns, r, L, P, C, Integrated(ns, P, C))
<1> DEFINE promoted == split_if_needed(ns, C).promoted
<1>1. split_if_needed(ns, C).nodes = ns /\ promoted = <<>>
  BY DEF split_if_needed
<1>2. Len(promoted) = 0
  BY <1>1
<1>3. Integrated(ns, P, C) = integrate_splits(ns, P, promoted)
  BY <1>1 DEF Integrated
<1> HIDE DEF promoted
<1> DEFINE N == Len(promoted)
<1>4. N \in Nat /\ N = Len(promoted)
  BY <1>2
<1> HIDE DEF N
<1>5. PICK f : MergedAs(ns, P, promoted, N, f)
  <2>1. Len(promoted) = N
    BY <1>4
  <2> QED BY <1>4, <2>1, MergeLoop, Zenon
<1>6. Integrated(ns, P, C) = ns
  BY <1>2, <1>3, <1>4, <1>5 DEF MergedAs
<1>7. SameMap(ns, r, ns, r)
  BY DEF SameMap
<1>8. L \subseteq L /\ \A i \in L : Barren(ns[i]) => i \in L /\ Barren(ns[i])
  OBVIOUS
<1>9. /\ \E L2, rk2, iv2 : /\ Shape(ns, r, L2, rk2, iv2) /\ L \subseteq L2
                           /\ \A i \in L2 : Barren(ns[i]) => i \in L /\ Barren(ns[i])
  BY <1>8, Zenon
<1>10. IntegrateNodes(ns, P, C, ns)
  <2>1. PieceOf(ns[C], ns[C])
    BY DEF PieceOf, PartlyAs
  <2> QED BY <2>1 DEF IntegrateNodes
<1>11. IntegrateKept(ns, r, L, P, C, ns)
  BY <1>7, <1>9, <1>10, Zenon DEF IntegrateKept
<1> QED BY <1>6, <1>11, Zenon

(* A node that does not fit is cut into pieces, which the parent takes up. *)
LEMMA OverfullKept ==
    ASSUME NEW ns \in Seq(AnyNode), NEW r, NEW L, NEW rk, NEW iv, Shape(ns, r, L, rk, iv),
           NEW P \in L, ~ns[P].leaf, NEW j \in 1 .. Len(ns[P].children), NEW C,
           C = ns[P].children[j], Overfull(ns[C])
    PROVE  IntegrateKept(ns, r, L, P, C, Integrated(ns, P, C))
<1> DEFINE Q == Len(ns)
<1>0. /\ Q \in Nat /\ DOMAIN ns = 1 .. Q
  OBVIOUS
<1> HIDE DEF Q
<1>1. /\ C \in L /\ C \in 1 .. Q /\ C # P /\ P \in 1 .. Q /\ NodeOk(ns[C])
      /\ ns[P].children \in Seq(Nat) /\ L \subseteq 1 .. Q
  <2>1. Parented(ns, r, L, rk, P, j)
    BY ChildApart
  <2>2. C \in DOMAIN ns => NodeOk(ns[C])
    BY DEF Shape, Arena
  <2>3. L \subseteq DOMAIN ns
    BY DEF Shape, Tree
  <2> QED BY <1>0, <2>1, <2>2, <2>3 DEF Parented
<1>2. PICK M, rest, piece, sep, cut : CutInto(ns, C, M, rest, piece, sep, cut)
  BY <1>1, SplitIs
<1>3. /\ Cuts(ns[C], M, rest, piece, sep, cut) /\ piece \in Seq(AnyNode) /\ Len(piece) = M
      /\ DOMAIN sep = 1 .. (M - 1) /\ split_if_needed(ns, C) = Split(ns, C, piece, sep)
  BY <1>2 DEF CutInto
<1>4. /\ M \in Nat /\ M >= 2
      /\ \A t \in 1 .. M : NodeOk(piece[t]) /\ ~Barren(piece[t])
  BY <1>1, <1>3, CutPieces
<1> DEFINE S == Split(ns, C, piece, sep)
           mid == S.nodes
           promoted == S.promoted
<1>5. /\ mid \in Seq(AnyNode) /\ Len(mid) = Q + (M - 1)
      /\ mid[C] = piece[1]
      /\ \A i \in 1 .. Q : i # C => mid[i] = ns[i]
      /\ \A t \in 1 .. (M - 1) : mid[Q + t] = piece[t + 1]
      /\ Len(promoted) = M - 1
      /\ \A t \in 1 .. (M - 1) : promoted[t] = <<sep[t], Q + t>>
  <2>1. C \in 1 .. Len(ns)
    BY <1>1 DEF Q
  <2>2. /\ mid \in Seq(AnyNode) /\ Len(mid) = Len(ns) + (M - 1)
        /\ mid[C] = piece[1]
        /\ \A i \in 1 .. Len(ns) : i # C => mid[i] = ns[i]
        /\ \A t \in 1 .. (M - 1) : mid[Len(ns) + t] = piece[t + 1]
        /\ Len(promoted) = M - 1
        /\ \A t \in 1 .. (M - 1) : promoted[t] = <<sep[t], Len(ns) + t>>
    <3>1. SplitPlaces(ns, C, M, piece, sep, Split(ns, C, piece, sep))
      BY <2>1, <1>3, <1>4, SplitNodes
    <3> QED BY <3>1, Zenon DEF SplitPlaces
  <2> HIDE DEF S, mid, promoted
  <2> QED BY <2>2 DEF Q
<1>6. Integrated(ns, P, C) = integrate_splits(mid, P, promoted)
  BY <1>3 DEF Integrated
<1> HIDE DEF S, mid, promoted
<1>7. PICK merged : /\ merged[0] = mid[P]
                    /\ \A i \in 1 .. Len(promoted) : merged[i] = Promote(merged[i - 1], promoted[i])
                    /\ integrate_splits(mid, P, promoted) = [mid EXCEPT ![P] = merged[Len(promoted)]]
  <2> DEFINE N == Len(promoted)
  <2>1. N \in Nat /\ N = Len(promoted)
    BY <1>4, <1>5
  <2> HIDE DEF N
  <2>2. PICK f : MergedAs(mid, P, promoted, N, f)
    <3>1. Len(promoted) = N
      BY <2>1
    <3> QED BY <2>1, <3>1, MergeLoop, Zenon
  <2> QED BY <2>1, <2>2, Zenon DEF MergedAs
<1>8. /\ merged[0] = mid[P]
      /\ \A i \in 1 .. (M - 1) : merged[i] = Promote(merged[i - 1], promoted[i])
      /\ integrate_splits(mid, P, promoted) = [mid EXCEPT ![P] = merged[M - 1]]
  BY <1>5, <1>7
<1>9. CutContext(ns, r, L, rk, iv, P, j, Q, M, rest, piece, sep, cut, merged)
  <2>1. \A t \in 1 .. (M - 1) : Q + t \notin DOMAIN ns
    BY <1>0, <1>4
  <2>2. merged[0] = ns[P]
    BY <1>1, <1>5, <1>8
  <2>3. \A t \in 1 .. (M - 1) : merged[t] = Promote(merged[t - 1], <<sep[t], Q + t>>)
    BY <1>5, <1>8
  <2> QED BY <1>0, <1>3, <2>1, <2>2, <2>3 DEF CutContext
<1> DEFINE ns2 == CutArena(ns, P, C, Q, rest, piece, merged, M - 1)
<1>10. CutKept(ns, r, L, P, j, Q, sep, M - 1, ns2)
  BY <1>9, CutsKeep
<1> DEFINE out == [mid EXCEPT ![P] = merged[M - 1]]
<1>11. /\ DOMAIN out = 1 .. (Q + (M - 1)) /\ out = [i \in 1 .. (Q + (M - 1)) |-> out[i]]
       /\ out[P] = merged[M - 1]
       /\ \A i \in 1 .. (Q + (M - 1)) : i # P => out[i] = mid[i]
  <2>1. DOMAIN mid = 1 .. (Q + (M - 1)) /\ P \in 1 .. (Q + (M - 1))
    BY <1>0, <1>1, <1>4, <1>5
  <2> QED BY <2>1
<1>12. DOMAIN ns \cup ((Q + 1) .. (Q + (M - 1))) = 1 .. (Q + (M - 1))
  BY <1>0, <1>4
<1>13. /\ DOMAIN ns2 = 1 .. (Q + (M - 1)) /\ ns2 = [i \in 1 .. (Q + (M - 1)) |-> ns2[i]]
       /\ \A i \in 1 .. (Q + (M - 1)) :
             ns2[i] = IF i = P THEN merged[M - 1]
                      ELSE IF i = CutId(C, Q, M - 1) THEN rest[(M - 1) + 1]
                      ELSE IF i = C THEN piece[1]
                      ELSE IF i \in (Q + 1) .. (Q + (M - 1)) THEN piece[(i - Q) + 1]
                      ELSE ns[i]
  BY <1>12, Zenon DEF CutArena
<1>14. CutId(C, Q, M - 1) = Q + (M - 1) /\ rest[(M - 1) + 1] = piece[M] /\ (M - 1) + 1 = M
  <2>1. M - 1 # 0 /\ (M - 1) + 1 = M
    BY <1>4
  <2>2. rest[M] = piece[M]
    BY <1>3 DEF Cuts
  <2> QED BY <2>1, <2>2 DEF CutId
<1> HIDE DEF out, ns2
<1>15. ASSUME NEW i \in 1 .. (Q + (M - 1)) PROVE out[i] = ns2[i]
  <2>1. CASE i = P
    BY <2>1, <1>11, <1>13
  <2>2. CASE i # P /\ i = Q + (M - 1)
    <3>1. ns2[i] = piece[M]
      BY <2>2, <1>13, <1>14
    <3>2. M - 1 \in 1 .. (M - 1)
      BY <1>4
    <3>3. mid[i] = piece[(M - 1) + 1]
      BY <2>2, <3>2, <1>5
    <3> QED BY <2>2, <3>1, <3>3, <1>11, <1>14
  <2>3. CASE i # P /\ i # Q + (M - 1) /\ i = C
    <3>1. ns2[i] = piece[1]
      BY <2>3, <1>13, <1>14
    <3> QED BY <2>3, <3>1, <1>5, <1>11
  <2>4. CASE i # P /\ i # Q + (M - 1) /\ i # C /\ i \in 1 .. Q
    <3>1. ~(i \in (Q + 1) .. (Q + (M - 1)))
      BY <2>4, <1>0, <1>4
    <3>2. ns2[i] = ns[i]
      BY <2>4, <3>1, <1>13, <1>14
    <3> QED BY <2>4, <3>2, <1>5, <1>11
  <2>5. CASE i # P /\ i # Q + (M - 1) /\ i # C /\ ~(i \in 1 .. Q)
    <3>1. i \in (Q + 1) .. (Q + (M - 1)) /\ i - Q \in 1 .. (M - 1) /\ Q + (i - Q) = i
      BY <2>5, <1>0, <1>4
    <3>2. ns2[i] = piece[(i - Q) + 1]
      BY <2>5, <3>1, <1>13, <1>14
    <3>3. mid[Q + (i - Q)] = piece[(i - Q) + 1]
      BY <3>1, <1>5
    <3> QED BY <2>5, <3>1, <3>2, <3>3, <1>11
  <2> QED BY <2>1, <2>2, <2>3, <2>4, <2>5
<1>16. out = ns2
  BY <1>11, <1>13, <1>15, Zenon
<1>17. Integrated(ns, P, C) = ns2
  BY <1>6, <1>8, <1>16 DEF out
<1>18. PICK rk2, iv2 : Shape(ns2, r, L \cup ((Q + 1) .. (Q + (M - 1))), rk2, iv2)
  BY <1>10 DEF CutKept
<1>19. SameMap(ns, r, ns2, r) /\ CutParent(ns[P], ns2[P], j, Q, sep, M - 1)
  BY <1>10 DEF CutKept
<1>20. \A i \in 1 .. (Q + (M - 1)) : ns2[i] \in AnyNode
  <2>1. \A i \in DOMAIN ns2 : NodeOk(ns2[i])
    BY <1>18 DEF Shape, Arena
  <2> QED BY <2>1, <1>13 DEF NodeOk, AnyNode
<1>21. ns2 \in Seq(AnyNode)
  <2>1. ns2 \in [1 .. (Q + (M - 1)) -> AnyNode] /\ Q + (M - 1) \in Nat
    BY <1>13, <1>20, <1>0, <1>4
  <2> QED BY <2>1
<1>22. ~ns2[P].leaf /\ ~Barren(ns2[P])
  <2>1. ~ns2[P].leaf /\ Len(ns2[P].children) = Len(ns[P].children) + (M - 1)
    BY <1>19 DEF CutParent
  <2>2. Len(ns[P].children) \in Nat
    BY <1>1
  <2>3. Len(ns2[P].children) # 0
    BY <2>1, <2>2, <1>4
  <2>4. Len(<<>>) = 0
    OBVIOUS
  <2> QED BY <2>1, <2>3, <2>4 DEF Barren
<1>23. \A i \in L \ {P, C} : ns2[i] = ns[i]
  <2> SUFFICES ASSUME NEW i \in L \ {P, C} PROVE ns2[i] = ns[i]
    OBVIOUS
  <2>1. i \in 1 .. Q /\ i \in 1 .. (Q + (M - 1)) /\ i # P /\ i # C
    BY <1>0, <1>1, <1>4
  <2> QED BY <2>1, <1>5, <1>11, <1>16
<1>24. ASSUME NEW i \in L \cup ((Q + 1) .. (Q + (M - 1))), Barren(ns2[i])
       PROVE  i \in L /\ Barren(ns[i])
  <2>1. i # P
    BY <1>22, <1>24
  <2>2. CASE i = C
    <3>1. ns2[i] = piece[1] /\ 1 \in 1 .. M
      <4>1. C \in 1 .. (Q + (M - 1))
        BY <1>0, <1>1, <1>4
      <4> QED BY <2>1, <2>2, <4>1, <1>5, <1>11, <1>16, <1>4
    <3> QED BY <3>1, <1>4, <1>24
  <2>3. CASE i # C /\ i \in L
    BY <2>1, <2>3, <1>23, <1>24
  <2>4. CASE i \notin L
    <3>1. i - Q \in 1 .. (M - 1) /\ Q + (i - Q) = i /\ i \in 1 .. (Q + (M - 1))
      BY <2>4, <1>0, <1>4, SMTT(30)
    <3>2. ns2[i] = piece[(i - Q) + 1] /\ (i - Q) + 1 \in 1 .. M
      <4>1. mid[Q + (i - Q)] = piece[(i - Q) + 1]
        BY <3>1, <1>5
      <4>2. (i - Q) + 1 \in 1 .. M
        BY <3>1, <1>4, <1>0
      <4> QED BY <2>1, <3>1, <4>1, <4>2, <1>11, <1>16
    <3> QED BY <3>2, <1>4, <1>24
  <2> QED BY <2>2, <2>3, <2>4
<1>25. \E L2, rk2x, iv2x : /\ Shape(ns2, r, L2, rk2x, iv2x) /\ L \subseteq L2
                           /\ \A i \in L2 : Barren(ns2[i]) => i \in L /\ Barren(ns[i])
  <2> DEFINE L2 == L \cup ((Q + 1) .. (Q + (M - 1)))
  <2>1. L \subseteq L2 /\ \A i \in L2 : Barren(ns2[i]) => i \in L /\ Barren(ns[i])
    BY <1>24
  <2>2. Shape(ns2, r, L2, rk2, iv2)
    BY <1>18
  <2> HIDE DEF L2
  <2> QED BY <2>1, <2>2, Zenon
<1>26. \A t \in 1 .. M : PieceOf(ns[C], piece[t])
  BY <1>2 DEF CutInto
<1>27. ASSUME NEW i \in ((1 .. (Q + (M - 1))) \ (1 .. Q)) \cup {C} PROVE PieceOf(ns[C], ns2[i])
  <2>1. CASE i = C
    <3>1. C \in 1 .. (Q + (M - 1)) /\ 1 \in 1 .. M
      BY <1>0, <1>1, <1>4, SMTT(30)
    <3>2. ns2[i] = piece[1]
      BY <2>1, <3>1, <1>1, <1>5, <1>11, <1>16
    <3> QED BY <3>1, <3>2, <1>26
  <2>2. CASE i # C
    <3>1. /\ i - Q \in 1 .. (M - 1) /\ Q + (i - Q) = i /\ i \in 1 .. (Q + (M - 1)) /\ i # P
          /\ (i - Q) + 1 \in 1 .. M
      BY <2>2, <1>0, <1>1, <1>4
    <3>2. mid[Q + (i - Q)] = piece[(i - Q) + 1]
      BY <3>1, <1>5
    <3>3. ns2[i] = piece[(i - Q) + 1]
      BY <3>1, <3>2, <1>11, <1>16
    <3> QED BY <3>1, <3>3, <1>26
  <2> QED BY <2>1, <2>2
<1>28. Children(ns2[P]) \subseteq Children(ns[P]) \cup ((1 .. (Q + (M - 1))) \ (1 .. Q))
  <2> DEFINE N == Len(ns[P].children)
             t == M - 1
  <2>1. /\ Len(ns2[P].children) = N + t
        /\ \A y \in 1 .. (N + t) :
              ns2[P].children[y] = IF y <= j THEN ns[P].children[y]
                                   ELSE IF y <= j + t THEN Q + (y - j) ELSE ns[P].children[y - t]
    BY <1>19 DEF CutParent
  <2>2. N \in Nat /\ t \in Nat /\ j \in 1 .. N /\ DOMAIN ns[P].children = 1 .. N
    BY <1>1, <1>4
  <2>3. DOMAIN ns2[P].children = 1 .. (N + t)
    <3>1. P \in 1 .. (Q + (M - 1))
      BY <1>0, <1>1, <1>4
    <3>2. ns2[P] \in InnerNode
      BY <3>1, <1>20, <1>22 DEF AnyNode, LeafNode
    <3>3. ns2[P].children \in Seq(Nat)
      BY <3>2 DEF InnerNode
    <3> QED BY <3>3, <2>1
  <2> HIDE DEF N, t
  <2>4. ASSUME NEW y \in 1 .. (N + t)
        PROVE  \/ \E x \in 1 .. N : ns2[P].children[y] = ns[P].children[x]
               \/ ns2[P].children[y] \in (1 .. (Q + (M - 1))) \ (1 .. Q)
    <3>1. CASE y <= j
      <4>1. y \in 1 .. N
        BY <2>2, <3>1
      <4> QED BY <4>1, <3>1, <2>1
    <3>2. CASE ~(y <= j) /\ y <= j + t
      <4>1. ns2[P].children[y] = Q + (y - j)
        BY <3>2, <2>1
      <4>2. Q + (y - j) \in (1 .. (Q + (M - 1))) \ (1 .. Q)
        BY <3>2, <2>2, <1>0, <1>4 DEF t
      <4> QED BY <4>1, <4>2
    <3>3. CASE ~(y <= j) /\ ~(y <= j + t)
      <4>1. y - t \in 1 .. N
        BY <3>3, <2>2
      <4> QED BY <4>1, <3>3, <2>1
    <3> QED BY <3>1, <3>2, <3>3
  <2> QED BY <2>2, <2>3, <2>4, <1>22 DEF Children, Range
<1>29. IntegrateNodes(ns, P, C, ns2)
  <2>1. DOMAIN ns2 = 1 .. (Q + (M - 1)) /\ DOMAIN ns \subseteq DOMAIN ns2
    BY <1>0, <1>4, <1>13
  <2>2. \A i \in DOMAIN ns \ {P, C} : ns2[i] = ns[i]
    <3> SUFFICES ASSUME NEW i \in DOMAIN ns \ {P, C} PROVE ns2[i] = ns[i]
      OBVIOUS
    <3>1. i \in 1 .. Q /\ i \in 1 .. (Q + (M - 1)) /\ i # P /\ i # C
      BY <1>0, <1>4
    <3> QED BY <3>1, <1>5, <1>11, <1>16
  <2>3. ns2[P].buffer = ns[P].buffer
    BY <1>19 DEF CutParent
  <2> QED BY <2>1, <2>2, <2>3, <1>0, <1>22, <1>27, <1>28 DEF IntegrateNodes
<1>30. IntegrateKept(ns, r, L, P, C, ns2)
  BY <1>19, <1>21, <1>22, <1>23, <1>25, <1>29, Zenon DEF IntegrateKept
<1> QED BY <1>17, <1>30, Zenon

(* split_if_needed and integrate_splits keep the shape and the map.        *)
THEOREM SplitKeeps ==
    ASSUME NEW ns \in Seq(AnyNode), NEW r, NEW L, NEW rk, NEW iv, Shape(ns, r, L, rk, iv),
           NEW P \in L, ~ns[P].leaf, NEW j \in 1 .. Len(ns[P].children)
    PROVE  IntegrateKept(ns, r, L, P, ns[P].children[j], Integrated(ns, P, ns[P].children[j]))
BY FitsKept, OverfullKept

-----------------------------------------------------------------------------
(* Dirty flags                                                             *)

(* The dirty flags have nothing to do with the shape or the map.           *)
LEMMA AlikeKeeps ==
    ASSUME NEW ns, NEW r, NEW L, NEW rk, NEW iv, Shape(ns, r, L, rk, iv),
           NEW ns2, DOMAIN ns2 = DOMAIN ns, ns2 = [i \in DOMAIN ns |-> ns2[i]],
           \A i \in DOMAIN ns : ns2[i] \in AnyNode /\ Alike(ns2[i], ns[i])
    PROVE  Shape(ns2, r, L, rk, iv) /\ SameMap(ns, r, ns2, r)
<1>1. Arena(ns) /\ Ranked(ns, rk) /\ Tree(ns, r, L) /\ Ranges(ns, r, L, iv)
  BY DEF Shape
<1>2. L \subseteq DOMAIN ns /\ r \in DOMAIN ns
  BY <1>1 DEF Tree
<1>3. LinksKept(ns, ns2)
  BY Zenon DEF LinksKept, Alike
<1>4. Arena(ns2)
  <2>1. ASSUME NEW i \in DOMAIN ns PROVE NodeOk(ns2[i])
    <3>1. NodeOk(ns[i]) /\ ns2[i] \in AnyNode /\ Alike(ns2[i], ns[i])
      BY <1>1 DEF Arena
    <3>2. CASE ns[i].leaf
      <4>1. ns2[i] \in LeafNode
        BY <3>1, <3>2 DEF Alike, AnyNode, InnerNode
      <4> QED BY <4>1 DEF NodeOk
    <3>3. CASE ~ns[i].leaf
      <4>1. ns2[i] \in InnerNode
        BY <3>1, <3>3 DEF Alike, AnyNode, LeafNode
      <4>2. /\ ns2[i].pivots = ns[i].pivots /\ ns2[i].children = ns[i].children
            /\ ns2[i].buffer = ns[i].buffer
        BY <3>1, <3>3 DEF Alike
      <4>3. /\ Sorted(ns[i].pivots)
            /\ \/ Len(ns[i].children) = Len(ns[i].pivots) + 1
               \/ ns[i].children = <<>> /\ ns[i].pivots = <<>> /\ ns[i].buffer = Empty
        BY <3>1, <3>3 DEF NodeOk, LeafNode
      <4> QED BY <4>1, <4>2, <4>3 DEF NodeOk
    <3> QED BY <3>2, <3>3
  <2> QED BY <2>1, <1>1, Zenon DEF Arena
<1>5. Ranked(ns2, rk) /\ Tree(ns2, r, L)
  BY <1>1, <1>3, LinksKeptRanked, LinksKeptTree
<1>6. ASSUME NEW i \in L PROVE DOMAIN HeldBy(ns2[i]) \subseteq iv[i]
  <2>1. HeldBy(ns2[i]) = HeldBy(ns[i])
    BY <1>2 DEF HeldBy, Alike
  <2>2. DOMAIN HeldBy(ns[i]) \subseteq iv[i]
    BY <1>1 DEF Ranges
  <2> QED BY <2>1, <2>2
<1>7. Ranges(ns2, r, L, iv)
  BY <1>1, <1>2, <1>3, <1>6, LinksKeptRanges
<1>8. Shape(ns2, r, L, rk, iv)
  BY <1>4, <1>5, <1>7 DEF Shape
<1>9. ASSUME NEW k \in Nat PROVE Get(ns2, r, k) = Get(ns, r, k)
  <2>1. ASSUME NEW v, NEW v2, Vals(ns, k, v), Vals(ns2, k, v2) PROVE v2[r] = v[r]
    <3>1. ASSUME NEW i \in DOMAIN ns
          PROVE  /\ Alike(ns2[i], ns[i])
                 /\ ~ns[i].leaf /\ ns[i].children # <<>> => Child(ns[i], k) \in DOMAIN ns
      BY <1>1, ChildFacts DEF Routable
    <3>2. DOMAIN ns \subseteq DOMAIN ns /\ DOMAIN ns \subseteq DOMAIN ns2
      OBVIOUS
    <3>3. \A i \in DOMAIN ns : v2[i] = v[i]
      BY <1>1, <2>1, <3>1, <3>2, FrameClosed
    <3> QED BY <3>3, <1>2
  <2>2. \A v, v2 : Vals(ns, k, v) /\ Vals(ns2, k, v2) => v2[r] = v[r]
    BY <2>1
  <2>3. r \in DOMAIN ns2
    BY <1>2
  <2> QED BY <1>1, <1>2, <1>4, <1>5, <2>2, <2>3, SameGet
<1> QED BY <1>8, <1>9 DEF SameMap

-----------------------------------------------------------------------------
(* The root grows                                                          *)

(* A root R with r as its only child.                                      *)
Raised(ns, r, R) ==
    [i \in DOMAIN ns \cup {R} |-> IF i = R THEN Internal(<<>>, <<r>>, Empty) ELSE ns[i]]

(* Without pivots there is one child.                                      *)
LEMMA RouteAlone ==
    ASSUME NEW k \in Nat PROVE route(<<>>, k) = 1
<1>1. <<>> \in Seq(Nat) /\ Len(<<>>) = 0
  OBVIOUS
<1>2. Sorted(<<>>)
  BY <1>1 DEF Sorted
<1>3. route(<<>>, k) \in 1 .. (Len(<<>>) + 1)
  BY <1>1, <1>2, Routed
<1> QED BY <1>1, <1>3

(* The empty map is a map.                                                 *)
LEMMA EmptyMap ==
    ASSUME NEW T PROVE Empty \in Maps(T) /\ DOMAIN Empty = {}
<1>1. /\ Empty = [k \in DOMAIN Empty |-> Empty[k]] /\ DOMAIN Empty = {}
  BY DEF Empty
<1>2. IsFiniteSet({})
  BY FS_EmptySet
<1> HIDE DEF Empty
<1>3. DOMAIN Empty \subseteq Keys /\ IsFiniteSet(DOMAIN Empty) /\ \A k \in DOMAIN Empty : Empty[k] \in T
  BY <1>1, <1>2
<1> QED BY <1>1, <1>3, MapFacts

RaisedAs(ns, r, R, ns2) ==
    /\ DOMAIN ns2 = DOMAIN ns \cup {R}
    /\ \A i \in DOMAIN ns : ns2[i] = ns[i]
    /\ ns2[R] \in InnerNode /\ ~ns2[R].leaf /\ ns2[R].pivots = <<>>
    /\ ns2[R].children = <<r>> /\ ns2[R].buffer = Empty
    /\ Len(ns2[R].children) = 1 /\ Len(ns2[R].pivots) = 0 /\ ns2[R].children[1] = r
    /\ Arena(ns2)

(* The nodes of the arena with the new root.                               *)
LEMMA RaisedNodes ==
    ASSUME NEW ns, Arena(ns), NEW r \in DOMAIN ns, NEW R \in Nat, R \notin DOMAIN ns,
           NEW ns2, ns2 = Raised(ns, r, R)
    PROVE  RaisedAs(ns, r, R, ns2)
<1>1. DOMAIN ns2 = DOMAIN ns \cup {R} /\ ns2 = [i \in DOMAIN ns2 |-> ns2[i]]
  BY DEF Raised
<1>2. \A i \in DOMAIN ns : ns2[i] = ns[i]
  BY DEF Raised
<1>3. ns2[R] = Internal(<<>>, <<r>>, Empty)
  BY DEF Raised
<1>4. /\ ~ns2[R].leaf /\ ns2[R].pivots = <<>> /\ ns2[R].children = <<r>> /\ ns2[R].buffer = Empty
  BY <1>3 DEF Internal
<1>5. r \in Nat /\ <<r>> \in Seq(Nat) /\ <<>> \in Seq(Nat) /\ Len(<<>>) = 0 /\ Len(<<r>>) = 1
      /\ <<r>>[1] = r
  <2>1. r \in Nat
    BY DEF Arena
  <2> QED BY <2>1
<1>6. Empty \in Maps(MessagesOf(Nat))
  BY EmptyMap
<1>7. ns2[R] \in InnerNode
  BY <1>3, <1>5, <1>6 DEF Internal, InnerNode
<1>8. Sorted(<<>>)
  BY <1>5 DEF Sorted
<1>9. NodeOk(ns2[R])
  BY <1>4, <1>5, <1>7, <1>8 DEF NodeOk
<1>10. Arena(ns2)
  <2>1. DOMAIN ns2 \subseteq Nat
    BY <1>1 DEF Arena
  <2>2. \A i \in DOMAIN ns2 : NodeOk(ns2[i])
    BY <1>1, <1>2, <1>9 DEF Arena
  <2> QED BY <1>1, <2>1, <2>2 DEF Arena
<1> QED BY <1>1, <1>2, <1>4, <1>5, <1>7, <1>10 DEF RaisedAs

(* A new root above the old one changes nothing for get.                   *)
RaiseKept(ns, r, L, R, ns2) ==
    /\ \E rk2, iv2 : Shape(ns2, R, L \cup {R}, rk2, iv2)
    /\ SameMap(ns, r, ns2, R)

(* A new root over the old one, its only child, keeps the shape and the    *)
(* map.                                                                    *)
LEMMA RaiseKeeps ==
    ASSUME NEW ns, NEW r, NEW L, NEW rk, NEW iv, Shape(ns, r, L, rk, iv),
           NEW R \in Nat, R \notin DOMAIN ns
    PROVE  RaiseKept(ns, r, L, R, Raised(ns, r, R))
<1> DEFINE ns2 == Raised(ns, r, R)
           L2 == L \cup {R}
           D2 == DOMAIN ns \cup {R}
           rk2 == [i \in D2 |-> IF i = R THEN rk[r] + 1 ELSE rk[i]]
           iv2 == [i \in D2 |-> IF i = R THEN Nat ELSE iv[i]]
<1>1. Arena(ns) /\ Ranked(ns, rk) /\ Tree(ns, r, L) /\ Ranges(ns, r, L, iv)
  BY DEF Shape
<1>2. L \subseteq DOMAIN ns /\ r \in L /\ r \in DOMAIN ns /\ R \notin L /\ r # R
  BY <1>1 DEF Tree
<1>3. /\ DOMAIN ns2 = D2
      /\ \A i \in DOMAIN ns : ns2[i] = ns[i]
      /\ ns2[R] \in InnerNode /\ ~ns2[R].leaf /\ ns2[R].pivots = <<>>
      /\ ns2[R].children = <<r>> /\ ns2[R].buffer = Empty
      /\ Len(ns2[R].children) = 1 /\ Len(ns2[R].pivots) = 0 /\ ns2[R].children[1] = r
      /\ Arena(ns2)
  <2> HIDE DEF ns2
  <2>1. ns2 = Raised(ns, r, R)
    BY DEF ns2
  <2>2. RaisedAs(ns, r, R, ns2)
    BY <2>1, <1>1, <1>2, RaisedNodes
  <2> QED BY <2>2 DEF RaisedAs
<1> HIDE DEF ns2
<1>4. /\ DOMAIN rk2 = D2 /\ rk2[R] = rk[r] + 1 /\ \A i \in DOMAIN ns : rk2[i] = rk[i]
      /\ DOMAIN iv2 = D2 /\ iv2[R] = Nat /\ \A i \in DOMAIN ns : iv2[i] = iv[i]
  OBVIOUS
<1>5. rk \in [DOMAIN ns -> Nat] /\ iv \in [DOMAIN ns -> SUBSET Nat] /\ iv[r] = Nat
  BY <1>1 DEF Ranked, Ranges
<1>6. rk2 \in [D2 -> Nat] /\ iv2 \in [D2 -> SUBSET Nat]
  BY <1>2, <1>5
<1> HIDE DEF rk2, iv2
<1>7. Ranked(ns2, rk2)
  <2>1. PICK H \in Nat : \A i \in DOMAIN ns : rk[i] <= H
    BY <1>1 DEF Ranked
  <2>2. H + 1 \in Nat /\ \A i \in D2 : rk2[i] <= H + 1
    <3>1. ASSUME NEW i \in D2 PROVE rk2[i] <= H + 1
      <4>1. CASE i = R
        <5>1. rk[r] <= H /\ rk[r] \in Nat
          BY <1>2, <1>5, <2>1
        <5> QED BY <4>1, <5>1, <1>4, <2>1
      <4>2. CASE i # R
        <5>1. rk[i] <= H /\ rk[i] \in Nat /\ rk2[i] = rk[i]
          BY <4>2, <1>4, <1>5, <2>1
        <5> QED BY <5>1, <2>1
      <4> QED BY <4>1, <4>2
    <3> QED BY <3>1, <2>1
  <2>3. ASSUME NEW i \in D2
        PROVE  /\ ns2[i].leaf <=> rk2[i] = 0
               /\ ~ns2[i].leaf => \A j \in 1 .. Len(ns2[i].children) :
                                    /\ ns2[i].children[j] \in D2
                                    /\ rk2[i] = rk2[ns2[i].children[j]] + 1
    <3>1. CASE i = R
      <4>1. rk2[R] # 0 /\ rk2[R] = rk2[r] + 1
        BY <1>2, <1>4, <1>5
      <4>2. \A j \in 1 .. Len(ns2[R].children) : ns2[R].children[j] = r
        BY <1>3
      <4> QED BY <3>1, <4>1, <4>2, <1>2, <1>3
    <3>2. CASE i # R
      <4>1. i \in DOMAIN ns /\ ns2[i] = ns[i] /\ rk2[i] = rk[i]
        BY <3>2, <1>3, <1>4
      <4>2. /\ ns[i].leaf <=> rk[i] = 0
            /\ ~ns[i].leaf => \A j \in 1 .. Len(ns[i].children) :
                                /\ ns[i].children[j] \in DOMAIN ns
                                /\ rk[i] = rk[ns[i].children[j]] + 1
        BY <4>1, <1>1 DEF Ranked
      <4> QED BY <4>1, <4>2, <1>4
    <3> QED BY <3>1, <3>2
  <2>4. \E H2 \in Nat : \A i \in DOMAIN ns2 : rk2[i] <= H2
    BY <2>2, <1>3
  <2> QED BY <2>3, <2>4, <1>3, <1>6 DEF Ranked
<1>8. Tree(ns2, R, L2)
  <2>1. ASSUME NEW i \in L2, ~ns2[i].leaf, NEW j \in 1 .. Len(ns2[i].children)
        PROVE  ns2[i].children[j] \in L /\ (i # R => ns2[i].children[j] # r)
    <3>1. CASE i = R
      <4>1. j = 1
        BY <3>1, <2>1, <1>3
      <4> QED BY <3>1, <4>1, <1>2, <1>3
    <3>2. CASE i # R
      <4>1. i \in L /\ ns2[i] = ns[i]
        BY <3>2, <1>2, <1>3
      <4> QED BY <4>1, <2>1, <1>1 DEF Tree
    <3> QED BY <3>1, <3>2
  <2>2. ASSUME NEW i \in L2, ~ns2[i].leaf, NEW j \in 1 .. Len(ns2[i].children),
               NEW x \in L2, ~ns2[x].leaf, NEW y \in 1 .. Len(ns2[x].children),
               ns2[x].children[y] = ns2[i].children[j]
        PROVE  x = i /\ y = j
    <3>1. CASE i = R /\ x = R
      <4>1. j = 1 /\ y = 1
        BY <3>1, <2>2, <1>3
      <4> QED BY <3>1, <4>1
    <3>2. CASE i = R /\ x # R
      <4>1. ns2[i].children[j] = r
        <5>1. j = 1
          BY <3>2, <2>2, <1>3
        <5> QED BY <3>2, <5>1, <1>3
      <4> QED BY <3>2, <4>1, <2>1, <2>2
    <3>3. CASE i # R /\ x = R
      <4>1. ns2[x].children[y] = r
        <5>1. y = 1
          BY <3>3, <2>2, <1>3
        <5> QED BY <3>3, <5>1, <1>3
      <4> QED BY <3>3, <4>1, <2>1, <2>2
    <3>4. CASE i # R /\ x # R
      <4>1. i \in L /\ x \in L /\ ns2[i] = ns[i] /\ ns2[x] = ns[x]
        BY <3>4, <1>2, <1>3
      <4>2. /\ ~ns[i].leaf /\ j \in 1 .. Len(ns[i].children)
            /\ ~ns[x].leaf /\ y \in 1 .. Len(ns[x].children)
            /\ ns[x].children[y] = ns[i].children[j]
        BY <4>1, <2>2
      <4> QED BY <4>1, <4>2, <1>1, Zenon DEF Tree
    <3> QED BY <3>1, <3>2, <3>3, <3>4
  <2>3. L2 \subseteq DOMAIN ns2 /\ R \in L2
    BY <1>2, <1>3
  <2>4. \A i \in L2 : ~ns2[i].leaf => \A j \in 1 .. Len(ns2[i].children) :
           ns2[i].children[j] \in L2 /\ ns2[i].children[j] # R
    BY <2>1, <1>2
  <2> HIDE DEF L2
  <2> QED BY <2>2, <2>3, <2>4, Zenon DEF Tree
<1>9. Ranges(ns2, R, L2, iv2)
  <2>1. ASSUME NEW i \in L2
        PROVE  /\ DOMAIN HeldBy(ns2[i]) \subseteq iv2[i]
               /\ ~ns2[i].leaf =>
                    /\ \A p \in 1 .. Len(ns2[i].pivots) :
                          ns2[i].pivots[p] \in iv2[i] /\ \E x \in iv2[i] : x < ns2[i].pivots[p]
                    /\ \A j \in 1 .. Len(ns2[i].children) :
                          \A k \in iv2[ns2[i].children[j]] :
                             k \in iv2[i] /\ route(ns2[i].pivots, k) = j
    <3>1. CASE i = R
      <4>1. DOMAIN HeldBy(ns2[R]) = {}
        BY <1>3, EmptyMap DEF HeldBy
      <4>2. ASSUME NEW j \in 1 .. Len(ns2[R].children), NEW k \in iv2[ns2[R].children[j]]
            PROVE  k \in iv2[R] /\ route(ns2[R].pivots, k) = j
        <5>1. j = 1
          BY <1>3
        <5>2. k \in Nat
          BY <5>1, <1>2, <1>3, <1>4, <1>5
        <5>3. route(<<>>, k) = 1
          BY <5>2, RouteAlone
        <5> QED BY <5>1, <5>2, <5>3, <1>3, <1>4
      <4>3. \A p \in 1 .. Len(ns2[R].pivots) : FALSE
        BY <1>3
      <4> QED BY <3>1, <4>1, <4>2, <4>3
    <3>2. CASE i # R
      <4>1. i \in L /\ ns2[i] = ns[i] /\ iv2[i] = iv[i]
        BY <3>2, <1>2, <1>3, <1>4
      <4>2. /\ DOMAIN HeldBy(ns[i]) \subseteq iv[i]
            /\ ~ns[i].leaf =>
                  /\ \A p \in 1 .. Len(ns[i].pivots) :
                        ns[i].pivots[p] \in iv[i] /\ \E x \in iv[i] : x < ns[i].pivots[p]
                  /\ \A j \in 1 .. Len(ns[i].children) :
                        \A k \in iv[ns[i].children[j]] :
                           k \in iv[i] /\ route(ns[i].pivots, k) = j
        BY <4>1, <1>1, Zenon DEF Ranges
      <4>3. ~ns[i].leaf => \A j \in 1 .. Len(ns[i].children) :
                              iv2[ns[i].children[j]] = iv[ns[i].children[j]]
        <5>1. ~ns[i].leaf => \A j \in 1 .. Len(ns[i].children) : ns[i].children[j] \in L
          BY <4>1, <1>1, Zenon DEF Tree
        <5> QED BY <5>1, <1>2, <1>4
      <4> QED BY <4>1, <4>2, <4>3
    <3> QED BY <3>1, <3>2
  <2>2. iv2 \in [DOMAIN ns2 -> SUBSET Nat] /\ iv2[R] = Nat
    BY <1>3, <1>4, <1>6
  <2> HIDE DEF L2
  <2> QED BY <2>1, <2>2, Zenon DEF Ranges
<1>10. Shape(ns2, R, L2, rk2, iv2)
  BY <1>3, <1>7, <1>8, <1>9 DEF Shape
<1>11. ASSUME NEW k \in Nat PROVE Get(ns2, R, k) = Get(ns, r, k)
  <2>1. ASSUME NEW v, NEW v2, Vals(ns, k, v), Vals(ns2, k, v2) PROVE v2[R] = v[r]
    <3>1. \A i \in L : v2[i] = v[i]
      <4>1. ASSUME NEW i \in L
            PROVE  /\ Alike(ns2[i], ns[i])
                   /\ ~ns[i].leaf /\ ns[i].children # <<>> => Child(ns[i], k) \in L
        <5>1. ns2[i] = ns[i]
          BY <1>2, <1>3
        <5> QED BY <5>1, ChildLive DEF Alike
      <4>2. L \subseteq DOMAIN ns /\ L \subseteq DOMAIN ns2
        BY <1>2, <1>3
      <4> QED BY <1>1, <2>1, <4>1, <4>2, FrameClosed
    <3>2. v2[R] = ValueAt(ns2[R], k, v2)
      BY <2>1, <1>3 DEF Vals
    <3>3. k \notin DOMAIN ns2[R].buffer
      BY <1>3, EmptyMap
    <3>4. ns2[R].children # <<>> /\ Child(ns2[R], k) = r
      <4>1. route(ns2[R].pivots, k) = 1
        BY <1>3, RouteAlone
      <4>2. <<r>> # <<>>
        OBVIOUS
      <4> QED BY <4>1, <4>2, <1>3 DEF Child
    <3>5. ValueAt(ns2[R], k, v2) = v2[r]
      BY <3>3, <3>4, <1>3 DEF ValueAt, Below
    <3> QED BY <3>1, <3>2, <3>5, <1>2
  <2>2. \A v, v2 : Vals(ns, k, v) /\ Vals(ns2, k, v2) => v2[R] = v[r]
    BY <2>1
  <2>3. R \in DOMAIN ns2
    BY <1>3
  <2> QED BY <1>1, <1>2, <1>3, <1>7, <2>2, <2>3, SameGet
<1> QED BY <1>10, <1>11, Zenon DEF RaiseKept, SameMap, ns2

(* The root that the code puts above the pieces of the old one.            *)
RootOver(r, promoted) ==
    Internal([j \in DOMAIN promoted |-> promoted[j][1]],
             <<r>> \o [j \in DOMAIN promoted |-> promoted[j][2]], Empty)

Grown(ns, r) ==
    LET split == split_if_needed(ns, r)
    IN Append(split.nodes, RootOver(r, split.promoted))

(* The ids that a growing tree takes for the pieces of its old root.       *)
PieceIds(ns, ns2, R) == DOMAIN ns2 \ (DOMAIN ns \cup {R})

GrowNodes(ns, r, ns2, R) ==
    /\ R \notin DOMAIN ns /\ DOMAIN ns \cup {R} \subseteq DOMAIN ns2
    /\ \A i \in DOMAIN ns \ {r} : ns2[i] = ns[i]
    /\ ~ns2[R].leaf /\ ns2[R].buffer = Empty
    /\ Children(ns2[R]) \subseteq {r} \cup PieceIds(ns, ns2, R)
    /\ \A i \in {r} \cup PieceIds(ns, ns2, R) : PieceOf(ns[r], ns2[i])

GrowKept(ns, r, L, ns2, R) ==
    /\ \E L2, rk2, iv2 : /\ Shape(ns2, R, L2, rk2, iv2)
                         /\ \A i \in L2 : Barren(ns2[i]) => i \in L /\ Barren(ns[i])
    /\ ns2 \in Seq(AnyNode)
    /\ SameMap(ns, r, ns2, R)
    /\ GrowNodes(ns, r, ns2, R)

RootLike(n, r, Q, M, sep) ==
    /\ n \in InnerNode /\ n.buffer = Empty /\ Len(n.children) = M /\ Len(n.pivots) = M - 1
    /\ \A y \in 1 .. M : n.children[y] = IF y <= 1 THEN r ELSE Q + (y - 1)
    /\ \A x \in 1 .. (M - 1) : n.pivots[x] = sep[x]

(* It is the node that promoting the pieces one by one would make.         *)
LEMMA RootOverIs ==
    ASSUME NEW n, NEW r \in Nat, NEW Q \in Nat, NEW M \in Nat, M >= 2, NEW sep,
           RootLike(n, r, Q, M, sep),
           NEW promoted, DOMAIN promoted = 1 .. (M - 1),
           \A t \in 1 .. (M - 1) : promoted[t] = <<sep[t], Q + t>>
    PROVE  /\ RootOver(r, promoted) \in InnerNode /\ Alike(RootOver(r, promoted), n)
           /\ ~Barren(RootOver(r, promoted))
<1> DEFINE p == [j \in DOMAIN promoted |-> promoted[j][1]]
           q == [j \in DOMAIN promoted |-> promoted[j][2]]
           c == <<r>> \o q
<1>0. /\ n \in InnerNode /\ n.buffer = Empty /\ Len(n.children) = M /\ Len(n.pivots) = M - 1
      /\ \A y \in 1 .. M : n.children[y] = IF y <= 1 THEN r ELSE Q + (y - 1)
      /\ \A x \in 1 .. (M - 1) : n.pivots[x] = sep[x]
  BY DEF RootLike
<1>1. /\ n.pivots \in Seq(Nat) /\ n.children \in Seq(Nat) /\ n.buffer \in Maps(MessagesOf(Nat))
      /\ ~n.leaf
  BY <1>0 DEF InnerNode
<1>2. p = n.pivots
  <2>1. DOMAIN p = 1 .. (M - 1) /\ \A t \in 1 .. (M - 1) : p[t] = sep[t]
    OBVIOUS
  <2>2. p = [t \in 1 .. (M - 1) |-> p[t]]
    OBVIOUS
  <2>3. n.pivots = [t \in 1 .. (M - 1) |-> n.pivots[t]]
    <3> DEFINE o == n.pivots
    <3>1. o \in Seq(Nat) /\ Len(o) = M - 1
      BY <1>0, <1>1
    <3> HIDE DEF o
    <3>2. o = [t \in 1 .. (M - 1) |-> o[t]]
      BY <3>1
    <3> QED BY <3>2 DEF o
  <2>4. \A t \in 1 .. (M - 1) : p[t] = n.pivots[t]
    <3> HIDE DEF p
    <3> QED BY <2>1, <1>0
  <2> HIDE DEF p
  <2> QED BY <2>2, <2>3, <2>4, Zenon
<1>3. q \in Seq(Nat) /\ Len(q) = M - 1 /\ \A t \in 1 .. (M - 1) : q[t] = Q + t
  <2>1. q = [t \in 1 .. (M - 1) |-> Q + t]
    OBVIOUS
  <2>2. q \in [1 .. (M - 1) -> Nat] /\ M - 1 \in Nat
    BY <2>1
  <2>3. \A t \in 1 .. (M - 1) : q[t] = Q + t
    BY <2>1
  <2> HIDE DEF q
  <2> QED BY <2>2, <2>3, SMTT(30)
<1>4. c \in Seq(Nat) /\ Len(c) = M /\ \A y \in 1 .. M : c[y] = IF y <= 1 THEN r ELSE Q + (y - 1)
  <2> HIDE DEF q
  <2>1. c \in Seq(Nat) /\ Len(c) = M
    BY <1>3
  <2>2. c[1] = r
    BY <1>3
  <2>3. ASSUME NEW y \in 1 .. M, ~(y <= 1) PROVE c[y] = Q + (y - 1)
    <3>1. y - 1 \in 1 .. (M - 1) /\ 1 + (y - 1) = y
      BY <2>3
    <3>2. c[1 + (y - 1)] = q[y - 1]
      BY <1>3, <3>1
    <3> QED BY <3>1, <3>2, <1>3
  <2>4. ASSUME NEW y \in 1 .. M, y <= 1 PROVE y = 1
    BY <2>4
  <2> QED BY <2>1, <2>2, <2>3, <2>4
<1>5. c = n.children
  <2>1. n.children = [y \in 1 .. M |-> n.children[y]]
    BY <1>0, <1>1
  <2>2. c = [y \in 1 .. M |-> c[y]]
    <3> HIDE DEF c
    <3> QED BY <1>4
  <2>3. \A y \in 1 .. M : c[y] = n.children[y]
    <3> HIDE DEF c
    <3> QED BY <1>0, <1>4
  <2> HIDE DEF c
  <2> QED BY <2>1, <2>2, <2>3
<1>6. RootOver(r, promoted) = Internal(n.pivots, n.children, n.buffer)
  BY <1>0, <1>2, <1>5 DEF RootOver
<1>7. Internal(n.pivots, n.children, n.buffer) \in InnerNode
  BY <1>1 DEF Internal, InnerNode
<1>8. Alike(Internal(n.pivots, n.children, n.buffer), n)
  BY <1>1 DEF Internal, Alike
<1>9. n.children # <<>>
  <2>1. Len(<<>>) = 0
    OBVIOUS
  <2> QED BY <2>1, <1>0
<1>10. ~Barren(Internal(n.pivots, n.children, n.buffer))
  BY <1>9 DEF Barren, Internal
<1> QED BY <1>6, <1>7, <1>8, <1>10

(* A root that is split and put below a new one keeps shape and map.       *)
THEOREM GrowKeeps ==
    ASSUME NEW ns \in Seq(AnyNode), NEW r, NEW L, NEW rk, NEW iv, Shape(ns, r, L, rk, iv),
           split_if_needed(ns, r).promoted # <<>>
    PROVE  GrowKept(ns, r, L, Grown(ns, r), Len(split_if_needed(ns, r).nodes) + 1)
<1> DEFINE Q == Len(ns)
<1>0. Q \in Nat /\ DOMAIN ns = 1 .. Q
  OBVIOUS
<1> HIDE DEF Q
<1>1. Overfull(ns[r])
  BY DEF split_if_needed
<1>2. Arena(ns) /\ r \in L /\ r \in 1 .. Q /\ NodeOk(ns[r]) /\ L \subseteq 1 .. Q /\ r \in Nat
  <2>1. L \subseteq DOMAIN ns /\ r \in L /\ Arena(ns)
    BY DEF Shape, Tree
  <2>2. \A i \in DOMAIN ns : NodeOk(ns[i])
    BY <2>1 DEF Arena
  <2> QED BY <1>0, <2>1, <2>2
<1>3. PICK M, rest, piece, sep, cut : CutInto(ns, r, M, rest, piece, sep, cut)
  BY <1>1, <1>2, SplitIs
<1>4. /\ Cuts(ns[r], M, rest, piece, sep, cut) /\ piece \in Seq(AnyNode) /\ Len(piece) = M
      /\ DOMAIN sep = 1 .. (M - 1) /\ split_if_needed(ns, r) = Split(ns, r, piece, sep)
  BY <1>3 DEF CutInto
<1>5. /\ M \in Nat /\ M >= 2
      /\ \A t \in 1 .. M : NodeOk(piece[t]) /\ ~Barren(piece[t])
  BY <1>2, <1>4, CutPieces
<1> DEFINE mid == split_if_needed(ns, r).nodes
           promoted == split_if_needed(ns, r).promoted
<1>6. /\ mid \in Seq(AnyNode) /\ Len(mid) = Q + (M - 1)
      /\ mid[r] = piece[1]
      /\ \A i \in 1 .. Q : i # r => mid[i] = ns[i]
      /\ \A t \in 1 .. (M - 1) : mid[Q + t] = piece[t + 1]
      /\ Len(promoted) = M - 1
      /\ \A t \in 1 .. (M - 1) : promoted[t] = <<sep[t], Q + t>>
  <2>1. r \in 1 .. Len(ns)
    BY <1>2 DEF Q
  <2>2. SplitPlaces(ns, r, M, piece, sep, Split(ns, r, piece, sep))
    BY <2>1, <1>4, <1>5, SplitNodes
  <2> QED BY <1>4, <2>2, Zenon DEF SplitPlaces, Q
<1>7. DOMAIN promoted = 1 .. (M - 1)
  BY <1>4 DEF Split
<1> DEFINE R == Q + M
           ns1 == Raised(ns, r, R)
           L1 == L \cup {R}
<1>8. R \in Nat /\ R \notin DOMAIN ns /\ Len(mid) + 1 = R /\ R = (Q + (M - 1)) + 1
  BY <1>0, <1>5, <1>6
<1>9. Grown(ns, r) = Append(mid, RootOver(r, promoted))
  BY DEF Grown
<1> HIDE DEF mid, promoted, R
<1>10. PICK rk1, iv1 : Shape(ns1, R, L1, rk1, iv1)
  BY <1>8, RaiseKeeps DEF RaiseKept
<1>11. SameMap(ns, r, ns1, R)
  BY <1>8, RaiseKeeps DEF RaiseKept
<1>12. /\ DOMAIN ns1 = DOMAIN ns \cup {R} /\ \A i \in DOMAIN ns : ns1[i] = ns[i]
       /\ ns1[R] \in InnerNode /\ ~ns1[R].leaf /\ ns1[R].buffer = Empty
       /\ Len(ns1[R].children) = 1 /\ Len(ns1[R].pivots) = 0 /\ ns1[R].children[1] = r
  <2>1. r \in DOMAIN ns /\ ns1 = Raised(ns, r, R)
    BY <1>0, <1>2
  <2> HIDE DEF ns1
  <2>2. RaisedAs(ns, r, R, ns1)
    BY <2>1, <1>2, <1>8, RaisedNodes
  <2> QED BY <2>2 DEF RaisedAs
<1> HIDE DEF ns1, L1
<1>13. PICK merged : MergedAs(ns1, R, promoted, Len(promoted), merged)
  <2> DEFINE N == Len(promoted)
  <2>1. N \in Nat /\ Len(promoted) = N
    BY <1>5, <1>6
  <2> HIDE DEF N
  <2>2. PICK f : MergedAs(ns1, R, promoted, N, f)
    BY <2>1, MergeLoop, Zenon
  <2> QED BY <2>1, <2>2, Zenon
<1>14. /\ merged[0] = ns1[R]
       /\ \A t \in 1 .. (M - 1) : merged[t] = Promote(merged[t - 1], <<sep[t], Q + t>>)
  BY <1>6, <1>13 DEF MergedAs
<1>15. CutContext(ns1, R, L1, rk1, iv1, R, 1, Q, M, rest, piece, sep, cut, merged)
  <2>1. \A t \in 1 .. (M - 1) : Q + t \notin DOMAIN ns1
    BY <1>0, <1>5, <1>8, <1>12
  <2>2. R \in L1 /\ 1 \in 1 .. Len(ns1[R].children)
    BY <1>12 DEF L1
  <2>3. Cuts(ns1[ns1[R].children[1]], M, rest, piece, sep, cut)
    BY <1>0, <1>2, <1>4, <1>12
  <2> QED BY <1>0, <1>10, <1>12, <1>14, <2>1, <2>2, <2>3 DEF CutContext
<1> DEFINE A == CutArena(ns1, R, r, Q, rest, piece, merged, M - 1)
           L2 == L1 \cup ((Q + 1) .. (Q + (M - 1)))
<1>16. CutKept(ns1, R, L1, R, 1, Q, sep, M - 1, A)
  <2>1. CutKept(ns1, R, L1, R, 1, Q, sep, M - 1,
                CutArena(ns1, R, ns1[R].children[1], Q, rest, piece, merged, M - 1))
    BY <1>15, CutsKeep
  <2> QED BY <2>1, <1>12
<1>17. PICK rk2, iv2 : Shape(A, R, L2, rk2, iv2)
  BY <1>16 DEF CutKept
<1>18. SameMap(ns1, R, A, R) /\ CutParent(ns1[R], A[R], 1, Q, sep, M - 1)
  BY <1>16 DEF CutKept
<1>19. DOMAIN ns1 \cup ((Q + 1) .. (Q + (M - 1))) = 1 .. R
  BY <1>0, <1>5, <1>8, <1>12
<1>20. /\ DOMAIN A = 1 .. R /\ A = [i \in 1 .. R |-> A[i]]
       /\ \A i \in 1 .. R :
             A[i] = IF i = R THEN merged[M - 1]
                    ELSE IF i = CutId(r, Q, M - 1) THEN rest[(M - 1) + 1]
                    ELSE IF i = r THEN piece[1]
                    ELSE IF i \in (Q + 1) .. (Q + (M - 1)) THEN piece[(i - Q) + 1]
                    ELSE ns1[i]
  BY <1>19, Zenon DEF CutArena
<1>21. CutId(r, Q, M - 1) = Q + (M - 1) /\ rest[(M - 1) + 1] = piece[M] /\ (M - 1) + 1 = M
  <2>1. M - 1 # 0 /\ (M - 1) + 1 = M
    BY <1>5
  <2>2. rest[M] = piece[M]
    BY <1>4 DEF Cuts
  <2> QED BY <2>1, <2>2 DEF CutId
<1> HIDE DEF A
<1>22. ASSUME NEW i \in 1 .. (Q + (M - 1)) PROVE mid[i] = A[i]
  <2>0. i \in 1 .. R /\ i # R
    BY <1>0, <1>5, <1>8
  <2>2. CASE i = Q + (M - 1)
    <3>1. A[i] = piece[M]
      BY <2>0, <2>2, <1>20, <1>21
    <3>2. M - 1 \in 1 .. (M - 1)
      BY <1>5
    <3>3. mid[i] = piece[(M - 1) + 1]
      BY <2>2, <3>2, <1>6
    <3> QED BY <3>1, <3>3, <1>21
  <2>3. CASE i # Q + (M - 1) /\ i = r
    <3>1. A[i] = piece[1]
      BY <2>0, <2>3, <1>20, <1>21
    <3> QED BY <2>3, <3>1, <1>6
  <2>4. CASE i # Q + (M - 1) /\ i # r /\ i \in 1 .. Q
    <3>1. ~(i \in (Q + 1) .. (Q + (M - 1)))
      BY <2>4, <1>0, <1>5
    <3>2. A[i] = ns1[i]
      BY <2>0, <2>4, <3>1, <1>20, <1>21
    <3> QED BY <2>4, <3>2, <1>0, <1>6, <1>12
  <2>5. CASE i # Q + (M - 1) /\ i # r /\ ~(i \in 1 .. Q)
    <3>1. i \in (Q + 1) .. (Q + (M - 1)) /\ i - Q \in 1 .. (M - 1) /\ Q + (i - Q) = i
      BY <2>5, <1>0, <1>5
    <3>2. A[i] = piece[(i - Q) + 1]
      BY <2>0, <2>5, <3>1, <1>20, <1>21
    <3>3. mid[Q + (i - Q)] = piece[(i - Q) + 1]
      BY <3>1, <1>6
    <3> QED BY <3>1, <3>2, <3>3
  <2> QED BY <2>2, <2>3, <2>4, <2>5
<1>23. /\ RootOver(r, promoted) \in InnerNode /\ Alike(RootOver(r, promoted), A[R])
       /\ ~Barren(RootOver(r, promoted))
  <2>1. A[R] \in InnerNode
    <3>1. NodeOk(A[R]) /\ ~A[R].leaf
      <4>1. R \in DOMAIN A
        BY <1>8, <1>20, <1>0, <1>5
      <4> QED BY <4>1, <1>17, <1>18 DEF Shape, Arena, CutParent
    <3> QED BY <3>1 DEF NodeOk, LeafNode
  <2>2. /\ A[R].buffer = Empty /\ Len(A[R].children) = 1 + (M - 1)
        /\ \A y \in 1 .. (1 + (M - 1)) :
              A[R].children[y] = IF y <= 1 THEN ns1[R].children[y]
                                 ELSE IF y <= 1 + (M - 1) THEN Q + (y - 1)
                                 ELSE ns1[R].children[y - (M - 1)]
        /\ Len(A[R].pivots) = 0 + (M - 1)
        /\ \A x \in 1 .. (0 + (M - 1)) :
              A[R].pivots[x] = IF x < 1 THEN ns1[R].pivots[x]
                               ELSE IF x < 1 + (M - 1) THEN sep[(x - 1) + 1]
                               ELSE ns1[R].pivots[x - (M - 1)]
    BY <1>12, <1>18 DEF CutParent
  <2>3. Len(A[R].children) = M /\ Len(A[R].pivots) = M - 1
    BY <2>2, <1>5
  <2>4. ASSUME NEW y \in 1 .. M PROVE A[R].children[y] = IF y <= 1 THEN r ELSE Q + (y - 1)
    <3>1. y \in 1 .. (1 + (M - 1)) /\ y <= 1 + (M - 1) /\ (y <= 1 => y = 1)
      BY <1>5
    <3> QED BY <3>1, <2>2, <1>12
  <2>5. ASSUME NEW x \in 1 .. (M - 1) PROVE A[R].pivots[x] = sep[x]
    <3>1. x \in 1 .. (0 + (M - 1)) /\ ~(x < 1) /\ x < 1 + (M - 1) /\ (x - 1) + 1 = x
      BY <1>5
    <3> QED BY <3>1, <2>2
  <2> DEFINE n == A[R]
  <2>6. RootLike(n, r, Q, M, sep)
    BY <2>1, <2>2, <2>3, <2>4, <2>5 DEF RootLike
  <2> HIDE DEF n
  <2>7. \A t \in 1 .. (M - 1) : promoted[t] = <<sep[t], Q + t>>
    BY <1>6
  <2>8. /\ RootOver(r, promoted) \in InnerNode /\ Alike(RootOver(r, promoted), n)
        /\ ~Barren(RootOver(r, promoted))
    BY <1>0, <1>2, <1>5, <1>7, <2>6, <2>7, RootOverIs
  <2> QED BY <2>8 DEF n
<1> DEFINE out == Append(mid, RootOver(r, promoted))
<1>24. /\ out \in Seq(AnyNode) /\ DOMAIN out = 1 .. R /\ out[R] = RootOver(r, promoted)
       /\ \A i \in 1 .. (Q + (M - 1)) : out[i] = mid[i]
       /\ out = [i \in 1 .. R |-> out[i]]
  <2> DEFINE e == RootOver(r, promoted)
  <2>1. e \in AnyNode
    BY <1>23 DEF AnyNode
  <2> HIDE DEF e
  <2>2. /\ Append(mid, e) \in Seq(AnyNode) /\ Len(Append(mid, e)) = Len(mid) + 1
        /\ \A i \in 1 .. Len(mid) : Append(mid, e)[i] = mid[i]
        /\ Append(mid, e)[Len(mid) + 1] = e
    BY <2>1, <1>6
  <2>3. /\ DOMAIN Append(mid, e) = 1 .. Len(Append(mid, e))
        /\ Append(mid, e) = [i \in 1 .. Len(Append(mid, e)) |-> Append(mid, e)[i]]
    <3> DEFINE o == Append(mid, e)
    <3>1. o \in Seq(AnyNode)
      BY <2>2
    <3> HIDE DEF o
    <3>2. DOMAIN o = 1 .. Len(o) /\ o = [i \in 1 .. Len(o) |-> o[i]]
      BY <3>1
    <3> QED BY <3>2 DEF o
  <2> QED BY <2>2, <2>3, <1>6, <1>8 DEF e
<1> HIDE DEF out
<1>25. ASSUME NEW i \in DOMAIN A PROVE out[i] \in AnyNode /\ Alike(out[i], A[i])
  <2>1. i \in 1 .. R
    BY <1>20
  <2>2. CASE i = R
    BY <2>2, <1>23, <1>24 DEF AnyNode
  <2>3. CASE i # R
    <3>1. i \in 1 .. (Q + (M - 1))
      BY <2>1, <2>3, <1>0, <1>5, <1>8
    <3>2. out[i] = A[i]
      BY <3>1, <1>22, <1>24
    <3>3. NodeOk(A[i])
      BY <1>17 DEF Shape, Arena
    <3> QED BY <3>2, <3>3 DEF NodeOk, AnyNode, Alike
  <2> QED BY <2>2, <2>3
<1>26. Shape(out, R, L2, rk2, iv2) /\ SameMap(A, R, out, R)
  <2>1. DOMAIN out = DOMAIN A /\ out = [i \in DOMAIN A |-> out[i]]
    BY <1>20, <1>24
  <2> QED BY <2>1, <1>17, <1>25, AlikeKeeps
<1>27. SameMap(ns, r, out, R)
  BY <1>11, <1>18, <1>26 DEF SameMap
<1>28. ASSUME NEW i \in L2, Barren(out[i]) PROVE i \in L /\ Barren(ns[i])
  <2>1. i # R
    BY <1>23, <1>24, <1>28
  <2>2. i \in 1 .. (Q + (M - 1))
    BY <2>1, <1>0, <1>2, <1>5 DEF L1
  <2>3. out[i] = mid[i]
    BY <2>2, <1>24
  <2>4. CASE i = r
    <3>1. mid[i] = piece[1] /\ 1 \in 1 .. M
      BY <2>4, <1>5, <1>6
    <3> QED BY <3>1, <2>3, <1>5, <1>28
  <2>5. CASE i # r /\ i \in 1 .. Q
    <3>1. mid[i] = ns[i]
      BY <2>5, <1>6
    <3>2. i \in L
      BY <2>1, <2>5, <1>0, <1>5 DEF L1
    <3> QED BY <3>1, <3>2, <2>3, <1>28
  <2>6. CASE ~(i \in 1 .. Q)
    <3>1. i - Q \in 1 .. (M - 1) /\ Q + (i - Q) = i /\ (i - Q) + 1 \in 1 .. M
      BY <2>2, <2>6, <1>0, <1>5
    <3>2. mid[Q + (i - Q)] = piece[(i - Q) + 1]
      BY <3>1, <1>6
    <3> QED BY <3>1, <3>2, <2>3, <1>5, <1>28
  <2> QED BY <2>4, <2>5, <2>6
<1>29. \E L3, rk3, iv3 : /\ Shape(out, R, L3, rk3, iv3)
                         /\ \A i \in L3 : Barren(out[i]) => i \in L /\ Barren(ns[i])
  <2>1. \A i \in L2 : Barren(out[i]) => i \in L /\ Barren(ns[i])
    BY <1>28
  <2> HIDE DEF L2
  <2> QED BY <2>1, <1>26, Zenon
<1>32. PieceIds(ns, out, R) = (1 .. (Q + (M - 1))) \ (1 .. Q)
  <2>1. DOMAIN out = 1 .. R /\ R = (Q + (M - 1)) + 1 /\ Q + (M - 1) \in Nat /\ R \notin 1 .. Q
    BY <1>0, <1>5, <1>8, <1>24
  <2>2. (1 .. R) \ ((1 .. Q) \cup {R}) = (1 .. (Q + (M - 1))) \ (1 .. Q)
    BY <2>1, <1>0
  <2> QED BY <2>1, <2>2, <1>0 DEF PieceIds
<1>33. \A t \in 1 .. M : PieceOf(ns[r], piece[t])
  BY <1>3 DEF CutInto
<1>34. ASSUME NEW i \in {r} \cup PieceIds(ns, out, R) PROVE PieceOf(ns[r], out[i])
  <2>1. CASE i = r
    <3>1. r \in 1 .. (Q + (M - 1)) /\ 1 \in 1 .. M
      BY <1>0, <1>2, <1>5
    <3>2. out[i] = piece[1]
      BY <2>1, <3>1, <1>6, <1>24
    <3> QED BY <3>1, <3>2, <1>33
  <2>2. CASE i # r
    <3>0. i \in (1 .. (Q + (M - 1))) \ (1 .. Q)
      BY <2>2, <1>32
    <3>1. /\ i - Q \in 1 .. (M - 1) /\ Q + (i - Q) = i /\ i \in 1 .. (Q + (M - 1))
          /\ (i - Q) + 1 \in 1 .. M
      BY <3>0, <1>0, <1>5
    <3>2. mid[Q + (i - Q)] = piece[(i - Q) + 1]
      BY <3>1, <1>6
    <3>3. out[i] = piece[(i - Q) + 1]
      BY <3>1, <3>2, <1>24
    <3> QED BY <3>1, <3>3, <1>33
  <2> QED BY <2>1, <2>2
<1>35. /\ ~out[R].leaf /\ out[R].buffer = Empty
       /\ Children(out[R]) \subseteq {r} \cup PieceIds(ns, out, R)
  <2> DEFINE q == [x \in DOMAIN promoted |-> promoted[x][2]]
             s == <<r>>
  <2>1. /\ out[R].leaf = FALSE /\ out[R].buffer = Empty /\ out[R].children = s \o q
    BY <1>24 DEF RootOver, Internal
  <2>2. q = [x \in 1 .. (M - 1) |-> Q + x]
    BY <1>6, <1>7
  <2>3. q \in Seq(Nat) /\ Len(q) = M - 1 /\ \A x \in 1 .. (M - 1) : q[x] = Q + x
    <3>1. M - 1 \in Nat /\ \A x \in 1 .. (M - 1) : Q + x \in Nat
      BY <1>0, <1>5
    <3>2. q \in [1 .. (M - 1) -> Nat]
      BY <2>2, <3>1
    <3> QED BY <2>2, <3>1, <3>2, SMTT(30)
  <2>4. s \in Seq(Nat) /\ Len(s) = 1 /\ s[1] = r
    BY <1>2
  <2> HIDE DEF q, s
  <2>5. /\ s \o q \in Seq(Nat) /\ Len(s \o q) = 1 + (M - 1) /\ (s \o q)[1] = r
        /\ \A y \in 1 .. (M - 1) : (s \o q)[1 + y] = q[y]
    <3>1. s \in Seq(Nat) /\ q \in Seq(Nat)
      BY <2>3, <2>4
    <3>2. /\ s \o q \in Seq(Nat) /\ Len(s \o q) = Len(s) + Len(q)
          /\ \A y \in 1 .. Len(s) : (s \o q)[y] = s[y]
          /\ \A y \in 1 .. Len(q) : (s \o q)[Len(s) + y] = q[y]
      BY <3>1
    <3>3. 1 \in 1 .. Len(s)
      BY <2>4
    <3> QED BY <2>3, <2>4, <3>2, <3>3
  <2>6. ASSUME NEW y \in DOMAIN (s \o q) PROVE (s \o q)[y] \in {r} \cup PieceIds(ns, out, R)
    <3>1. y \in 1 .. (1 + (M - 1))
      BY <2>5
    <3>2. CASE y <= 1
      <4>1. y = 1
        BY <3>1, <3>2
      <4> QED BY <4>1, <3>1, <2>4, <2>5
    <3>3. CASE ~(y <= 1)
      <4>1. y - 1 \in 1 .. (M - 1)
        BY <3>1, <3>3, <1>5
      <4>2. (s \o q)[y] = Q + (y - 1)
        <5>1. 1 + (y - 1) = y
          BY <3>1, <1>5
        <5> QED BY <4>1, <5>1, <2>3, <2>5
      <4>3. Q + (y - 1) \in (1 .. (Q + (M - 1))) \ (1 .. Q)
        BY <4>1, <1>0, <1>5
      <4> QED BY <4>2, <4>3, <1>32
    <3> QED BY <3>2, <3>3
  <2> QED BY <2>1, <2>6 DEF Children, Range
<1>36. GrowNodes(ns, r, out, R)
  <2>1. DOMAIN ns \cup {R} \subseteq DOMAIN out
    BY <1>0, <1>5, <1>8, <1>24
  <2>2. ASSUME NEW i \in DOMAIN ns \ {r} PROVE out[i] = ns[i]
    <3>1. i \in 1 .. Q /\ i # r /\ i \in 1 .. (Q + (M - 1))
      BY <1>0, <1>5
    <3> QED BY <3>1, <1>6, <1>24
  <2> QED BY <2>1, <2>2, <1>8, <1>34, <1>35 DEF GrowNodes
<1>30. GrowKept(ns, r, L, out, R)
  BY <1>24, <1>27, <1>29, <1>36, Zenon DEF GrowKept
<1>31. Len(split_if_needed(ns, r).nodes) + 1 = R
  BY <1>8 DEF mid
<1> QED BY <1>9, <1>30, <1>31 DEF out

-----------------------------------------------------------------------------
(* Functions that are defined by recursion over the tree                   *)

Local(D, rk, V, F) ==
    \A i \in D : \A f, g \in [D -> V] :
        (\A c \in D : rk[c] < rk[i] => f[c] = g[c]) => F[<<i, f>>] = F[<<i, g>>]

Recursive(D, V, F) == \E f \in [D -> V] : \A i \in D : f[i] = F[<<i, f>>]

(* A definition that looks at lower nodes only is met by a function.       *)
LEMMA RankRecursion ==
    ASSUME NEW D, NEW rk \in [D -> Nat], NEW H \in Nat, \A i \in D : rk[i] <= H,
           NEW V, NEW V0 \in V, NEW F \in [D \X [D -> V] -> V], Local(D, rk, V, F)
    PROVE  Recursive(D, V, F)
<1> DEFINE Upto(n) == \E f \in [D -> V] : \A i \in D : rk[i] < n => f[i] = F[<<i, f>>]
           S == {n \in Nat : Upto(n)}
<1>1. 0 \in S
  <2>1. [i \in D |-> V0] \in [D -> V]
    OBVIOUS
  <2>2. \A i \in D : ~(rk[i] < 0)
    OBVIOUS
  <2>3. Upto(0)
    BY <2>1, <2>2
  <2> QED BY <2>3
<1>2. ASSUME NEW n \in Nat, n \in S PROVE n + 1 \in S
  <2>1. PICK f \in [D -> V] : \A i \in D : rk[i] < n => f[i] = F[<<i, f>>]
    BY <1>2
  <2> DEFINE g == [i \in D |-> IF rk[i] < n THEN f[i] ELSE F[<<i, f>>]]
  <2>2. g \in [D -> V]
    OBVIOUS
  <2>3. ASSUME NEW i \in D, rk[i] < n + 1 PROVE g[i] = F[<<i, g>>]
    <3>1. g[i] = F[<<i, f>>]
      BY <2>1
    <3>2. \A c \in D : rk[c] < rk[i] => f[c] = g[c]
      BY <2>3
    <3> HIDE DEF g
    <3>3. F[<<i, f>>] = F[<<i, g>>]
      BY <2>2, <3>2, Zenon DEF Local
    <3> QED BY <3>1, <3>3
  <2> HIDE DEF g
  <2>4. Upto(n + 1) /\ n + 1 \in Nat
    BY <2>2, <2>3
  <2> QED BY <2>4
<1>3. \A n \in Nat : n \in S
  <2> HIDE DEF S
  <2> QED BY <1>1, <1>2, SetInduction
<1>4. Upto(H + 1)
  <2>1. H + 1 \in Nat
    OBVIOUS
  <2>2. H + 1 \in S
    BY <2>1, <1>3, Zenon
  <2> QED BY <2>2, Zenon
<1>5. \A i \in D : rk[i] < H + 1
  OBVIOUS
<1>6. PICK f \in [D -> V] : \A i \in D : rk[i] < H + 1 => f[i] = F[<<i, f>>]
  BY <1>4, Zenon
<1> QED BY <1>5, <1>6, Zenon DEF Recursive

-----------------------------------------------------------------------------
(* The root collapses                                                      *)

(* A root that gives way to its only child.                                *)
GivesWay(n) == ~n.leaf /\ Len(n.children) = 1 /\ ~HasMessages(n)

(* Collapsed is the recursion it is written as: every root that gives way  *)
(* hands over to its only child.                                           *)
LEMMA CollapsedIs ==
    ASSUME NEW ns, NEW rk, Arena(ns), Ranked(ns, rk)
    PROVE  \E to \in [DOMAIN ns -> DOMAIN ns] :
              /\ \A i \in DOMAIN ns : to[i] = IF GivesWay(ns[i]) THEN to[ns[i].children[1]] ELSE i
              /\ \A i \in DOMAIN ns : Collapsed(ns, i) = to[i]
<1> DEFINE D == DOMAIN ns
           G(f) == [i \in D |-> IF GivesWay(ns[i]) THEN f[ns[i].children[1]] ELSE i]
<1>0. rk \in [D -> Nat]
  BY DEF Ranked
<1>1. PICK H \in Nat : \A i \in D : rk[i] <= H
  BY DEF Ranked
<1>2. ASSUME NEW i \in D, GivesWay(ns[i])
      PROVE  ns[i].children[1] \in D /\ rk[ns[i].children[1]] < rk[i]
  <2>1. ~ns[i].leaf /\ 1 \in 1 .. Len(ns[i].children)
    BY <1>2 DEF GivesWay
  <2>2. ns[i].children[1] \in D /\ rk[i] = rk[ns[i].children[1]] + 1
    BY <2>1 DEF Ranked
  <2> QED BY <2>2, <1>0
<1>3. PICK h : h = G(h)
  <2>1. CASE D = {}
    <3>1. [i \in D |-> i] = G([i \in D |-> i])
      BY <2>1
    <3> QED BY <3>1, Zenon
  <2>2. CASE D # {}
    <3> DEFINE F == [x \in D \X [D -> D] |->
                        IF GivesWay(ns[x[1]]) THEN x[2][ns[x[1]].children[1]] ELSE x[1]]
    <3>1. F \in [D \X [D -> D] -> D]
      <4>1. ASSUME NEW x \in D \X [D -> D]
            PROVE  (IF GivesWay(ns[x[1]]) THEN x[2][ns[x[1]].children[1]] ELSE x[1]) \in D
        <5>1. x[1] \in D /\ x[2] \in [D -> D]
          OBVIOUS
        <5> HIDE DEF D
        <5> QED BY <5>1, <1>2
      <4> QED BY <4>1
    <3>2. ASSUME NEW i \in D, NEW f \in [D -> D]
          PROVE  F[<<i, f>>] = IF GivesWay(ns[i]) THEN f[ns[i].children[1]] ELSE i
      <4>1. <<i, f>> \in D \X [D -> D] /\ <<i, f>>[1] = i /\ <<i, f>>[2] = f
        OBVIOUS
      <4> QED BY <4>1, Zenon
    <3> HIDE DEF F
    <3>3. ASSUME NEW i \in D, NEW f \in [D -> D], NEW g \in [D -> D],
                 \A c \in D : rk[c] < rk[i] => f[c] = g[c]
          PROVE  F[<<i, f>>] = F[<<i, g>>]
      <4>1. CASE GivesWay(ns[i])
        BY <4>1, <3>2, <3>3, <1>2
      <4>2. CASE ~GivesWay(ns[i])
        BY <4>2, <3>2
      <4> QED BY <4>1, <4>2
    <3>4. PICK x \in D : TRUE
      BY <2>2
    <3>5. PICK f \in [D -> D] : \A i \in D : f[i] = F[<<i, f>>]
      <4> HIDE DEF D
      <4>1. Local(D, rk, D, F)
        BY <3>3, Zenon DEF Local
      <4>2. Recursive(D, D, F)
        BY <1>0, <1>1, <3>1, <3>4, <4>1, RankRecursion
      <4> QED BY <4>2, Zenon DEF Recursive
    <3>6. f = G(f)
      <4>1. \A i \in D : f[i] = IF GivesWay(ns[i]) THEN f[ns[i].children[1]] ELSE i
        BY <3>2, <3>5
      <4>2. f = [i \in D |-> f[i]]
        OBVIOUS
      <4> QED BY <4>1, <4>2, Zenon
    <3> QED BY <3>6, Zenon
  <2> QED BY <2>1, <2>2
<1> DEFINE to == CHOOSE f : f = G(f)
<1>4. to = G(to)
  <2> HIDE DEF G
  <2> QED BY <1>3, Zenon
<1>5. ASSUME NEW i \in D PROVE Collapsed(ns, i) = to[i]
  BY Zenon DEF Collapsed, GivesWay
<1> HIDE DEF to
<1>6. \A i \in D : to[i] = IF GivesWay(ns[i]) THEN to[ns[i].children[1]] ELSE i
  BY <1>4, Zenon
<1> DEFINE T == {i \in D : to[i] \in D}
<1>7. ASSUME NEW i \in D, \A c \in D : rk[c] < rk[i] => c \in T PROVE i \in T
  <2>1. CASE GivesWay(ns[i])
    <3>1. ns[i].children[1] \in T
      BY <2>1, <1>2, <1>7
    <3>2. to[i] = to[ns[i].children[1]]
      BY <2>1, <1>6
    <3> QED BY <3>1, <3>2
  <2>2. CASE ~GivesWay(ns[i])
    BY <2>2, <1>6
  <2> QED BY <2>1, <2>2
<1>8. \A i \in D : i \in T
  <2> HIDE DEF T, D
  <2> QED BY <1>0, <1>7, RankInduction
<1>9. to \in [D -> D]
  <2>1. to = [i \in D |-> to[i]]
    BY <1>4, Zenon
  <2> QED BY <2>1, <1>8
<1> QED BY <1>5, <1>6, <1>9, Zenon

CollapseKept(ns, r, L, rk, r2) ==
    /\ \E L2, iv2 : L2 \subseteq L /\ Shape(ns, r2, L2, rk, iv2)
    /\ SameMap(ns, r, ns, r2)

(* One root gives way.                                                     *)
LEMMA CollapseOnce ==
    ASSUME NEW ns, NEW r, NEW L, NEW rk, NEW iv, Shape(ns, r, L, rk, iv), GivesWay(ns[r])
    PROVE  CollapseKept(ns, r, L, rk, ns[r].children[1])
<1> DEFINE c == ns[r].children[1]
           L2 == L \ {r}
           iv2 == [iv EXCEPT ![c] = Nat]
<1>1. Arena(ns) /\ Ranked(ns, rk) /\ Tree(ns, r, L) /\ Ranges(ns, r, L, iv)
  BY DEF Shape
<1>2. L \subseteq DOMAIN ns /\ r \in L /\ r \in DOMAIN ns
  BY <1>1 DEF Tree
<1>3. ~ns[r].leaf /\ Len(ns[r].children) = 1 /\ ns[r].buffer = Empty /\ 1 \in 1 .. Len(ns[r].children)
  BY DEF GivesWay, HasMessages
<1>4. c \in L /\ c # r /\ c \in DOMAIN ns
  <2>1. Parented(ns, r, L, rk, r, 1)
    BY <1>2, <1>3, ChildApart
  <2> QED BY <2>1 DEF Parented
<1>5. ASSUME NEW i \in L2, ~ns[i].leaf, NEW j \in 1 .. Len(ns[i].children)
      PROVE  ns[i].children[j] \in L2 /\ ns[i].children[j] # c
  <2>1. ns[i].children[j] \in L /\ ns[i].children[j] # r
    BY <1>1, <1>5, Zenon DEF Tree
  <2>2. ns[i].children[j] = c => r = i
    BY <1>1, <1>2, <1>3, <1>5, Zenon DEF Tree
  <2> QED BY <2>1, <2>2
<1>6. Tree(ns, c, L2)
  <2>1. L2 \subseteq DOMAIN ns /\ c \in L2
    BY <1>2, <1>4
  <2>2. ASSUME NEW i \in L2, ~ns[i].leaf, NEW j \in 1 .. Len(ns[i].children),
               NEW x \in L2, ~ns[x].leaf, NEW y \in 1 .. Len(ns[x].children),
               ns[x].children[y] = ns[i].children[j]
        PROVE  x = i /\ y = j
    <3>1. i \in L /\ x \in L
      OBVIOUS
    <3> HIDE DEF L2
    <3> QED BY <3>1, <2>2, <1>1, Zenon DEF Tree
  <2> HIDE DEF c, L2
  <2> QED BY <2>1, <2>2, <1>5, Zenon DEF Tree
<1>7. Ranges(ns, c, L2, iv2)
  <2>1. /\ iv2 \in [DOMAIN ns -> SUBSET Nat] /\ iv2[c] = Nat
        /\ \A i \in DOMAIN ns : i # c => iv2[i] = iv[i]
        /\ \A i \in DOMAIN ns : iv[i] \subseteq iv2[i]
    <3>1. iv \in [DOMAIN ns -> SUBSET Nat]
      BY <1>1 DEF Ranges
    <3> HIDE DEF c
    <3> QED BY <3>1, <1>4
  <2> HIDE DEF iv2
  <2>2. ASSUME NEW i \in L2
        PROVE  /\ DOMAIN HeldBy(ns[i]) \subseteq iv2[i]
               /\ ~ns[i].leaf =>
                    /\ \A p \in 1 .. Len(ns[i].pivots) :
                          ns[i].pivots[p] \in iv2[i] /\ \E x \in iv2[i] : x < ns[i].pivots[p]
                    /\ \A j \in 1 .. Len(ns[i].children) :
                          \A k \in iv2[ns[i].children[j]] :
                             k \in iv2[i] /\ route(ns[i].pivots, k) = j
    <3>1. i \in L /\ i \in DOMAIN ns /\ iv[i] \subseteq iv2[i]
      BY <1>2, <2>1
    <3>2. /\ DOMAIN HeldBy(ns[i]) \subseteq iv[i]
          /\ ~ns[i].leaf =>
                /\ \A p \in 1 .. Len(ns[i].pivots) :
                      ns[i].pivots[p] \in iv[i] /\ \E x \in iv[i] : x < ns[i].pivots[p]
                /\ \A j \in 1 .. Len(ns[i].children) :
                      \A k \in iv[ns[i].children[j]] :
                         k \in iv[i] /\ route(ns[i].pivots, k) = j
      BY <3>1, <1>1, Zenon DEF Ranges
    <3>3. ~ns[i].leaf => \A j \in 1 .. Len(ns[i].children) :
                            iv2[ns[i].children[j]] = iv[ns[i].children[j]]
      <4>1. ASSUME ~ns[i].leaf, NEW j \in 1 .. Len(ns[i].children)
            PROVE  iv2[ns[i].children[j]] = iv[ns[i].children[j]]
        <5>1. ns[i].children[j] \in L2 /\ ns[i].children[j] # c
          BY <4>1, <1>5
        <5> HIDE DEF c
        <5> QED BY <5>1, <1>2, <2>1
      <4> QED BY <4>1
    <3> QED BY <3>1, <3>2, <3>3
  <2> HIDE DEF L2, c
  <2> QED BY <2>1, <2>2, Zenon DEF Ranges
<1>8. Shape(ns, c, L2, rk, iv2)
  BY <1>1, <1>6, <1>7 DEF Shape
<1>9. ASSUME NEW k \in Nat PROVE Get(ns, c, k) = Get(ns, r, k)
  <2>1. PICK v : Vals(ns, k, v)
    BY <1>1, ValsExist
  <2>2. Get(ns, c, k) = v[c] /\ Get(ns, r, k) = v[r]
    BY <1>1, <1>2, <1>4, <2>1, GetIs
  <2>3. ns[r].children # <<>>
    <3>1. Len(<<>>) = 0
      OBVIOUS
    <3> QED BY <3>1, <1>3
  <2>4. Child(ns[r], k) = c
    <3>1. Routable(ns, rk, r, k)
      BY <1>1, <1>2, <1>3, <2>3, ChildFacts
    <3>2. route(ns[r].pivots, k) \in 1 .. 1
      BY <3>1, <1>3 DEF Routable
    <3>3. route(ns[r].pivots, k) = 1
      BY <3>2
    <3> QED BY <3>3 DEF Child
  <2>5. k \notin DOMAIN ns[r].buffer
    BY <1>3, EmptyMap
  <2>6. v[r] = ValueAt(ns[r], k, v)
    BY <1>2, <2>1 DEF Vals
  <2>7. ValueAt(ns[r], k, v) = v[c]
    BY <1>3, <2>3, <2>4, <2>5 DEF ValueAt, Below
  <2> QED BY <2>2, <2>6, <2>7
<1>10. L2 \subseteq L
  OBVIOUS
<1> HIDE DEF L2, iv2, c
<1>11. CollapseKept(ns, r, L, rk, c)
  BY <1>8, <1>9, <1>10, Zenon DEF CollapseKept, SameMap
<1> QED BY <1>11 DEF c

(* The root collapse keeps the shape and the map.                          *)
THEOREM CollapseKeeps ==
    ASSUME NEW ns, NEW r, NEW L, NEW rk, NEW iv, Shape(ns, r, L, rk, iv)
    PROVE  CollapseKept(ns, r, L, rk, Collapsed(ns, r))
<1>1. Arena(ns) /\ Ranked(ns, rk) /\ r \in DOMAIN ns /\ rk \in [DOMAIN ns -> Nat]
  BY DEF Shape, Tree, Ranked
<1>2. PICK to \in [DOMAIN ns -> DOMAIN ns] :
         /\ \A i \in DOMAIN ns : to[i] = IF GivesWay(ns[i]) THEN to[ns[i].children[1]] ELSE i
         /\ \A i \in DOMAIN ns : Collapsed(ns, i) = to[i]
  BY <1>1, CollapsedIs
<1> DEFINE G == {i \in DOMAIN ns : \A K, w : Shape(ns, i, K, rk, w) => CollapseKept(ns, i, K, rk, to[i])}
<1>3. ASSUME NEW i \in DOMAIN ns, \A c \in DOMAIN ns : rk[c] < rk[i] => c \in G
      PROVE  i \in G
  <2> SUFFICES ASSUME NEW K, NEW w, Shape(ns, i, K, rk, w) PROVE CollapseKept(ns, i, K, rk, to[i])
    OBVIOUS
  <2>1. CASE GivesWay(ns[i])
    <3> DEFINE c == ns[i].children[1]
    <3>1. CollapseKept(ns, i, K, rk, c)
      BY <2>1, CollapseOnce
    <3>2. c \in DOMAIN ns /\ rk[c] < rk[i] /\ to[i] = to[c]
      <4>1. ~ns[i].leaf /\ 1 \in 1 .. Len(ns[i].children)
        BY <2>1 DEF GivesWay
      <4>2. c \in DOMAIN ns /\ rk[i] = rk[c] + 1
        BY <4>1, <1>1 DEF Ranked
      <4>3. rk[c] < rk[i]
        BY <4>2, <1>1
      <4> QED BY <4>2, <4>3, <2>1, <1>2
    <3> HIDE DEF c
    <3>3. PICK K2, w2 : K2 \subseteq K /\ Shape(ns, c, K2, rk, w2)
      BY <3>1, Zenon DEF CollapseKept
    <3>4. CollapseKept(ns, c, K2, rk, to[c])
      BY <3>2, <3>3, <1>3
    <3>5. PICK K3, w3 : K3 \subseteq K2 /\ Shape(ns, to[c], K3, rk, w3)
      BY <3>4, Zenon DEF CollapseKept
    <3>6. K3 \subseteq K
      BY <3>3, <3>5
    <3>7. SameMap(ns, i, ns, to[c])
      <4>1. SameMap(ns, i, ns, c) /\ SameMap(ns, c, ns, to[c])
        BY <3>1, <3>4 DEF CollapseKept
      <4> QED BY <4>1 DEF SameMap
    <3> QED BY <3>2, <3>5, <3>6, <3>7, Zenon DEF CollapseKept
  <2>2. CASE ~GivesWay(ns[i])
    <3>1. to[i] = i
      BY <2>2, <1>2
    <3>2. SameMap(ns, i, ns, i) /\ K \subseteq K
      BY DEF SameMap
    <3> QED BY <3>1, <3>2, Zenon DEF CollapseKept
  <2> QED BY <2>1, <2>2
<1>4. \A i \in DOMAIN ns : i \in G
  <2> HIDE DEF G
  <2> QED BY <1>1, <1>3, RankInduction
<1>5. r \in G
  BY <1>1, <1>4
<1>6. CollapseKept(ns, r, L, rk, to[r])
  BY <1>5, Zenon
<1> QED BY <1>1, <1>2, <1>6

-----------------------------------------------------------------------------
(* The tree below a node                                                   *)

(* Children gives the ids of lower nodes.                                  *)
LEMMA ChildrenLower ==
    ASSUME NEW ns, NEW rk, Arena(ns), Ranked(ns, rk), NEW i \in DOMAIN ns, NEW c \in Children(ns[i])
    PROVE  /\ c \in DOMAIN ns /\ rk[c] < rk[i] /\ ~ns[i].leaf
           /\ \E j \in 1 .. Len(ns[i].children) : c = ns[i].children[j]
<1>1. ~ns[i].leaf /\ c \in Range(ns[i].children)
  BY DEF Children
<1>2. ns[i].children \in Seq(Nat)
  BY <1>1 DEF Arena, NodeOk, LeafNode, InnerNode
<1>3. PICK j \in DOMAIN ns[i].children : c = ns[i].children[j]
  BY <1>1 DEF Range
<1>4. j \in 1 .. Len(ns[i].children)
  BY <1>2, <1>3
<1>5. c \in DOMAIN ns /\ rk[i] = rk[c] + 1 /\ rk \in [DOMAIN ns -> Nat]
  BY <1>1, <1>3, <1>4 DEF Ranked
<1>6. rk[c] < rk[i]
  BY <1>5
<1> QED BY <1>1, <1>3, <1>4, <1>5, <1>6

(* Subtree meets its definition where children are lower than parents.     *)
LEMMA SubtreeMeets ==
    ASSUME NEW ns, NEW rk \in [DOMAIN ns -> Nat], NEW H \in Nat, \A i \in DOMAIN ns : rk[i] <= H,
           \A i \in DOMAIN ns : \A c \in Children(ns[i]) : c \in DOMAIN ns /\ rk[c] < rk[i]
    PROVE  \A i \in DOMAIN ns : Subtree(ns, i) = {i} \cup UNION {Subtree(ns, c) : c \in Children(ns[i])}
<1> DEFINE D == DOMAIN ns
           V == SUBSET D
           G(f) == [i \in D |-> {i} \cup UNION {f[c] : c \in Children(ns[i])}]
<1>0. rk \in [D -> Nat]
  OBVIOUS
<1>1. \A i \in D : rk[i] <= H
  OBVIOUS
<1>2. ASSUME NEW i \in D, NEW c \in Children(ns[i]) PROVE c \in D /\ rk[c] < rk[i]
  OBVIOUS
<1>3. PICK h : h = G(h)
  <2> DEFINE F == [x \in D \X [D -> V] |-> {x[1]} \cup UNION {x[2][c] : c \in Children(ns[x[1]])}]
  <2>1. F \in [D \X [D -> V] -> V]
    <3>1. ASSUME NEW x \in D \X [D -> V]
          PROVE  ({x[1]} \cup UNION {x[2][c] : c \in Children(ns[x[1]])}) \in V
      <4>1. x[1] \in D /\ x[2] \in [D -> V]
        OBVIOUS
      <4>2. \A c \in Children(ns[x[1]]) : x[2][c] \in V
        <5> HIDE DEF D, V
        <5> QED BY <4>1, <1>2
      <4> QED BY <4>1, <4>2
    <3> QED BY <3>1
  <2>2. ASSUME NEW i \in D, NEW f \in [D -> V]
        PROVE  F[<<i, f>>] = {i} \cup UNION {f[c] : c \in Children(ns[i])}
    <3>1. <<i, f>> \in D \X [D -> V] /\ <<i, f>>[1] = i /\ <<i, f>>[2] = f
      OBVIOUS
    <3> QED BY <3>1, Zenon
  <2> HIDE DEF F
  <2>3. ASSUME NEW i \in D, NEW f \in [D -> V], NEW g \in [D -> V],
               \A c \in D : rk[c] < rk[i] => f[c] = g[c]
        PROVE  F[<<i, f>>] = F[<<i, g>>]
    <3>1. \A c \in Children(ns[i]) : f[c] = g[c]
      BY <2>3, <1>2
    <3>2. {f[c] : c \in Children(ns[i])} = {g[c] : c \in Children(ns[i])}
      BY <3>1
    <3> QED BY <3>2, <2>2
  <2>4. {} \in V
    OBVIOUS
  <2>5. PICK f \in [D -> V] : \A i \in D : f[i] = F[<<i, f>>]
    <3> HIDE DEF D, V
    <3>1. Local(D, rk, V, F)
      BY <2>3, Zenon DEF Local
    <3>2. Recursive(D, V, F)
      BY <1>0, <1>1, <2>1, <2>4, <3>1, RankRecursion
    <3> QED BY <3>2, Zenon DEF Recursive
  <2>6. f = G(f)
    <3>1. \A i \in D : f[i] = {i} \cup UNION {f[c] : c \in Children(ns[i])}
      BY <2>2, <2>5
    <3>2. f = [i \in D |-> f[i]]
      OBVIOUS
    <3> QED BY <3>1, <3>2, Zenon
  <2> QED BY <2>6, Zenon
<1> DEFINE below == CHOOSE f : f = G(f)
<1>4. below = G(below)
  <2> HIDE DEF G
  <2> QED BY <1>3, Zenon
<1>5. \A i : Subtree(ns, i) = below[i]
  BY Zenon DEF Subtree
<1> HIDE DEF below
<1>6. \A i \in D : below[i] = {i} \cup UNION {below[c] : c \in Children(ns[i])}
  BY <1>4, Zenon
<1>7. ASSUME NEW i \in D
      PROVE  {Subtree(ns, c) : c \in Children(ns[i])} = {below[c] : c \in Children(ns[i])}
  BY <1>5
<1> QED BY <1>5, <1>6, <1>7

(* And so it does in a ranked arena.                                       *)
LEMMA SubtreeIs ==
    ASSUME NEW ns, NEW rk, Arena(ns), Ranked(ns, rk)
    PROVE  \A i \in DOMAIN ns : Subtree(ns, i) = {i} \cup UNION {Subtree(ns, c) : c \in Children(ns[i])}
<1>1. rk \in [DOMAIN ns -> Nat]
  BY DEF Ranked
<1>2. PICK H \in Nat : \A i \in DOMAIN ns : rk[i] <= H
  BY DEF Ranked
<1>3. \A i \in DOMAIN ns : \A c \in Children(ns[i]) : c \in DOMAIN ns /\ rk[c] < rk[i]
  BY ChildrenLower
<1> QED BY <1>1, <1>2, <1>3, SubtreeMeets

(* There are no messages below a leaf.                                     *)
LEMMA LeafSubtree ==
    ASSUME NEW ns, NEW rk, Arena(ns), Ranked(ns, rk), NEW i \in DOMAIN ns, ns[i].leaf
    PROVE  ~subtree_has_messages(ns, i)
<1>1. Children(ns[i]) = {}
  BY DEF Children
<1>2. Subtree(ns, i) = {i} \cup UNION {Subtree(ns, c) : c \in Children(ns[i])}
  BY SubtreeIs
<1>3. Subtree(ns, i) = {i}
  BY <1>1, <1>2
<1> QED BY <1>3 DEF subtree_has_messages, HasMessages

-----------------------------------------------------------------------------
(* Every key is gone                                                       *)

RestartKept(ns, r, ns2, R) ==
    /\ \E rk2, iv2 : Shape(ns2, R, {R}, rk2, iv2)
    /\ ns2 \in Seq(AnyNode) /\ ns2[R].leaf
    /\ SameMap(ns, r, ns2, R)

(* A root without children holds nothing, and an empty leaf may take its   *)
(* place.                                                                  *)
THEOREM RestartKeeps ==
    ASSUME NEW ns \in Seq(AnyNode), NEW r, NEW L, NEW rk, NEW iv, Shape(ns, r, L, rk, iv),
           Barren(ns[r])
    PROVE  RestartKept(ns, r, Append(ns, Leaf(Empty)), Len(ns) + 1)
<1> DEFINE R == Len(ns) + 1
           e == Leaf(Empty)
           ns2 == Append(ns, e)
           rk2 == [i \in DOMAIN ns \cup {R} |-> IF i = R THEN 0 ELSE rk[i]]
           iv2 == [i \in DOMAIN ns \cup {R} |-> IF i = R THEN Nat ELSE {}]
<1>1. Arena(ns) /\ Ranked(ns, rk) /\ r \in DOMAIN ns
  BY DEF Shape, Tree
<1>2. e.leaf /\ e.entries = Empty /\ e \in LeafNode
  <2>1. Empty \in Maps(Entries(Nat))
    BY EmptyMap
  <2> QED BY <2>1 DEF Leaf, LeafNode
<1> HIDE DEF e
<1>3. e \in AnyNode
  BY <1>2 DEF AnyNode
<1>4. /\ ns2 \in Seq(AnyNode) /\ DOMAIN ns2 = DOMAIN ns \cup {R} /\ ns2[R] = e
      /\ R \in Nat /\ R \notin DOMAIN ns /\ ns2 = [i \in DOMAIN ns2 |-> ns2[i]]
      /\ \A i \in DOMAIN ns : ns2[i] = ns[i]
  <2>1. /\ ns2 \in Seq(AnyNode) /\ Len(ns2) = Len(ns) + 1 /\ ns2[Len(ns) + 1] = e
        /\ \A i \in 1 .. Len(ns) : ns2[i] = ns[i]
    BY <1>3
  <2>2. DOMAIN ns = 1 .. Len(ns) /\ Len(ns) \in Nat
    OBVIOUS
  <2> HIDE DEF ns2
  <2>3. DOMAIN ns2 = 1 .. Len(ns2) /\ ns2 = [i \in DOMAIN ns2 |-> ns2[i]]
    BY <2>1
  <2>4. 1 .. (Len(ns) + 1) = (1 .. Len(ns)) \cup {Len(ns) + 1}
    BY <2>2
  <2> QED BY <2>1, <2>2, <2>3, <2>4
<1> HIDE DEF R, ns2
<1>5. Arena(ns2)
  <2>1. NodeOk(e)
    BY <1>2 DEF NodeOk
  <2>2. \A i \in DOMAIN ns2 : NodeOk(ns2[i])
    BY <1>1, <1>4, <2>1 DEF Arena
  <2>3. DOMAIN ns2 \subseteq Nat
    BY <1>1, <1>4 DEF Arena
  <2> QED BY <1>4, <2>2, <2>3, Zenon DEF Arena
<1>6. /\ rk \in [DOMAIN ns -> Nat]
      /\ rk2 \in [DOMAIN ns2 -> Nat] /\ rk2[R] = 0 /\ \A i \in DOMAIN ns : rk2[i] = rk[i]
      /\ iv2 \in [DOMAIN ns2 -> SUBSET Nat] /\ iv2[R] = Nat
  <2>1. rk \in [DOMAIN ns -> Nat]
    BY <1>1 DEF Ranked
  <2> QED BY <2>1, <1>4
<1> HIDE DEF rk2, iv2
<1>7. Ranked(ns2, rk2)
  <2>1. PICK H \in Nat : \A i \in DOMAIN ns : rk[i] <= H
    BY <1>1 DEF Ranked
  <2>2. \A i \in DOMAIN ns2 : rk2[i] <= H
    BY <2>1, <1>4, <1>6
  <2>3. ASSUME NEW i \in DOMAIN ns2
        PROVE  /\ ns2[i].leaf <=> rk2[i] = 0
               /\ ~ns2[i].leaf => \A j \in 1 .. Len(ns2[i].children) :
                                    /\ ns2[i].children[j] \in DOMAIN ns2
                                    /\ rk2[i] = rk2[ns2[i].children[j]] + 1
    <3>1. CASE i = R
      BY <3>1, <1>2, <1>4, <1>6
    <3>2. CASE i # R
      <4>1. i \in DOMAIN ns /\ ns2[i] = ns[i] /\ rk2[i] = rk[i]
        BY <3>2, <1>4, <1>6
      <4>2. /\ ns[i].leaf <=> rk[i] = 0
            /\ ~ns[i].leaf => \A j \in 1 .. Len(ns[i].children) :
                                /\ ns[i].children[j] \in DOMAIN ns
                                /\ rk[i] = rk[ns[i].children[j]] + 1
        BY <4>1, <1>1 DEF Ranked
      <4> QED BY <4>1, <4>2, <1>4, <1>6
    <3> QED BY <3>1, <3>2
  <2> QED BY <2>1, <2>2, <2>3, <1>6 DEF Ranked
<1>8. Tree(ns2, R, {R})
  BY <1>2, <1>4 DEF Tree
<1>9. Ranges(ns2, R, {R}, iv2)
  <2>1. DOMAIN HeldBy(ns2[R]) = {}
    BY <1>2, <1>4, EmptyMap DEF HeldBy
  <2> QED BY <2>1, <1>2, <1>4, <1>6 DEF Ranges
<1>10. Shape(ns2, R, {R}, rk2, iv2)
  BY <1>5, <1>7, <1>8, <1>9 DEF Shape
<1>11. ASSUME NEW k \in Nat PROVE Get(ns2, R, k) = Get(ns, r, k)
  <2>1. ASSUME NEW v, NEW v2, Vals(ns, k, v), Vals(ns2, k, v2) PROVE v2[R] = v[r]
    <3>1. v2[R] = NoValue
      <4>1. v2[R] = ValueAt(e, k, v2)
        BY <2>1, <1>4 DEF Vals
      <4>2. k \notin DOMAIN e.entries
        BY <1>2, EmptyMap
      <4> QED BY <4>1, <4>2, <1>2 DEF ValueAt, ValueIn
    <3>2. v[r] = NoValue
      <4>1. v[r] = ValueAt(ns[r], k, v)
        BY <2>1, <1>1 DEF Vals
      <4>2. ~ns[r].leaf /\ ns[r].children = <<>> /\ ns[r].buffer = Empty
        <5>1. ~ns[r].leaf /\ ns[r].children = <<>>
          BY DEF Barren
        <5>2. ns[r] \in InnerNode
          BY <5>1, <1>1 DEF Arena, NodeOk, LeafNode
        <5>3. ns[r].pivots \in Seq(Nat)
          BY <5>2 DEF InnerNode
        <5>4. Len(ns[r].children) = 0 /\ Len(ns[r].pivots) \in Nat
          BY <5>1, <5>3
        <5>5. Len(ns[r].children) # Len(ns[r].pivots) + 1
          BY <5>4
        <5> QED BY <5>1, <5>5, <1>1 DEF Arena, NodeOk, LeafNode
      <4>3. k \notin DOMAIN ns[r].buffer
        BY <4>2, EmptyMap
      <4> QED BY <4>1, <4>2, <4>3 DEF ValueAt, Below
    <3> QED BY <3>1, <3>2
  <2>2. \A v, v2 : Vals(ns, k, v) /\ Vals(ns2, k, v2) => v2[R] = v[r]
    BY <2>1
  <2>3. R \in DOMAIN ns2
    BY <1>4
  <2> QED BY <1>1, <1>5, <1>7, <2>2, <2>3, SameGet
<1>12. RestartKept(ns, r, ns2, R)
  <2>1. ns2[R].leaf
    BY <1>2, <1>4
  <2> QED BY <2>1, <1>4, <1>10, <1>11, Zenon DEF RestartKept, SameMap
<1> QED BY <1>12 DEF ns2, R, e

-----------------------------------------------------------------------------
(* The pieces that a node is cut into, and what its parent gains           *)

(* The greatest of some of the first k numbers.                            *)
LEMMA Greatest ==
    ASSUME NEW k \in Nat, NEW S \in SUBSET (1 .. k), S # {}
    PROVE  Max(S) \in S /\ \A x \in S : Max(S) >= x
<1> DEFINE T == {k - x : x \in S}
<1>0. \A x \in S : x \in Nat /\ k - x \in Nat
  BY SMT
<1>1. T \subseteq Nat /\ T # {}
  BY <1>0, Zenon
<1>2. PICK y \in T : \A z \in T : y <= z
  <2> HIDE DEF T
  <2> QED BY <1>1, Least
<1>3. PICK x \in S : y = k - x
  OBVIOUS
<1>4. \A z \in S : x >= z
  <2> SUFFICES ASSUME NEW z \in S PROVE x >= z
    OBVIOUS
  <2>1. k - z \in T
    OBVIOUS
  <2>2. k - x <= k - z
    BY <2>1, <1>2, <1>3
  <2>3. x \in Nat /\ z \in Nat
    BY <1>0, Zenon
  <2> HIDE DEF T
  <2>4. \A a, b \in Nat : k - a <= k - b => a >= b
    BY SMT
  <2> QED BY <2>2, <2>3, <2>4, Zenon
<1> QED BY <1>4, Zenon DEF Max

(* A part of a map is one.                                                 *)
LEMMA MapPart ==
    ASSUME NEW T, NEW f \in Maps(T), NEW D \in SUBSET DOMAIN f
    PROVE  Restrict(f, D) \in Maps(T)
<1>1. /\ DOMAIN f \subseteq Keys /\ IsFiniteSet(DOMAIN f) /\ \A k \in DOMAIN f : f[k] \in T
  BY MapFacts
<1>2. Restrict(f, D) = [k \in D |-> f[k]] /\ IsFiniteSet(D)
  BY <1>1, FS_Subset DEF Restrict
<1> DEFINE g == Restrict(f, D)
<1>3. DOMAIN g = D /\ \A k \in D : g[k] = f[k]
  BY <1>2
<1>4. g = [k \in DOMAIN g |-> g[k]]
  BY <1>2, <1>3
<1> HIDE DEF g
<1>5. g \in Maps(T)
  BY <1>1, <1>2, <1>3, <1>4, MapFacts
<1> QED BY <1>5 DEF g

(* m is a piece of n.                                                      *)
IsPiece(m, n) ==
    /\ m \in AnyNode /\ m.dirty /\ (m.leaf <=> n.leaf) /\ Children(m) \subseteq Children(n)
    /\ ~m.leaf => IsInjective(m.children) /\ Len(m.children) = Len(m.pivots) + 1

(* The pieces s of n, between which seps are promoted, share its children. *)
CutsUp(n, s, seps) ==
    /\ Len(s) \in Nat /\ Len(s) >= 2 /\ s \in Seq(AnyNode)
    /\ seps \in Seq(Nat) /\ Len(seps) = Len(s) - 1
    /\ \A j \in 1 .. Len(s) : IsPiece(s[j], n)
    /\ \A x \in Children(n) : \E j \in 1 .. Len(s) : x \in Children(s[j])
    /\ \A j, k \in 1 .. Len(s) : Children(s[j]) \cap Children(s[k]) # {} => j = k

(* An internal node with one child more than pivots, and none twice.       *)
Branches(n) == ~n.leaf => IsInjective(n.children) /\ Len(n.children) = Len(n.pivots) + 1

(* split_leaf.                                                             *)
LEMMA LeafCutsUp ==
    ASSUME NEW n \in LeafNode, Count(n.entries) > LeafCapacity, NEW sizes,
           sizes = partition_sizes(Count(n.entries), LeafCapacity)
    PROVE  CutsUp(n, LeafPieces(n.entries, sizes), LeafSeparators(n.entries, sizes))
<1> DEFINE e == n.entries
           S == DOMAIN e
           M == Len(sizes)
           s == LeafPieces(e, sizes)
           seps == LeafSeparators(e, sizes)
<1>1. e \in Maps(Entries(Nat)) /\ n.leaf
  BY DEF LeafNode
<1>2. S \subseteq Nat /\ IsFiniteSet(S)
  BY <1>1, MapFacts, KeysAssumption
<1>3. Cardinality(S) \in Nat /\ Count(n.entries) = Cardinality(S)
  BY <1>2, FS_CardinalityType DEF Count
<1>4. Pieces(sizes, Cardinality(S), LeafCapacity) /\ LeafCapacity \in Nat
  <2>1. Cardinality(S) >= 1 /\ LeafCapacity \in Nat /\ LeafCapacity >= 1
    BY <1>3, ParamsAssumption
  <2>2. Pieces(partition_sizes(Cardinality(S), LeafCapacity), Cardinality(S), LeafCapacity)
    <3> HIDE DEF S
    <3> QED BY <2>1, <1>3, PartitionPieces
  <2> QED BY <2>1, <2>2, <1>3
<1>5. ChunkKept(e, sizes)
  BY <1>2, <1>4, ChunkFacts
<1>6. sizes \in Seq(Nat) /\ M \in Nat /\ M >= 2 /\ DOMAIN sizes = 1 .. M
  BY <1>3, <1>4 DEF Pieces
<1>7. DOMAIN s = 1 .. M /\ s = [j \in 1 .. M |-> Leaf(Restrict(e, Chunk(e, sizes, j)))]
  BY <1>6 DEF LeafPieces
<1>8. ASSUME NEW j \in 1 .. M PROVE s[j] \in LeafNode /\ s[j].dirty
  <2> DEFINE f == Restrict(e, Chunk(e, sizes, j))
  <2>1. Chunk(e, sizes, j) \subseteq DOMAIN e
    BY <1>5 DEF ChunkKept
  <2>2. f \in Maps(Entries(Nat))
    BY <2>1, <1>1, MapPart
  <2>3. s[j] = Leaf(f)
    BY <1>7
  <2> HIDE DEF f, s
  <2> QED BY <2>2, <2>3 DEF Leaf, LeafNode
<1>9. Len(s) = M /\ s \in Seq(AnyNode)
  <2>1. s \in [1 .. M -> AnyNode]
    BY <1>7, <1>8 DEF AnyNode
  <2> HIDE DEF s
  <2> QED BY <2>1, <1>6, SMTT(20)
<1>10. seps \in Seq(Nat) /\ Len(seps) = M - 1
  <2>1. \A j \in 1 .. (M - 1) : Min(Chunk(e, sizes, j + 1)) \in Nat
    BY <1>2, <1>5 DEF ChunkKept
  <2>2. seps \in [1 .. (M - 1) -> Nat] /\ M - 1 \in Nat
    BY <2>1, <1>6, SMT DEF LeafSeparators
  <2> HIDE DEF seps
  <2> QED BY <2>2, SMTT(20)
<1>11. Children(n) = {} /\ \A j \in 1 .. M : Children(s[j]) = {} /\ s[j].leaf
  BY <1>1, <1>8 DEF Children, LeafNode
<1>12. \A j \in 1 .. M : IsPiece(s[j], n)
  BY <1>1, <1>8, <1>11 DEF IsPiece, AnyNode
<1> HIDE DEF s, seps
<1>13. CutsUp(n, s, seps)
  BY <1>6, <1>9, <1>10, <1>11, <1>12 DEF CutsUp
<1> QED BY <1>13 DEF s, seps

(* What is between two cuts of an internal node.                           *)
LEMMA InnerPiece ==
    ASSUME NEW n \in InnerNode, Branches(n), NEW lo \in Nat, NEW hi \in Nat,
           lo < hi, hi <= Len(n.children), NEW D \in SUBSET DOMAIN n.buffer
    PROVE  /\ IsPiece(InnerPart(n, lo, hi, D), n)
           /\ Children(InnerPart(n, lo, hi, D)) = {n.children[y] : y \in (lo + 1) .. hi}
<1> DEFINE p == n.pivots
           c == n.children
           f == Restrict(n.buffer, D)
           sp == SubSeq(p, lo + 1, hi - 1)
           sc == SubSeq(c, lo + 1, hi)
           m == InnerPart(n, lo, hi, D)
<1>1. p \in Seq(Nat) /\ c \in Seq(Nat) /\ n.buffer \in Maps(MessagesOf(Nat)) /\ ~n.leaf
  BY DEF InnerNode
<1>2. Len(p) \in Nat /\ Len(c) \in Nat /\ Len(c) = Len(p) + 1 /\ DOMAIN c = 1 .. Len(c)
  BY <1>1, SMTT(30) DEF Branches
<1>3. hi - 1 \in Nat /\ lo <= hi - 1 /\ hi - 1 <= Len(p) /\ lo <= hi
      /\ (hi - 1) - lo = (hi - lo) - 1
  BY <1>2
<1>4. sp \in Seq(Nat) /\ Len(sp) = (hi - 1) - lo
  <2> HIDE DEF p
  <2>1. \A h \in Nat : lo <= h /\ h <= Len(p) =>
           /\ SubSeq(p, lo + 1, h) \in Seq(Nat) /\ Len(SubSeq(p, lo + 1, h)) = h - lo
    BY <1>1, SubSeqFacts
  <2> QED BY <2>1, <1>3
<1>5. /\ sc \in Seq(Nat) /\ Len(sc) = hi - lo
      /\ \A x \in 1 .. (hi - lo) : sc[x] = c[lo + x]
  <2> HIDE DEF c
  <2> QED BY <1>1, <1>3, SubSeqFacts DEF c
<1>6. f \in Maps(MessagesOf(Nat))
  BY <1>1, MapPart
<1>7. m = Internal(sp, sc, f)
  BY DEF InnerPart
<1>8. \A i, j \in 1 .. Len(c) : c[i] = c[j] => i = j
  BY <1>1, <1>2 DEF Branches, IsInjective
<1> HIDE DEF m, sp, sc, f, c
<1>9. m \in InnerNode /\ ~m.leaf /\ m.pivots = sp /\ m.children = sc /\ m.buffer = f /\ m.dirty
  BY <1>4, <1>5, <1>6, <1>7 DEF Internal, InnerNode
<1>10. DOMAIN sc = 1 .. (hi - lo)
  BY <1>5
<1>11. IsInjective(sc)
  <2>1. ASSUME NEW i \in 1 .. (hi - lo), NEW j \in 1 .. (hi - lo), sc[i] = sc[j] PROVE i = j
    <3>0. hi <= Len(c)
      BY DEF c
    <3>1. c[lo + i] = c[lo + j] /\ lo + i \in 1 .. Len(c) /\ lo + j \in 1 .. Len(c)
      BY <2>1, <3>0, <1>2, <1>5, SMTT(30)
    <3>2. lo + i = lo + j
      BY <3>1, <1>8
    <3> QED BY <3>2
  <2> QED BY <2>1, <1>10, Zenon DEF IsInjective
<1>12. Children(m) = {c[y] : y \in (lo + 1) .. hi}
  <2>1. Children(m) = {sc[x] : x \in 1 .. (hi - lo)}
    BY <1>9, <1>10 DEF Children, Range
  <2>2. ASSUME NEW y \in (lo + 1) .. hi PROVE \E x \in 1 .. (hi - lo) : sc[x] = c[y]
    <3>1. y - lo \in 1 .. (hi - lo) /\ lo + (y - lo) = y
      OBVIOUS
    <3>2. sc[y - lo] = c[lo + (y - lo)]
      BY <3>1, <1>5, Zenon
    <3> QED BY <3>1, <3>2
  <2>3. ASSUME NEW x \in 1 .. (hi - lo) PROVE \E y \in (lo + 1) .. hi : sc[x] = c[y]
    <3>1. lo + x \in (lo + 1) .. hi
      OBVIOUS
    <3>2. sc[x] = c[lo + x]
      BY <1>5
    <3> QED BY <3>1, <3>2
  <2>4. ASSUME NEW z \in Children(m) PROVE \E y \in (lo + 1) .. hi : z = c[y]
    <3>1. PICK x \in 1 .. (hi - lo) : z = sc[x]
      BY <2>1
    <3> QED BY <3>1, <2>3
  <2>5. ASSUME NEW y \in (lo + 1) .. hi PROVE c[y] \in Children(m)
    BY <2>1, <2>2
  <2> QED BY <2>4, <2>5
<1>13. Children(n) = {c[y] : y \in 1 .. Len(c)}
  BY <1>1, <1>2 DEF Children, Range, c
<1>14. Children(m) \subseteq Children(n)
  <2>1. \A y \in (lo + 1) .. hi : y \in 1 .. Len(c)
    BY <1>2 DEF c
  <2> QED BY <2>1, <1>12, <1>13
<1>15. Len(sc) = Len(sp) + 1
  BY <1>3, <1>4, <1>5
<1>16. IsPiece(m, n)
  BY <1>1, <1>9, <1>11, <1>14, <1>15 DEF IsPiece, AnyNode
<1> QED BY <1>12, <1>16 DEF m, c

(* split_internal.                                                         *)
LEMMA InnerCutsUp ==
    ASSUME NEW n \in InnerNode, Branches(n), Len(n.children) > Fanout, NEW sizes,
           sizes = partition_sizes(Len(n.children), Fanout)
    PROVE  CutsUp(n, InnerPieces(n, sizes), InnerSeparators(n, sizes))
<1> DEFINE c == n.children
           N == Len(c)
           M == Len(sizes)
           s == InnerPieces(n, sizes)
           seps == InnerSeparators(n, sizes)
           at(j) == Start(sizes, j)
<1>1. /\ n.pivots \in Seq(Nat) /\ c \in Seq(Nat) /\ n.buffer \in Maps(MessagesOf(Nat)) /\ ~n.leaf
  BY DEF InnerNode
<1>2. /\ N \in Nat /\ DOMAIN c = 1 .. N /\ N = Len(n.pivots) + 1 /\ Len(n.pivots) \in Nat
      /\ \A y \in 1 .. Len(n.pivots) : n.pivots[y] \in Nat
  BY <1>1, SMTT(30) DEF Branches
<1>3. Fanout \in Nat /\ Fanout >= 1 /\ N >= 1
  BY <1>2, ParamsAssumption
<1>4. Pieces(sizes, N, Fanout)
  <2> HIDE DEF N
  <2> QED BY <1>2, <1>3, PartitionPieces DEF N
<1>5. sizes \in Seq(Nat) /\ M \in Nat /\ M >= 2 /\ DOMAIN sizes = 1 .. M
  BY <1>4 DEF Pieces
<1>6. /\ \A j \in 1 .. (M + 1) : at(j) \in 0 .. N
      /\ \A i, j \in 1 .. (M + 1) : i < j => at(i) < at(j)
  BY <1>2, <1>3, <1>4, StartOrder
<1>7. at(1) = 0 /\ at(M + 1) = N
  BY <1>4, <1>5, Starts DEF Pieces
<1>8. \A i, j \in 1 .. N : c[i] = c[j] => i = j
  BY <1>1, <1>2 DEF Branches, IsInjective
<1>9. Children(n) = {c[y] : y \in 1 .. N}
  BY <1>1, <1>2 DEF Children, Range
<1>10. DOMAIN s = 1 .. M
  BY <1>5 DEF InnerPieces
<1>11. ASSUME NEW j \in 1 .. M
       PROVE  /\ IsPiece(s[j], n) /\ Children(s[j]) = {c[y] : y \in (at(j) + 1) .. at(j + 1)}
              /\ at(j) \in Nat /\ at(j + 1) \in Nat /\ at(j) < at(j + 1) /\ at(j + 1) <= N
  <2> DEFINE D == {k \in DOMAIN n.buffer : route(seps, k) = j}
  <2>1. s[j] = InnerPart(n, at(j), at(j + 1), D)
    BY <1>5 DEF InnerPieces
  <2>2. j \in 1 .. (M + 1) /\ j + 1 \in 1 .. (M + 1) /\ j < j + 1
    BY <1>5
  <2>3. at(j) \in Nat /\ at(j + 1) \in Nat /\ at(j) < at(j + 1) /\ at(j + 1) <= N
    <3>1. at(j) \in 0 .. N /\ at(j + 1) \in 0 .. N /\ at(j) < at(j + 1)
      BY <2>2, <1>6, Zenon
    <3>2. \A y \in 0 .. N : y \in Nat /\ y <= N
      BY <1>2, SMT
    <3> QED BY <3>1, <3>2, Zenon
  <2>4. D \in SUBSET DOMAIN n.buffer
    OBVIOUS
  <2> HIDE DEF D, s, at
  <2> QED BY <2>1, <2>3, <2>4, InnerPiece
<1> HIDE DEF s, at
<1>12. Len(s) = M /\ s \in Seq(AnyNode)
  <2>1. s = [j \in 1 .. M |-> s[j]]
    BY <1>5 DEF s, InnerPieces
  <2>2. s \in [1 .. M -> AnyNode]
    BY <2>1, <1>11 DEF IsPiece
  <2> QED BY <2>2, <1>5, SMTT(20)
<1>13. seps \in Seq(Nat) /\ Len(seps) = M - 1
  <2>1. ASSUME NEW j \in 1 .. (M - 1) PROVE n.pivots[at(j + 1)] \in Nat
    <3>1. 1 \in 1 .. (M + 1) /\ j + 1 \in 1 .. (M + 1) /\ M + 1 \in 1 .. (M + 1) /\ 1 < j + 1 /\ j + 1 < M + 1
      BY <1>5
    <3>2. at(1) < at(j + 1) /\ at(j + 1) < at(M + 1) /\ at(j + 1) \in 0 .. N
      BY <3>1, <1>6
    <3> QED BY <3>2, <1>2, <1>7
  <2>2. seps \in [1 .. (M - 1) -> Nat] /\ M - 1 \in Nat
    BY <2>1, <1>5, SMT DEF InnerSeparators, at
  <2> HIDE DEF seps
  <2> QED BY <2>2, SMTT(20)
<1>14. ASSUME NEW x \in Children(n) PROVE \E j \in 1 .. M : x \in Children(s[j])
  <2>1. PICK y \in 1 .. N : x = c[y]
    BY <1>9
  <2> DEFINE S == {j \in 1 .. M : at(j) < y}
  <2>2. S \in SUBSET (1 .. M) /\ S # {}
    <3>1. 1 \in 1 .. M
      BY <1>5
    <3>2. 1 \in S
      BY <3>1, <1>7
    <3> QED BY <3>2
  <2> DEFINE j == Max(S)
  <2>3. j \in S /\ \A i \in S : j >= i
    <3> HIDE DEF S
    <3> QED BY <2>2, <1>5, Greatest
  <2> HIDE DEF j
  <2>4. j \in 1 .. M /\ at(j) < y /\ at(j) \in Nat /\ at(j + 1) \in Nat
    BY <2>3, <1>11
  <2>5. y <= at(j + 1)
    <3>1. CASE j = M
      BY <3>1, <1>7
    <3>2. CASE j # M
      <4>1. j + 1 \in 1 .. M /\ ~(j >= j + 1)
        BY <3>2, <2>4, <1>5
      <4>2. ~(at(j + 1) < y)
        BY <4>1, <2>3
      <4> QED BY <4>2, <2>4
    <3> QED BY <3>1, <3>2
  <2>6. y \in (at(j) + 1) .. at(j + 1)
    BY <2>4, <2>5
  <2> QED BY <2>1, <2>4, <2>6, <1>11
<1>15. ASSUME NEW j \in 1 .. M, NEW k \in 1 .. M, Children(s[j]) \cap Children(s[k]) # {}
       PROVE  j = k
  <2>1. PICK x : x \in Children(s[j]) /\ x \in Children(s[k])
    BY <1>15
  <2>2. PICK y \in (at(j) + 1) .. at(j + 1) : x = c[y]
    BY <2>1, <1>11
  <2>3. PICK z \in (at(k) + 1) .. at(k + 1) : x = c[z]
    BY <2>1, <1>11
  <2>4. y \in 1 .. N /\ z \in 1 .. N
    <3>1. \A i \in 1 .. M : at(i) \in Nat /\ at(i + 1) \in Nat /\ at(i + 1) <= N
      BY <1>11, <1>2
    <3>2. at(j) \in Nat /\ at(j + 1) <= N /\ at(k) \in Nat /\ at(k + 1) <= N
          /\ at(j + 1) \in Nat /\ at(k + 1) \in Nat
      BY <3>1
    <3> QED BY <3>2, <1>2, SMTT(30)
  <2>5. y = z
    BY <2>2, <2>3, <2>4, <1>8
  <2>6. ASSUME NEW a \in 1 .. M, NEW b \in 1 .. M, a < b PROVE at(a + 1) <= at(b)
    <3>1. a + 1 \in 1 .. (M + 1) /\ b \in 1 .. (M + 1) /\ (a + 1 = b \/ a + 1 < b)
      BY <2>6, <1>5, SMTT(30)
    <3>2. a + 1 < b => at(a + 1) < at(b)
      BY <3>1, <1>6
    <3>3. at(a + 1) \in Nat /\ at(b) \in Nat
      BY <1>11
    <3>4. CASE a + 1 = b
      <4>1. at(a + 1) = at(b)
        BY <3>4
      <4> QED BY <4>1, <3>3
    <3>5. CASE a + 1 < b
      BY <3>2, <3>3, <3>5, SMT
    <3> QED BY <3>1, <3>4, <3>5
  <2>7. ~(j < k)
    BY <2>2, <2>3, <2>5, <2>6, <1>11, SMT
  <2>8. ~(k < j)
    BY <2>2, <2>3, <2>5, <2>6, <1>11, SMT
  <2> QED BY <2>7, <2>8
<1> HIDE DEF seps
<1>16. CutsUp(n, s, seps)
  BY <1>5, <1>11, <1>12, <1>13, <1>14, <1>15 DEF CutsUp
<1> QED BY <1>16 DEF s, seps

(* What integrate_splits does to the parent with one piece.                *)
LEMMA PromoteAdds ==
    ASSUME NEW n \in InnerNode, Branches(n), NEW s \in Nat, NEW q \in Nat, q \notin Children(n)
    PROVE  LET m == Promote(n, <<s, q>>)
           IN m \in InnerNode /\ Branches(m) /\ m.dirty /\ Children(m) = Children(n) \cup {q}
<1> DEFINE p == n.pivots
           c == n.children
           pos == 1 + Cardinality({i \in DOMAIN p : p[i] < s})
           m == Promote(n, <<s, q>>)
           p2 == InsertAt(p, pos, s)
           c2 == InsertAt(c, pos + 1, q)
<1>1. p \in Seq(Nat) /\ c \in Seq(Nat) /\ ~n.leaf
  BY DEF InnerNode
<1>2. Len(p) \in Nat /\ Len(c) = Len(p) + 1 /\ DOMAIN p = 1 .. Len(p) /\ DOMAIN c = 1 .. Len(c)
  BY <1>1, SMTT(20) DEF Branches
<1>3. pos \in 1 .. (Len(p) + 1)
  <2> DEFINE A == {i \in DOMAIN p : p[i] < s}
  <2>1. A \in SUBSET (1 .. Len(p)) /\ IsFiniteSet(1 .. Len(p)) /\ Cardinality(1 .. Len(p)) = Len(p)
    <3>1. 1 \in Int /\ Len(p) \in Int /\ (1 > Len(p) => Len(p) = 0) /\ Len(p) - 1 + 1 = Len(p)
      BY <1>2
    <3>2. IsFiniteSet(1 .. Len(p)) /\ Cardinality(1 .. Len(p)) = Len(p)
      BY <3>1, FS_Interval
    <3> QED BY <3>2, <1>2
  <2>2. IsFiniteSet(A) /\ Cardinality(A) <= Len(p)
    <3> HIDE DEF A
    <3> QED BY <2>1, FS_Subset
  <2>3. Cardinality(A) \in Nat
    <3> HIDE DEF A
    <3> QED BY <2>2, FS_CardinalityType
  <2> HIDE DEF A
  <2>4. pos = 1 + Cardinality(A)
    BY DEF A
  <2> HIDE DEF pos
  <2> QED BY <2>2, <2>3, <2>4, <1>2
<1> HIDE DEF pos
<1>4. Inserted(Nat, p, pos, s, p2)
  <2> HIDE DEF p
  <2> QED BY <1>1, <1>3, InsertAtFacts
<1>5. pos + 1 \in 1 .. (Len(c) + 1)
  BY <1>2, <1>3
<1>6. Inserted(Nat, c, pos + 1, q, c2)
  <2> DEFINE k == pos + 1
  <2>1. k \in 1 .. (Len(c) + 1)
    BY <1>5
  <2> HIDE DEF c, k
  <2>2. Inserted(Nat, c, k, q, InsertAt(c, k, q))
    BY <2>1, <1>1, InsertAtFacts
  <2> QED BY <2>2 DEF k
<1>7. m = [n EXCEPT !.pivots = p2, !.children = c2, !.dirty = TRUE]
  BY DEF Promote, pos
<1> HIDE DEF m, p2, c2
<1>8. /\ p2 \in Seq(Nat) /\ Len(p2) = Len(p) + 1 /\ c2 \in Seq(Nat) /\ Len(c2) = Len(c) + 1
      /\ \A j \in 1 .. (Len(c) + 1) :
            c2[j] = IF j < pos + 1 THEN c[j] ELSE IF j = pos + 1 THEN q ELSE c[j - 1]
  BY <1>4, <1>6 DEF Inserted
<1>9. m \in InnerNode /\ ~m.leaf /\ m.pivots = p2 /\ m.children = c2 /\ m.dirty
  BY <1>7, <1>8 DEF InnerNode
<1>10. DOMAIN c2 = 1 .. (Len(c) + 1) /\ Len(c) \in Nat /\ pos \in Nat
  BY <1>2, <1>3, <1>8, SMT
<1>11. \A i, j \in 1 .. Len(c) : c[i] = c[j] => i = j
  BY <1>1, <1>2 DEF Branches, IsInjective
<1>12. Children(n) = {c[j] : j \in 1 .. Len(c)}
  BY <1>1, <1>2 DEF Children, Range
<1>13. Children(m) = {c2[j] : j \in 1 .. (Len(c) + 1)}
  BY <1>9, <1>10 DEF Children, Range
<1> HIDE DEF c
<1> DEFINE old(j) == IF j < pos + 1 THEN j ELSE j - 1
<1>14. ASSUME NEW j \in 1 .. (Len(c) + 1), j # pos + 1
       PROVE  c2[j] = c[old(j)] /\ old(j) \in 1 .. Len(c)
  <2>1. CASE j < pos + 1
    <3>1. j \in 1 .. Len(c)
      BY <2>1, <1>2, <1>3, <1>10, SMT
    <3>2. c2[j] = c[j]
      BY <2>1, <1>8, Zenon
    <3> QED BY <2>1, <3>1, <3>2, Zenon
  <2>2. CASE ~(j < pos + 1)
    BY <2>2, <1>3, <1>8, <1>10, <1>14
  <2> QED BY <2>1, <2>2
<1>15. c2[pos + 1] = q
  BY <1>5, <1>8, <1>10
<1>16. \A j \in 1 .. Len(c) : c[j] # q
  BY <1>12
<1>17. IsInjective(c2)
  <2>1. ASSUME NEW i \in 1 .. (Len(c) + 1), NEW j \in 1 .. (Len(c) + 1), c2[i] = c2[j] PROVE i = j
    <3>1. CASE i = pos + 1 \/ j = pos + 1
      BY <3>1, <2>1, <1>14, <1>15, <1>16
    <3>2. CASE i # pos + 1 /\ j # pos + 1
      <4>1. old(i) = old(j)
        <5> HIDE DEF old
        <5> QED BY <3>2, <2>1, <1>11, <1>14
      <4> QED BY <4>1, <3>2, <1>10
    <3> QED BY <3>1, <3>2
  <2> QED BY <2>1, <1>10, Zenon DEF IsInjective
<1>18. Children(m) = Children(n) \cup {q}
  <2>1. ASSUME NEW z \in Children(m) PROVE z \in Children(n) \cup {q}
    <3>1. PICK j \in 1 .. (Len(c) + 1) : z = c2[j]
      BY <1>13
    <3>2. CASE j = pos + 1
      BY <3>1, <3>2, <1>15
    <3>3. CASE j # pos + 1
      <4> HIDE DEF old
      <4> QED BY <3>1, <3>3, <1>12, <1>14
    <3> QED BY <3>2, <3>3
  <2>2. q \in Children(m)
    BY <1>5, <1>13, <1>15
  <2>3. ASSUME NEW z \in Children(n) PROVE z \in Children(m)
    <3>1. PICK j \in 1 .. Len(c) : z = c[j]
      BY <1>12
    <3>2. CASE j < pos + 1
      <4>1. j \in 1 .. (Len(c) + 1) /\ c2[j] = c[j]
        BY <3>2, <1>8, <1>10, SMTT(30)
      <4> QED BY <4>1, <3>1, <1>13
    <3>3. CASE ~(j < pos + 1)
      <4>1. j + 1 \in 1 .. (Len(c) + 1) /\ ~(j + 1 < pos + 1) /\ j + 1 # pos + 1 /\ (j + 1) - 1 = j
        BY <3>3, <1>10
      <4>2. c2[j + 1] = c[(j + 1) - 1]
        BY <4>1, <1>8
      <4> QED BY <4>1, <4>2, <3>1, <1>13
    <3> QED BY <3>2, <3>3
  <2> QED BY <2>1, <2>2, <2>3
<1>19. Branches(m)
  BY <1>2, <1>8, <1>9, <1>17 DEF Branches, c
<1> QED BY <1>9, <1>18, <1>19 DEF m

(* And with all of them.                                                   *)
Promotes(promoted, seps, N, M) ==
    /\ Len(promoted) = M /\ seps \in Seq(Nat) /\ Len(seps) = M
    /\ \A j \in 1 .. M : promoted[j] = <<seps[j], N + j>>

Gains(ns, P, New, ns2) ==
    \E m \in InnerNode : /\ Branches(m) /\ m.dirty /\ Children(m) = Children(ns[P]) \cup New
                         /\ ns2 = [ns EXCEPT ![P] = m]

LEMMA MergeAdds ==
    ASSUME NEW ns, NEW P, ns[P] \in InnerNode, Branches(ns[P]), NEW N \in Nat, NEW M \in Nat, M >= 1,
           Children(ns[P]) \subseteq 1 .. N,
           NEW promoted, NEW seps, Promotes(promoted, seps, N, M)
    PROVE  Gains(ns, P, (N + 1) .. (N + M), integrate_splits(ns, P, promoted))
<1>7. /\ Len(promoted) = M /\ seps \in Seq(Nat) /\ Len(seps) = M
      /\ \A j \in 1 .. M : promoted[j] = <<seps[j], N + j>>
  BY DEF Promotes
<1>8. \A j \in 1 .. M : seps[j] \in Nat
  BY <1>7, SMTT(30)
<1>1. PICK f : MergedAs(ns, P, promoted, M, f)
  BY <1>7, MergeLoop
<1>2. /\ f[0] = ns[P]
      /\ \A i \in 1 .. M : f[i] = Promote(f[i - 1], promoted[i])
      /\ integrate_splits(ns, P, promoted) = [ns EXCEPT ![P] = f[M]]
  BY <1>1 DEF MergedAs
<1> DEFINE K == Children(ns[P])
           Good(i) == /\ f[i] \in InnerNode /\ Branches(f[i]) /\ (i > 0 => f[i].dirty)
                      /\ Children(f[i]) = K \cup ((N + 1) .. (N + i))
           S == {i \in 0 .. M : Good(i)}
<1>3. 0 \in S
  <2>1. (N + 1) .. (N + 0) = {} /\ 0 \in 0 .. M
    OBVIOUS
  <2>2. Good(0)
    BY <1>2, <2>1
  <2> QED BY <2>1, <2>2
<1>4. ASSUME NEW i \in 0 .. M - 1, i \in S PROVE i + 1 \in S
  <2>1. i + 1 \in 1 .. M /\ (i + 1) - 1 = i /\ i + 1 \in 0 .. M
    OBVIOUS
  <2>2. f[i + 1] = Promote(f[i], <<seps[i + 1], N + (i + 1)>>)
    <3>1. f[i + 1] = Promote(f[(i + 1) - 1], promoted[i + 1])
      BY <2>1, <1>2
    <3>2. promoted[i + 1] = <<seps[i + 1], N + (i + 1)>>
      BY <2>1, <1>7
    <3> QED BY <3>1, <3>2, <2>1
  <2>3. Good(i)
    BY <1>4
  <2>4. seps[i + 1] \in Nat /\ N + (i + 1) \in Nat
    <3>1. seps[i + 1] \in Nat
      BY <2>1, <1>8, Zenon
    <3>2. \A j \in 1 .. M : N + j \in Nat
      BY SMTT(30)
    <3> QED BY <3>1, <3>2, <2>1, Zenon
  <2>5. N + (i + 1) \notin Children(f[i])
    BY <2>3
  <2> DEFINE m == Promote(f[i], <<seps[i + 1], N + (i + 1)>>)
  <2>6. m \in InnerNode /\ Branches(m) /\ m.dirty /\ Children(m) = Children(f[i]) \cup {N + (i + 1)}
    BY <2>3, <2>4, <2>5, PromoteAdds
  <2>7. (N + 1) .. (N + (i + 1)) = ((N + 1) .. (N + i)) \cup {N + (i + 1)}
    OBVIOUS
  <2>8. Children(f[i + 1]) = K \cup ((N + 1) .. (N + (i + 1)))
    <3> HIDE DEF m, K
    <3>1. Children(f[i]) = K \cup ((N + 1) .. (N + i))
      BY <2>3
    <3>2. Children(f[i + 1]) = Children(f[i]) \cup {N + (i + 1)}
      BY <2>2, <2>6 DEF m
    <3> QED BY <3>1, <3>2, <2>7
  <2>9. Good(i + 1)
    BY <2>2, <2>6, <2>8
  <2> HIDE DEF Good
  <2> QED BY <2>1, <2>9
<1>5. \A i \in 0 .. M : i \in S
  <2> HIDE DEF S
  <2> QED BY <1>3, <1>4, BoundedInduction
<1>6. Good(M) /\ M > 0
  BY <1>5
<1> QED BY <1>2, <1>6 DEF Gains

-----------------------------------------------------------------------------
(* Sequences in which parents come before their children                   *)

(* After each element of s come those that belong to it.                   *)
Followed(kids, s) ==
    \A i \in 1 .. Len(s) : \A c \in kids[s[i]] : \E k \in 1 .. Len(s) : i < k /\ s[k] = c

LEMMA ConcatFollowed ==
    ASSUME NEW T, NEW kids, NEW a \in Seq(T), NEW b \in Seq(T), Followed(kids, a), Followed(kids, b)
    PROVE  Followed(kids, a \o b)
<1> DEFINE A == Len(a)
           B == Len(b)
           s == a \o b
<1>1. A \in Nat /\ B \in Nat
  OBVIOUS
<1>2. /\ s \in Seq(T) /\ Len(s) = A + B
      /\ \A i \in 1 .. A + B : s[i] = IF i <= A THEN a[i] ELSE b[i - A]
  BY ConcatProperties, Zenon
<1> HIDE DEF s, A, B
<1>3. \A i \in 1 .. A : i \in 1 .. (A + B) /\ s[i] = a[i]
  BY <1>1, <1>2
<1>4. ASSUME NEW i \in 1 .. B PROVE A + i \in 1 .. (A + B) /\ s[A + i] = b[i]
  <2>1. A + i \in 1 .. (A + B) /\ ~(A + i <= A) /\ (A + i) - A = i
    BY <1>1
  <2>2. s[A + i] = b[(A + i) - A]
    BY <2>1, <1>2
  <2> QED BY <2>1, <2>2
<1> SUFFICES ASSUME NEW i \in 1 .. (A + B), NEW c \in kids[s[i]]
             PROVE  \E k \in 1 .. (A + B) : i < k /\ s[k] = c
  BY <1>2, ZenonT(30) DEF Followed, s
<1>5. CASE i <= A
  <2>1. i \in 1 .. A /\ s[i] = a[i]
    BY <1>5, <1>1, <1>3
  <2>2. PICK k \in 1 .. A : i < k /\ a[k] = c
    BY <2>1 DEF Followed, A
  <2> QED BY <2>2, <1>3
<1>6. CASE ~(i <= A)
  <2>1. i - A \in 1 .. B /\ A + (i - A) = i
    BY <1>6, <1>1
  <2>2. s[i] = b[i - A]
    BY <2>1, <1>4
  <2>3. PICK k \in 1 .. B : i - A < k /\ b[k] = c
    BY <2>1, <2>2 DEF Followed, B
  <2>4. i < A + k
    BY <2>3, <1>1
  <2> QED BY <2>3, <2>4, <1>4
<1> QED BY <1>5, <1>6

LEMMA FlattenFollowed ==
    ASSUME NEW T, NEW kids, NEW s \in Seq(Seq(T)), \A n \in 1 .. Len(s) : Followed(kids, s[n])
    PROVE  Followed(kids, FlattenSeq(s))
<1>1. Len(s) \in Nat /\ \A n \in 1 .. Len(s) : s[n] \in Seq(T)
  OBVIOUS
<1>2. CASE Len(s) = 0
  <2>1. s = <<>>
    BY <1>2
  <2>2. FlattenSeq(s) = <<>>
    BY <2>1, <1>2 DEF FlattenSeq
  <2> QED BY <2>2 DEF Followed
<1>3. CASE Len(s) # 0
  <2>1. PICK fl : Flattens(s, T, fl)
    BY <1>3, FlattenIs
  <2>2. /\ fl \in [1 .. Len(s) -> Seq(T)] /\ FlattenSeq(s) = fl[Len(s)]
        /\ \A n \in 1 .. Len(s) : fl[n] = IF n = 1 THEN s[n] ELSE fl[n - 1] \o s[n]
    BY <2>1 DEF Flattens
  <2> DEFINE N == Len(s) - 1
             S == {n \in 0 .. N : Followed(kids, fl[n + 1])}
  <2>3. N \in Nat /\ N + 1 = Len(s)
    BY <1>1, <1>3
  <2>4. 0 \in S
    <3>1. 1 \in 1 .. Len(s) /\ 0 \in 0 .. N /\ 0 + 1 = 1
      BY <2>3
    <3>2. fl[1] = s[1]
      BY <3>1, <2>2
    <3> QED BY <3>1, <3>2
  <2>5. ASSUME NEW n \in 0 .. N - 1, n \in S PROVE n + 1 \in S
    <3> DEFINE q == n + 2
    <3>1. /\ q \in 1 .. Len(s) /\ q # 1 /\ q - 1 = n + 1 /\ n + 1 \in 1 .. Len(s) /\ n + 1 \in 0 .. N
          /\ (n + 1) + 1 = q
      BY <2>3
    <3> HIDE DEF q
    <3>2. fl[q] = fl[n + 1] \o s[q] /\ fl[n + 1] \in Seq(T) /\ s[q] \in Seq(T)
      BY <3>1, <2>2, <1>1
    <3>3. Followed(kids, fl[n + 1]) /\ Followed(kids, s[q])
      BY <2>5, <3>1
    <3>4. Followed(kids, fl[q])
      BY <3>2, <3>3, ConcatFollowed
    <3> QED BY <3>1, <3>4
  <2>6. \A n \in 0 .. N : n \in S
    <3> HIDE DEF S, N
    <3> QED BY <2>3, <2>4, <2>5, BoundedInduction
  <2>7. N \in S
    <3>1. N \in 0 .. N
      BY <2>3
    <3> HIDE DEF S, N
    <3> QED BY <2>6, <3>1
  <2> QED BY <2>2, <2>3, <2>7
<1> QED BY <1>2, <1>3

LEMMA Reversed ==
    ASSUME NEW S, NEW s \in Seq(S)
    PROVE  /\ Reverse(s) \in Seq(S) /\ Len(Reverse(s)) = Len(s)
           /\ \A i \in 1 .. Len(s) : /\ Len(s) - i + 1 \in 1 .. Len(s)
                                     /\ Reverse(s)[i] = s[Len(s) - i + 1]
                                     /\ Reverse(s)[Len(s) - i + 1] = s[i]
           /\ {Reverse(s)[i] : i \in 1 .. Len(s)} = {s[i] : i \in 1 .. Len(s)}
<1> DEFINE N == Len(s)
           t == [i \in 1 .. N |-> s[(N - i) + 1]]
<1>1. N \in Nat /\ \A i \in 1 .. N : s[i] \in S
  OBVIOUS
<1>2. \A i \in 1 .. N : N - i + 1 \in 1 .. N /\ N - (N - i + 1) + 1 = i
  BY <1>1
<1>3. Reverse(s) = t
  BY DEF Reverse
<1> HIDE DEF N
<1>4. t \in [1 .. N -> S]
  BY <1>1, <1>2
<1>5. \A i \in 1 .. N : t[i] = s[N - i + 1]
  OBVIOUS
<1> HIDE DEF t
<1>6. t \in Seq(S) /\ Len(t) = N
  BY <1>1, <1>4
<1>7. \A i \in 1 .. N : t[N - i + 1] = s[i]
  <2> TAKE i \in 1 .. N
  <2>1. N - i + 1 \in 1 .. N /\ N - (N - i + 1) + 1 = i
    BY <1>2
  <2>2. t[N - i + 1] = s[N - (N - i + 1) + 1]
    BY <2>1, <1>5
  <2> QED BY <2>1, <2>2
<1>8. {t[i] : i \in 1 .. N} = {s[i] : i \in 1 .. N}
  <2>1. ASSUME NEW x \in {t[i] : i \in 1 .. N} PROVE x \in {s[i] : i \in 1 .. N}
    BY <1>2, <1>5
  <2>2. ASSUME NEW x \in {s[i] : i \in 1 .. N} PROVE x \in {t[i] : i \in 1 .. N}
    <3>1. PICK i \in 1 .. N : x = s[i]
      OBVIOUS
    <3>2. x = t[N - i + 1] /\ N - i + 1 \in 1 .. N
      BY <3>1, <1>2, <1>7
    <3> QED BY <3>2
  <2> QED BY <2>1, <2>2
<1> QED BY <1>2, <1>3, <1>5, <1>6, <1>7, <1>8 DEF N

LEMMA FollowedFrom ==
    ASSUME NEW T, NEW kids, NEW a \in T, NEW s \in Seq(T), Followed(kids, s),
           \A c \in kids[a] : \E k \in 1 .. Len(s) : s[k] = c
    PROVE  Followed(kids, <<a>> \o s)
<1> DEFINE N == Len(s)
           t == <<a>> \o s
<1>1. N \in Nat
  OBVIOUS
<1>2. t \in Seq(T) /\ Len(t) = N + 1 /\ t[1] = a /\ \A k \in 1 .. N : t[k + 1] = s[k]
  OBVIOUS
<1> SUFFICES Followed(kids, t)
  OBVIOUS
<1> HIDE DEF t
<1> SUFFICES ASSUME NEW i \in 1 .. N + 1, NEW c \in kids[t[i]]
             PROVE  \E k \in 1 .. N + 1 : i < k /\ t[k] = c
  BY <1>2 DEF Followed
<1>3. CASE i = 1
  <2>1. PICK k \in 1 .. N : s[k] = c
    BY <1>2, <1>3
  <2>2. k + 1 \in 1 .. N + 1 /\ i < k + 1 /\ t[k + 1] = c
    BY <2>1, <1>1, <1>2, <1>3
  <2> QED BY <2>2
<1>4. CASE i # 1
  <2>1. i - 1 \in 1 .. N /\ (i - 1) + 1 = i
    BY <1>1, <1>4
  <2>2. t[i] = s[i - 1]
    BY <2>1, <1>2
  <2>3. PICK k \in 1 .. N : i - 1 < k /\ s[k] = c
    BY <2>1, <2>2 DEF Followed
  <2>4. k + 1 \in 1 .. N + 1 /\ i < k + 1 /\ t[k + 1] = c
    BY <2>3, <1>1, <1>2
  <2> QED BY <2>4
<1> QED BY <1>3, <1>4
=============================================================================
