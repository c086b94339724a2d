----------------------------- MODULE TraceProofs ----------------------------
(***************************************************************************)
(* Theorems about recording and replay (module Trace): the traces that an  *)
(* engine records stand for its state, after every sequence of calls.      *)
(***************************************************************************)
EXTENDS Trace, WellFoundedInduction, TLAPS

-----------------------------------------------------------------------------
(* Induction over the natural numbers, for sets of them                    *)

(* A set of natural numbers that is not empty has a least element.         *)
LEMMA Least ==
    ASSUME NEW T, T \subseteq Nat, T # {}
    PROVE  \E x \in T : \A y \in T : x <= y
<1>1. IsWellFoundedOn(OpToRel(<, Nat), Nat)
  BY NatLessThanWellFounded, Zenon
<1>2. PICK x \in T : \A y \in T : ~ (<<y, x>> \in OpToRel(<, Nat))
  BY <1>1, WFMin, Zenon
<1>3. \A y \in T : ~(y < x)
  BY <1>2, Zenon DEF OpToRel
<1> QED BY <1>3

(* A set that has 0 and is closed under successor has every number.        *)
LEMMA SetInduction ==
    ASSUME NEW S, 0 \in S, \A n \in Nat : n \in S => n + 1 \in S
    PROVE  \A n \in Nat : n \in S
<1> SUFFICES ASSUME Nat \ S # {} PROVE FALSE
  OBVIOUS
<1>1. PICK x \in Nat \ S : \A y \in Nat \ S : x <= y
  BY Least
<1>2. x # 0 /\ x - 1 \in Nat /\ x - 1 \notin Nat \ S
  BY <1>1
<1> QED BY <1>2

(* The same up to a bound.                                                 *)
LEMMA BoundedInduction ==
    ASSUME NEW N \in Nat, NEW S, 0 \in S, \A n \in 0 .. N - 1 : n \in S => n + 1 \in S
    PROVE  \A n \in 0 .. N : n \in S
<1> DEFINE T == {n \in Nat : n <= N => n \in S}
<1>1. \A n \in Nat : n \in T => n + 1 \in T
  OBVIOUS
<1>2. 0 \in T
  OBVIOUS
<1>3. \A n \in Nat : n \in T
  <2> HIDE DEF T
  <2> QED BY <1>1, <1>2, SetInduction
<1> QED BY <1>3

-----------------------------------------------------------------------------
(* Values                                                                  *)

(* wrapping_add stays in the numbers and may be regrouped.                 *)
LEMMA WrappingAdd ==
    ASSUME NEW a \in Numbers, NEW b \in Numbers, NEW c \in Numbers
    PROVE  /\ wrapping_add(a, b) \in Numbers
           /\ wrapping_add(a, 0) = a /\ wrapping_add(0, a) = a
           /\ wrapping_add(wrapping_add(a, b), c) = wrapping_add(a, wrapping_add(b, c))
  BY ModulusAssumption DEF Numbers, wrapping_add

(* UpsertOp::apply always leaves a number, so that a second upsert finds   *)
(* its base there.                                                         *)
LEMMA ApplyTwice ==
    ASSUME NEW d \in Numbers, NEW e \in Numbers, NEW v \in MaybeValues
    PROVE  /\ apply(d, v) \in Numbers
           /\ apply(e, apply(d, v)) = apply(wrapping_add(d, e), v)
  <1> DEFINE base == IF v \in Numbers THEN v ELSE 0
  <1>1. base \in Numbers
    BY ModulusAssumption DEF Numbers
  <1>2. apply(d, v) = wrapping_add(base, d) /\ apply(d, v) \in Numbers
    BY <1>1, WrappingAdd DEF apply
  <1>3. wrapping_add(d, e) \in Numbers
    BY WrappingAdd
  <1>4. apply(e, apply(d, v)) = wrapping_add(wrapping_add(base, d), e)
    BY <1>2 DEF apply
  <1>5. apply(wrapping_add(d, e), v) = wrapping_add(base, wrapping_add(d, e))
    BY DEF apply
  <1> QED
    BY <1>1, <1>2, <1>4, <1>5, WrappingAdd, ZenonT(40)

-----------------------------------------------------------------------------
(* What the loops compute                                                  *)

(* The loop of replay and replay2 has a value after every event.           *)
LEMMA RebuiltLoop ==
    ASSUME NEW E, NEW s \in Seq(E)
    PROVE  \E f : /\ f[0] = New
                  /\ \A i \in 1 .. Len(s) : f[i] = Replayed(f[i - 1], s[i])
                  /\ Rebuilt(s) = f[Len(s)]
<1> DEFINE Meets(f, n) == f[0] = New /\ \A i \in 1 .. n : f[i] = Replayed(f[i - 1], s[i])
           S == {n \in Nat : \E f : Meets(f, n)}
           G(f) == [i \in 0 .. Len(s) |-> IF i = 0 THEN New ELSE Replayed(f[i - 1], s[i])]
<1>0. Len(s) \in Nat
  OBVIOUS
<1>1. 0 \in S
  <2>1. Meets([i \in 0 .. 0 |-> New], 0)
    OBVIOUS
  <2> QED BY <2>1, Zenon
<1>2. ASSUME NEW n \in Nat, n \in S PROVE n + 1 \in S
  <2>1. PICK f : Meets(f, n)
    BY <1>2
  <2> DEFINE g == [i \in 0 .. n + 1 |-> IF i = n + 1 THEN Replayed(f[n], s[n + 1]) ELSE f[i]]
  <2>2. \A i \in 0 .. n : g[i] = f[i]
    OBVIOUS
  <2>3. g[n + 1] = Replayed(f[n], s[n + 1])
    OBVIOUS
  <2> HIDE DEF g
  <2>4. g[0] = New
    BY <2>1, <2>2
  <2>5. ASSUME NEW i \in 1 .. n + 1 PROVE g[i] = Replayed(g[i - 1], s[i])
    <3>1. CASE i = n + 1
      <4>1. i - 1 = n /\ n \in 0 .. n
        BY <3>1
      <4> QED BY <3>1, <4>1, <2>2, <2>3
    <3>2. CASE i # n + 1
      <4>1. i \in 1 .. n /\ i \in 0 .. n /\ i - 1 \in 0 .. n
        BY <3>2
      <4>2. g[i] = f[i] /\ g[i - 1] = f[i - 1] /\ f[i] = Replayed(f[i - 1], s[i])
        BY <4>1, <2>1, <2>2
      <4> QED BY <4>2
    <3> QED BY <3>1, <3>2
  <2>6. Meets(g, n + 1) /\ n + 1 \in Nat
    BY <2>4, <2>5
  <2> QED BY <2>6, Zenon
<1>3. Len(s) \in S
  <2> HIDE DEF S
  <2> QED BY <1>0, <1>1, <1>2, SetInduction
<1>4. PICK f : Meets(f, Len(s))
  BY <1>3
<1> DEFINE r == [i \in 0 .. Len(s) |-> f[i]]
<1>5. r = G(r)
  <2>1. ASSUME NEW i \in 0 .. Len(s)
        PROVE  f[i] = IF i = 0 THEN New ELSE Replayed(r[i - 1], s[i])
    <3>1. CASE i = 0
      BY <1>4, <3>1
    <3>2. CASE i # 0
      <4>1. i \in 1 .. Len(s) /\ i - 1 \in 0 .. Len(s)
        BY <1>0, <3>2
      <4>2. r[i - 1] = f[i - 1] /\ f[i] = Replayed(f[i - 1], s[i])
        BY <1>4, <4>1
      <4> HIDE DEF r
      <4> QED BY <3>2, <4>2
    <3> QED BY <3>1, <3>2
  <2> QED BY <2>1, Zenon
<1> DEFINE h == CHOOSE g : g = G(g)
<1>6. h = G(h)
  <2> HIDE DEF G, r
  <2> QED BY <1>5, Zenon
<1>7. Rebuilt(s) = h[Len(s)]
  BY Zenon DEF Rebuilt
<1> HIDE DEF h
<1>8. \A i \in 0 .. Len(s) : h[i] = IF i = 0 THEN New ELSE Replayed(h[i - 1], s[i])
  BY <1>6, Zenon
<1>9. h[0] = New
  BY <1>8, <1>0
<1>10. ASSUME NEW i \in 1 .. Len(s) PROVE h[i] = Replayed(h[i - 1], s[i])
  <2>1. i \in 0 .. Len(s) /\ i # 0
    BY <1>0
  <2> QED BY <2>1, <1>8, Zenon
<1> QED BY <1>7, <1>9, <1>10, Zenon

(* So has the one that collects the ops of a trace.                        *)
LEMMA OpsLoop ==
    ASSUME NEW E, NEW s \in Seq(E)
    PROVE  \E f : /\ f[0] = <<>>
                  /\ \A i \in 1 .. Len(s) : f[i] = (IF IsOp(s[i]) THEN Append(f[i - 1], s[i]) ELSE f[i - 1])
                  /\ OpsOf(s) = f[Len(s)]
<1> DEFINE Meets(f, n) == f[0] = <<>> /\ \A i \in 1 .. n : f[i] = (IF IsOp(s[i]) THEN Append(f[i - 1], s[i]) ELSE f[i - 1])
           S == {n \in Nat : \E f : Meets(f, n)}
           G(f) == [i \in 0 .. Len(s) |-> IF i = 0 THEN <<>> ELSE (IF IsOp(s[i]) THEN Append(f[i - 1], s[i]) ELSE f[i - 1])]
<1>0. Len(s) \in Nat
  OBVIOUS
<1>1. 0 \in S
  <2>1. Meets([i \in 0 .. 0 |-> <<>>], 0)
    OBVIOUS
  <2> QED BY <2>1, Zenon
<1>2. ASSUME NEW n \in Nat, n \in S PROVE n + 1 \in S
  <2>1. PICK f : Meets(f, n)
    BY <1>2
  <2> DEFINE g == [i \in 0 .. n + 1 |-> IF i = n + 1 THEN (IF IsOp(s[n + 1]) THEN Append(f[n], s[n + 1]) ELSE f[n]) ELSE f[i]]
  <2>2. \A i \in 0 .. n : g[i] = f[i]
    OBVIOUS
  <2>3. g[n + 1] = (IF IsOp(s[n + 1]) THEN Append(f[n], s[n + 1]) ELSE f[n])
    OBVIOUS
  <2> HIDE DEF g
  <2>4. g[0] = <<>>
    BY <2>1, <2>2
  <2>5. ASSUME NEW i \in 1 .. n + 1 PROVE g[i] = (IF IsOp(s[i]) THEN Append(g[i - 1], s[i]) ELSE g[i - 1])
    <3>1. CASE i = n + 1
      <4>1. i - 1 = n /\ n \in 0 .. n
        BY <3>1
      <4> QED BY <3>1, <4>1, <2>2, <2>3
    <3>2. CASE i # n + 1
      <4>1. i \in 1 .. n /\ i \in 0 .. n /\ i - 1 \in 0 .. n
        BY <3>2
      <4>2. g[i] = f[i] /\ g[i - 1] = f[i - 1] /\ f[i] = (IF IsOp(s[i]) THEN Append(f[i - 1], s[i]) ELSE f[i - 1])
        BY <4>1, <2>1, <2>2
      <4> QED BY <4>2
    <3> QED BY <3>1, <3>2
  <2>6. Meets(g, n + 1) /\ n + 1 \in Nat
    BY <2>4, <2>5
  <2> QED BY <2>6, Zenon
<1>3. Len(s) \in S
  <2> HIDE DEF S
  <2> QED BY <1>0, <1>1, <1>2, SetInduction
<1>4. PICK f : Meets(f, Len(s))
  BY <1>3
<1> DEFINE r == [i \in 0 .. Len(s) |-> f[i]]
<1>5. r = G(r)
  <2>1. ASSUME NEW i \in 0 .. Len(s)
        PROVE  f[i] = IF i = 0 THEN <<>> ELSE (IF IsOp(s[i]) THEN Append(r[i - 1], s[i]) ELSE r[i - 1])
    <3>1. CASE i = 0
      BY <1>4, <3>1
    <3>2. CASE i # 0
      <4>1. i \in 1 .. Len(s) /\ i - 1 \in 0 .. Len(s)
        BY <1>0, <3>2
      <4>2. r[i - 1] = f[i - 1] /\ f[i] = (IF IsOp(s[i]) THEN Append(f[i - 1], s[i]) ELSE f[i - 1])
        BY <1>4, <4>1
      <4> HIDE DEF r
      <4> QED BY <3>2, <4>2
    <3> QED BY <3>1, <3>2
  <2> QED BY <2>1, Zenon
<1> DEFINE h == CHOOSE g : g = G(g)
<1>6. h = G(h)
  <2> HIDE DEF G, r
  <2> QED BY <1>5, Zenon
<1>7. OpsOf(s) = h[Len(s)]
  BY Zenon DEF OpsOf
<1> HIDE DEF h
<1>8. \A i \in 0 .. Len(s) : h[i] = IF i = 0 THEN <<>> ELSE (IF IsOp(s[i]) THEN Append(h[i - 1], s[i]) ELSE h[i - 1])
  BY <1>6, Zenon
<1>9. h[0] = <<>>
  BY <1>8, <1>0
<1>10. ASSUME NEW i \in 1 .. Len(s) PROVE h[i] = (IF IsOp(s[i]) THEN Append(h[i - 1], s[i]) ELSE h[i - 1])
  <2>1. i \in 0 .. Len(s) /\ i # 0
    BY <1>0
  <2> QED BY <2>1, <1>8, Zenon
<1> QED BY <1>7, <1>9, <1>10, Zenon


(* A replay of one more event goes on from the replay so far.              *)
LEMMA RebuiltAppend ==
    ASSUME NEW E, NEW s \in Seq(E), NEW e \in E
    PROVE  Rebuilt(Append(s, e)) = Replayed(Rebuilt(s), e)
<1> DEFINE t == Append(s, e)
           N == Len(s)
<1>1. /\ t \in Seq(E) /\ N \in Nat /\ Len(t) = N + 1 /\ t[N + 1] = e
      /\ \A i \in 1 .. N : t[i] = s[i]
  OBVIOUS
<1> HIDE DEF t
<1>2. PICK f : /\ f[0] = New
               /\ \A i \in 1 .. Len(s) : f[i] = Replayed(f[i - 1], s[i])
               /\ Rebuilt(s) = f[Len(s)]
  BY RebuiltLoop
<1>3. PICK g : /\ g[0] = New
               /\ \A i \in 1 .. Len(t) : g[i] = Replayed(g[i - 1], t[i])
               /\ Rebuilt(t) = g[Len(t)]
  BY <1>1, RebuiltLoop
<1> DEFINE S == {n \in Nat : g[n] = f[n]}
<1>4. 0 \in S
  BY <1>2, <1>3
<1>5. ASSUME NEW n \in 0 .. N - 1, n \in S PROVE n + 1 \in S
  <2>1. n + 1 \in 1 .. N /\ n + 1 \in 1 .. Len(t) /\ n + 1 - 1 = n
    BY <1>1
  <2>2. g[n + 1] = Replayed(g[n], t[n + 1]) /\ f[n + 1] = Replayed(f[n], s[n + 1])
    BY <1>2, <1>3, <2>1
  <2>3. t[n + 1] = s[n + 1] /\ g[n] = f[n]
    BY <1>1, <1>5, <2>1
  <2> QED BY <2>2, <2>3
<1>6. g[N] = f[N]
  <2>1. \A n \in 0 .. N : n \in S
    <3> HIDE DEF S, N
    <3> QED BY <1>1, <1>4, <1>5, BoundedInduction
  <2> QED BY <1>1, <2>1
<1>7. Rebuilt(t) = Replayed(g[N], e)
  <2>1. N + 1 \in 1 .. Len(t) /\ N + 1 - 1 = N
    BY <1>1
  <2> QED BY <1>1, <1>3, <2>1
<1> QED BY <1>2, <1>6, <1>7 DEF t

(* An op is added to the ops of a trace, and nothing else is.              *)
LEMMA OpsAppend ==
    ASSUME NEW E, NEW s \in Seq(E), NEW e \in E
    PROVE  OpsOf(Append(s, e)) = IF IsOp(e) THEN Append(OpsOf(s), e) ELSE OpsOf(s)
<1> DEFINE t == Append(s, e)
           N == Len(s)
           Step(x, event) == IF IsOp(event) THEN Append(x, event) ELSE x
<1>1. /\ t \in Seq(E) /\ N \in Nat /\ Len(t) = N + 1 /\ t[N + 1] = e
      /\ \A i \in 1 .. N : t[i] = s[i]
  OBVIOUS
<1> HIDE DEF t
<1>2. PICK f : /\ f[0] = <<>>
               /\ \A i \in 1 .. Len(s) : f[i] = Step(f[i - 1], s[i])
               /\ OpsOf(s) = f[Len(s)]
  BY OpsLoop
<1>3. PICK g : /\ g[0] = <<>>
               /\ \A i \in 1 .. Len(t) : g[i] = Step(g[i - 1], t[i])
               /\ OpsOf(t) = g[Len(t)]
  BY <1>1, OpsLoop
<1> DEFINE S == {n \in Nat : g[n] = f[n]}
<1>4. 0 \in S
  BY <1>2, <1>3
<1>5. ASSUME NEW n \in 0 .. N - 1, n \in S PROVE n + 1 \in S
  <2>1. n + 1 \in 1 .. N /\ n + 1 \in 1 .. Len(t) /\ n + 1 - 1 = n
    BY <1>1
  <2>3. t[n + 1] = s[n + 1] /\ g[n] = f[n]
    BY <1>1, <1>5, <2>1
  <2> HIDE DEF Step
  <2>2. g[n + 1] = Step(g[n], t[n + 1]) /\ f[n + 1] = Step(f[n], s[n + 1])
    BY <1>2, <1>3, <2>1
  <2> QED BY <2>2, <2>3
<1>6. g[N] = f[N]
  <2>1. \A n \in 0 .. N : n \in S
    <3> HIDE DEF S, N
    <3> QED BY <1>1, <1>4, <1>5, BoundedInduction
  <2> QED BY <1>1, <2>1
<1>7. OpsOf(t) = Step(g[N], e)
  <2>1. N + 1 \in 1 .. Len(t) /\ N + 1 - 1 = N
    BY <1>1
  <2> HIDE DEF Step
  <2> QED BY <1>1, <1>3, <2>1
<1> QED BY <1>2, <1>6, <1>7 DEF t

(* Before the first event.                                                 *)
LEMMA NothingRecorded == Rebuilt(<<>>) = New /\ OpsOf(<<>>) = <<>>
<1>1. <<>> \in Seq({}) /\ Len(<<>>) = 0
  OBVIOUS
<1>2. Rebuilt(<<>>) = New
  BY <1>1, RebuiltLoop, Zenon
<1>3. OpsOf(<<>>) = <<>>
  BY <1>1, OpsLoop, Zenon
<1> QED BY <1>2, <1>3

-----------------------------------------------------------------------------
(* The inductive invariant                                                 *)

Calls == {Insert(k, v) : k \in Keys, v \in Values} \cup {DeleteOf(k) : k \in Keys}
            \cup {UpsertOf(k, d) : k \in Keys, d \in Numbers}

Events == {Op(seq, call) : seq \in Nat, call \in Calls}
             \cup [event : {"Get"}, key : Keys] \cup [event : {"Scan", "FlushDecision"}]

TypeInv ==
    /\ map \in [Keys -> MaybeValues]
    /\ next_seq \in Nat
    /\ v1 \in Seq(Events) /\ v2 \in Seq(Events)

(* The engine that the old trace replays to is one.                        *)
OldEngine == DOMAIN Rebuilt(v1).map = Keys

IndInv == TypeInv /\ ReplayFaithful /\ OldReplayFaithful /\ OldEngine


(* What a call leaves where it found v.                                    *)
Outcome(call, v) == CASE call.op = "Insert" -> call.value
                      [] call.op = "Delete" -> NoValue
                      [] call.op = "Upsert" -> apply(call.delta, v)

(* The calls are typed, and a replay of one changes its key alone.         *)
LEMMA CallTypes ==
    ASSUME NEW call \in Calls
    PROVE  /\ call.key \in Keys
           /\ call.op \in {"Insert", "Delete", "Upsert"}
           /\ \A v \in MaybeValues : Outcome(call, v) \in MaybeValues
<1>1. ASSUME NEW k \in Keys, NEW v \in Values, call = Insert(k, v)
      PROVE  /\ call.key \in Keys /\ call.op = "Insert"
             /\ \A w \in MaybeValues : Outcome(call, w) \in MaybeValues
  BY <1>1 DEF Insert, Outcome, MaybeValues
<1>2. ASSUME NEW k \in Keys, call = DeleteOf(k)
      PROVE  /\ call.key \in Keys /\ call.op = "Delete"
             /\ \A w \in MaybeValues : Outcome(call, w) \in MaybeValues
  BY <1>2 DEF DeleteOf, Outcome, MaybeValues
<1>3. ASSUME NEW k \in Keys, NEW d \in Numbers, call = UpsertOf(k, d)
      PROVE  /\ call.key \in Keys /\ call.op = "Upsert"
             /\ \A w \in MaybeValues : Outcome(call, w) \in MaybeValues
  <2>1. call.key = k /\ call.op = "Upsert" /\ call.delta = d
    BY <1>3 DEF UpsertOf
  <2>2. ASSUME NEW w \in MaybeValues PROVE Outcome(call, w) \in MaybeValues
    <3>1. apply(d, w) \in Numbers
      BY ApplyTwice
    <3>2. Outcome(call, w) = apply(d, w)
      BY <2>1 DEF Outcome
    <3> QED BY <3>1, <3>2 DEF MaybeValues, Values
  <2> QED BY <2>1, <2>2
<1> QED BY <1>1, <1>2, <1>3 DEF Calls

LEMMA CallParts ==
    ASSUME NEW e, NEW call
    PROVE  /\ Call(e, call).map = [e.map EXCEPT ![call.key] = Outcome(call, e.map[call.key])]
           /\ Call(e, call).next_seq = e.next_seq + 1
           /\ Call(e, call).ops = Append(e.ops, Op(e.next_seq + 1, call))
BY DEF Call, Outcome

(* What is left to show of a step, in terms of the events recorded.        *)
LEMMA EventParts ==
    ASSUME NEW seq \in Nat, NEW call \in Calls
    PROVE  /\ Op(seq, call) \in Events /\ IsOp(Op(seq, call))
           /\ Op(seq, call).call = call
BY DEF Op, Events, IsOp

LEMMA InitInv == Init => IndInv
<1> SUFFICES ASSUME Init PROVE IndInv
  OBVIOUS
<1>1. /\ map = [k \in Keys |-> NoValue] /\ next_seq = 0 /\ v1 = <<>> /\ v2 = <<>>
  BY DEF Init, Engine!Init
<1>2. TypeInv
  BY <1>1 DEF TypeInv, MaybeValues
<1>3. Rebuilt(v1) = New /\ Rebuilt(v2) = New /\ OpsOf(v2) = <<>>
  BY <1>1, NothingRecorded
<1>4. New.map = [k \in Keys |-> NoValue] /\ New.next_seq = 0 /\ New.ops = <<>>
  BY DEF New
<1> QED BY <1>1, <1>2, <1>3, <1>4
        DEF IndInv, ReplayFaithful, OldReplayFaithful, OldEngine, OnlyInserted, replay, replay2

(* A call that is recorded.                                                *)
LEMMA OpStep ==
    ASSUME IndInv, NEW call \in Calls,
           map' = [map EXCEPT ![call.key] = Outcome(call, map[call.key])],
           next_seq' = next_seq + 1,
           op(next_seq + 1, call)
    PROVE  IndInv'
<1> DEFINE ev == Op(next_seq + 1, call)
           k0 == call.key
           ins == call.op = "Insert"
<1>0. TypeInv /\ ReplayFaithful /\ OldReplayFaithful /\ OldEngine
  BY DEF IndInv
<1>1. k0 \in Keys /\ \A v \in MaybeValues : Outcome(call, v) \in MaybeValues
  BY CallTypes
<1>2. ev \in Events /\ IsOp(ev) /\ ev.call = call
  BY <1>0, EventParts DEF TypeInv
<1>3. v2' = Append(v2, ev) /\ v1' = IF ins THEN Append(v1, ev) ELSE v1
  BY DEF op
<1> HIDE DEF ev
<1>4. TypeInv'
  BY <1>0, <1>1, <1>2, <1>3 DEF TypeInv
<1>5. ReplayFaithful'
  <2>1. Rebuilt(v2)' = Call(Rebuilt(v2), call)
    <3>1. Rebuilt(Append(v2, ev)) = Replayed(Rebuilt(v2), ev)
      BY <1>0, <1>2, RebuiltAppend DEF TypeInv
    <3> QED BY <1>2, <1>3, <3>1 DEF Replayed
  <2>2. OpsOf(v2)' = Append(OpsOf(v2), ev)
    BY <1>0, <1>2, <1>3, OpsAppend DEF TypeInv
  <2>3. /\ Rebuilt(v2).map = map /\ Rebuilt(v2).next_seq = next_seq
        /\ Rebuilt(v2).ops = OpsOf(v2)
    BY <1>0 DEF ReplayFaithful, replay2
  <2>4. /\ Call(Rebuilt(v2), call).map = map'
        /\ Call(Rebuilt(v2), call).next_seq = next_seq'
        /\ Call(Rebuilt(v2), call).ops = Append(OpsOf(v2), ev)
    BY <2>3, CallParts DEF ev
  <2> QED BY <2>1, <2>2, <2>4 DEF ReplayFaithful, replay2
<1>6. /\ Len(v2') = Len(v2) + 1 /\ v2'[Len(v2) + 1] = ev /\ Len(v2) \in Nat
      /\ \A i \in 1 .. Len(v2) : v2'[i] = v2[i]
      /\ DOMAIN v2 = 1 .. Len(v2) /\ DOMAIN v2' = 1 .. Len(v2) + 1
  BY <1>0, <1>2, <1>3 DEF TypeInv
<1>7. OnlyInserted' \subseteq OnlyInserted /\ (k0 \in OnlyInserted' => ins)
  <2>1. ASSUME NEW k \in OnlyInserted' PROVE k \in OnlyInserted
    <3>1. \A i \in DOMAIN v2 : i \in DOMAIN v2' /\ v2'[i] = v2[i]
      BY <1>6
    <3> QED BY <2>1, <3>1 DEF OnlyInserted
  <2>2. ASSUME k0 \in OnlyInserted' PROVE ins
    <3>1. Len(v2) + 1 \in DOMAIN v2'
      BY <1>6
    <3> QED BY <1>2, <1>6, <2>2, <3>1 DEF OnlyInserted
  <2> QED BY <2>1, <2>2
<1> DEFINE e == Rebuilt(v1)
<1>8. /\ DOMAIN e.map = Keys
      /\ \A k \in OnlyInserted : e.map[k] = map[k]
      /\ OnlyInserted = Keys => e.next_seq = next_seq /\ e.ops = OpsOf(v2)
  BY <1>0 DEF OldReplayFaithful, OldEngine, replay
<1>9. OldReplayFaithful' /\ OldEngine'
  <2>1. CASE ins
    <3>1. Rebuilt(v1)' = Call(e, call)
      <4>1. Rebuilt(Append(v1, ev)) = Replayed(Rebuilt(v1), ev)
        BY <1>0, <1>2, RebuiltAppend DEF TypeInv
      <4> QED BY <1>2, <1>3, <2>1, <4>1 DEF Replayed
    <3>2. OpsOf(v2)' = Append(OpsOf(v2), ev)
      BY <1>0, <1>2, <1>3, OpsAppend DEF TypeInv
    <3>3. \A v : Outcome(call, v) = call.value
      BY <2>1 DEF Outcome
    <3>4. /\ Call(e, call).map = [e.map EXCEPT ![k0] = call.value]
          /\ Call(e, call).next_seq = e.next_seq + 1
          /\ Call(e, call).ops = Append(e.ops, Op(e.next_seq + 1, call))
          /\ map' = [map EXCEPT ![k0] = call.value]
      <4> HIDE DEF e
      <4>1. /\ Call(e, call).map = [e.map EXCEPT ![k0] = Outcome(call, e.map[k0])]
            /\ Call(e, call).next_seq = e.next_seq + 1
            /\ Call(e, call).ops = Append(e.ops, Op(e.next_seq + 1, call))
        BY CallParts, Zenon
      <4>2. Outcome(call, e.map[k0]) = call.value /\ Outcome(call, map[k0]) = call.value
        BY <3>3, Zenon
      <4>3. map' = [map EXCEPT ![k0] = Outcome(call, map[k0])]
        OBVIOUS
      <4> QED BY <4>1, <4>2, <4>3, Zenon
    <3> HIDE DEF e
    <3>5. DOMAIN Call(e, call).map = Keys
      BY <1>8, <3>4
    <3>6. ASSUME NEW k \in OnlyInserted' PROVE Call(e, call).map[k] = map'[k]
      <4>1. k \in OnlyInserted /\ k \in Keys
        BY <1>7 DEF OnlyInserted
      <4>2. DOMAIN map = Keys
        BY <1>0 DEF TypeInv
      <4> QED BY <1>8, <3>4, <4>1, <4>2
    <3>7. ASSUME OnlyInserted' = Keys
          PROVE  Call(e, call).next_seq = next_seq' /\ Call(e, call).ops = Append(OpsOf(v2), ev)
      <4>1. OnlyInserted = Keys
        BY <1>7, <3>7 DEF OnlyInserted
      <4> QED BY <1>8, <3>4, <4>1 DEF ev
    <3> QED BY <3>1, <3>2, <3>5, <3>6, <3>7 DEF OldReplayFaithful, OldEngine, replay
  <2>2. CASE ~ins
    <3>1. Rebuilt(v1)' = e
      BY <1>3, <2>2
    <3>2. ASSUME NEW k \in OnlyInserted' PROVE e.map[k] = map'[k]
      <4>1. k \in OnlyInserted /\ k \in Keys /\ k # k0
        BY <1>7, <2>2 DEF OnlyInserted
      <4>2. DOMAIN map = Keys
        BY <1>0 DEF TypeInv
      <4> QED BY <1>8, <4>1, <4>2
    <3>3. OnlyInserted' # Keys
      BY <1>1, <1>7, <2>2
    <3> HIDE DEF e
    <3> QED BY <1>8, <3>1, <3>2, <3>3 DEF OldReplayFaithful, OldEngine, replay
  <2> QED BY <2>1, <2>2
<1> QED BY <1>4, <1>5, <1>9 DEF IndInv

(* An event that is not an op: a replay passes over it.                    *)
LEMMA OtherStep ==
    ASSUME IndInv, NEW ev \in Events, ~IsOp(ev),
           UNCHANGED <<map, next_seq>>,
           v2' = Append(v2, ev), v1' \in {v1, Append(v1, ev)}
    PROVE  IndInv'
<1>0. TypeInv /\ ReplayFaithful /\ OldReplayFaithful /\ OldEngine
  BY DEF IndInv
<1>1. TypeInv'
  <2>1. Append(v1, ev) \in Seq(Events) /\ Append(v2, ev) \in Seq(Events)
    BY <1>0 DEF TypeInv
  <2>2. v1' \in Seq(Events)
    BY <1>0, <2>1, Zenon DEF TypeInv
  <2> QED BY <1>0, <2>1, <2>2 DEF TypeInv
<1>2. Rebuilt(v2)' = Rebuilt(v2) /\ OpsOf(v2)' = OpsOf(v2)
  <2>1. Rebuilt(Append(v2, ev)) = Replayed(Rebuilt(v2), ev)
    BY <1>0, RebuiltAppend DEF TypeInv
  <2>2. OpsOf(Append(v2, ev)) = OpsOf(v2)
    BY <1>0, OpsAppend DEF TypeInv
  <2> QED BY <2>1, <2>2 DEF Replayed
<1>3. Rebuilt(v1)' = Rebuilt(v1)
  <2>1. Rebuilt(Append(v1, ev)) = Replayed(Rebuilt(v1), ev)
    BY <1>0, RebuiltAppend DEF TypeInv
  <2> QED BY <2>1 DEF Replayed
<1>4. OnlyInserted' = OnlyInserted
  <2>1. /\ v2'[Len(v2) + 1] = ev /\ Len(v2) \in Nat
        /\ \A i \in 1 .. Len(v2) : v2'[i] = v2[i]
        /\ DOMAIN v2 = 1 .. Len(v2) /\ DOMAIN v2' = 1 .. Len(v2) + 1
    BY <1>0 DEF TypeInv
  <2>2. \A i \in DOMAIN v2 : i \in DOMAIN v2' /\ v2'[i] = v2[i]
    BY <2>1
  <2>3. \A i \in DOMAIN v2' : i \in DOMAIN v2 \/ ~IsOp(v2'[i])
    <3>1. \A i \in 1 .. Len(v2) + 1 : i \in 1 .. Len(v2) \/ i = Len(v2) + 1
      BY <2>1
    <3> QED BY <2>1, <3>1
  <2> QED BY <2>2, <2>3 DEF OnlyInserted
<1> QED BY <1>0, <1>1, <1>2, <1>3, <1>4
        DEF IndInv, ReplayFaithful, OldReplayFaithful, OldEngine, replay, replay2

LEMMA StepInv == IndInv /\ [Next]_vars => IndInv'
<1> SUFFICES ASSUME IndInv, [Next]_vars PROVE IndInv'
  OBVIOUS
<1>0. \A k \in Keys : map[k] \in MaybeValues
  BY DEF IndInv, TypeInv
<1>1. ASSUME NEW k \in Keys, NEW v \in Puts, insert(k, v) PROVE IndInv'
  <2> DEFINE call == Insert(k, v)
  <2>1. call \in Calls
    BY TraceAssumption DEF Calls
  <2>2. call.key = k /\ Outcome(call, map[k]) = v
    BY DEF Insert, Outcome
  <2>3. /\ map' = [map EXCEPT ![k] = v] /\ next_seq' = next_seq + 1
        /\ op(next_seq + 1, call)
    BY <1>1 DEF insert, Engine!insert, Engine!Mutation
  <2> HIDE DEF call
  <2> QED BY <2>1, <2>2, <2>3, OpStep
<1>2. ASSUME NEW k \in Keys, delete(k) PROVE IndInv'
  <2> DEFINE call == DeleteOf(k)
  <2>1. call \in Calls
    BY DEF Calls
  <2>2. call.key = k /\ Outcome(call, map[k]) = NoValue
    BY DEF DeleteOf, Outcome
  <2>3. /\ map' = [map EXCEPT ![k] = NoValue] /\ next_seq' = next_seq + 1
        /\ op(next_seq + 1, call)
    BY <1>2 DEF delete, Engine!delete, Engine!Mutation
  <2> HIDE DEF call
  <2> QED BY <2>1, <2>2, <2>3, OpStep
<1>3. ASSUME NEW k \in Keys, NEW d \in Deltas, upsert(k, d) PROVE IndInv'
  <2> DEFINE call == UpsertOf(k, d)
  <2>1. call \in Calls
    BY TraceAssumption DEF Calls
  <2>2. call.key = k /\ Outcome(call, map[k]) = apply(d, map[k])
    BY DEF UpsertOf, Outcome
  <2>3. /\ map' = [map EXCEPT ![k] = apply(d, map[k])] /\ next_seq' = next_seq + 1
        /\ op(next_seq + 1, call)
    BY <1>3 DEF upsert, Engine!upsert, Engine!Mutation, apply, Engine!apply,
                wrapping_add, Engine!wrapping_add, Numbers, Engine!Numbers
  <2> HIDE DEF call
  <2> QED BY <2>1, <2>2, <2>3, OpStep
<1>4. ASSUME NEW k \in Keys, get(k) PROVE IndInv'
  <2>1. [event |-> "Get", key |-> k] \in Events /\ ~IsOp([event |-> "Get", key |-> k])
    BY DEF Events, IsOp
  <2> QED BY <1>4, <2>1, OtherStep DEF get, Both
<1>5. ASSUME scan PROVE IndInv'
  <2>1. [event |-> "Scan"] \in Events /\ ~IsOp([event |-> "Scan"])
    BY DEF Events, IsOp
  <2> QED BY <1>5, <2>1, OtherStep DEF scan, Complete
<1>6. ASSUME flush_decision PROVE IndInv'
  <2>1. [event |-> "FlushDecision"] \in Events /\ ~IsOp([event |-> "FlushDecision"])
    BY DEF Events, IsOp
  <2> QED BY <1>6, <2>1, OtherStep DEF flush_decision, Both
<1>7. CASE UNCHANGED vars
  BY <1>7 DEF vars, IndInv, TypeInv, ReplayFaithful, OldReplayFaithful, OldEngine,
              OnlyInserted, replay, replay2
<1> QED BY <1>1, <1>2, <1>3, <1>4, <1>5, <1>6, <1>7 DEF Next

-----------------------------------------------------------------------------
(* Whatever calls are made and decisions taken, replay2 of the complete    *)
(* trace rebuilds the engine: contents, next seqno and the recorded ops,   *)
(* each under the seqno that it had (trace.rs Recorder, replay2).          *)
THEOREM CompleteTrace == Spec => []ReplayFaithful
<1>1. IndInv => ReplayFaithful
  BY DEF IndInv
<1> QED BY <1>1, InitInv, StepInv, PTL DEF Spec

(* replay of the old trace, which knows no deletes, upserts or scans,      *)
(* finds the right value of every key that was only ever inserted, and the *)
(* same engine if all were (trace.rs Recorder::op, replay).                *)
THEOREM OldTrace == Spec => []OldReplayFaithful
<1>1. IndInv => OldReplayFaithful
  BY DEF IndInv
<1> QED BY <1>1, InitInv, StepInv, PTL DEF Spec
=============================================================================
