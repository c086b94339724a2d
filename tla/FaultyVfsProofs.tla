--------------------------- MODULE FaultyVfsProofs --------------------------
(***************************************************************************)
(* Theorems about the fault-injecting device (module FaultyVfs): the crash *)
(* images that it rebuilds from its log are those that a crash can leave,  *)
(* and the order in which writes reached the device adds none.             *)
(***************************************************************************)
EXTENDS FaultyVfs, WellFoundedInduction, TLAPS

-----------------------------------------------------------------------------
(* Induction over the natural numbers, for sets of them                    *)

(* A set of natural numbers that is not empty has a least element.         *)
LEMMA Least ==
    ASSUME NEW T, T \subseteq Nat, T # {}
    PROVE  \E x \in T : \A y \in T : x <= y
<1>1. IsWellFoundedOn(OpToRel(<, Nat), Nat)
  BY NatLessThanWellFounded, Zenon
<1>2. PICK x \in T : \A y \in T : ~ (<<y, x>> \in OpToRel(<, Nat))
  BY <1>1, WFMin, Zenon
<1>3. \A y \in T : ~(y < x)
  BY <1>2, Zenon DEF OpToRel
<1> QED BY <1>3

(* A set that has 0 and is closed under successor has every number.        *)
LEMMA SetInduction ==
    ASSUME NEW S, 0 \in S, \A n \in Nat : n \in S => n + 1 \in S
    PROVE  \A n \in Nat : n \in S
<1> SUFFICES ASSUME Nat \ S # {} PROVE FALSE
  OBVIOUS
<1>1. PICK x \in Nat \ S : \A y \in Nat \ S : x <= y
  BY Least
<1>2. x # 0 /\ x - 1 \in Nat /\ x - 1 \notin Nat \ S
  BY <1>1
<1> QED BY <1>2

(* The same up to a bound.                                                 *)
LEMMA BoundedInduction ==
    ASSUME NEW N \in Nat, NEW S, 0 \in S, \A n \in 0 .. N - 1 : n \in S => n + 1 \in S
    PROVE  \A n \in 0 .. N : n \in S
<1> DEFINE T == {n \in Nat : n <= N => n \in S}
<1>1. \A n \in Nat : n \in T => n + 1 \in T
  OBVIOUS
<1>2. 0 \in T
  OBVIOUS
<1>3. \A n \in Nat : n \in T
  <2> HIDE DEF T
  <2> QED BY <1>1, <1>2, SetInduction
<1> QED BY <1>3

(* A function on 0 .. N that starts with start and goes on with step.      *)
Recursion(N, Y, start, step) ==
    \E f \in [0 .. N -> Y] :
        f[0] = start /\ \A i \in 1 .. N : f[i] = step[<<i, f[i - 1]>>]

(* A recursion over 0 .. N that starts at a value of Y, and takes a value  *)
(* of Y to one of Y at every index, is met by a function.                  *)
LEMMA RecursionExists ==
    ASSUME NEW N \in Nat, NEW Y, NEW start \in Y, NEW step \in [(1 .. N) \X Y -> Y]
    PROVE  Recursion(N, Y, start, step)
<1> DEFINE Meets(f, n) == f[0] = start /\ \A i \in 1 .. n : f[i] = step[<<i, f[i - 1]>>]
           S == {n \in Nat : \E f \in [0 .. n -> Y] : Meets(f, n)}
<1>1. 0 \in S
  <2>1. [i \in 0 .. 0 |-> start] \in [0 .. 0 -> Y] /\ Meets([i \in 0 .. 0 |-> start], 0)
    OBVIOUS
  <2> QED BY <2>1
<1>2. ASSUME NEW n \in 0 .. N - 1, n \in S PROVE n + 1 \in S
  <2>1. PICK f \in [0 .. n -> Y] : Meets(f, n)
    BY <1>2
  <2> DEFINE g == [i \in 0 .. n + 1 |-> IF i <= n THEN f[i] ELSE step[<<n + 1, f[n]>>]]
  <2>2. <<n + 1, f[n]>> \in (1 .. N) \X Y
    OBVIOUS
  <2>3. g \in [0 .. n + 1 -> Y]
    BY <2>2
  <2>4. \A i \in 0 .. n : g[i] = f[i]
    OBVIOUS
  <2>5. g[n + 1] = step[<<n + 1, g[n]>>]
    <3>1. n + 1 \in 0 .. n + 1 /\ ~(n + 1 <= n) /\ n \in 0 .. n
      OBVIOUS
    <3>2. g[n + 1] = step[<<n + 1, f[n]>>]
      BY <3>1, Zenon
    <3> HIDE DEF g
    <3> QED BY <3>1, <3>2, <2>4, Zenon
  <2>6. ASSUME NEW i \in 1 .. n + 1 PROVE g[i] = step[<<i, g[i - 1]>>]
    <3>1. CASE i <= n
      <4>1. i \in 1 .. n /\ i - 1 \in 0 .. n /\ i \in 0 .. n
        BY <3>1
      <4> HIDE DEF g
      <4> QED BY <4>1, <2>1, <2>4
    <3>2. CASE i = n + 1
      <4>1. i - 1 = n
        BY <3>2
      <4> HIDE DEF g
      <4> QED BY <4>1, <3>2, <2>5
    <3> QED BY <3>1, <3>2
  <2>7. g[0] = start
    BY <2>1
  <2> HIDE DEF g
  <2> QED BY <2>3, <2>6, <2>7
<1>3. N \in S
  <2> HIDE DEF S
  <2> QED BY <1>1, <1>2, BoundedInduction
<1> QED BY <1>3 DEF Recursion

(* fl gives what each prefix of s flattens into.                           *)
Flattens(s, T, fl) ==
    /\ fl \in [1 .. Len(s) -> Seq(T)]
    /\ \A n \in 1 .. Len(s) : fl[n] = IF n = 1 THEN s[n] ELSE fl[n - 1] \o s[n]
    /\ FlattenSeq(s) = fl[Len(s)]

(* FlattenSeq concatenates one sequence after the other.                   *)
LEMMA FlattenIs ==
    ASSUME NEW T, NEW s \in Seq(Seq(T)), Len(s) # 0
    PROVE  \E fl : Flattens(s, T, fl)
<1> DEFINE G(f) == [n \in 1 .. Len(s) |-> IF n = 1 THEN s[n] ELSE f[n - 1] \o s[n]]
           fl == CHOOSE f : f = G(f)
           step == [x \in (1 .. Len(s)) \X Seq(T) |-> x[2] \o s[x[1]]]
<1>1. Len(s) \in Nat /\ \A n \in 1 .. Len(s) : s[n] \in Seq(T)
  OBVIOUS
<1>2. step \in [(1 .. Len(s)) \X Seq(T) -> Seq(T)]
  BY <1>1
<1>3. \A n \in 1 .. Len(s), x \in Seq(T) : step[<<n, x>>] = x \o s[n]
  OBVIOUS
<1>4. <<>> \in Seq(T)
  OBVIOUS
<1>5. Recursion(Len(s), Seq(T), <<>>, step)
  <2> HIDE DEF step
  <2> QED BY <1>1, <1>2, <1>4, RecursionExists
<1>6. PICK h \in [0 .. Len(s) -> Seq(T)] :
           h[0] = <<>> /\ \A n \in 1 .. Len(s) : h[n] = step[<<n, h[n - 1]>>]
  BY <1>5, Zenon DEF Recursion
<1>7. \A n \in 1 .. Len(s) : h[n - 1] \in Seq(T) /\ h[n] = h[n - 1] \o s[n]
  <2> SUFFICES ASSUME NEW n \in 1 .. Len(s)
               PROVE  h[n - 1] \in Seq(T) /\ h[n] = h[n - 1] \o s[n]
    OBVIOUS
  <2>1. n - 1 \in 0 .. Len(s)
    BY <1>1
  <2>2. h[n - 1] \in Seq(T)
    BY <2>1
  <2> HIDE DEF step
  <2> QED BY <2>2, <1>3, <1>6
<1> DEFINE r == [n \in 1 .. Len(s) |-> h[n]]
<1>8. r = G(r)
  <2> SUFFICES ASSUME NEW n \in 1 .. Len(s)
               PROVE  h[n] = IF n = 1 THEN s[n] ELSE r[n - 1] \o s[n]
    OBVIOUS
  <2>1. CASE n = 1
    <3>1. n - 1 = 0
      BY <2>1
    <3>2. h[n] = <<>> \o s[n]
      BY <3>1, <1>6, <1>7
    <3> QED BY <3>2, <2>1, <1>1
  <2>2. CASE n # 1
    <3>1. n - 1 \in 1 .. Len(s)
      BY <2>2, <1>1
    <3>2. r[n - 1] = h[n - 1]
      BY <3>1, Zenon
    <3> QED BY <3>2, <2>2, <1>7
  <2> QED BY <2>1, <2>2
<1>9. fl = G(fl)
  <2> HIDE DEF G, r
  <2> QED BY <1>8, Zenon
<1>10. \A n \in 1 .. Len(s) : fl[n] = IF n = 1 THEN s[n] ELSE fl[n - 1] \o s[n]
  <2> HIDE DEF fl
  <2> QED BY <1>9
<1>11. FlattenSeq(s) = fl[Len(s)]
  BY Zenon DEF FlattenSeq
<1>12. fl = [n \in 1 .. Len(s) |-> fl[n]]
  <2> HIDE DEF fl
  <2> QED BY <1>9
<1> HIDE DEF fl, G
<1> DEFINE S == {n \in Nat : n + 1 <= Len(s) => fl[n + 1] \in Seq(T)}
<1>13. 0 \in S
  <2>1. 1 \in 1 .. Len(s) /\ s[1] \in Seq(T)
    BY <1>1
  <2>2. fl[1] = s[1]
    BY <2>1, <1>10
  <2> QED BY <2>1, <2>2
<1>14. ASSUME NEW n \in Nat, n \in S PROVE n + 1 \in S
  <2> SUFFICES ASSUME n + 2 <= Len(s) PROVE fl[n + 2] \in Seq(T)
    OBVIOUS
  <2>1. fl[n + 1] \in Seq(T) /\ s[n + 2] \in Seq(T)
    BY <1>14, <1>1
  <2>2. n + 2 \in 1 .. Len(s) /\ n + 2 # 1 /\ (n + 2) - 1 = n + 1
    BY <1>1
  <2>3. fl[n + 2] = fl[n + 1] \o s[n + 2]
    BY <2>2, <1>10
  <2> QED BY <2>1, <2>3
<1>15. \A n \in Nat : n \in S
  <2> HIDE DEF S
  <2> QED BY <1>13, <1>14, SetInduction
<1>16. ASSUME NEW n \in 1 .. Len(s) PROVE fl[n] \in Seq(T)
  <2>1. n - 1 \in Nat /\ (n - 1) + 1 = n /\ n <= Len(s)
    BY <1>1
  <2>2. n - 1 \in S
    BY <2>1, <1>15
  <2> QED BY <2>1, <2>2
<1> QED BY <1>10, <1>11, <1>12, <1>16 DEF Flattens

(* A sequence of sequences flattens into a sequence.                       *)
LEMMA FlattenTyped ==
    ASSUME NEW T, NEW s \in Seq(Seq(T))
    PROVE  FlattenSeq(s) \in Seq(T)
<1>1. CASE Len(s) = 0
  <2>1. s = <<>>
    BY <1>1
  <2> QED BY <2>1, <1>1 DEF FlattenSeq
<1>2. CASE Len(s) # 0
  <2>1. PICK fl : Flattens(s, T, fl)
    BY <1>2, FlattenIs
  <2>2. Len(s) \in 1 .. Len(s)
    BY <1>2
  <2> QED BY <2>1, <2>2 DEF Flattens
<1> QED BY <1>1, <1>2

-----------------------------------------------------------------------------
(* What the loops compute                                                  *)

(* apply_window has a value after every entry of the window.               *)
LEMMA WindowLoop ==
    ASSUME NEW E, NEW w \in Seq(E), NEW buf, NEW fates
    PROVE  \E f : /\ f[0] = buf
                  /\ \A i \in 1 .. Len(w) : f[i] = ApplyEntry(f[i - 1], w[i], FateOf(fates, i))
                  /\ apply_window(buf, w, fates) = f[Len(w)]
<1> DEFINE Meets(f, n) == f[0] = buf /\ \A i \in 1 .. n : f[i] = ApplyEntry(f[i - 1], w[i], FateOf(fates, i))
           S == {n \in Nat : \E f : Meets(f, n)}
           G(f) == [i \in 0 .. Len(w) |-> IF i = 0 THEN buf ELSE ApplyEntry(f[i - 1], w[i], FateOf(fates, i))]
<1>0. Len(w) \in Nat
  OBVIOUS
<1>1. 0 \in S
  <2>1. Meets([i \in 0 .. 0 |-> buf], 0)
    OBVIOUS
  <2> QED BY <2>1, Zenon
<1>2. ASSUME NEW n \in Nat, n \in S PROVE n + 1 \in S
  <2>1. PICK f : Meets(f, n)
    BY <1>2
  <2> DEFINE g == [i \in 0 .. n + 1 |-> IF i = n + 1 THEN ApplyEntry(f[n], w[n + 1], FateOf(fates, n + 1)) ELSE f[i]]
  <2>2. \A i \in 0 .. n : g[i] = f[i]
    OBVIOUS
  <2>3. g[n + 1] = ApplyEntry(f[n], w[n + 1], FateOf(fates, n + 1))
    OBVIOUS
  <2> HIDE DEF g
  <2>4. g[0] = buf
    BY <2>1, <2>2
  <2>5. ASSUME NEW i \in 1 .. n + 1 PROVE g[i] = ApplyEntry(g[i - 1], w[i], FateOf(fates, i))
    <3>1. CASE i = n + 1
      <4>1. i - 1 = n /\ n \in 0 .. n
        BY <3>1
      <4> QED BY <3>1, <4>1, <2>2, <2>3
    <3>2. CASE i # n + 1
      <4>1. i \in 1 .. n /\ i \in 0 .. n /\ i - 1 \in 0 .. n
        BY <3>2
      <4>2. g[i] = f[i] /\ g[i - 1] = f[i - 1] /\ f[i] = ApplyEntry(f[i - 1], w[i], FateOf(fates, i))
        BY <4>1, <2>1, <2>2
      <4> QED BY <4>2
    <3> QED BY <3>1, <3>2
  <2>6. Meets(g, n + 1) /\ n + 1 \in Nat
    BY <2>4, <2>5
  <2> QED BY <2>6, Zenon
<1>3. Len(w) \in S
  <2> HIDE DEF S
  <2> QED BY <1>0, <1>1, <1>2, SetInduction
<1>4. PICK f : Meets(f, Len(w))
  BY <1>3
<1> DEFINE r == [i \in 0 .. Len(w) |-> f[i]]
<1>5. r = G(r)
  <2>1. ASSUME NEW i \in 0 .. Len(w)
        PROVE  f[i] = IF i = 0 THEN buf ELSE ApplyEntry(r[i - 1], w[i], FateOf(fates, i))
    <3>1. CASE i = 0
      BY <1>4, <3>1
    <3>2. CASE i # 0
      <4>1. i \in 1 .. Len(w) /\ i - 1 \in 0 .. Len(w)
        BY <1>0, <3>2
      <4>2. r[i - 1] = f[i - 1] /\ f[i] = ApplyEntry(f[i - 1], w[i], FateOf(fates, i))
        BY <1>4, <4>1
      <4> HIDE DEF r
      <4> QED BY <3>2, <4>2
    <3> QED BY <3>1, <3>2
  <2> QED BY <2>1, Zenon
<1> DEFINE h == CHOOSE g : g = G(g)
<1>6. h = G(h)
  <2> HIDE DEF G, r
  <2> QED BY <1>5, Zenon
<1>7. apply_window(buf, w, fates) = h[Len(w)]
  BY Zenon DEF apply_window
<1> HIDE DEF h
<1>8. \A i \in 0 .. Len(w) : h[i] = IF i = 0 THEN buf ELSE ApplyEntry(h[i - 1], w[i], FateOf(fates, i))
  BY <1>6, Zenon
<1>9. h[0] = buf
  BY <1>8, <1>0
<1>10. ASSUME NEW i \in 1 .. Len(w) PROVE h[i] = ApplyEntry(h[i - 1], w[i], FateOf(fates, i))
  <2>1. i \in 0 .. Len(w) /\ i # 0
    BY <1>0
  <2> QED BY <2>1, <1>8, Zenon
<1> QED BY <1>7, <1>9, <1>10, Zenon

(* So has the collection of all images of a window.                        *)
LEMMA ImagesLoop ==
    ASSUME NEW E, NEW w \in Seq(E), NEW buf
    PROVE  \E f : /\ f[0] = {buf}
                  /\ \A i \in 1 .. Len(w) : f[i] = MoreImages(f[i - 1], w[i])
                  /\ ImagesOf(buf, w) = f[Len(w)]
<1> DEFINE Meets(f, n) == f[0] = {buf} /\ \A i \in 1 .. n : f[i] = MoreImages(f[i - 1], w[i])
           S == {n \in Nat : \E f : Meets(f, n)}
           G(f) == [i \in 0 .. Len(w) |-> IF i = 0 THEN {buf} ELSE MoreImages(f[i - 1], w[i])]
<1>0. Len(w) \in Nat
  OBVIOUS
<1>1. 0 \in S
  <2>1. Meets([i \in 0 .. 0 |-> {buf}], 0)
    OBVIOUS
  <2> QED BY <2>1, Zenon
<1>2. ASSUME NEW n \in Nat, n \in S PROVE n + 1 \in S
  <2>1. PICK f : Meets(f, n)
    BY <1>2
  <2> DEFINE g == [i \in 0 .. n + 1 |-> IF i = n + 1 THEN MoreImages(f[n], w[n + 1]) ELSE f[i]]
  <2>2. \A i \in 0 .. n : g[i] = f[i]
    OBVIOUS
  <2>3. g[n + 1] = MoreImages(f[n], w[n + 1])
    OBVIOUS
  <2> HIDE DEF g
  <2>4. g[0] = {buf}
    BY <2>1, <2>2
  <2>5. ASSUME NEW i \in 1 .. n + 1 PROVE g[i] = MoreImages(g[i - 1], w[i])
    <3>1. CASE i = n + 1
      <4>1. i - 1 = n /\ n \in 0 .. n
        BY <3>1
      <4> QED BY <3>1, <4>1, <2>2, <2>3
    <3>2. CASE i # n + 1
      <4>1. i \in 1 .. n /\ i \in 0 .. n /\ i - 1 \in 0 .. n
        BY <3>2
      <4>2. g[i] = f[i] /\ g[i - 1] = f[i - 1] /\ f[i] = MoreImages(f[i - 1], w[i])
        BY <4>1, <2>1, <2>2
      <4> QED BY <4>2
    <3> QED BY <3>1, <3>2
  <2>6. Meets(g, n + 1) /\ n + 1 \in Nat
    BY <2>4, <2>5
  <2> QED BY <2>6, Zenon
<1>3. Len(w) \in S
  <2> HIDE DEF S
  <2> QED BY <1>0, <1>1, <1>2, SetInduction
<1>4. PICK f : Meets(f, Len(w))
  BY <1>3
<1> DEFINE r == [i \in 0 .. Len(w) |-> f[i]]
<1>5. r = G(r)
  <2>1. ASSUME NEW i \in 0 .. Len(w)
        PROVE  f[i] = IF i = 0 THEN {buf} ELSE MoreImages(r[i - 1], w[i])
    <3>1. CASE i = 0
      BY <1>4, <3>1
    <3>2. CASE i # 0
      <4>1. i \in 1 .. Len(w) /\ i - 1 \in 0 .. Len(w)
        BY <1>0, <3>2
      <4>2. r[i - 1] = f[i - 1] /\ f[i] = MoreImages(f[i - 1], w[i])
        BY <1>4, <4>1
      <4> HIDE DEF r
      <4> QED BY <3>2, <4>2
    <3> QED BY <3>1, <3>2
  <2> QED BY <2>1, Zenon
<1> DEFINE h == CHOOSE g : g = G(g)
<1>6. h = G(h)
  <2> HIDE DEF G, r
  <2> QED BY <1>5, Zenon
<1>7. ImagesOf(buf, w) = h[Len(w)]
  BY Zenon DEF ImagesOf
<1> HIDE DEF h
<1>8. \A i \in 0 .. Len(w) : h[i] = IF i = 0 THEN {buf} ELSE MoreImages(h[i - 1], w[i])
  BY <1>6, Zenon
<1>9. h[0] = {buf}
  BY <1>8, <1>0
<1>10. ASSUME NEW i \in 1 .. Len(w) PROVE h[i] = MoreImages(h[i - 1], w[i])
  <2>1. i \in 0 .. Len(w) /\ i # 0
    BY <1>0
  <2> QED BY <2>1, <1>8, Zenon
<1> QED BY <1>7, <1>9, <1>10, Zenon

(* How much of log l is not synced at position pos, and what replaying the *)
(* syncs before pos on file from makes of it: window_len_at and the loop   *)
(* of crash_image_at for any log.                                          *)
WindowLen(l, pos) == pos - Max({0} \cup {i \in 1 .. pos : IsSync(l[i])})

ReplayStep(l, file, i) ==
    LET window == SubSeq(l, i - WindowLen(l, i - 1), i - 1)
    IN CASE l[i].op = "SyncOk" -> apply_window(file, window, <<>>)
         [] l[i].op = "SyncFailed" -> apply_window(file, window, l[i].fates)
         [] OTHER -> file

ReplayedOf(l, from, pos) ==
    LET replay[i \in 0 .. pos] == IF i = 0 THEN from ELSE ReplayStep(l, replay[i - 1], i)
    IN replay[pos]

(* The replay has a value after every position.                            *)
LEMMA ReplayLoop ==
    ASSUME NEW l, NEW from, NEW pos \in Nat
    PROVE  \E f : /\ f[0] = from
                  /\ \A i \in 1 .. pos : f[i] = ReplayStep(l, f[i - 1], i)
                  /\ ReplayedOf(l, from, pos) = f[pos]
<1> DEFINE Meets(f, n) == f[0] = from /\ \A i \in 1 .. n : f[i] = ReplayStep(l, f[i - 1], i)
           S == {n \in Nat : \E f : Meets(f, n)}
           G(f) == [i \in 0 .. pos |-> IF i = 0 THEN from ELSE ReplayStep(l, f[i - 1], i)]
<1>0. pos \in Nat
  OBVIOUS
<1>1. 0 \in S
  <2>1. Meets([i \in 0 .. 0 |-> from], 0)
    OBVIOUS
  <2> QED BY <2>1, Zenon
<1>2. ASSUME NEW n \in Nat, n \in S PROVE n + 1 \in S
  <2>1. PICK f : Meets(f, n)
    BY <1>2
  <2> DEFINE g == [i \in 0 .. n + 1 |-> IF i = n + 1 THEN ReplayStep(l, f[n], n + 1) ELSE f[i]]
  <2>2. \A i \in 0 .. n : g[i] = f[i]
    OBVIOUS
  <2>3. g[n + 1] = ReplayStep(l, f[n], n + 1)
    OBVIOUS
  <2> HIDE DEF g
  <2>4. g[0] = from
    BY <2>1, <2>2
  <2>5. ASSUME NEW i \in 1 .. n + 1 PROVE g[i] = ReplayStep(l, g[i - 1], i)
    <3>1. CASE i = n + 1
      <4>1. i - 1 = n /\ n \in 0 .. n
        BY <3>1
      <4> QED BY <3>1, <4>1, <2>2, <2>3
    <3>2. CASE i # n + 1
      <4>1. i \in 1 .. n /\ i \in 0 .. n /\ i - 1 \in 0 .. n
        BY <3>2
      <4>2. g[i] = f[i] /\ g[i - 1] = f[i - 1] /\ f[i] = ReplayStep(l, f[i - 1], i)
        BY <4>1, <2>1, <2>2
      <4> QED BY <4>2
    <3> QED BY <3>1, <3>2
  <2>6. Meets(g, n + 1) /\ n + 1 \in Nat
    BY <2>4, <2>5
  <2> QED BY <2>6, Zenon
<1>3. pos \in S
  <2> HIDE DEF S
  <2> QED BY <1>0, <1>1, <1>2, SetInduction
<1>4. PICK f : Meets(f, pos)
  BY <1>3
<1> DEFINE r == [i \in 0 .. pos |-> f[i]]
<1>5. r = G(r)
  <2>1. ASSUME NEW i \in 0 .. pos
        PROVE  f[i] = IF i = 0 THEN from ELSE ReplayStep(l, r[i - 1], i)
    <3>1. CASE i = 0
      BY <1>4, <3>1
    <3>2. CASE i # 0
      <4>1. i \in 1 .. pos /\ i - 1 \in 0 .. pos
        BY <1>0, <3>2
      <4>2. r[i - 1] = f[i - 1] /\ f[i] = ReplayStep(l, f[i - 1], i)
        BY <1>4, <4>1
      <4> HIDE DEF r
      <4> QED BY <3>2, <4>2
    <3> QED BY <3>1, <3>2
  <2> QED BY <2>1, Zenon
<1> DEFINE h == CHOOSE g : g = G(g)
<1>6. h = G(h)
  <2> HIDE DEF G, r
  <2> QED BY <1>5, Zenon
<1>7. ReplayedOf(l, from, pos) = h[pos]
  BY Zenon DEF ReplayedOf
<1> HIDE DEF h
<1>8. \A i \in 0 .. pos : h[i] = IF i = 0 THEN from ELSE ReplayStep(l, h[i - 1], i)
  BY <1>6, Zenon
<1>9. h[0] = from
  BY <1>8, <1>0
<1>10. ASSUME NEW i \in 1 .. pos PROVE h[i] = ReplayStep(l, h[i - 1], i)
  <2>1. i \in 0 .. pos /\ i # 0
    BY <1>0
  <2> QED BY <2>1, <1>8, Zenon
<1> QED BY <1>7, <1>9, <1>10, Zenon


(* The maximum of a set of integers is the element that is at least every  *)
(* other one.                                                              *)
LEMMA MaxIs ==
    ASSUME NEW T, T \subseteq Int, NEW m \in T, \A x \in T : x <= m
    PROVE  Max(T) = m
<1>1. \E x \in T : \A y \in T : x >= y
  OBVIOUS
<1>2. Max(T) \in T /\ \A y \in T : Max(T) >= y
  BY <1>1, Zenon DEF Max
<1>3. Max(T) \in Int /\ m \in Int /\ Max(T) <= m
  BY <1>2, Zenon
<1>4. Max(T) >= m
  BY <1>2, Zenon
<1> QED BY <1>3, <1>4

(* The last sync before pos ends what is synced.                           *)
LEMMA WindowLenIs ==
    ASSUME NEW l, NEW pos \in Nat, NEW start \in 0 .. pos,
           start > 0 => IsSync(l[start]),
           \A i \in start + 1 .. pos : ~IsSync(l[i])
    PROVE  WindowLen(l, pos) = pos - start
<1> DEFINE T == {0} \cup {i \in 1 .. pos : IsSync(l[i])}
<1>1. T \subseteq Int /\ start \in T /\ \A x \in T : x <= start
  OBVIOUS
<1>2. Max(T) = start
  <2> HIDE DEF T
  <2> QED BY <1>1, MaxIs
<1> QED BY <1>2 DEF WindowLen

(* What is replayed depends on the log up to there only.                   *)
LEMMA StepPrefix ==
    ASSUME NEW E, NEW l \in Seq(E), NEW m \in Seq(E), NEW n \in Nat,
           n <= Len(l), n <= Len(m), \A i \in 1 .. n : l[i] = m[i],
           NEW file, NEW i \in 1 .. n
    PROVE  ReplayStep(l, file, i) = ReplayStep(m, file, i)
<1>1. WindowLen(l, i - 1) = WindowLen(m, i - 1)
  <2>1. {j \in 1 .. i - 1 : IsSync(l[j])} = {j \in 1 .. i - 1 : IsSync(m[j])}
    <3>1. \A j \in 1 .. i - 1 : l[j] = m[j]
      OBVIOUS
    <3> QED BY <3>1
  <2> QED BY <2>1, Zenon DEF WindowLen
<1>2. i - WindowLen(l, i - 1) \in Nat \ {0}
  <2> DEFINE T == {0} \cup {j \in 1 .. i - 1 : IsSync(l[j])}
  <2>1. T \subseteq 0 .. i - 1 /\ 0 \in T
    OBVIOUS
  <2>2. Max(T) \in 0 .. i - 1
    <3> HIDE DEF T
    <3>1. \E x \in T : \A y \in T : x >= y
      <4> DEFINE U == {i - 1 - x : x \in T}
      <4>1. U \subseteq Nat /\ U # {}
        BY <2>1
      <4>2. PICK x \in U : \A y \in U : x <= y
        BY <4>1, Least
      <4>3. PICK z \in T : x = i - 1 - z
        BY <4>2
      <4>4. ASSUME NEW y \in T PROVE z >= y
        <5>1. x <= i - 1 - y
          BY <4>2
        <5> QED BY <2>1, <4>3, <5>1
      <4> QED BY <4>4
    <3>2. Max(T) \in T
      BY <3>1, Zenon DEF Max
    <3> QED BY <2>1, <3>2
  <2>3. WindowLen(l, i - 1) = i - 1 - Max(T)
    BY DEF WindowLen
  <2> HIDE DEF T
  <2> QED BY <2>2, <2>3
<1> DEFINE a == i - WindowLen(l, i - 1)
<1>3. SubSeq(l, a, i - 1) = SubSeq(m, a, i - 1)
  <2>1. a \in Nat \ {0}
    BY <1>2
  <2> HIDE DEF a
  <2>2. \A j \in 1 .. i - 1 - a + 1 : l[a + j - 1] = m[a + j - 1]
    BY <2>1
  <2> QED BY <2>1, <2>2
<1>4. l[i] = m[i]
  OBVIOUS
<1> HIDE DEF a
<1>5. a = i - WindowLen(m, i - 1) /\ a = i - WindowLen(l, i - 1)
  BY <1>1 DEF a
<1> QED BY <1>3, <1>4, <1>5, Zenon DEF ReplayStep

(* What is replayed is decided by the entries before that position.        *)
LEMMA ReplayPrefix ==
    ASSUME NEW E, NEW l \in Seq(E), NEW m \in Seq(E), NEW n \in Nat,
           n <= Len(l), n <= Len(m), \A i \in 1 .. n : l[i] = m[i],
           NEW from
    PROVE  ReplayedOf(l, from, n) = ReplayedOf(m, from, n)
<1>1. PICK f : /\ f[0] = from
               /\ \A i \in 1 .. n : f[i] = ReplayStep(l, f[i - 1], i)
               /\ ReplayedOf(l, from, n) = f[n]
  BY ReplayLoop
<1>2. PICK g : /\ g[0] = from
               /\ \A i \in 1 .. n : g[i] = ReplayStep(m, g[i - 1], i)
               /\ ReplayedOf(m, from, n) = g[n]
  BY ReplayLoop
<1> DEFINE S == {i \in Nat : f[i] = g[i]}
<1>3. 0 \in S
  BY <1>1, <1>2
<1>4. ASSUME NEW i \in 0 .. n - 1, i \in S PROVE i + 1 \in S
  <2>1. i + 1 \in 1 .. n /\ i + 1 - 1 = i
    OBVIOUS
  <2>2. f[i + 1] = ReplayStep(l, f[i], i + 1) /\ g[i + 1] = ReplayStep(m, g[i], i + 1)
    BY <1>1, <1>2, <2>1
  <2>3. ReplayStep(l, f[i], i + 1) = ReplayStep(m, f[i], i + 1)
    BY <2>1, StepPrefix
  <2> QED BY <1>4, <2>2, <2>3
<1>5. n \in S
  <2>1. \A i \in 0 .. n : i \in S
    <3> HIDE DEF S
    <3> QED BY <1>3, <1>4, BoundedInduction
  <2> QED BY <2>1
<1> QED BY <1>1, <1>2, <1>5

(* One more position is one more step.                                     *)
LEMMA ReplayNext ==
    ASSUME NEW l, NEW from, NEW n \in Nat
    PROVE  ReplayedOf(l, from, n + 1) = ReplayStep(l, ReplayedOf(l, from, n), n + 1)
<1>1. PICK f : /\ f[0] = from
               /\ \A i \in 1 .. n : f[i] = ReplayStep(l, f[i - 1], i)
               /\ ReplayedOf(l, from, n) = f[n]
  BY ReplayLoop
<1> DEFINE p == n + 1
<1>0. p \in Nat /\ p = n + 1
  OBVIOUS
<1> HIDE DEF p
<1>2a. PICK g : /\ g[0] = from
                /\ \A i \in 1 .. p : g[i] = ReplayStep(l, g[i - 1], i)
                /\ ReplayedOf(l, from, p) = g[p]
  BY <1>0, ReplayLoop
<1>2. /\ g[0] = from
      /\ \A i \in 1 .. n + 1 : g[i] = ReplayStep(l, g[i - 1], i)
      /\ ReplayedOf(l, from, n + 1) = g[n + 1]
  BY <1>0, <1>2a
<1> DEFINE S == {i \in Nat : f[i] = g[i]}
<1>3. 0 \in S
  BY <1>1, <1>2
<1>4. ASSUME NEW i \in 0 .. n - 1, i \in S PROVE i + 1 \in S
  <2>1. i + 1 \in 1 .. n /\ i + 1 \in 1 .. n + 1 /\ i + 1 - 1 = i
    OBVIOUS
  <2>2. f[i + 1] = ReplayStep(l, f[i], i + 1) /\ g[i + 1] = ReplayStep(l, g[i], i + 1)
    BY <1>1, <1>2, <2>1
  <2> QED BY <1>4, <2>2
<1>5. n \in S
  <2>1. \A i \in 0 .. n : i \in S
    <3> HIDE DEF S
    <3> QED BY <1>3, <1>4, BoundedInduction
  <2> QED BY <2>1
<1>6. g[n + 1] = ReplayStep(l, g[n], n + 1)
  <2>1. n + 1 \in 1 .. n + 1 /\ n + 1 - 1 = n
    OBVIOUS
  <2> QED BY <1>2, <2>1
<1> QED BY <1>1, <1>2, <1>5, <1>6


-----------------------------------------------------------------------------
(* Windows, entry by entry                                                 *)

(* The last entry of a window is applied to what the others leave.         *)
LEMMA WindowPrefix ==
    ASSUME NEW E, NEW w \in Seq(E), NEW e \in E, NEW buf, NEW fates
    PROVE  apply_window(buf, Append(w, e), fates) =
             ApplyEntry(apply_window(buf, w, fates), e, FateOf(fates, Len(w) + 1))
<1> DEFINE t == Append(w, e)
           N == Len(w)
<1>1. /\ t \in Seq(E) /\ N \in Nat /\ Len(t) = N + 1 /\ t[N + 1] = e
      /\ \A i \in 1 .. N : t[i] = w[i]
  OBVIOUS
<1> HIDE DEF t
<1>2. PICK f : /\ f[0] = buf
               /\ \A i \in 1 .. Len(w) : f[i] = ApplyEntry(f[i - 1], w[i], FateOf(fates, i))
               /\ apply_window(buf, w, fates) = f[Len(w)]
  BY WindowLoop
<1>3. PICK g : /\ g[0] = buf
               /\ \A i \in 1 .. Len(t) : g[i] = ApplyEntry(g[i - 1], t[i], FateOf(fates, i))
               /\ apply_window(buf, t, fates) = g[Len(t)]
  BY <1>1, WindowLoop
<1> DEFINE S == {n \in Nat : g[n] = f[n]}
<1>4. 0 \in S
  BY <1>2, <1>3
<1>5. ASSUME NEW n \in 0 .. N - 1, n \in S PROVE n + 1 \in S
  <2>1. n + 1 \in 1 .. N /\ n + 1 \in 1 .. Len(t) /\ n + 1 - 1 = n
    BY <1>1
  <2>2. /\ g[n + 1] = ApplyEntry(g[n], t[n + 1], FateOf(fates, n + 1))
        /\ f[n + 1] = ApplyEntry(f[n], w[n + 1], FateOf(fates, n + 1))
    BY <1>2, <1>3, <2>1
  <2>3. t[n + 1] = w[n + 1] /\ g[n] = f[n]
    BY <1>1, <1>5, <2>1
  <2> QED BY <2>2, <2>3
<1>6. g[N] = f[N]
  <2>1. \A n \in 0 .. N : n \in S
    <3> HIDE DEF S, N
    <3> QED BY <1>1, <1>4, <1>5, BoundedInduction
  <2> QED BY <1>1, <2>1
<1>7. apply_window(buf, t, fates) = ApplyEntry(g[N], e, FateOf(fates, N + 1))
  <2>1. N + 1 \in 1 .. Len(t) /\ N + 1 - 1 = N
    BY <1>1
  <2> QED BY <1>1, <1>3, <2>1
<1> QED BY <1>2, <1>6, <1>7 DEF t

(* Only the fates of the window's own entries matter.                      *)
LEMMA FatesAgree ==
    ASSUME NEW E, NEW w \in Seq(E), NEW buf, NEW fates, NEW other,
           \A i \in 1 .. Len(w) : FateOf(fates, i) = FateOf(other, i)
    PROVE  apply_window(buf, w, fates) = apply_window(buf, w, other)
<1>0. Len(w) \in Nat
  OBVIOUS
<1>2. PICK f : /\ f[0] = buf
               /\ \A i \in 1 .. Len(w) : f[i] = ApplyEntry(f[i - 1], w[i], FateOf(fates, i))
               /\ apply_window(buf, w, fates) = f[Len(w)]
  BY WindowLoop
<1>3. PICK g : /\ g[0] = buf
               /\ \A i \in 1 .. Len(w) : g[i] = ApplyEntry(g[i - 1], w[i], FateOf(other, i))
               /\ apply_window(buf, w, other) = g[Len(w)]
  BY WindowLoop
<1> DEFINE S == {n \in Nat : g[n] = f[n]}
<1>4. 0 \in S
  BY <1>2, <1>3
<1>5. ASSUME NEW n \in 0 .. Len(w) - 1, n \in S PROVE n + 1 \in S
  <2>1. n + 1 \in 1 .. Len(w) /\ n + 1 - 1 = n
    BY <1>0
  <2>2. /\ g[n + 1] = ApplyEntry(g[n], w[n + 1], FateOf(other, n + 1))
        /\ f[n + 1] = ApplyEntry(f[n], w[n + 1], FateOf(fates, n + 1))
    BY <1>2, <1>3, <2>1
  <2>3. FateOf(fates, n + 1) = FateOf(other, n + 1) /\ g[n] = f[n]
    BY <1>5, <2>1
  <2> QED BY <2>2, <2>3
<1>6. g[Len(w)] = f[Len(w)]
  <2>1. \A n \in 0 .. Len(w) : n \in S
    <3> HIDE DEF S
    <3> QED BY <1>0, <1>4, <1>5, BoundedInduction
  <2> QED BY <1>0, <2>1
<1> QED BY <1>2, <1>3, <1>6

(* The same for all images of a window.                                    *)
LEMMA ImagesPrefix ==
    ASSUME NEW E, NEW w \in Seq(E), NEW e \in E, NEW buf
    PROVE  ImagesOf(buf, Append(w, e)) = MoreImages(ImagesOf(buf, w), e)
<1> DEFINE t == Append(w, e)
           N == Len(w)
<1>1. /\ t \in Seq(E) /\ N \in Nat /\ Len(t) = N + 1 /\ t[N + 1] = e
      /\ \A i \in 1 .. N : t[i] = w[i]
  OBVIOUS
<1> HIDE DEF t
<1>2. PICK f : /\ f[0] = {buf}
               /\ \A i \in 1 .. Len(w) : f[i] = MoreImages(f[i - 1], w[i])
               /\ ImagesOf(buf, w) = f[Len(w)]
  BY ImagesLoop
<1>3. PICK g : /\ g[0] = {buf}
               /\ \A i \in 1 .. Len(t) : g[i] = MoreImages(g[i - 1], t[i])
               /\ ImagesOf(buf, t) = g[Len(t)]
  BY <1>1, ImagesLoop
<1> DEFINE S == {n \in Nat : g[n] = f[n]}
<1>4. 0 \in S
  BY <1>2, <1>3
<1>5. ASSUME NEW n \in 0 .. N - 1, n \in S PROVE n + 1 \in S
  <2>1. n + 1 \in 1 .. N /\ n + 1 \in 1 .. Len(t) /\ n + 1 - 1 = n
    BY <1>1
  <2>2. g[n + 1] = MoreImages(g[n], t[n + 1]) /\ f[n + 1] = MoreImages(f[n], w[n + 1])
    BY <1>2, <1>3, <2>1
  <2>3. t[n + 1] = w[n + 1] /\ g[n] = f[n]
    BY <1>1, <1>5, <2>1
  <2> QED BY <2>2, <2>3
<1>6. g[N] = f[N]
  <2>1. \A n \in 0 .. N : n \in S
    <3> HIDE DEF S, N
    <3> QED BY <1>1, <1>4, <1>5, BoundedInduction
  <2> QED BY <1>1, <2>1
<1>7. ImagesOf(buf, t) = MoreImages(g[N], e)
  <2>1. N + 1 \in 1 .. Len(t) /\ N + 1 - 1 = N
    BY <1>1
  <2> QED BY <1>1, <1>3, <2>1
<1> QED BY <1>2, <1>6, <1>7 DEF t

(* An empty window changes nothing.                                        *)
LEMMA EmptyWindow ==
    ASSUME NEW E, NEW w \in Seq(E), NEW buf, NEW fates
    PROVE  Len(w) = 0 => apply_window(buf, w, fates) = buf /\ ImagesOf(buf, w) = {buf}
<1>1. PICK f : /\ f[0] = buf
               /\ \A i \in 1 .. Len(w) : f[i] = ApplyEntry(f[i - 1], w[i], FateOf(fates, i))
               /\ apply_window(buf, w, fates) = f[Len(w)]
  BY WindowLoop
<1>2. PICK g : /\ g[0] = {buf}
               /\ \A i \in 1 .. Len(w) : g[i] = MoreImages(g[i - 1], w[i])
               /\ ImagesOf(buf, w) = g[Len(w)]
  BY ImagesLoop
<1> QED BY <1>1, <1>2

(* The images of a window, collected fate by fate for the whole of it.     *)
ImagesOfFates(buf, w) == {apply_window(buf, w, fates) : fates \in [1 .. Len(w) -> Fates]}

(* Choosing all fates of a window at once gives the images that choosing   *)
(* them one by one gives.                                                  *)
LEMMA ImagesStep ==
    ASSUME NEW E, NEW w \in Seq(E), NEW e \in E, NEW buf
    PROVE  ImagesOfFates(buf, Append(w, e)) = MoreImages(ImagesOfFates(buf, w), e)
<1> DEFINE t == Append(w, e)
           N == Len(w)
           W(fates) == apply_window(buf, w, fates)
           M == MoreImages(ImagesOfFates(buf, w), e)
<1>1. t \in Seq(E) /\ N \in Nat /\ Len(t) = N + 1
  OBVIOUS
<1>2. \A fates : apply_window(buf, t, fates) = ApplyEntry(W(fates), e, FateOf(fates, N + 1))
  BY WindowPrefix
<1>3. \A x : x \in M <=> \E f \in [1 .. N -> Fates], fate \in Fates :
                             x = ApplyEntry(W(f), e, fate)
  <2>1. \A x : x \in M <=> \E image \in ImagesOfFates(buf, w), fate \in Fates :
                               x = ApplyEntry(image, e, fate)
    BY DEF MoreImages
  <2>2. \A y : y \in ImagesOfFates(buf, w) <=> \E f \in [1 .. N -> Fates] : y = W(f)
    BY DEF ImagesOfFates
  <2> HIDE DEF M, W, N
  <2>3. ASSUME NEW x \in M
        PROVE  \E f \in [1 .. N -> Fates], fate \in Fates : x = ApplyEntry(W(f), e, fate)
    <3>1. PICK image \in ImagesOfFates(buf, w), fate \in Fates : x = ApplyEntry(image, e, fate)
      BY <2>1
    <3>2. PICK f \in [1 .. N -> Fates] : image = W(f)
      BY <2>2
    <3> QED BY <3>1, <3>2
  <2>4. ASSUME NEW f \in [1 .. N -> Fates], NEW fate \in Fates
        PROVE  ApplyEntry(W(f), e, fate) \in M
    <3>1. W(f) \in ImagesOfFates(buf, w)
      BY <2>2
    <3> QED BY <2>1, <3>1
  <2> QED BY <2>3, <2>4
<1>4. \A x : x \in ImagesOfFates(buf, t) <=>
                \E f \in [1 .. N + 1 -> Fates] : x = ApplyEntry(W(f), e, FateOf(f, N + 1))
  <2> HIDE DEF t, N
  <2> QED BY <1>1, <1>2, Zenon DEF ImagesOfFates
<1>5. ASSUME NEW f \in [1 .. N + 1 -> Fates]
      PROVE  ApplyEntry(W(f), e, FateOf(f, N + 1)) \in M
  <2> DEFINE g == [i \in 1 .. N |-> f[i]]
  <2>1. g \in [1 .. N -> Fates] /\ f[N + 1] \in Fates /\ FateOf(f, N + 1) = f[N + 1]
    BY <1>1 DEF FateOf
  <2>2. \A i \in 1 .. N : FateOf(f, i) = FateOf(g, i)
    BY <1>1 DEF FateOf
  <2> HIDE DEF g
  <2>3. W(f) = W(g)
    BY <2>2, FatesAgree
  <2> HIDE DEF W, M, N
  <2> QED BY <1>3, <2>1, <2>3
<1>6. ASSUME NEW f \in [1 .. N -> Fates], NEW fate \in Fates
      PROVE  ApplyEntry(W(f), e, fate) \in ImagesOfFates(buf, t)
  <2> DEFINE g == [i \in 1 .. N + 1 |-> IF i = N + 1 THEN fate ELSE f[i]]
  <2>1. g \in [1 .. N + 1 -> Fates] /\ FateOf(g, N + 1) = fate
    BY <1>1 DEF FateOf
  <2>2. \A i \in 1 .. N : FateOf(f, i) = FateOf(g, i)
    BY <1>1 DEF FateOf
  <2> HIDE DEF g
  <2>3. W(f) = W(g)
    BY <2>2, FatesAgree
  <2> HIDE DEF W, t, N
  <2> QED BY <1>4, <2>1, <2>3
<1> HIDE DEF M, W, t
<1>7. \A x : x \in M <=> x \in ImagesOfFates(buf, t)
  BY <1>3, <1>4, <1>5, <1>6
<1> QED BY <1>7, Zenon DEF M, t

(* Choosing all fates of a window at once misses no image.                 *)
LEMMA ImagesExact ==
    ASSUME NEW E, NEW w \in Seq(E), NEW buf
    PROVE  ImagesOfFates(buf, w) = ImagesOf(buf, w)
<1> DEFINE Exact(v) == ImagesOfFates(buf, v) = ImagesOf(buf, v)
           S == {n \in Nat : \A v \in Seq(E) : Len(v) = n => Exact(v)}
<1>1. 0 \in S
  <2>1. ASSUME NEW v \in Seq(E), Len(v) = 0 PROVE Exact(v)
    <3>1. [i \in 1 .. 0 |-> 0] \in [1 .. Len(v) -> Fates]
      BY <2>1
    <3>2. \A fates : apply_window(buf, v, fates) = buf
      BY <2>1, EmptyWindow
    <3>3. ImagesOf(buf, v) = {buf}
      BY <2>1, EmptyWindow
    <3>4. ImagesOfFates(buf, v) = {buf}
      <4>1. buf \in ImagesOfFates(buf, v)
        BY <3>1, <3>2 DEF ImagesOfFates
      <4>2. \A x \in ImagesOfFates(buf, v) : x = buf
        BY <3>2 DEF ImagesOfFates
      <4> QED BY <4>1, <4>2
    <3> QED BY <3>3, <3>4
  <2> HIDE DEF Exact
  <2> QED BY <2>1
<1>2. ASSUME NEW n \in Nat, n \in S PROVE n + 1 \in S
  <2>1. ASSUME NEW v \in Seq(E), Len(v) = n + 1 PROVE Exact(v)
    <3> DEFINE u == SubSeq(v, 1, n)
    <3>1. u \in Seq(E) /\ Len(u) = n /\ v[n + 1] \in E /\ v = Append(u, v[n + 1])
      BY <2>1
    <3> HIDE DEF u
    <3>2. Exact(u)
      <4> HIDE DEF Exact
      <4> QED BY <1>2, <3>1
    <3>3. ImagesOfFates(buf, Append(u, v[n + 1])) = MoreImages(ImagesOfFates(buf, u), v[n + 1])
      BY <3>1, ImagesStep, Zenon
    <3>4. ImagesOf(buf, Append(u, v[n + 1])) = MoreImages(ImagesOf(buf, u), v[n + 1])
      BY <3>1, ImagesPrefix, Zenon
    <3> QED BY <3>1, <3>2, <3>3, <3>4, Zenon
  <2> HIDE DEF Exact
  <2> QED BY <2>1
<1>3. \A n \in Nat : n \in S
  <2> HIDE DEF S
  <2> QED BY <1>1, <1>2, SetInduction
<1>4. Len(w) \in S
  BY <1>3
<1> HIDE DEF Exact
<1>5. Exact(w)
  BY <1>4
<1> QED BY <1>5 DEF Exact


-----------------------------------------------------------------------------
(* The inductive invariant                                                 *)

Entries == [op : {"Write"}, off : Nat, data : Seq(Nat)] \cup [op : {"SetLen"}, len : Nat]
              \cup [op : {"SyncOk"}]
              \cup [op : {"SyncFailed"}, fates : UNION {[1 .. n -> Fates] : n \in Nat}]

TypeInv ==
    /\ log \in Seq(Entries)
    /\ window_start \in 0 .. Len(log)
    /\ fail_sync = <<>> \/ fail_sync \in Nat \X UNION {[1 .. n -> Fates] : n \in Nat}

(* The window begins behind the last sync of the log.                      *)
WindowInv ==
    /\ window_start > 0 => IsSync(log[window_start])
    /\ \A i \in window_start + 1 .. Len(log) : ~IsSync(log[i])

(* What the syncs made durable, one after the other, is what a replay of   *)
(* all of them finds.                                                      *)
DurableInv == durable = Replayed(initial, Len(log))

IndInv == TypeInv /\ WindowInv /\ DurableInv

(* The operators of the model are those for any log, of this one.          *)
LEMMA OfLog ==
    /\ window_len_at(Len(log)) = WindowLen(log, Len(log))
    /\ Replayed(initial, Len(log)) = ReplayedOf(log, initial, Len(log))
<1>1. window_len_at(Len(log)) = WindowLen(log, Len(log))
  BY Zenon DEF window_len_at, WindowLen
<1>2. Replayed(initial, Len(log)) = ReplayedOf(log, initial, Len(log))
  BY Zenon DEF window_len_at, WindowLen, Replayed, ReplayedOf, ReplayStep
<1> QED BY <1>1, <1>2

(* The same after a step.                                                  *)
LEMMA OfLogNext == Replayed(initial, Len(log))' = ReplayedOf(log', initial', Len(log'))
BY Zenon DEF window_len_at, WindowLen, Replayed, ReplayedOf, ReplayStep


(* The device that from_image builds satisfies the invariant.              *)
LEMMA InitInv == Init => IndInv
<1> SUFFICES ASSUME Init PROVE IndInv
  OBVIOUS
<1>1. log = <<>> /\ window_start = 0 /\ fail_sync = <<>> /\ durable = initial
  BY DEF Init, from_image
<1>2. TypeInv /\ WindowInv
  BY <1>1 DEF TypeInv, WindowInv
<1>3. DurableInv
  <2>1. Len(log) = 0
    BY <1>1
  <2>2. ReplayedOf(log, initial, Len(log)) = initial
    <3> DEFINE n == Len(log)
    <3>0. n \in Nat
      BY <2>1
    <3> HIDE DEF n
    <3>1. PICK f : /\ f[0] = initial
                   /\ \A i \in 1 .. n : f[i] = ReplayStep(log, f[i - 1], i)
                   /\ ReplayedOf(log, initial, n) = f[n]
      BY <3>0, ReplayLoop
    <3> QED BY <2>1, <3>1 DEF n
  <2> QED BY <1>1, <2>1, <2>2, OfLog DEF DurableInv
<1> QED BY <1>2, <1>3 DEF IndInv

(* An appended entry leaves the replay of the entries before it alone.     *)
LEMMA AppendReplay ==
    ASSUME NEW l \in Seq(Entries), NEW e \in Entries, NEW from
    PROVE  ReplayedOf(Append(l, e), from, Len(l)) = ReplayedOf(l, from, Len(l))
<1> DEFINE m == Append(l, e)
<1>1. /\ m \in Seq(Entries) /\ Len(l) \in Nat /\ Len(l) <= Len(l) /\ Len(l) <= Len(m)
      /\ \A i \in 1 .. Len(l) : l[i] = m[i]
  OBVIOUS
<1> HIDE DEF m
<1>2. ReplayedOf(l, from, Len(l)) = ReplayedOf(m, from, Len(l))
  BY <1>1, ReplayPrefix
<1> QED BY <1>2 DEF m

(* A write or a cut waits in the window for the next sync.                 *)
LEMMA EntryStep ==
    ASSUME IndInv, NEW e \in Entries, ~IsSync(e), log' = Append(log, e),
           UNCHANGED <<durable, initial, window_start, fail_sync>>
    PROVE  IndInv'
<1>0. log \in Seq(Entries) /\ window_start \in 0 .. Len(log) /\ Len(log) \in Nat
  BY DEF IndInv, TypeInv
<1>1. /\ log' \in Seq(Entries) /\ Len(log') = Len(log) + 1 /\ log'[Len(log) + 1] = e
      /\ \A i \in 1 .. Len(log) : log'[i] = log[i]
  BY <1>0
<1>2. TypeInv'
  BY <1>0, <1>1 DEF IndInv, TypeInv
<1>3. WindowInv'
  <2>1. window_start > 0 => IsSync(log'[window_start])
    BY <1>0, <1>1 DEF IndInv, WindowInv
  <2>2. ASSUME NEW i \in window_start + 1 .. Len(log) + 1 PROVE ~IsSync(log'[i])
    <3>1. CASE i = Len(log) + 1
      BY <1>1, <3>1
    <3>2. CASE i # Len(log) + 1
      <4>1. i \in window_start + 1 .. Len(log) /\ i \in 1 .. Len(log)
        BY <1>0, <3>2
      <4> QED BY <1>1, <4>1 DEF IndInv, WindowInv
    <3> QED BY <3>1, <3>2
  <2> QED BY <1>1, <2>1, <2>2 DEF WindowInv
<1>4. DurableInv'
  <2> DEFINE n == Len(log)
  <2>1. ReplayedOf(log', initial, n + 1) = ReplayStep(log', ReplayedOf(log', initial, n), n + 1)
    BY <1>0, ReplayNext
  <2>2. ReplayedOf(log', initial, n) = ReplayedOf(log, initial, n)
    BY <1>0, AppendReplay
  <2>3. \A file : ReplayStep(log', file, n + 1) = file
    BY <1>1 DEF ReplayStep, IsSync
  <2>4. durable = ReplayedOf(log, initial, n)
    BY OfLog DEF IndInv, DurableInv
  <2>5. ReplayedOf(log', initial', Len(log')) = durable'
    BY <1>1, <2>1, <2>2, <2>3, <2>4
  <2> QED BY <2>5, OfLogNext DEF DurableInv
<1> QED BY <1>2, <1>3, <1>4 DEF IndInv

(* The window that the entry at i of log l closes.                         *)
Closed(l, i) == SubSeq(l, i - WindowLen(l, i - 1), i - 1)

(* A sync entry is replayed with the fates that it records.                *)
LEMMA SyncReplayed ==
    ASSUME NEW l, NEW file, NEW i, NEW fates,
           \/ l[i].op = "SyncOk" /\ fates = <<>>
           \/ l[i].op = "SyncFailed" /\ fates = l[i].fates
    PROVE  ReplayStep(l, file, i) = apply_window(file, Closed(l, i), fates)
<1> DEFINE w == Closed(l, i)
           Step(v) == CASE l[i].op = "SyncOk" -> apply_window(file, v, <<>>)
                        [] l[i].op = "SyncFailed" -> apply_window(file, v, l[i].fates)
                        [] OTHER -> file
<1>1. ReplayStep(l, file, i) = Step(w)
  BY Zenon DEF ReplayStep, Closed
<1>2. Step(w) = apply_window(file, w, fates)
  <2> HIDE DEF w
  <2> QED OBVIOUS
<1> QED BY <1>1, <1>2, Zenon

(* A sync, successful or not, ends the window.                             *)
LEMMA SyncStep ==
    ASSUME IndInv, NEW e \in Entries, NEW fates,
           \/ e.op = "SyncOk" /\ fates = <<>>
           \/ e.op = "SyncFailed" /\ fates = e.fates,
           CloseWindow(e), durable' = apply_window(durable, Window, fates),
           initial' = initial,
           fail_sync' = <<>> \/ fail_sync' \in Nat \X UNION {[1 .. n -> Fates] : n \in Nat}
    PROVE  IndInv'
<1>0. log \in Seq(Entries) /\ window_start \in 0 .. Len(log) /\ Len(log) \in Nat
  BY DEF IndInv, TypeInv
<1>1. /\ log' = Append(log, e) /\ window_start' = Len(log) + 1
      /\ log' \in Seq(Entries) /\ Len(log') = Len(log) + 1 /\ log'[Len(log) + 1] = e
      /\ \A i \in 1 .. Len(log) : log'[i] = log[i]
  BY <1>0 DEF CloseWindow
<1>2. TypeInv'
  BY <1>0, <1>1 DEF TypeInv
<1>3. WindowInv'
  BY <1>0, <1>1 DEF WindowInv, IsSync
<1>4. DurableInv'
  <2> DEFINE n == Len(log)
  <2>1. ReplayedOf(log', initial, n + 1) = ReplayStep(log', ReplayedOf(log', initial, n), n + 1)
    BY <1>0, ReplayNext
  <2>2. ReplayedOf(log', initial, n) = durable
    <3>1. ReplayedOf(log', initial, n) = ReplayedOf(log, initial, n)
      BY <1>0, <1>1, AppendReplay
    <3> QED BY <3>1, OfLog DEF IndInv, DurableInv
  <2>3. WindowLen(log', n) = n - window_start
    <3>1. window_start > 0 => IsSync(log'[window_start])
      BY <1>0, <1>1 DEF IndInv, WindowInv
    <3>2. \A i \in window_start + 1 .. n : ~IsSync(log'[i])
      BY <1>0, <1>1 DEF IndInv, WindowInv
    <3> QED BY <1>0, <3>1, <3>2, WindowLenIs
  <2>4. Closed(log', n + 1) = Window
    <3>1. (n + 1) - 1 = n /\ (n + 1) - (n - window_start) = window_start + 1
      BY <1>0
    <3>2. SubSeq(log', window_start + 1, n) = SubSeq(log, window_start + 1, n)
      <4>1. \A j \in 1 .. n - (window_start + 1) + 1 :
               log'[window_start + 1 + j - 1] = log[window_start + 1 + j - 1]
        BY <1>0, <1>1
      <4> QED BY <1>0, <1>1, <4>1
    <3> QED BY <2>3, <3>1, <3>2 DEF Window, Closed
  <2> HIDE DEF n
  <2>5. log'[n + 1] = e
    BY <1>1 DEF n
  <2>6. ReplayStep(log', durable, n + 1) = apply_window(durable, Window, fates)
    <3>1. \/ log'[n + 1].op = "SyncOk" /\ fates = <<>>
          \/ log'[n + 1].op = "SyncFailed" /\ fates = log'[n + 1].fates
      BY <2>5
    <3>2. ReplayStep(log', durable, n + 1) = apply_window(durable, Closed(log', n + 1), fates)
      BY <3>1, SyncReplayed
    <3>3. Closed(log', n + 1) = Window
      BY <2>4
    <3> QED BY <3>2, <3>3
  <2>7. ReplayedOf(log', initial', Len(log')) = durable'
    BY <1>1, <2>1, <2>2, <2>6 DEF n
  <2> QED BY <2>7, OfLogNext DEF DurableInv
<1> QED BY <1>2, <1>3, <1>4 DEF IndInv

(* Every call that the engine makes preserves the invariant.               *)
LEMMA StepInv == IndInv /\ [Next]_vars => IndInv'
<1> SUFFICES ASSUME IndInv, [Next]_vars PROVE IndInv'
  OBVIOUS
<1>0. log \in Seq(Entries) /\ Len(log) \in Nat /\ UnitBytes \in Nat /\ Size \in Nat
  BY FaultyAssumption DEF IndInv, TypeInv
<1>1. ASSUME NEW u \in 0 .. (Size - 1), NEW n \in 1 .. MaxWrite, EngineWrite(u, n) PROVE IndInv'
  <2> DEFINE off == u * UnitBytes
             len == n * UnitBytes
             data == [b \in 1 .. len |-> Stamp]
  <2>1. off \in Nat /\ len \in Nat /\ Stamp \in Nat
    BY <1>0 DEF Stamp
  <2>2. data \in Seq(Nat)
    <3> HIDE DEF len
    <3> QED BY <2>1
  <2>3. write_all_at(off, data)
    BY <1>1 DEF EngineWrite
  <2> HIDE DEF off, data
  <2>4. Write(off, data) \in Entries /\ ~IsSync(Write(off, data))
    BY <2>1, <2>2 DEF Write, Entries, IsSync
  <2> QED BY <2>3, <2>4, EntryStep DEF write_all_at
<1>2. ASSUME NEW u \in DATA_START .. Size, EngineSetLen(u) PROVE IndInv'
  <2> DEFINE len == u * UnitBytes
  <2>1. len \in Nat
    BY <1>0 DEF DATA_START
  <2>2. set_len(len)
    BY <1>2 DEF EngineSetLen
  <2> HIDE DEF len
  <2>3. SetLen(len) \in Entries /\ ~IsSync(SetLen(len))
    BY <2>1 DEF SetLen, Entries, IsSync
  <2> QED BY <2>2, <2>3, EntryStep DEF set_len
<1>3. ASSUME EngineSync PROVE IndInv'
  <2>0. fail_sync = <<>> \/ fail_sync \in Nat \X UNION {[1 .. n -> Fates] : n \in Nat}
    BY DEF IndInv, TypeInv
  <2>1. CASE FailsNow
    <3>1. /\ durable' = apply_window(durable, Window, fail_sync[2])
          /\ CloseWindow(SyncFailed(fail_sync[2])) /\ fail_sync' = <<>> /\ initial' = initial
      BY <1>3, <2>1 DEF EngineSync, sync
    <3>2. fail_sync[2] \in UNION {[1 .. n -> Fates] : n \in Nat}
      BY <2>0, <2>1 DEF FailsNow
    <3> DEFINE F == fail_sync[2]
               e == SyncFailed(F)
    <3>3. e \in Entries /\ e.op = "SyncFailed" /\ e.fates = F
      <4> HIDE DEF F
      <4> QED BY <3>2 DEF SyncFailed, Entries, F
    <3> HIDE DEF e, F
    <3> QED BY <3>1, <3>3, SyncStep DEF e, F
  <2>2. CASE ~FailsNow
    <3>1. /\ durable' = apply_window(durable, Window, <<>>)
          /\ CloseWindow(SyncOk) /\ initial' = initial
          /\ fail_sync' = IF fail_sync = <<>> THEN <<>>
                          ELSE <<fail_sync[1] - 1, fail_sync[2]>>
      BY <1>3, <2>2 DEF EngineSync, sync
    <3>2. SyncOk \in Entries /\ SyncOk.op = "SyncOk"
      BY DEF SyncOk, Entries
    <3>3. fail_sync' = <<>> \/ fail_sync' \in Nat \X UNION {[1 .. n -> Fates] : n \in Nat}
      <4>1. CASE fail_sync = <<>>
        BY <3>1, <4>1
      <4>2. CASE fail_sync # <<>>
        <5> DEFINE A == UNION {[1 .. n -> Fates] : n \in Nat}
        <5>1. fail_sync \in Nat \X A
          BY <2>0, <4>2
        <5> HIDE DEF A
        <5>2. fail_sync[1] \in Nat \ {0} /\ fail_sync[2] \in A
          BY <2>2, <4>2, <5>1 DEF FailsNow
        <5>3. fail_sync' \in Nat \X A
          BY <3>1, <4>2, <5>2
        <5> QED BY <5>3 DEF A
      <4> QED BY <4>1, <4>2
    <3> QED BY <3>1, <3>2, <3>3, SyncStep
  <2> QED BY <2>1, <2>2
<1>4. ASSUME NEW skip \in 0 .. MaxSkip, NEW n \in 0 .. MaxArmed,
             NEW fates \in [1 .. n -> {fate \in Fates : fate[1] \in ArmedKinds}],
             fail_nth_sync(skip, fates)
      PROVE  IndInv'
  <2>1. fates \in [1 .. n -> Fates] /\ n \in Nat /\ skip \in Nat
    OBVIOUS
  <2>2. fates \in UNION {[1 .. m -> Fates] : m \in Nat}
    BY <2>1
  <2>3. fail_sync' \in Nat \X UNION {[1 .. m -> Fates] : m \in Nat}
    BY <1>4, <2>1, <2>2 DEF fail_nth_sync
  <2>4. UNCHANGED <<durable, initial, log, window_start>>
    BY <1>4 DEF fail_nth_sync
  <2>5. Replayed(initial, Len(log))' = Replayed(initial, Len(log))
    BY <2>4, OfLog, OfLogNext
  <2> QED BY <2>3, <2>4, <2>5 DEF IndInv, TypeInv, WindowInv, DurableInv
<1>5. CASE UNCHANGED vars
  <2>1. UNCHANGED <<durable, initial, log, window_start, fail_sync>>
    BY <1>5 DEF vars
  <2>2. Replayed(initial, Len(log))' = Replayed(initial, Len(log))
    BY <2>1, OfLog, OfLogNext
  <2> QED BY <2>1, <2>2 DEF IndInv, TypeInv, WindowInv, DurableInv
<1> QED BY <1>1, <1>2, <1>3, <1>4, <1>5 DEF Next

(* The invariant makes the images of the log those of the window.          *)
LEMMA ExactNow == IndInv => ReplayExact
<1> SUFFICES ASSUME IndInv PROVE ReplayExact
  OBVIOUS
<1> DEFINE n == Len(log)
<1>0. log \in Seq(Entries) /\ window_start \in 0 .. n /\ n \in Nat
  BY DEF IndInv, TypeInv
<1>1. window_len_at(n) = n - window_start
  <2>1. /\ window_start > 0 => IsSync(log[window_start])
        /\ \A i \in window_start + 1 .. n : ~IsSync(log[i])
    BY DEF IndInv, WindowInv
  <2>2. WindowLen(log, n) = n - window_start
    BY <1>0, <2>1, WindowLenIs
  <2> QED BY <2>2, OfLog
<1>2. Window \in Seq(Entries) /\ Len(Window) = n - window_start
  BY <1>0 DEF Window
<1>3. SubSeq(log, n - window_len_at(n) + 1, n) = Window
  <2>1. n - (n - window_start) + 1 = window_start + 1
    BY <1>0
  <2> QED BY <1>1, <2>1 DEF Window
<1>4. \A fates : crash_image_at(n, fates) = apply_window(durable, Window, fates)
  BY <1>3 DEF crash_image_at, IndInv, DurableInv
<1>5. CrashImages = ImagesOfFates(durable, Window)
  <2>1. CrashImages = {crash_image_at(n, fates) : fates \in [1 .. Len(Window) -> Fates]}
    BY <1>1, <1>2 DEF CrashImages
  <2> QED BY <1>4, <2>1, Zenon DEF ImagesOfFates
<1>6. ImagesOfFates(durable, Window) = ImagesOf(durable, Window)
  BY <1>2, ImagesExact
<1> QED BY <1>5, <1>6 DEF ReplayExact

-----------------------------------------------------------------------------
(* crash_image_at, which replays the whole log with its failed syncs on    *)
(* the image the device began with, yields exactly the files that the      *)
(* current window can leave of the bytes that are durable (vfs.rs          *)
(* crash_image_at, window_len_at, sync).                                   *)
THEOREM CrashImagesExact == Spec => []ReplayExact
BY InitInv, StepInv, ExactNow, PTL DEF Spec

-----------------------------------------------------------------------------
(* What is in a file                                                       *)

(* What is in two files, one behind the other.                             *)
LEMMA ConcatIs ==
    ASSUME NEW x \in Seq(Nat), NEW y \in Seq(Nat)
    PROVE  /\ x \o y \in Seq(Nat) /\ Len(x \o y) = Len(x) + Len(y)
           /\ \A b \in 1 .. Len(x) : (x \o y)[b] = x[b]
           /\ \A b \in 1 .. Len(y) : (x \o y)[Len(x) + b] = y[b]
OBVIOUS

(* The bytes of a file that was cut or grown.                              *)
LEMMA ResizeIs ==
    ASSUME NEW buf \in Seq(Nat), NEW len \in Nat
    PROVE  /\ resize(buf, len) \in Seq(Nat) /\ Len(resize(buf, len)) = len
           /\ \A b \in 1 .. len : resize(buf, len)[b] = IF b <= Len(buf) THEN buf[b] ELSE 0
<1>0. Len(buf) \in Nat
  OBVIOUS
<1>1. CASE len <= Len(buf)
  <2>1. resize(buf, len) = SubSeq(buf, 1, len)
    BY <1>1 DEF resize
  <2>2. SubSeq(buf, 1, len) \in Seq(Nat) /\ Len(SubSeq(buf, 1, len)) = len
        /\ \A b \in 1 .. len : SubSeq(buf, 1, len)[b] = buf[b] /\ b <= Len(buf)
    BY <1>0, <1>1
  <2> QED BY <2>1, <2>2
<1>2. CASE ~(len <= Len(buf))
  <2> DEFINE z == Zeros(len - Len(buf))
  <2>1. resize(buf, len) = buf \o z
    BY <1>2 DEF resize
  <2>2. z \in Seq(Nat) /\ Len(z) = len - Len(buf) /\ \A b \in 1 .. len - Len(buf) : z[b] = 0
    BY <1>0, <1>2 DEF Zeros
  <2> HIDE DEF z
  <2>3. buf \o z \in Seq(Nat) /\ Len(buf \o z) = Len(buf) + Len(z)
        /\ (\A b \in 1 .. Len(buf) : (buf \o z)[b] = buf[b])
        /\ (\A b \in 1 .. Len(z) : (buf \o z)[Len(buf) + b] = z[b])
    BY <2>2
  <2>4. ASSUME NEW b \in 1 .. len, ~(b <= Len(buf)) PROVE (buf \o z)[b] = 0
    <3>1. b - Len(buf) \in 1 .. Len(z) /\ Len(buf) + (b - Len(buf)) = b
      BY <2>2, <2>4, <1>0
    <3> QED BY <3>1, <2>2, <2>3
  <2>5. Len(buf) + Len(z) = len
    BY <2>2, <1>0
  <2> QED BY <2>1, <2>3, <2>4, <2>5
<1> QED BY <1>1, <1>2

Covers(off, data, b) == off < b /\ b <= off + Len(data)

(* The bytes of a file after a write.                                      *)
LEMMA WriteIs ==
    ASSUME NEW buf \in Seq(Nat), NEW off \in Nat, NEW data \in Seq(Nat),
           NEW r, r = write_at(buf, off, data)
    PROVE  /\ r \in Seq(Nat) /\ Len(buf) <= Len(r) /\ off + Len(data) <= Len(r)
           /\ Len(r) = Len(buf) \/ Len(r) = off + Len(data)
           /\ \A b \in 1 .. Len(r) :
                 /\ Covers(off, data, b) => r[b] = data[b - off]
                 /\ ~Covers(off, data, b) => r[b] = IF b <= Len(buf) THEN buf[b] ELSE 0
<1> DEFINE end == off + Len(data)
           m == Max({Len(buf), end})
           grown == resize(buf, m)
           x == SubSeq(grown, 1, off)
           z == SubSeq(grown, end + 1, Len(grown))
<1>0. Len(buf) \in Nat /\ Len(data) \in Nat /\ end \in Nat /\ off <= end
  OBVIOUS
<1>1. m \in Nat /\ Len(buf) <= m /\ end <= m /\ (m = Len(buf) \/ m = end)
  <2> DEFINE T == {Len(buf), end}
  <2> HIDE DEF end
  <2>0. T \subseteq Int /\ end \in T /\ Len(buf) \in T /\ \A y \in T : y = Len(buf) \/ y = end
    BY <1>0
  <2>m. m = Max(T)
    OBVIOUS
  <2> HIDE DEF T, m
  <2>1. CASE Len(buf) <= end
    <3>1. \A y \in T : y <= end
      BY <2>0, <2>1, <1>0
    <3>2. m = end
      BY <3>1, <2>0, <2>m, MaxIs
    <3> QED BY <3>2, <2>1, <1>0
  <2>2. CASE ~(Len(buf) <= end)
    <3>1. \A y \in T : y <= Len(buf)
      BY <2>0, <2>2, <1>0
    <3>2. m = Len(buf)
      BY <3>1, <2>0, <2>m, MaxIs
    <3> QED BY <3>2, <2>2, <1>0
  <2> QED BY <2>1, <2>2
<1> HIDE DEF m
<1>2. grown \in Seq(Nat) /\ Len(grown) = m
      /\ \A b \in 1 .. m : grown[b] = IF b <= Len(buf) THEN buf[b] ELSE 0
  BY <1>1, ResizeIs
<1>3. r = (x \o data) \o z
  BY DEF write_at, m
<1> HIDE DEF grown, end
<1>4. x \in Seq(Nat) /\ Len(x) = off /\ \A b \in 1 .. off : x[b] = grown[b]
  BY <1>0, <1>1, <1>2
<1>5. z \in Seq(Nat) /\ Len(z) = m - end /\ \A b \in 1 .. Len(z) : z[b] = grown[end + b]
  <2>1. end + 1 \in Nat /\ end + 1 >= 1 /\ end + 1 <= m + 1 /\ m <= Len(grown) /\ m \in Nat
    BY <1>0, <1>1, <1>2
  <2>2. \A i \in 1 .. m - end : end + i \in 1 .. m
    BY <1>0, <1>1
  <2>3. \A i \in 1 .. m - end : (end + 1) + i - 1 = end + i
    BY <1>0, <1>1
  <2>4. z = [i \in 1 .. m - end |-> grown[end + i]] /\ m - end \in Nat
    BY <1>0, <1>1, <1>2, <2>1, <2>3
  <2>5. \A i \in 1 .. m - end : grown[end + i] \in Nat
    BY <1>2, <2>2
  <2> DEFINE k == m - end
  <2>6. k \in Nat /\ z = [i \in 1 .. k |-> grown[end + i]] /\ \A i \in 1 .. k : grown[end + i] \in Nat
    BY <2>4, <2>5
  <2> HIDE DEF z, k
  <2>7. z \in Seq(Nat) /\ Len(z) = k
    BY <2>6
  <2>8. \A i \in 1 .. k : z[i] = grown[end + i]
    BY <2>6
  <2> QED BY <2>7, <2>8 DEF k
<1> DEFINE xd == x \o data
<1> HIDE DEF x, z
<1>6. xd \in Seq(Nat) /\ Len(xd) = end
      /\ (\A b \in 1 .. off : xd[b] = x[b])
      /\ (\A b \in 1 .. Len(data) : xd[off + b] = data[b])
  <2>1. /\ x \o data \in Seq(Nat) /\ Len(x \o data) = Len(x) + Len(data)
        /\ (\A b \in 1 .. Len(x) : (x \o data)[b] = x[b])
        /\ (\A b \in 1 .. Len(data) : (x \o data)[Len(x) + b] = data[b])
    BY <1>4, ConcatIs
  <2> QED BY <2>1, <1>4 DEF end
<1> HIDE DEF xd
<1>7. /\ xd \o z \in Seq(Nat) /\ Len(xd \o z) = end + Len(z)
      /\ (\A b \in 1 .. end : (xd \o z)[b] = xd[b])
      /\ (\A b \in 1 .. Len(z) : (xd \o z)[end + b] = z[b])
  <2>1. /\ xd \o z \in Seq(Nat) /\ Len(xd \o z) = Len(xd) + Len(z)
        /\ (\A b \in 1 .. Len(xd) : (xd \o z)[b] = xd[b])
        /\ (\A b \in 1 .. Len(z) : (xd \o z)[Len(xd) + b] = z[b])
    BY <1>5, <1>6, ConcatIs
  <2> QED BY <2>1, <1>6
<1>8. r = xd \o z
  BY <1>3 DEF xd
<1>9. Len(r) = m /\ r \in Seq(Nat)
  BY <1>0, <1>1, <1>5, <1>7, <1>8
<1>10. ASSUME NEW b \in 1 .. m, Covers(off, data, b) PROVE r[b] = data[b - off]
  <2>1. b - off \in 1 .. Len(data) /\ off + (b - off) = b /\ b \in 1 .. end
    BY <1>0, <1>1, <1>10 DEF Covers, end
  <2>2. xd[off + (b - off)] = data[b - off]
    BY <2>1, <1>6
  <2> QED BY <2>1, <2>2, <1>7, <1>8
<1>11. ASSUME NEW b \in 1 .. m, ~Covers(off, data, b) PROVE r[b] = grown[b]
  <2>1. b <= off \/ end < b
    BY <1>0, <1>1, <1>11 DEF Covers, end
  <2>2. CASE b <= off
    <3>1. b \in 1 .. off /\ b \in 1 .. end
      BY <2>2, <1>0
    <3> QED BY <3>1, <1>4, <1>6, <1>7, <1>8
  <2>3. CASE end < b
    <3>1. b - end \in 1 .. Len(z) /\ end + (b - end) = b
      BY <2>3, <1>0, <1>1, <1>5
    <3>2. (xd \o z)[end + (b - end)] = grown[end + (b - end)]
      BY <3>1, <1>5, <1>7
    <3> QED BY <3>1, <3>2, <1>8
  <2> QED BY <2>1, <2>2, <2>3
<1> QED BY <1>1, <1>2, <1>9, <1>10, <1>11 DEF end


-----------------------------------------------------------------------------
(* Files as pieces laid over a base                                        *)

(* Pieces are offsets, each with the bytes that were written there.        *)
Pieces == Nat \X Seq(Nat)

End(p) == p[1] + Len(p[2])

(* File file is base, with zeros behind it, under the pieces of A.         *)
Overlay(file, base, A) ==
    /\ file \in Seq(Nat)
    /\ Len(base) <= Len(file) /\ \A p \in A : End(p) <= Len(file)
    /\ Len(file) = Len(base) \/ \E p \in A : Len(file) = End(p)
    /\ \A b \in 1 .. Len(file) :
          /\ \A p \in A : Covers(p[1], p[2], b) => file[b] = p[2][b - p[1]]
          /\ (\A p \in A : ~Covers(p[1], p[2], b)) => file[b] = IF b <= Len(base) THEN base[b] ELSE 0

(* There is only one such file.                                            *)
LEMMA OverlayUnique ==
    ASSUME NEW base \in Seq(Nat), NEW A \in SUBSET Pieces, NEW x, NEW y,
           Overlay(x, base, A), Overlay(y, base, A)
    PROVE  x = y
<1>1. x \in Seq(Nat) /\ y \in Seq(Nat) /\ Len(x) \in Nat /\ Len(y) \in Nat
  BY DEF Overlay
<1>2. Len(x) <= Len(y)
  <2>1. CASE Len(x) = Len(base)
    BY <2>1 DEF Overlay
  <2>2. CASE \E p \in A : Len(x) = End(p)
    BY <2>2 DEF Overlay
  <2> QED BY <2>1, <2>2 DEF Overlay
<1>3. Len(y) <= Len(x)
  <2>1. CASE Len(y) = Len(base)
    BY <2>1 DEF Overlay
  <2>2. CASE \E p \in A : Len(y) = End(p)
    BY <2>2 DEF Overlay
  <2> QED BY <2>1, <2>2 DEF Overlay
<1>4. Len(x) = Len(y)
  BY <1>1, <1>2, <1>3
<1>5. ASSUME NEW b \in 1 .. Len(x) PROVE x[b] = y[b]
  <2>0. b \in 1 .. Len(y)
    BY <1>4
  <2>1. CASE \E p \in A : Covers(p[1], p[2], b)
    <3>1. PICK p \in A : Covers(p[1], p[2], b)
      BY <2>1
    <3>2. x[b] = p[2][b - p[1]]
      BY <3>1, <1>5 DEF Overlay
    <3>3. y[b] = p[2][b - p[1]]
      BY <3>1, <2>0 DEF Overlay
    <3> QED BY <3>2, <3>3
  <2>2. CASE \A p \in A : ~Covers(p[1], p[2], b)
    <3>1. x[b] = IF b <= Len(base) THEN base[b] ELSE 0
      BY <2>2, <1>5 DEF Overlay
    <3>2. y[b] = IF b <= Len(base) THEN base[b] ELSE 0
      BY <2>2, <2>0 DEF Overlay
    <3> QED BY <3>1, <3>2
  <2> QED BY <2>1, <2>2
<1>6. x = [b \in 1 .. Len(x) |-> x[b]] /\ y = [b \in 1 .. Len(y) |-> y[b]]
  BY <1>1
<1> QED BY <1>4, <1>5, <1>6

(* A write where no other piece is adds a piece.                           *)
LEMMA OverlayWrite ==
    ASSUME NEW base \in Seq(Nat), NEW A \in SUBSET Pieces, NEW file, Overlay(file, base, A),
           NEW off \in Nat, NEW data \in Seq(Nat),
           \A p \in A, b \in Nat : Covers(p[1], p[2], b) => ~Covers(off, data, b)
    PROVE  Overlay(write_at(file, off, data), base, A \cup {<<off, data>>})
<1> DEFINE r == write_at(file, off, data)
           q == <<off, data>>
<1>0. file \in Seq(Nat) /\ Len(file) \in Nat /\ Len(base) \in Nat /\ q[1] = off /\ q[2] = data
      /\ End(q) = off + Len(data) /\ End(q) \in Nat
  BY DEF Overlay, End
<1>1. /\ r \in Seq(Nat) /\ Len(file) <= Len(r) /\ off + Len(data) <= Len(r) /\ Len(r) \in Nat
      /\ Len(r) = Len(file) \/ Len(r) = off + Len(data)
      /\ \A b \in 1 .. Len(r) :
            /\ Covers(off, data, b) => r[b] = data[b - off]
            /\ ~Covers(off, data, b) => r[b] = IF b <= Len(file) THEN file[b] ELSE 0
  BY <1>0, WriteIs
<1> HIDE DEF r, q
<1>2. \A p \in A : p[1] \in Nat /\ p[2] \in Seq(Nat) /\ End(p) \in Nat /\ End(p) = p[1] + Len(p[2])
  BY DEF Pieces, End
<1>3. Len(base) <= Len(file) /\ \A p \in A : End(p) <= Len(file)
  BY DEF Overlay
<1>4. Len(base) <= Len(r) /\ \A p \in A \cup {q} : End(p) <= Len(r)
  <2>1. Len(base) <= Len(r)
    BY <1>0, <1>1, <1>3
  <2>2. ASSUME NEW p \in A PROVE End(p) <= Len(r)
    <3>1. End(p) <= Len(file) /\ End(p) \in Nat
      BY <1>2, <1>3
    <3> QED BY <3>1, <1>0, <1>1
  <2>3. End(q) <= Len(r)
    BY <1>0, <1>1
  <2> QED BY <2>1, <2>2, <2>3
<1>5. Len(r) = Len(base) \/ \E p \in A \cup {q} : Len(r) = End(p)
  <2>1. CASE Len(r) = off + Len(data)
    BY <2>1, <1>0
  <2>2. CASE Len(r) = Len(file)
    <3>1. Len(file) = Len(base) \/ \E p \in A : Len(file) = End(p)
      BY DEF Overlay
    <3> QED BY <3>1, <2>2
  <2> QED BY <2>1, <2>2, <1>1
<1>6. ASSUME NEW b \in 1 .. Len(r)
      PROVE  /\ \A p \in A \cup {q} : Covers(p[1], p[2], b) => r[b] = p[2][b - p[1]]
             /\ (\A p \in A \cup {q} : ~Covers(p[1], p[2], b))
                    => r[b] = IF b <= Len(base) THEN base[b] ELSE 0
  <2>0. b \in Nat
    OBVIOUS
  <2>1. ASSUME Covers(q[1], q[2], b) PROVE r[b] = q[2][b - q[1]]
    BY <2>1, <1>0, <1>1, <1>6
  <2>2. ASSUME NEW p \in A, Covers(p[1], p[2], b) PROVE r[b] = p[2][b - p[1]]
    <3>1. ~Covers(off, data, b)
      BY <2>0, <2>2
    <3>2. b \in 1 .. Len(file)
      <4>1. b <= p[1] + Len(p[2])
        BY <2>2 DEF Covers
      <4>2. End(p) <= Len(file) /\ End(p) = p[1] + Len(p[2]) /\ End(p) \in Nat
        BY <1>2, <1>3
      <4> QED BY <4>1, <4>2, <1>0
    <3>3. r[b] = file[b]
      <4>1. b <= Len(file)
        BY <3>2
      <4> QED BY <4>1, <3>1, <1>1, <1>6
    <3>4. file[b] = p[2][b - p[1]]
      BY <3>2, <2>2 DEF Overlay
    <3> QED BY <3>3, <3>4
  <2>3. ASSUME \A p \in A \cup {q} : ~Covers(p[1], p[2], b)
        PROVE  r[b] = IF b <= Len(base) THEN base[b] ELSE 0
    <3>1. ~Covers(off, data, b) /\ \A p \in A : ~Covers(p[1], p[2], b)
      BY <2>3, <1>0
    <3>2. r[b] = IF b <= Len(file) THEN file[b] ELSE 0
      BY <3>1, <1>1, <1>6
    <3>3. CASE b <= Len(file)
      <4>1. b \in 1 .. Len(file)
        BY <3>3, <1>0
      <4>2. file[b] = IF b <= Len(base) THEN base[b] ELSE 0
        BY <4>1, <3>1 DEF Overlay
      <4> QED BY <4>2, <3>2, <3>3
    <3>4. CASE ~(b <= Len(file))
      <4>1. ~(b <= Len(base))
        BY <3>4, <1>0, <1>3
      <4> QED BY <4>1, <3>2, <3>4
    <3> QED BY <3>3, <3>4
  <2> QED BY <2>1, <2>2, <2>3
<1>7. Overlay(r, base, A \cup {q})
  BY <1>1, <1>4, <1>5, <1>6 DEF Overlay
<1> QED BY <1>7 DEF r, q

Inside(A, len) == {p \in A : End(p) <= len}

(* A cut that no piece straddles takes away the pieces behind it.          *)
LEMMA OverlayCut ==
    ASSUME NEW base \in Seq(Nat), NEW A \in SUBSET Pieces, NEW file, Overlay(file, base, A),
           NEW len \in Nat, \A p \in A : End(p) <= len \/ len <= p[1]
    PROVE  Overlay(resize(file, len), resize(base, len), Inside(A, len))
<1> DEFINE r == resize(file, len)
           s == resize(base, len)
           I == Inside(A, len)
<1>0. file \in Seq(Nat) /\ Len(file) \in Nat /\ Len(base) \in Nat /\ Len(base) <= Len(file)
  BY DEF Overlay
<1>1. /\ r \in Seq(Nat) /\ Len(r) = len
      /\ \A b \in 1 .. len : r[b] = IF b <= Len(file) THEN file[b] ELSE 0
  BY <1>0, ResizeIs
<1>2. /\ s \in Seq(Nat) /\ Len(s) = len
      /\ \A b \in 1 .. len : s[b] = IF b <= Len(base) THEN base[b] ELSE 0
  BY ResizeIs
<1>3. \A p : p \in I <=> p \in A /\ End(p) <= len
  BY Zenon DEF Inside
<1>4. \A p \in A : p[1] \in Nat /\ p[2] \in Seq(Nat) /\ End(p) \in Nat /\ End(p) = p[1] + Len(p[2])
  BY DEF Pieces, End
<1> HIDE DEF r, s, I
<1>5. ASSUME NEW b \in 1 .. len
      PROVE  /\ \A p \in I : Covers(p[1], p[2], b) => r[b] = p[2][b - p[1]]
             /\ (\A p \in I : ~Covers(p[1], p[2], b)) => r[b] = IF b <= Len(s) THEN s[b] ELSE 0
  <2>1. ASSUME NEW p \in I, Covers(p[1], p[2], b) PROVE r[b] = p[2][b - p[1]]
    <3>1. p \in A
      BY <1>3
    <3>2. b \in 1 .. Len(file)
      <4>1. b <= p[1] + Len(p[2])
        BY <2>1 DEF Covers
      <4>2. End(p) <= Len(file)
        BY <3>1 DEF Overlay
      <4>3. End(p) = p[1] + Len(p[2]) /\ End(p) \in Nat
        BY <3>1, <1>4
      <4> QED BY <4>1, <4>2, <4>3, <1>0
    <3>3. file[b] = p[2][b - p[1]]
      BY <3>1, <3>2, <2>1 DEF Overlay
    <3>4. b <= Len(file)
      BY <3>2
    <3> QED BY <3>3, <3>4, <1>1, <1>5
  <2>2. ASSUME \A p \in I : ~Covers(p[1], p[2], b)
        PROVE  r[b] = IF b <= Len(s) THEN s[b] ELSE 0
    <3>1. ASSUME NEW p \in A, Covers(p[1], p[2], b) PROVE FALSE
      <4>1. p[1] < b
        BY <3>1 DEF Covers
      <4>2. ~(len <= p[1])
        BY <4>1, <1>4
      <4>3. p \in I
        BY <4>2, <1>3
      <4> QED BY <4>3, <3>1, <2>2
    <3>2. b <= Len(s)
      BY <1>2
    <3>3. CASE b <= Len(file)
      <4>1. b \in 1 .. Len(file)
        BY <3>3, <1>0
      <4>2. file[b] = IF b <= Len(base) THEN base[b] ELSE 0
        BY <4>1, <3>1 DEF Overlay
      <4> QED BY <4>2, <3>2, <3>3, <1>1, <1>2, <1>5
    <3>4. CASE ~(b <= Len(file))
      <4>1. ~(b <= Len(base))
        BY <3>4, <1>0
      <4> QED BY <4>1, <3>2, <3>4, <1>1, <1>2, <1>5
    <3> QED BY <3>3, <3>4
  <2> QED BY <2>1, <2>2
<1>6. Overlay(r, s, I)
  <2>1. Len(s) <= Len(r) /\ Len(r) = Len(s)
    BY <1>1, <1>2
  <2>2. \A p \in I : End(p) <= Len(r)
    BY <1>1, <1>3
  <2> QED BY <2>1, <2>2, <1>1, <1>5 DEF Overlay
<1> QED BY <1>6 DEF r, s, I


-----------------------------------------------------------------------------
(* Windows as pieces                                                       *)

Writes == [op : {"Write"}, off : Nat, data : Seq(Nat)]

Changes == Writes \cup [op : {"SetLen"}, len : Nat]

Dropped(fate) == fate[1] = "Drop"

(* The bytes that a write leaves under a fate.                             *)
WrittenBy(e, fate) ==
    CASE fate[1] = "Apply" -> e.data
      [] fate[1] = "Zero"  -> Zeros(Len(e.data))
      [] fate[1] = "Tear"  -> SubSeq(e.data, 1, fate[2] % (Len(e.data) + 1))

(* A write that is not lost leaves no more than it was.                    *)
LEMMA WrittenIs ==
    ASSUME NEW e \in Writes, NEW fate \in Fates, ~Dropped(fate)
    PROVE  /\ WrittenBy(e, fate) \in Seq(Nat) /\ Len(WrittenBy(e, fate)) <= Len(e.data)
           /\ \A buf : ApplyEntry(buf, e, fate) = write_at(buf, e.off, WrittenBy(e, fate))
<1>0. e.data \in Seq(Nat) /\ Len(e.data) \in Nat /\ e.op = "Write"
  BY DEF Writes
<1>1. \/ fate[1] = "Apply"
      \/ fate[1] = "Zero"
      \/ fate[1] = "Tear" /\ fate[2] \in Nat
  BY DEF Fates, Dropped
<1>2. WrittenBy(e, fate) \in Seq(Nat) /\ Len(WrittenBy(e, fate)) <= Len(e.data)
  <2>1. CASE fate[1] = "Apply"
    BY <2>1, <1>0 DEF WrittenBy
  <2>2. CASE fate[1] = "Zero"
    <3>1. WrittenBy(e, fate) = Zeros(Len(e.data))
      BY <2>2 DEF WrittenBy
    <3>2. Zeros(Len(e.data)) \in Seq(Nat) /\ Len(Zeros(Len(e.data))) = Len(e.data)
      BY <1>0 DEF Zeros
    <3> QED BY <3>1, <3>2, <1>0
  <2>3. CASE fate[1] = "Tear" /\ fate[2] \in Nat
    <3> DEFINE n == fate[2] % (Len(e.data) + 1)
               m == Len(e.data)
    <3>1. WrittenBy(e, fate) = SubSeq(e.data, 1, n)
      BY <2>3 DEF WrittenBy
    <3>2. n \in 0 .. m
      <4> DEFINE a == fate[2]
                 d == m + 1
      <4>1. a \in Nat /\ m \in Nat /\ d = m + 1 /\ d \in Nat /\ d > 0 /\ n = a % d
        BY <2>3, <1>0
      <4> HIDE DEF a, d, m, n
      <4>2. a % d \in 0 .. d - 1
        BY <4>1
      <4> QED BY <4>1, <4>2
    <3> HIDE DEF n
    <3>3. SubSeq(e.data, 1, n) \in Seq(Nat) /\ Len(SubSeq(e.data, 1, n)) = n
      BY <3>2, <1>0
    <3> QED BY <3>1, <3>2, <3>3, <1>0
  <2> QED BY <2>1, <2>2, <2>3, <1>1
<1>3. \A buf : ApplyEntry(buf, e, fate) = write_at(buf, e.off, WrittenBy(e, fate))
  BY <1>0 DEF ApplyEntry, WrittenBy, Dropped
<1> QED BY <1>2, <1>3

(* Two writes do not overlap; a write does not straddle a cut.             *)
Apart(d, e) == d.off + Len(d.data) <= e.off \/ e.off + Len(e.data) <= d.off

Beside(e, len) == e.off >= len \/ e.off + Len(e.data) <= len

Tidy(w) ==
    /\ \A i, j \in 1 .. Len(w) : i # j /\ w[i] \in Writes /\ w[j] \in Writes => Apart(w[i], w[j])
    /\ \A i, j \in 1 .. Len(w) : w[i] \notin Writes /\ w[j] \in Writes => Beside(w[j], w[i].len)

Piece(w, g, i) == <<w[i].off, WrittenBy(w[i], g[i])>>

(* The writes among the first k entries of window w that show under fates  *)
(* g, when entry c cuts the file: those behind the cut that come before it *)
(* do not.                                                                 *)
Showing(w, g, c, k) ==
    {i \in 1 .. k : /\ w[i] \in Writes /\ ~Dropped(g[i])
                    /\ i < c /\ c <= k => End(Piece(w, g, i)) <= w[c].len}

PiecesOf(w, g, c, k) == {Piece(w, g, i) : i \in Showing(w, g, c, k)}

BaseOf(buf, w, c, k) == IF 1 <= c /\ c <= k THEN resize(buf, w[c].len) ELSE buf

(* Entry c is the cut of window w that is not lost, or c is 0.             *)
Cuts(w, g, c) == \A i \in 1 .. Len(w) : w[i] \notin Writes /\ ~Dropped(g[i]) <=> i = c

(* The pieces of a window.                                                 *)
LEMMA PiecesTyped ==
    ASSUME NEW w \in Seq(Changes), NEW g \in [1 .. Len(w) -> Fates], NEW c, NEW k \in 0 .. Len(w)
    PROVE  /\ PiecesOf(w, g, c, k) \in SUBSET Pieces
           /\ \A p : p \in PiecesOf(w, g, c, k) <=>
                        \E i \in Showing(w, g, c, k) : p = Piece(w, g, i)
<1>1. \A p : p \in PiecesOf(w, g, c, k) <=> \E i \in Showing(w, g, c, k) : p = Piece(w, g, i)
  BY Zenon DEF PiecesOf
<1>2. ASSUME NEW i \in Showing(w, g, c, k) PROVE Piece(w, g, i) \in Pieces
  <2>1. i \in 1 .. k /\ w[i] \in Writes /\ ~Dropped(g[i])
    BY Zenon DEF Showing
  <2>2. g[i] \in Fates
    BY <2>1
  <2>3. WrittenBy(w[i], g[i]) \in Seq(Nat) /\ w[i].off \in Nat
    BY <2>1, <2>2, WrittenIs DEF Writes
  <2> QED BY <2>3 DEF Piece, Pieces
<1>3. \A p \in PiecesOf(w, g, c, k) : p \in Pieces
  BY <1>1, <1>2
<1> QED BY <1>1, <1>3


(* What a window makes of a file, entry by entry.                          *)
LEMMA AppliedIs ==
    ASSUME NEW w \in Seq(Changes), Tidy(w), NEW buf \in Seq(Nat), NEW g \in [1 .. Len(w) -> Fates],
           NEW c \in 0 .. Len(w), Cuts(w, g, c)
    PROVE  Overlay(apply_window(buf, w, g), BaseOf(buf, w, c, Len(w)), PiecesOf(w, g, c, Len(w)))
<1> DEFINE N == Len(w)
           A(k) == PiecesOf(w, g, c, k)
           B(k) == BaseOf(buf, w, c, k)
<1>0. N \in Nat /\ c \in Nat /\ c <= N
  OBVIOUS
<1>1. PICK f : /\ f[0] = buf
               /\ \A i \in 1 .. N : f[i] = ApplyEntry(f[i - 1], w[i], FateOf(g, i))
               /\ apply_window(buf, w, g) = f[N]
  BY WindowLoop
<1> DEFINE Good(k) == Overlay(f[k], B(k), A(k))
           S == {k \in Nat : k <= N => Good(k)}
<1>2. 0 \in S
  <2>1. B(0) = buf
    BY <1>0 DEF BaseOf
  <2>2. A(0) = {}
    <3>1. Showing(w, g, c, 0) = {}
      BY DEF Showing
    <3> QED BY <3>1 DEF PiecesOf
  <2>3. Overlay(buf, buf, {})
    BY DEF Overlay
  <2> QED BY <2>1, <2>2, <2>3, <1>1
<1>3. ASSUME NEW k \in Nat, k \in S PROVE k + 1 \in S
  <2> SUFFICES ASSUME k + 1 <= N PROVE Good(k + 1)
    OBVIOUS
  <2> DEFINE n == k + 1
             e == w[n]
             fate == g[n]
  <2>0. n \in 1 .. N /\ n \in Nat /\ k \in 0 .. N /\ n - 1 = k /\ k <= N
    BY <1>0
  <2>1. Good(k)
    BY <1>3, <2>0
  <2>2. e \in Changes /\ fate \in Fates /\ FateOf(g, n) = fate
    <3> HIDE DEF n
    <3> QED BY <2>0 DEF FateOf
  <2>3. f[n] = ApplyEntry(f[k], e, fate)
    <3> HIDE DEF n
    <3> QED BY <2>0, <2>2, <1>1
  <2>4. A(k) \in SUBSET Pieces /\ \A p : p \in A(k) <=> \E i \in Showing(w, g, c, k) : p = Piece(w, g, i)
    BY <2>0, PiecesTyped
  <2>5. A(n) \in SUBSET Pieces /\ \A p : p \in A(n) <=> \E i \in Showing(w, g, c, n) : p = Piece(w, g, i)
    <3>1. n \in 0 .. Len(w)
      BY <2>0
    <3> HIDE DEF n, N
    <3>2. PiecesOf(w, g, c, n) \in SUBSET Pieces
          /\ \A p : p \in PiecesOf(w, g, c, n) <=> \E i \in Showing(w, g, c, n) : p = Piece(w, g, i)
      BY <3>1, PiecesTyped
    <3> QED BY <3>2
  <2>6. \A i, m : i \in Showing(w, g, c, m) <=>
             /\ i \in 1 .. m /\ w[i] \in Writes /\ ~Dropped(g[i])
             /\ i < c /\ c <= m => End(Piece(w, g, i)) <= w[c].len
    BY Zenon DEF Showing
  <2>7. \A i : i \in 1 .. n <=> i \in 1 .. k \/ i = n
    BY <2>0
  <2>8. (c <= n <=> c <= k \/ c = n) /\ ~(n < c /\ c <= n)
    BY <2>0, <1>0
  <2>9. n = c <=> e \notin Writes /\ ~Dropped(fate)
    BY <2>0 DEF Cuts
  <2>10. B(k) \in Seq(Nat)
    <3>1. CASE 1 <= c /\ c <= k
      <4>1. c \in 1 .. N
        BY <3>1, <1>0
      <4>2. w[c] \notin Writes /\ w[c] \in Changes
        BY <4>1 DEF Cuts
      <4>3. w[c].len \in Nat
        BY <4>2 DEF Changes
      <4> QED BY <4>3, <3>1, ResizeIs DEF BaseOf
    <3>2. CASE ~(1 <= c /\ c <= k)
      BY <3>2 DEF BaseOf
    <3> QED BY <3>1, <3>2
  <2> HIDE DEF A, B, e, fate, n
  <2>11. CASE Dropped(fate)
    <3>1. f[n] = f[k]
      BY <2>3, <2>11 DEF ApplyEntry, Dropped
    <3>2. c # n
      BY <2>9, <2>11
    <3>3. B(n) = B(k)
      BY <3>2, <2>8 DEF BaseOf, B
    <3>4. \A i : i \in Showing(w, g, c, n) <=> i \in Showing(w, g, c, k)
      BY <3>2, <2>6, <2>7, <2>8, <2>11 DEF fate
    <3>5. A(n) = A(k)
      BY <3>4, <2>4, <2>5
    <3> QED BY <3>1, <3>3, <3>5, <2>1 DEF n
  <2>12. CASE e \notin Writes /\ ~Dropped(fate)
    <3> DEFINE len == e.len
    <3>1. c = n /\ len \in Nat /\ e.op = "SetLen"
      BY <2>2, <2>9, <2>12 DEF Changes
    <3>2. f[n] = resize(f[k], len)
      BY <3>1, <2>3, <2>12 DEF ApplyEntry, Dropped
    <3>3. B(k) = buf /\ B(n) = resize(buf, len)
      BY <3>1, <2>0 DEF BaseOf, B, e
    <3>4. \A p \in A(k) : End(p) <= len \/ len <= p[1]
      <4> SUFFICES ASSUME NEW p \in A(k) PROVE End(p) <= len \/ len <= p[1]
        OBVIOUS
      <4>1. PICK i \in Showing(w, g, c, k) : p = Piece(w, g, i)
        BY <2>4
      <4>2. i \in 1 .. k /\ w[i] \in Writes /\ ~Dropped(g[i]) /\ i \in 1 .. N
        BY <4>1, <2>0, <2>6
      <4>3. Beside(w[i], len)
        BY <4>2, <2>0, <2>12 DEF Tidy, e
      <4>4. WrittenBy(w[i], g[i]) \in Seq(Nat) /\ Len(WrittenBy(w[i], g[i])) <= Len(w[i].data)
        <5>1. g[i] \in Fates
          BY <4>2
        <5> QED BY <5>1, <4>2, WrittenIs
      <4>5. w[i].off \in Nat /\ Len(w[i].data) \in Nat
        BY <4>2 DEF Writes
      <4>6. p[1] = w[i].off /\ End(p) = w[i].off + Len(WrittenBy(w[i], g[i]))
        BY <4>1 DEF Piece, End
      <4> DEFINE o == w[i].off
                 m == Len(w[i].data)
                 v == Len(WrittenBy(w[i], g[i]))
      <4>7. /\ o \in Nat /\ m \in Nat /\ v \in Nat /\ v <= m /\ p[1] = o /\ End(p) = o + v
            /\ o >= len \/ o + m <= len
        BY <4>3, <4>4, <4>5, <4>6 DEF Beside
      <4> HIDE DEF o, m, v, len
      <4> QED BY <4>7, <3>1
    <3>5. \A i : i \in Showing(w, g, c, n) <=> i \in Showing(w, g, c, k) /\ End(Piece(w, g, i)) <= len
      <4> SUFFICES ASSUME NEW i
                   PROVE  i \in Showing(w, g, c, n) <=>
                            i \in Showing(w, g, c, k) /\ End(Piece(w, g, i)) <= len
        OBVIOUS
      <4>1. ~(c <= k) /\ c <= n
        BY <3>1, <2>0
      <4>2. i \in Showing(w, g, c, k) <=> i \in 1 .. k /\ w[i] \in Writes /\ ~Dropped(g[i])
        BY <4>1, <2>6
      <4>3. i \in Showing(w, g, c, n) <=>
              /\ i \in 1 .. n /\ w[i] \in Writes /\ ~Dropped(g[i])
              /\ i < c => End(Piece(w, g, i)) <= len
        BY <4>1, <3>1, <2>6 DEF e
      <4>4. i \in 1 .. n /\ w[i] \in Writes <=> i \in 1 .. k /\ w[i] \in Writes
        BY <2>7, <2>12 DEF e
      <4>5. i \in 1 .. k => i < c
        BY <3>1, <2>0
      <4> QED BY <4>2, <4>3, <4>4, <4>5
    <3>6. A(n) = Inside(A(k), len)
      <4>1. \A p : p \in Inside(A(k), len) <=> p \in A(k) /\ End(p) <= len
        BY Zenon DEF Inside
      <4>2. \A p : p \in A(n) <=> p \in Inside(A(k), len)
        BY <4>1, <3>5, <2>4, <2>5
      <4> QED BY <4>2
    <3>7. Overlay(resize(f[k], len), resize(B(k), len), Inside(A(k), len))
      <4> HIDE DEF len
      <4> QED BY <3>1, <3>4, <2>1, <2>4, <2>10, OverlayCut
    <3> QED BY <3>2, <3>3, <3>6, <3>7 DEF n
  <2>13. CASE e \in Writes /\ ~Dropped(fate)
    <3> DEFINE off == e.off
               data == WrittenBy(e, fate)
    <3>1. c # n
      BY <2>9, <2>13
    <3>2. off \in Nat /\ data \in Seq(Nat) /\ Len(data) <= Len(e.data) /\ Len(e.data) \in Nat
          /\ f[n] = write_at(f[k], off, data)
      BY <2>2, <2>3, <2>13, WrittenIs DEF Writes
    <3>3. B(n) = B(k)
      BY <3>1, <2>8 DEF BaseOf, B
    <3>4. \A i : i \in Showing(w, g, c, n) <=> i \in Showing(w, g, c, k) \/ i = n
      <4> SUFFICES ASSUME NEW i PROVE i \in Showing(w, g, c, n) <=> i \in Showing(w, g, c, k) \/ i = n
        OBVIOUS
      <4>1. CASE i = n
        BY <4>1, <2>6, <2>7, <2>8, <2>13 DEF e, fate
      <4>2. CASE i # n
        BY <4>2, <3>1, <2>6, <2>7, <2>8
      <4> QED BY <4>1, <4>2
    <3>5. Piece(w, g, n) = <<off, data>>
      BY DEF Piece, e, fate
    <3> HIDE DEF off, data
    <3>6. A(n) = A(k) \cup {<<off, data>>}
      BY <3>4, <3>5, <2>4, <2>5
    <3>7. ASSUME NEW p \in A(k), NEW b \in Nat, Covers(p[1], p[2], b), Covers(off, data, b) PROVE FALSE
      <4>1. PICK i \in Showing(w, g, c, k) : p = Piece(w, g, i)
        BY <2>4
      <4>2. i \in 1 .. k /\ w[i] \in Writes /\ ~Dropped(g[i]) /\ i \in 1 .. N /\ i # n
        BY <4>1, <2>0, <2>6
      <4>3. Apart(w[i], e)
        BY <4>2, <2>0, <2>13 DEF Tidy, e
      <4>4. WrittenBy(w[i], g[i]) \in Seq(Nat) /\ Len(WrittenBy(w[i], g[i])) <= Len(w[i].data)
        <5>1. g[i] \in Fates
          BY <4>2
        <5> QED BY <5>1, <4>2, WrittenIs
      <4>5. w[i].off \in Nat /\ Len(w[i].data) \in Nat
        BY <4>2 DEF Writes
      <4>6. p[1] = w[i].off /\ p[2] = WrittenBy(w[i], g[i])
        BY <4>1 DEF Piece
      <4> DEFINE o == w[i].off
                 m == Len(w[i].data)
                 v == Len(WrittenBy(w[i], g[i]))
                 d == Len(data)
                 l == Len(e.data)
      <4>7. /\ o \in Nat /\ m \in Nat /\ v \in Nat /\ v <= m /\ off \in Nat /\ d \in Nat /\ l \in Nat
            /\ d <= l
            /\ o + m <= off \/ off + l <= o
        BY <4>3, <4>4, <4>5, <3>2 DEF Apart, off
      <4>8. o < b /\ b <= o + v /\ off < b /\ b <= off + d
        BY <4>6, <3>7 DEF Covers
      <4> HIDE DEF o, m, v, d, l
      <4> QED BY <4>7, <4>8
    <3>8. Overlay(write_at(f[k], off, data), B(k), A(k) \cup {<<off, data>>})
      BY <3>2, <3>7, <2>1, <2>4, <2>10, OverlayWrite
    <3> QED BY <3>2, <3>3, <3>6, <3>8 DEF n
  <2> QED BY <2>11, <2>12, <2>13
<1>4. \A k \in Nat : k \in S
  <2> HIDE DEF S
  <2> QED BY <1>2, <1>3, SetInduction
<1>5. Good(N)
  <2> HIDE DEF Good
  <2> QED BY <1>4, <1>0
<1> QED BY <1>5, <1>1


-----------------------------------------------------------------------------
(* Any order of the writes                                                 *)

(* A window as open() and commit fill it: tidy, with only writes behind    *)
(* the first entry.  Window v has the entries of w in another order.       *)
CutAhead(w) == Tidy(w) /\ \A i \in 2 .. Len(w) : w[i] \in Writes

Reordered(v, w) ==
    \E perm \in Bijection(1 .. Len(w), 1 .. Len(w)) : v = [i \in 1 .. Len(w) |-> w[perm[i]]]

(* What the entries of a window, applied in another order, can leave of a  *)
(* file: the entries in the order of the window, some of them lost, leave  *)
(* the same.                                                               *)
LEMMA AnyOrder ==
    ASSUME NEW w \in Seq(Changes), CutAhead(w), NEW buf \in Seq(Nat),
           NEW v, Reordered(v, w), NEW g \in [1 .. Len(w) -> Fates]
    PROVE  \E f \in [1 .. Len(w) -> Fates] : apply_window(buf, w, f) = apply_window(buf, v, g)
<1>a. Tidy(w) /\ \A i \in 2 .. Len(w) : w[i] \in Writes
  BY DEF CutAhead
<1>b. PICK perm \in Bijection(1 .. Len(w), 1 .. Len(w)) : v = [i \in 1 .. Len(w) |-> w[perm[i]]]
  BY DEF Reordered
<1> DEFINE N == Len(w)
           D == 1 .. N
<1>0. N \in Nat
  OBVIOUS
<1>1. /\ perm \in [D -> D] /\ \A i, j \in D : perm[i] = perm[j] => i = j
      /\ \A j \in D : \E i \in D : perm[i] = j
  BY DEF Bijection, Injection, Surjection, IsInjective
<1> DEFINE inv == [j \in D |-> CHOOSE i \in D : perm[i] = j]
<1>2. /\ \A j \in D : inv[j] \in D /\ perm[inv[j]] = j
      /\ \A i \in D : perm[i] \in D /\ inv[perm[i]] = i
  <2>1. \A j \in D : inv[j] \in D /\ perm[inv[j]] = j
    BY <1>1, Zenon
  <2> HIDE DEF inv, D
  <2>2. \A i \in D : perm[i] \in D
    BY <1>1
  <2>3. \A i \in D : inv[perm[i]] = i
    BY <2>1, <2>2, <1>1
  <2> QED BY <2>1, <2>2, <2>3
<1> HIDE DEF inv
<1>3. v \in Seq(Changes) /\ Len(v) = N /\ \A i \in D : v[i] = w[perm[i]] /\ v[i] \in Changes
  <2>1. \A i \in D : w[perm[i]] \in Changes
    BY <1>2
  <2> QED BY <2>1, <1>b
<1>4. Tidy(v)
  <2>1. ASSUME NEW i \in D, NEW j \in D, i # j, v[i] \in Writes, v[j] \in Writes
        PROVE  Apart(v[i], v[j])
    <3>1. perm[i] \in D /\ perm[j] \in D /\ perm[i] # perm[j] /\ v[i] = w[perm[i]] /\ v[j] = w[perm[j]]
      BY <2>1, <1>1, <1>3
    <3> QED BY <1>a, <3>1, <2>1 DEF Tidy
  <2>2. ASSUME NEW i \in D, NEW j \in D, v[i] \notin Writes, v[j] \in Writes
        PROVE  Beside(v[j], v[i].len)
    <3>1. perm[i] \in D /\ perm[j] \in D /\ v[i] = w[perm[i]] /\ v[j] = w[perm[j]]
      BY <1>1, <1>3
    <3> QED BY <1>a, <3>1, <2>2 DEF Tidy
  <2> QED BY <2>1, <2>2, <1>3 DEF Tidy
<1>5. \A j \in D : w[j] \notin Writes => j = 1
  BY <1>0, <1>a
<1>6. \A i \in D : v[i] \notin Writes => perm[i] = 1
  BY <1>2, <1>3, <1>5
<1>7. PICK c \in 0 .. N : Cuts(v, g, c)
  <2>1. CASE \E i \in D : v[i] \notin Writes /\ ~Dropped(g[i])
    <3>1. PICK i \in D : v[i] \notin Writes /\ ~Dropped(g[i])
      BY <2>1
    <3>2. ASSUME NEW j \in D, v[j] \notin Writes PROVE j = i
      <4>1. perm[i] = 1 /\ perm[j] = 1
        BY <3>1, <3>2, <1>6
      <4> QED BY <4>1, <1>1
    <3>3. Cuts(v, g, i) /\ i \in 0 .. N
      BY <3>1, <3>2, <1>3 DEF Cuts
    <3> QED BY <3>3
  <2>2. CASE ~(\E i \in D : v[i] \notin Writes /\ ~Dropped(g[i]))
    <3>1. Cuts(v, g, 0) /\ 0 \in 0 .. N
      BY <2>2, <1>0, <1>3 DEF Cuts
    <3> QED BY <3>1
  <2> QED BY <2>1, <2>2
<1> DEFINE T == Showing(v, g, c, N)
           lost == <<"Drop", 0>>
           f == [j \in D |-> IF w[j] \in Writes /\ inv[j] \notin T THEN lost ELSE g[inv[j]]]
           d == IF c = 0 THEN 0 ELSE perm[c]
<1>8. f \in [D -> Fates] /\ lost \in Fates /\ Dropped(lost)
  <2>1. lost \in Fates /\ Dropped(lost)
    BY DEF Fates, Dropped
  <2>2. \A j \in D : g[inv[j]] \in Fates
    BY <1>2
  <2> QED BY <2>1, <2>2
<1>9. \A j \in D : f[j] = IF w[j] \in Writes /\ inv[j] \notin T THEN lost ELSE g[inv[j]]
  OBVIOUS
<1>10. \A i : i \in T <=> /\ i \in D /\ v[i] \in Writes /\ ~Dropped(g[i])
                          /\ i < c /\ c <= N => End(Piece(v, g, i)) <= v[c].len
  BY Zenon DEF Showing
<1> HIDE DEF T, lost, f
<1>11. d \in 0 .. N /\ Cuts(w, f, d)
  <2>1. d \in 0 .. N
    BY <1>0, <1>2
  <2>2. ASSUME NEW j \in D PROVE w[j] \notin Writes /\ ~Dropped(f[j]) <=> j = d
    <3> DEFINE i == inv[j]
    <3>1. i \in D /\ perm[i] = j /\ v[i] = w[j]
      BY <1>2, <1>3
    <3>2. v[i] \notin Writes /\ ~Dropped(g[i]) <=> i = c
      BY <3>1, <1>3, <1>7 DEF Cuts
    <3>3. w[j] \notin Writes => f[j] = g[i]
      BY <1>9
    <3>4. i = c <=> j = d
      <4>1. CASE c = 0
        BY <4>1, <3>1, <1>0
      <4>2. CASE c # 0
        <5>1. c \in D
          BY <4>2, <1>0
        <5>2. d = perm[c]
          BY <4>2
        <5>3. perm[i] = perm[c] => i = c
          BY <5>1, <3>1, <1>1
        <5> HIDE DEF d
        <5> QED BY <5>2, <5>3, <3>1
      <4> QED BY <4>1, <4>2
    <3> QED BY <3>1, <3>2, <3>3, <3>4
  <2> QED BY <2>1, <2>2 DEF Cuts
<1>12. d <= 1
  <2>1. CASE c = 0
    BY <2>1
  <2>2. CASE c # 0
    <3>1. c \in D
      BY <2>2, <1>0
    <3>2. v[c] \notin Writes
      BY <3>1, <1>3, <1>7 DEF Cuts
    <3> QED BY <3>1, <3>2, <2>2, <1>6
  <2> QED BY <2>1, <2>2
<1>13. BaseOf(buf, w, d, N) = BaseOf(buf, v, c, N)
  <2>1. CASE c = 0
    BY <2>1 DEF BaseOf
  <2>2. CASE c # 0
    <3>1. c \in D /\ d \in D /\ v[c] = w[d] /\ 1 <= c /\ c <= N /\ 1 <= d /\ d <= N
      BY <2>2, <1>0, <1>2, <1>3
    <3> QED BY <3>1 DEF BaseOf
  <2> QED BY <2>1, <2>2
<1>14. N \in 0 .. Len(w) /\ N \in 0 .. Len(v) /\ g \in [1 .. Len(v) -> Fates]
       /\ f \in [1 .. Len(w) -> Fates]
  BY <1>0, <1>3, <1>8
<1>15. \A p : p \in PiecesOf(v, g, c, N) <=> \E i \in T : p = Piece(v, g, i)
  <2>1. \A p : p \in PiecesOf(v, g, c, N) <=> \E i \in Showing(v, g, c, N) : p = Piece(v, g, i)
    BY Zenon DEF PiecesOf
  <2> QED BY <2>1 DEF T
<1> DEFINE U == Showing(w, f, d, N)
<1>16. \A p : p \in PiecesOf(w, f, d, N) <=> \E j \in U : p = Piece(w, f, j)
  BY Zenon DEF PiecesOf
<1>17. \A j : j \in U <=> j \in D /\ w[j] \in Writes /\ ~Dropped(f[j])
  <2>1. \A j : j \in U <=> /\ j \in D /\ w[j] \in Writes /\ ~Dropped(f[j])
                           /\ j < d /\ d <= N => End(Piece(w, f, j)) <= w[d].len
    BY Zenon DEF Showing
  <2>2. \A j \in D : ~(j < d)
    <3>1. d \in Nat
      BY <1>11
    <3> HIDE DEF d
    <3> QED BY <3>1, <1>12
  <2> HIDE DEF U
  <2> QED BY <2>1, <2>2
<1> HIDE DEF U
<1>18. ASSUME NEW j \in D
       PROVE  /\ j \in U <=> inv[j] \in T
              /\ j \in U => Piece(w, f, j) = Piece(v, g, inv[j])
  <2> DEFINE i == inv[j]
  <2>1. i \in D /\ v[i] = w[j]
    BY <1>2, <1>3
  <2>2. CASE w[j] \in Writes /\ i \notin T
    <3>1. f[j] = lost
      BY <2>2, <1>9
    <3> QED BY <3>1, <2>2, <1>8, <1>17
  <2>3. CASE w[j] \in Writes /\ i \in T
    <3>1. f[j] = g[i] /\ ~Dropped(g[i])
      BY <2>3, <1>9, <1>10
    <3> QED BY <3>1, <2>1, <2>3, <1>17 DEF Piece
  <2>4. CASE w[j] \notin Writes
    BY <2>1, <2>4, <1>10, <1>17
  <2> QED BY <2>2, <2>3, <2>4
<1>19. PiecesOf(w, f, d, N) = PiecesOf(v, g, c, N)
  <2>1. ASSUME NEW p \in PiecesOf(w, f, d, N) PROVE p \in PiecesOf(v, g, c, N)
    <3>1. PICK j \in U : p = Piece(w, f, j)
      BY <1>16
    <3>2. j \in D
      BY <1>17
    <3>3. inv[j] \in T /\ p = Piece(v, g, inv[j])
      BY <3>1, <3>2, <1>18
    <3> QED BY <3>3, <1>15
  <2>2. ASSUME NEW p \in PiecesOf(v, g, c, N) PROVE p \in PiecesOf(w, f, d, N)
    <3>1. PICK i \in T : p = Piece(v, g, i)
      BY <1>15
    <3>2. i \in D /\ perm[i] \in D /\ inv[perm[i]] = i
      BY <1>2, <1>10
    <3>3. perm[i] \in U /\ p = Piece(w, f, perm[i])
      BY <3>1, <3>2, <1>18
    <3> QED BY <3>3, <1>16
  <2> QED BY <2>1, <2>2
<1> DEFINE B == BaseOf(buf, w, d, N)
           A == PiecesOf(w, f, d, N)
<1>20. Overlay(apply_window(buf, v, g), B, A)
  <2>1. Overlay(apply_window(buf, v, g), BaseOf(buf, v, c, Len(v)), PiecesOf(v, g, c, Len(v)))
    <3>1. c \in 0 .. Len(v)
      BY <1>3
    <3> QED BY <3>1, <1>3, <1>4, <1>7, <1>14, AppliedIs
  <2> QED BY <2>1, <1>3, <1>13, <1>19
<1>21. Overlay(apply_window(buf, w, f), B, A)
  <2> HIDE DEF d
  <2> QED BY <1>a, <1>11, <1>14, AppliedIs
<1>22. A \in SUBSET Pieces
  <2> HIDE DEF d
  <2> QED BY <1>14, PiecesTyped
<1>23. B \in Seq(Nat)
  <2>1. CASE 1 <= d /\ d <= N
    <3>1. d \in D
      BY <2>1, <1>11
    <3>2. w[d] \notin Writes /\ w[d] \in Changes
      BY <3>1, <1>11 DEF Cuts
    <3>3. w[d].len \in Nat
      BY <3>2 DEF Changes
    <3> HIDE DEF d
    <3> QED BY <3>3, <2>1, ResizeIs DEF BaseOf
  <2>2. CASE ~(1 <= d /\ d <= N)
    BY <2>2 DEF BaseOf
  <2> QED BY <2>1, <2>2
<1> HIDE DEF A, B
<1>24. apply_window(buf, w, f) = apply_window(buf, v, g)
  BY <1>20, <1>21, <1>22, <1>23, OverlayUnique
<1> QED BY <1>14, <1>24


-----------------------------------------------------------------------------
(* The images of any order                                                 *)

(* Whatever the order of its entries, a window leaves no other images.     *)
LEMMA OrderFree ==
    ASSUME NEW w \in Seq(Changes), CutAhead(w), NEW buf \in Seq(Nat), NEW v, Reordered(v, w)
    PROVE  ImagesOf(buf, v) \subseteq ImagesOf(buf, w)
<1>1. v \in Seq(Changes) /\ Len(v) = Len(w)
  <2>0. PICK perm \in Bijection(1 .. Len(w), 1 .. Len(w)) : v = [i \in 1 .. Len(w) |-> w[perm[i]]]
    BY DEF Reordered
  <2>1. \A i \in 1 .. Len(w) : perm[i] \in 1 .. Len(w)
    BY DEF Bijection, Injection
  <2>2. \A i \in 1 .. Len(w) : w[perm[i]] \in Changes
    BY <2>1
  <2> QED BY <2>0, <2>2
<1>2. ImagesOf(buf, v) = ImagesOfFates(buf, v) /\ ImagesOf(buf, w) = ImagesOfFates(buf, w)
  BY <1>1, ImagesExact
<1>3. ASSUME NEW x \in ImagesOfFates(buf, v) PROVE x \in ImagesOfFates(buf, w)
  <2>1. PICK g \in [1 .. Len(w) -> Fates] : x = apply_window(buf, v, g)
    BY <1>1 DEF ImagesOfFates
  <2>2. \E f \in [1 .. Len(w) -> Fates] : apply_window(buf, w, f) = apply_window(buf, v, g)
    BY AnyOrder
  <2>3. PICK f \in [1 .. Len(w) -> Fates] : apply_window(buf, w, f) = apply_window(buf, v, g)
    BY <2>2
  <2> QED BY <2>1, <2>3 DEF ImagesOfFates
<1> QED BY <1>2, <1>3

(* An entry leaves a file.                                                 *)
LEMMA EntryTyped ==
    ASSUME NEW buf \in Seq(Nat), NEW e \in Changes, NEW fate \in Fates
    PROVE  ApplyEntry(buf, e, fate) \in Seq(Nat)
<1>1. CASE Dropped(fate)
  BY <1>1 DEF Dropped, ApplyEntry
<1>2. CASE ~Dropped(fate) /\ e \in Writes
  <2> DEFINE data == WrittenBy(e, fate)
  <2>1. data \in Seq(Nat) /\ ApplyEntry(buf, e, fate) = write_at(buf, e.off, data)
    BY <1>2, WrittenIs
  <2>2. e.off \in Nat
    BY <1>2 DEF Writes
  <2> HIDE DEF data
  <2>3. write_at(buf, e.off, data) \in Seq(Nat)
    BY <2>1, <2>2, WriteIs
  <2> QED BY <2>1, <2>3
<1>3. CASE ~Dropped(fate) /\ e \notin Writes
  <2>1. e.op = "SetLen" /\ e.len \in Nat
    BY <1>3 DEF Changes
  <2>2. ApplyEntry(buf, e, fate) = resize(buf, e.len)
    BY <1>3, <2>1 DEF ApplyEntry, Dropped
  <2> QED BY <2>1, <2>2, ResizeIs
<1> QED BY <1>1, <1>2, <1>3

(* So does a window, under the fates of a failed sync too.                 *)
LEMMA WindowTyped ==
    ASSUME NEW buf \in Seq(Nat), NEW w \in Seq(Changes), NEW fates,
           \A i \in 1 .. Len(w) : FateOf(fates, i) \in Fates
    PROVE  apply_window(buf, w, fates) \in Seq(Nat)
<1>1. PICK f : /\ f[0] = buf
               /\ \A i \in 1 .. Len(w) : f[i] = ApplyEntry(f[i - 1], w[i], FateOf(fates, i))
               /\ apply_window(buf, w, fates) = f[Len(w)]
  BY WindowLoop
<1> DEFINE N == Len(w)
           S == {n \in 0 .. N : f[n] \in Seq(Nat)}
<1>2. N \in Nat /\ 0 \in S
  BY <1>1
<1>3. ASSUME NEW n \in 0 .. N - 1, n \in S PROVE n + 1 \in S
  <2>1. n + 1 \in 1 .. N /\ (n + 1) - 1 = n /\ n + 1 \in 0 .. N
    BY <1>2
  <2>2. w[n + 1] \in Changes
    BY <2>1
  <2> DEFINE k == n + 1
  <2>3. f[k] = ApplyEntry(f[n], w[k], FateOf(fates, k)) /\ FateOf(fates, k) \in Fates
    BY <1>1, <2>1
  <2>4. f[n] \in Seq(Nat)
    BY <1>3
  <2> HIDE DEF k
  <2>5. f[k] \in Seq(Nat)
    BY <2>2, <2>3, <2>4, EntryTyped DEF k
  <2> QED BY <2>1, <2>5 DEF k
<1>4. N \in S
  <2> HIDE DEF S, N
  <2>1. \A n \in 0 .. N : n \in S
    BY <1>2, <1>3, BoundedInduction
  <2> QED BY <1>2, <2>1
<1> QED BY <1>1, <1>4

(* The fates that a failed sync is armed with are fates of every entry.    *)
LEMMA FateTyped ==
    ASSUME NEW fates, fates = <<>> \/ fates \in UNION {[1 .. n -> Fates] : n \in Nat}, NEW i
    PROVE  FateOf(fates, i) \in Fates
<1>1. <<"Apply", 0>> \in Fates
  BY DEF Fates
<1>2. CASE fates = <<>>
  BY <1>1, <1>2 DEF FateOf
<1>3. CASE fates \in UNION {[1 .. n -> Fates] : n \in Nat}
  <2>1. PICK n \in Nat : fates \in [1 .. n -> Fates]
    BY <1>3
  <2> QED BY <1>1, <2>1 DEF FateOf
<1> QED BY <1>2, <1>3

-----------------------------------------------------------------------------
(* The window that a reordering permutes                                   *)

(* What is durable is a file, and the writes of a window do not overlap,   *)
(* which is what write_all_at asserts.                                     *)
ApartInv ==
    /\ durable \in Seq(Nat)
    /\ Window \in Seq(Changes)
    /\ \A i, j \in 1 .. Len(Window) :
          i # j /\ Window[i] \in Writes /\ Window[j] \in Writes => Apart(Window[i], Window[j])

(* The image that from_image is given is a file; its window is empty.      *)
LEMMA InitApart == Init => ApartInv
<1> SUFFICES ASSUME Init PROVE ApartInv
  OBVIOUS
<1>1. PICK units \in Initials : from_image(units)
  BY DEF Init
<1>2. units \in Nat /\ UnitBytes \in Nat
  BY FaultyAssumption
<1> DEFINE s == [u \in 1 .. units |-> Unit(u)]
<1>3. s \in Seq(Seq(Nat))
  <2>1. \A u \in 1 .. units : Unit(u) \in Seq(Nat)
    BY <1>2 DEF Unit
  <2> HIDE DEF Unit
  <2> QED BY <1>2, <2>1
<1>4. durable = FlattenSeq(s)
  BY <1>1 DEF from_image
<1> HIDE DEF s
<1>5. durable \in Seq(Nat)
  BY <1>3, <1>4, FlattenTyped
<1>6. Window = <<>>
  BY DEF Init, Window
<1> QED BY <1>5, <1>6 DEF ApartInv

(* A write or a cut is added to the end of the window.                     *)
LEMMA ApartAppend ==
    ASSUME TypeInv, ApartInv, NEW e \in Changes, log' = Append(log, e),
           UNCHANGED <<durable, window_start>>,
           e \in Writes => \A i \in 1 .. Len(Window) : Window[i] \in Writes => Apart(e, Window[i])
    PROVE  ApartInv'
<1>0. log \in Seq(Entries) /\ window_start \in 0 .. Len(log) /\ Len(log) \in Nat
  BY DEF TypeInv
<1> DEFINE w == Window
           n == Len(Window)
<1>1. w \in Seq(Changes) /\ n \in Nat
  BY DEF ApartInv
<1>2. Window' = Append(w, e)
  <2>1. e \in Entries
    BY DEF Changes, Writes, Entries
  <2>2. Window' = SubSeq(Append(log, e), window_start + 1, Len(log) + 1)
    BY <1>0, <2>1, SMTT(30) DEF Window
  <2>3. w = SubSeq(log, window_start + 1, Len(log))
    BY DEF Window
  <2> DEFINE a == window_start
             m == Len(log)
             l == Append(log, e)
  <2>4. a \in Nat /\ m \in Nat /\ a <= m
    BY <1>0
  <2>5. l \in Seq(Entries) /\ Len(l) = m + 1 /\ l[m + 1] = e /\ \A i \in 1 .. m : l[i] = log[i]
    BY <1>0, <2>1
  <2> HIDE DEF w, l, a, m
  <2>6. SubSeq(l, a + 1, m + 1) = [i \in 1 .. m + 1 - a |-> l[a + i]]
    BY <2>4, <2>5
  <2>7. w = [i \in 1 .. m - a |-> log[a + i]] /\ Len(w) = m - a
    BY <1>0, <2>3, <2>4 DEF a, m
  <2>8. \A i \in 1 .. m + 1 - a : l[a + i] = IF i = m + 1 - a THEN e ELSE w[i]
    <3> TAKE i \in 1 .. m + 1 - a
    <3>1. CASE i = m + 1 - a
      <4>1. a + i = m + 1
        BY <3>1, <2>4
      <4> QED BY <3>1, <4>1, <2>5
    <3>2. CASE i # m + 1 - a
      <4>1. i \in 1 .. m - a /\ a + i \in 1 .. m
        BY <3>2, <2>4
      <4> QED BY <3>2, <4>1, <2>5, <2>7
    <3> QED BY <3>1, <3>2
  <2>9. Append(w, e) = [i \in 1 .. m + 1 - a |-> IF i = m + 1 - a THEN e ELSE w[i]]
    BY <1>1, <2>4, <2>7
  <2> QED BY <2>2, <2>6, <2>8, <2>9 DEF l, a, m
<1> HIDE DEF w
<1>3. /\ Window' \in Seq(Changes) /\ Len(Window') = n + 1 /\ Window'[n + 1] = e
      /\ \A i \in 1 .. n : Window'[i] = w[i]
  BY <1>1, <1>2 DEF w
<1>4. ASSUME NEW i \in 1 .. n + 1, NEW j \in 1 .. n + 1, i # j,
             Window'[i] \in Writes, Window'[j] \in Writes
      PROVE  Apart(Window'[i], Window'[j])
  <2>1. CASE i \in 1 .. n /\ j \in 1 .. n
    <3>1. Window'[i] = w[i] /\ Window'[j] = w[j]
      BY <2>1, <1>3
    <3>2. Apart(w[i], w[j])
      BY <2>1, <3>1, <1>4 DEF ApartInv, w
    <3> QED BY <3>1, <3>2
  <2>2. CASE i = n + 1 /\ j \in 1 .. n
    <3>1. Window'[i] = e /\ Window'[j] = w[j]
      BY <2>2, <1>3
    <3>2. Apart(e, w[j])
      BY <2>2, <3>1, <1>4 DEF w
    <3> QED BY <3>1, <3>2
  <2>3. CASE j = n + 1 /\ i \in 1 .. n
    <3>1. Window'[j] = e /\ Window'[i] = w[i]
      BY <2>3, <1>3
    <3>2. Apart(e, w[i])
      BY <2>3, <3>1, <1>4 DEF w
    <3> QED BY <3>1, <3>2 DEF Apart
  <2> QED BY <2>1, <2>2, <2>3, <1>1, <1>4
<1> QED BY <1>3, <1>4 DEF ApartInv

(* A sync leaves a file, and an empty window.                              *)
LEMMA ApartSync ==
    ASSUME TypeInv, ApartInv, NEW e \in Entries, CloseWindow(e), NEW fates,
           fates = <<>> \/ fates \in UNION {[1 .. n -> Fates] : n \in Nat},
           durable' = apply_window(durable, Window, fates)
    PROVE  ApartInv'
<1>0. log \in Seq(Entries) /\ Len(log) \in Nat
  BY DEF TypeInv
<1>1. durable' \in Seq(Nat)
  <2>1. \A i \in 1 .. Len(Window) : FateOf(fates, i) \in Fates
    BY FateTyped
  <2> QED BY <2>1, WindowTyped DEF ApartInv
<1>2. Window' = <<>>
  <2>1. log' \in Seq(Entries) /\ Len(log') = Len(log) + 1 /\ window_start' = Len(log) + 1
    BY <1>0 DEF CloseWindow
  <2> QED BY <1>0, <2>1 DEF Window
<1> QED BY <1>1, <1>2 DEF ApartInv

(* Every call keeps the writes of the window apart.                        *)
LEMMA StepApart == TypeInv /\ ApartInv /\ [Next]_vars => ApartInv'
<1> SUFFICES ASSUME TypeInv, ApartInv, [Next]_vars PROVE ApartInv'
  OBVIOUS
<1>0. log \in Seq(Entries) /\ Len(log) \in Nat /\ UnitBytes \in Nat /\ Size \in Nat
  BY FaultyAssumption DEF TypeInv
<1>1. ASSUME NEW u \in 0 .. (Size - 1), NEW n \in 1 .. MaxWrite, EngineWrite(u, n) PROVE ApartInv'
  <2> DEFINE off == u * UnitBytes
             len == n * UnitBytes
             data == [b \in 1 .. len |-> Stamp]
             e == Write(off, data)
  <2>1. off \in Nat /\ len \in Nat /\ Stamp \in Nat
    BY <1>0 DEF Stamp
  <2>2. data \in Seq(Nat)
    <3> HIDE DEF len
    <3> QED BY <2>1
  <2>3. write_all_at(off, data)
    BY <1>1 DEF EngineWrite
  <2> HIDE DEF off, data
  <2>4. e \in Writes /\ e \in Changes /\ e.off = off /\ e.data = data
    BY <2>1, <2>2 DEF Write, Writes, Changes
  <2>5. ASSUME NEW i \in 1 .. Len(Window), Window[i] \in Writes PROVE Apart(e, Window[i])
    <3>1. Window[i].op = "Write" /\ i \in DOMAIN Window
      BY <2>5 DEF Writes, ApartInv
    <3>2. off + Len(data) <= Window[i].off \/ Window[i].off + Len(Window[i].data) <= off
      BY <2>3, <3>1 DEF write_all_at, Disjoint
    <3> HIDE DEF e
    <3> QED BY <3>2, <2>4 DEF Apart
  <2>6. log' = Append(log, e) /\ UNCHANGED <<durable, window_start>>
    BY <2>3 DEF write_all_at
  <2> HIDE DEF e
  <2> QED BY <2>4, <2>5, <2>6, ApartAppend
<1>2. ASSUME NEW u \in DATA_START .. Size, EngineSetLen(u) PROVE ApartInv'
  <2> DEFINE len == u * UnitBytes
             e == SetLen(len)
  <2>1. len \in Nat
    BY <1>0 DEF DATA_START
  <2>2. set_len(len)
    BY <1>2 DEF EngineSetLen
  <2> HIDE DEF len
  <2>3. e \in Changes /\ e \notin Writes
    BY <2>1 DEF SetLen, Changes, Writes
  <2>4. log' = Append(log, e) /\ UNCHANGED <<durable, window_start>>
    BY <2>2 DEF set_len
  <2> HIDE DEF e
  <2> QED BY <2>3, <2>4, ApartAppend
<1>3. ASSUME EngineSync PROVE ApartInv'
  <2>0. fail_sync = <<>> \/ fail_sync \in Nat \X UNION {[1 .. n -> Fates] : n \in Nat}
    BY DEF TypeInv
  <2>1. CASE FailsNow
    <3>1. /\ durable' = apply_window(durable, Window, fail_sync[2])
          /\ CloseWindow(SyncFailed(fail_sync[2]))
      BY <1>3, <2>1 DEF EngineSync, sync
    <3>2. fail_sync[2] \in UNION {[1 .. n -> Fates] : n \in Nat}
      BY <2>0, <2>1 DEF FailsNow
    <3> DEFINE F == fail_sync[2]
               e == SyncFailed(F)
    <3>3. e \in Entries
      <4> HIDE DEF F
      <4> QED BY <3>2 DEF SyncFailed, Entries, F
    <3> HIDE DEF e, F
    <3> QED BY <3>1, <3>2, <3>3, ApartSync DEF e, F
  <2>2. CASE ~FailsNow
    <3>1. durable' = apply_window(durable, Window, <<>>) /\ CloseWindow(SyncOk)
      BY <1>3, <2>2 DEF EngineSync, sync
    <3>2. SyncOk \in Entries
      BY DEF SyncOk, Entries
    <3> QED BY <3>1, <3>2, ApartSync
  <2> QED BY <2>1, <2>2
<1>4. ASSUME NEW skip, NEW fates, fail_nth_sync(skip, fates) PROVE ApartInv'
  BY <1>4 DEF fail_nth_sync, ApartInv, Window
<1>5. CASE UNCHANGED vars
  BY <1>5 DEF vars, ApartInv, Window
<1> QED BY <1>1, <1>2, <1>3, <1>4, <1>5 DEF Next

(* Writes that are kept apart can be reordered.                            *)
LEMMA ReorderNow == ApartInv => ReorderingIgnorable
<1> SUFFICES ASSUME ApartInv, CutFirst, NEW perm \in Bijection(DOMAIN Window, DOMAIN Window)
             PROVE  ImagesOf(durable, [i \in DOMAIN Window |-> Window[perm[i]]])
                       \subseteq ImagesOf(durable, Window)
  BY DEF ReorderingIgnorable
<1> DEFINE w == Window
           N == Len(w)
           v == [i \in DOMAIN w |-> w[perm[i]]]
<1>1. w \in Seq(Changes) /\ durable \in Seq(Nat) /\ N \in Nat /\ DOMAIN w = 1 .. N
  BY DEF ApartInv
<1>2. \A i \in 1 .. N : w[i] \in Changes /\ (w[i] \in Writes <=> w[i].op = "Write")
                        /\ (w[i] \notin Writes => w[i].op = "SetLen")
  BY <1>1 DEF Changes, Writes
<1>3. ASSUME NEW i \in 1 .. N, w[i] \notin Writes
      PROVE  /\ i = 1
             /\ \A j \in 2 .. N : w[j] \in Writes => Beside(w[j], w[i].len)
  <2>1. w[i].op = "SetLen" /\ i \in DOMAIN w
    BY <1>1, <1>2, <1>3
  <2>2. i = 1 /\ \A j \in {k \in 2 .. N : w[k].op = "Write"} :
                    w[j].off >= w[i].len \/ w[j].off + Len(w[j].data) <= w[i].len
    BY <2>1 DEF CutFirst
  <2>3. ASSUME NEW j \in 2 .. N, w[j] \in Writes PROVE Beside(w[j], w[i].len)
    <3>1. w[j].op = "Write"
      BY <2>3 DEF Writes
    <3> HIDE DEF w
    <3> QED BY <2>2, <3>1 DEF Beside
  <2> QED BY <2>2, <2>3
<1>4. \A i \in 2 .. N : w[i] \in Writes
  <2> HIDE DEF w
  <2> QED BY <1>1, <1>3
<1>5. Tidy(w)
  <2>1. \A i, j \in 1 .. N : i # j /\ w[i] \in Writes /\ w[j] \in Writes => Apart(w[i], w[j])
    BY DEF ApartInv
  <2>2. ASSUME NEW i \in 1 .. N, NEW j \in 1 .. N, w[i] \notin Writes, w[j] \in Writes
        PROVE  Beside(w[j], w[i].len)
    <3> HIDE DEF w
    <3>1. i = 1 /\ j # i
      BY <2>2, <1>3
    <3>2. j \in 2 .. N
      BY <3>1, <1>1
    <3> QED BY <3>2, <2>2, <1>3
  <2> QED BY <2>1, <2>2 DEF Tidy
<1>6. CutAhead(w) /\ Reordered(v, w)
  <2>1. perm \in Bijection(1 .. N, 1 .. N) /\ v = [i \in 1 .. N |-> w[perm[i]]]
    BY <1>1
  <2> HIDE DEF w, v
  <2> QED BY <2>1, <1>4, <1>5 DEF CutAhead, Reordered
<1> HIDE DEF w, v
<1>7. ImagesOf(durable, v) \subseteq ImagesOf(durable, w)
  BY <1>1, <1>6, OrderFree
<1> QED BY <1>7 DEF w, v

-----------------------------------------------------------------------------
(* ADR-0010: as write_all_at keeps the writes of a window apart, the order *)
(* in which the device gets to them does not matter.  If a cut comes first *)
(* and no write straddles it, every image that a crash leaves of the       *)
(* entries applied in any order is one that applying them in the order of  *)
(* the log leaves (vfs.rs write_all_at, apply_window, crash_image_at).     *)
THEOREM ReorderingCovered == Spec => []ReorderingIgnorable
<1>1. Init => IndInv /\ ApartInv
  BY InitInv, InitApart
<1>2. IndInv /\ ApartInv /\ [Next]_vars => (IndInv /\ ApartInv)'
  BY StepInv, StepApart DEF IndInv
<1>3. IndInv /\ ApartInv => ReorderingIgnorable
  BY ReorderNow
<1> QED BY <1>1, <1>2, <1>3, PTL DEF Spec
=============================================================================
