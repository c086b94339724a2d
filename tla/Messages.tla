------------------------------ MODULE Messages ------------------------------
(***************************************************************************)
(* Values, upserts and messages (src/types.rs) and what they do to leaves, *)
(* buffers and reads (src/node.rs).                                        *)
(*                                                                         *)
(* A value of exactly 8 bytes is the number it encodes, taken modulo       *)
(* Modulus (2^64 in the code; the two's complement i64 is read as its      *)
(* unsigned representative, on which wrapping_add is the same operation).  *)
(* All values of any other length are one value, Opaque: an upsert reads   *)
(* each of them as base 0.                                                 *)
(***************************************************************************)
EXTENDS Integers, Functions

CONSTANTS Keys,      \* keys, ordered as numbers
          Modulus,   \* 2^64
          Opaque,    \* a value that is not 8 bytes long
          NoValue    \* absence of a value (None)

ASSUME KeysAssumption == Keys \subseteq Nat
ASSUME ModulusAssumption == Modulus \in Nat \ {0}
ASSUME OpaqueAssumption == Opaque \notin Nat /\ NoValue \notin Nat /\ Opaque # NoValue

Numbers == 0 .. (Modulus - 1)

Values == Numbers \cup {Opaque}

MaybeValues == Values \cup {NoValue}

Put(s, v) == [kind |-> "Put", seq |-> s, value |-> v]
Delete(s) == [kind |-> "Delete", seq |-> s]
Upsert(s, d) == [kind |-> "Upsert", seq |-> s, delta |-> d]

MessagesOf(S) == [kind : {"Put"}, seq : S, value : Values]
                   \cup [kind : {"Delete"}, seq : S]
                   \cup [kind : {"Upsert"}, seq : S, delta : Numbers]

Entries(S) == [seq : S, value : Values]

wrapping_add(a, b) == IF a + b < Modulus THEN a + b ELSE a + b - Modulus

(* UpsertOp::apply                                                         *)
apply(d, v) == wrapping_add(IF v \in Numbers THEN v ELSE 0, d)

(* The value a message leaves where it found v.                            *)
Effect(m, v) == CASE m.kind = "Put"    -> m.value
                  [] m.kind = "Delete" -> NoValue
                  [] m.kind = "Upsert" -> apply(m.delta, v)

(* Faulty: an upsert over a tombstone stays an upsert, which would revive  *)
(* the value that the tombstone was to remove.                             *)
coalesce_revives(m, older) ==
    IF m.kind # "Upsert" THEN m
    ELSE CASE older.kind = "Put"    -> Put(m.seq, apply(m.delta, older.value))
           [] older.kind = "Delete" -> m
           [] older.kind = "Upsert" -> Upsert(m.seq, wrapping_add(older.delta, m.delta))

(* Message::coalesce: m, the newer message, absorbs older.                 *)
coalesce(m, older) ==
    IF m.kind # "Upsert" THEN m
    ELSE CASE older.kind = "Put"    -> Put(m.seq, apply(m.delta, older.value))
           [] older.kind = "Delete" -> Put(m.seq, apply(m.delta, NoValue))
           [] older.kind = "Upsert" -> Upsert(m.seq, wrapping_add(older.delta, m.delta))

(* coalesce_into, for each key of the batch.                               *)
coalesce_into(buffer, batch) ==
    [k \in DOMAIN buffer \cup DOMAIN batch |->
        IF k \notin DOMAIN batch THEN buffer[k]
        ELSE IF k \notin DOMAIN buffer THEN batch[k]
        ELSE coalesce(batch[k], buffer[k])]

ValueIn(entries, k) == IF k \in DOMAIN entries THEN entries[k].value ELSE NoValue

(* apply_to_leaf, for each key of the batch: leaves keep no tombstones.    *)
apply_to_leaf(entries, batch) ==
    LET after == [k \in DOMAIN batch |->
                    [seq |-> batch[k].seq, value |-> Effect(batch[k], ValueIn(entries, k))]]
        gone == {k \in DOMAIN batch : after[k].value = NoValue}
    IN [k \in (DOMAIN entries \cup DOMAIN batch) \ gone |->
           IF k \in DOMAIN batch THEN after[k] ELSE entries[k]]

(* get: the running sum of the upserts seen so far, NoValue before the     *)
(* first one.                                                              *)
ChainAdd(chain, d) == IF chain = NoValue THEN d ELSE wrapping_add(chain, d)

(* apply_chain: the sum of the upserts seen on the way down, NoValue when  *)
(* there were none, meets the value at the end of the path.                *)
apply_chain(chain, v) == IF chain = NoValue THEN v ELSE apply(chain, v)
=============================================================================
