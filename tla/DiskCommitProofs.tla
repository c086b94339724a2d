-------------------------- MODULE DiskCommitProofs --------------------------
(***************************************************************************)
(* Proofs about the commit protocol, for every device size and every bound *)
(* of module DiskCommit: type correctness, and that IndInv is inductive,   *)
(* from which durability, exact and monotone recovery and the idempotence  *)
(* of open() follow.  The proof goes from the device (what a write, a sync *)
(* or a power loss does to the files recovery may find) to the steps of    *)
(* the engine, one lemma per action.                                       *)
(***************************************************************************)
EXTENDS DiskCommit, TLAPS

(* Consecutive generations use different slots (SlotOf).                   *)
LEMMA SlotParity ==
    ASSUME NEW g \in Nat
    PROVE  /\ SlotOf(g) \in Slots
           /\ g > 0 => SlotOf(g - 1) \in Slots /\ SlotOf(g - 1) # SlotOf(g)
  BY DEF SlotOf, Slots

(* Data units are numbers.                                                 *)
LEMMA UnitsAreIntegers == \A u \in Units : u \in Int
  BY SizeAssumption DEF Units, DATA_START

(* The fields of a file have their types.                                  *)
LEMMA FileFacts ==
    ASSUME NEW f \in File
    PROVE  /\ f.len \in Nat
           /\ f.slot \in [Slots -> Superblock \cup {NoSB}]
           /\ f.data \in [Units -> Nat]
  BY DEF File

(* What a data write leaves alone and what it changes (Patch).             *)
LEMMA PatchFacts ==
    ASSUME NEW f \in File, NEW off \in Nat, NEW n \in Nat, NEW vals \in [Units -> Nat],
           NEW g, g = Patch(f, off, n, vals)
    PROVE  /\ g \in File
           /\ g.slot = f.slot
           /\ f.len <= g.len /\ off + n <= g.len
           /\ \A u \in Units : u < off => g.data[u] = f.data[u]
           /\ \A u \in Units : off <= u /\ u < off + n => g.data[u] = vals[u]
<1> DEFINE len == Longer(f.len, off + n)
           data == [u \in Units |-> IF off <= u /\ u < off + n THEN vals[u] ELSE f.data[u]]
<1>1. len \in Nat /\ f.len <= len /\ off + n <= len
  BY FileFacts DEF Longer
<1>2. data \in [Units -> Nat]
  BY FileFacts
<1>3. \A u \in Units : u \in Int
  BY UnitsAreIntegers
<1>4. \A u \in Units : u < off => data[u] = f.data[u]
  BY <1>3
<1>5. \A u \in Units : off <= u /\ u < off + n => data[u] = vals[u]
  BY <1>3
<1>6. g = [f EXCEPT !.len = len, !.data = data]
  BY DEF Patch
<1> HIDE DEF len, data
<1>7. g \in File /\ g.len = len /\ g.data = data /\ g.slot = f.slot
  BY <1>1, <1>2, <1>6 DEF File
<1> QED
  BY <1>1, <1>4, <1>5, <1>7

(* File g has grown out of f by writes at or above off.                    *)
Extends(f, g, off) ==
    /\ g \in File
    /\ g.slot = f.slot
    /\ f.len <= g.len
    /\ \A u \in Units : u < off => g.data[u] = f.data[u]

(* A data write at off touches nothing below off.                          *)
LEMMA PatchExtends ==
    ASSUME NEW f \in File, NEW off \in Nat, NEW n \in Nat, NEW vals \in [Units -> Nat]
    PROVE  Extends(f, Patch(f, off, n, vals), off)
  BY PatchFacts DEF Extends

(* Inside its extent a data write leaves exactly the values written.       *)
LEMMA PatchWrites ==
    ASSUME NEW f \in File, NEW off \in Nat, NEW n \in Nat, NEW vals \in [Units -> Nat],
           NEW u \in Units, off <= u, u < off + n
    PROVE  Patch(f, off, n, vals).data[u] = vals[u]
<1> DEFINE data == [v \in Units |-> IF off <= v /\ v < off + n THEN vals[v] ELSE f.data[v]]
<1>1. data[u] = vals[u]
  BY UnitsAreIntegers
<1>2. Patch(f, off, n, vals) = [f EXCEPT !.len = Longer(f.len, off + n), !.data = data]
  BY DEF Patch
<1> HIDE DEF data
<1> QED
  BY <1>1, <1>2 DEF File

(* So does every crash fate of it, torn or zero-filled.                    *)
LEMMA DataFatesExtend ==
    ASSUME NEW f \in File, NEW off \in Nat, NEW n \in Nat, NEW vals \in [Units -> Nat],
           NEW g \in DataFates(f, off, n, vals)
    PROVE  Extends(f, g, off)
<1>0. Constantly(Bad) \in [Units -> Nat]
  BY DEF Constantly, Bad
<1>1. CASE g = f
  BY <1>1, FileFacts DEF Extends
<1>2. CASE g = Patch(f, off, n, Constantly(Bad))
  BY <1>0, <1>2, PatchExtends
<1>3. CASE \E k \in 0 .. n : g = Patch(f, off, k, vals)
  BY <1>3, PatchExtends
<1>4. CASE \E k \in 1 .. n : g = Patch(f, off, k, [vals EXCEPT ![off + k - 1] = Bad])
  <2>1. PICK k \in 1 .. n : g = Patch(f, off, k, [vals EXCEPT ![off + k - 1] = Bad])
    BY <1>4
  <2> DEFINE w == [vals EXCEPT ![off + k - 1] = Bad]
  <2>2. w \in [Units -> Nat]
    BY DEF Bad
  <2>3. g = Patch(f, off, k, w)
    BY <2>1
  <2> HIDE DEF w
  <2> QED
    BY <2>2, <2>3, PatchExtends
<1> QED
  BY <1>1, <1>2, <1>3, <1>4 DEF DataFates

(* A slot write changes that slot only (PatchSlot).                        *)
LEMMA PatchSlotFacts ==
    ASSUME NEW f \in File, NEW s \in Slots, NEW b \in Superblock \cup {NoSB},
           NEW g, g = PatchSlot(f, s, b)
    PROVE  /\ g \in File
           /\ g.slot[s] = b
           /\ \A t \in Slots : t # s => g.slot[t] = f.slot[t]
           /\ g.data = f.data
           /\ f.len <= g.len /\ s < g.len
<1> DEFINE len == Longer(f.len, s + 1)
           slot == [f.slot EXCEPT ![s] = b]
<1>1. len \in Nat /\ f.len <= len /\ s < len
  BY FileFacts DEF Longer, Slots
<1>2. /\ slot \in [Slots -> Superblock \cup {NoSB}]
      /\ slot[s] = b
      /\ \A t \in Slots : t # s => slot[t] = f.slot[t]
  BY FileFacts
<1>3. g = [f EXCEPT !.len = len, !.slot = slot]
  BY DEF PatchSlot
<1> HIDE DEF len, slot
<1>4. g \in File /\ g.len = len /\ g.slot = slot /\ g.data = f.data
  BY <1>1, <1>2, <1>3 DEF File
<1> QED
  BY <1>1, <1>2, <1>4

(* Cutting the tail off keeps the slots and all data below the cut         *)
(* (Resize).                                                               *)
LEMMA ResizeFacts ==
    ASSUME NEW f \in File, NEW len \in Nat, DATA_START <= len,
           NEW g, g = Resize(f, len)
    PROVE  /\ g \in File
           /\ g.len = len
           /\ g.slot = f.slot
           /\ \A u \in Units : u < len => g.data[u] = f.data[u]
<1> DEFINE data == [u \in Units |-> IF u < len THEN f.data[u] ELSE Bad]
           slot == [s \in Slots |-> IF s < len THEN f.slot[s] ELSE NoSB]
<1>1. slot = f.slot
  BY FileFacts DEF Slots, DATA_START
<1>2. data \in [Units -> Nat] /\ \A u \in Units : u < len => data[u] = f.data[u]
  BY FileFacts DEF Bad
<1>3. g = [f EXCEPT !.len = len, !.slot = slot, !.data = data]
  BY DEF Resize
<1> HIDE DEF data, slot
<1>4. g \in File /\ g.len = len /\ g.slot = f.slot /\ g.data = data
  BY <1>1, <1>2, <1>3 DEF File
<1> QED
  BY <1>2, <1>4

(* In a sound file every decodable slot is readable, so the slots alone    *)
(* decide what recovery picks.                                             *)
LEMMA BestFacts ==
    ASSUME NEW f \in File, Sound(f)
    PROVE  /\ \A s \in Slots : Readable(f, s) <=> f.slot[s] # NoSB
           /\ Best(f) \in Superblock \cup {NoSB}
           /\ Best(f) = NoSB <=> \A s \in Slots : f.slot[s] = NoSB
           /\ Best(f) # NoSB => \E s \in Slots : Best(f) = f.slot[s]
           /\ \A s \in Slots : f.slot[s] # NoSB => f.slot[s].generation <= Best(f).generation
<1>1. \A s \in Slots : Readable(f, s) <=> f.slot[s] # NoSB
  BY DEF Sound, Readable, Slots, DATA_START, File, Superblock
<1>2. Best(f) \in {f.slot[0], f.slot[1], NoSB}
  BY DEF Best
<1>3. Best(f) = NoSB <=> \A s \in Slots : f.slot[s] = NoSB
  BY <1>1 DEF Best, Slots
<1>4. \A s \in Slots : f.slot[s] # NoSB => f.slot[s].generation <= Best(f).generation
  BY <1>1 DEF Best, Slots, File, Superblock
<1> QED
  BY <1>1, <1>2, <1>3, <1>4 DEF Slots, File

(* Two sound files with the same slots recover the same superblock.        *)
LEMMA BestBySlots ==
    ASSUME NEW f \in File, NEW g \in File, Sound(f), Sound(g), f.slot = g.slot
    PROVE  Best(g) = Best(f)
<1>1. /\ Readable(f, 0) <=> Readable(g, 0)
      /\ Readable(f, 1) <=> Readable(g, 1)
  BY BestFacts DEF Slots
<1> QED
  BY <1>1 DEF Best

-----------------------------------------------------------------------------
(* Type correctness                                                        *)

VfsTypeOK ==
    /\ view \in File /\ settled \in File /\ images \in SUBSET File
    /\ unsynced \in SUBSET (Slots \cup Units) /\ overlapped \in BOOLEAN

(* A data write keeps the device's types.                                  *)
LEMMA WriteDataType ==
    ASSUME VfsTypeOK, NEW off \in Nat, NEW n \in Nat, NEW vals \in [Units -> Nat],
           WriteData(off, n, vals)
    PROVE  VfsTypeOK'
<1>1. view' \in File /\ settled' \in File
  BY PatchFacts DEF VfsTypeOK, WriteData
<1>2. \A i \in images : \A g \in DataFates(i, off, n, vals) : g \in File
  BY DataFatesExtend DEF VfsTypeOK, Extends
<1>3. images' \in SUBSET File
  BY <1>2 DEF WriteData
<1>4. unsynced' \in SUBSET (Slots \cup Units) /\ overlapped' \in BOOLEAN
  BY DEF VfsTypeOK, WriteData, Extent
<1> QED
  BY <1>1, <1>3, <1>4 DEF VfsTypeOK

(* A slot write keeps the device's types.                                  *)
LEMMA WriteSlotType ==
    ASSUME VfsTypeOK, NEW s \in Slots, NEW b \in Superblock \cup {NoSB}, WriteSlot(s, b)
    PROVE  VfsTypeOK'
<1>1. view' \in File /\ settled' \in File
  BY PatchSlotFacts DEF VfsTypeOK, WriteSlot
<1>2. \A i \in images : \A g \in SlotFates(i, s, b) : g \in File
  BY PatchSlotFacts DEF VfsTypeOK, SlotFates
<1>3. images' \in SUBSET File
  BY <1>2 DEF WriteSlot
<1>4. unsynced' \in SUBSET (Slots \cup Units) /\ overlapped' \in BOOLEAN
  BY DEF VfsTypeOK, WriteSlot
<1> QED
  BY <1>1, <1>3, <1>4 DEF VfsTypeOK

(* A resized file is a file.                                               *)
LEMMA ResizeType ==
    ASSUME NEW f \in File, NEW len \in Nat
    PROVE  Resize(f, len) \in File
<1> DEFINE data == [u \in Units |-> IF u < len THEN f.data[u] ELSE Bad]
           slot == [s \in Slots |-> IF s < len THEN f.slot[s] ELSE NoSB]
<1>1. slot \in [Slots -> Superblock \cup {NoSB}]
  BY FileFacts
<1>2. data \in [Units -> Nat]
  BY FileFacts DEF Bad
<1>3. Resize(f, len) = [f EXCEPT !.len = len, !.slot = slot, !.data = data]
  BY DEF Resize
<1> HIDE DEF data, slot
<1> QED
  BY <1>1, <1>2, <1>3 DEF File

(* set_len keeps the device's types.                                       *)
LEMMA SetLenType ==
    ASSUME VfsTypeOK, NEW len \in Nat, SetLen(len)
    PROVE  VfsTypeOK'
  BY ResizeType DEF VfsTypeOK, SetLen

(* A sync, failed or not, and a power loss keep the device's types.        *)
LEMMA SyncType ==
    ASSUME VfsTypeOK, SyncOk \/ SyncFail \/ PowerLoss
    PROVE  VfsTypeOK'
  BY DEF VfsTypeOK, SyncOk, SyncFail, PowerLoss

(* Recovery finds a superblock or none.                                    *)
LEMMA BestType ==
    ASSUME NEW f \in File
    PROVE  Best(f) \in Superblock \cup {NoSB}
  BY FileFacts DEF Best, Slots

TypeInv == TypeOK /\ (Committing => sb \in Superblock)

(* Constant contents are contents.                                         *)
LEMMA ConstantlyType ==
    /\ NoTree \in [Units -> Nat]
    /\ \A x \in Nat : Constantly(x) \in [Units -> Nat]
  BY DEF NoTree, Constantly, Bad

(* The initial state is well typed.                                        *)
LEMMA TypeInit == Init => TypeInv
<1> SUFFICES ASSUME Init PROVE TypeInv
  OBVIOUS
<1>1. EmptyFile \in File
  BY DEF EmptyFile, File, Bad
<1> QED
  BY <1>1, ConstantlyType DEF Init, VfsInit, TypeInv, TypeOK, Committing, Control, DATA_START

(* A part of the tree's records is a tree's records.                       *)
LEMMA KeepType ==
    ASSUME tree \in [Units -> Nat], NEW shared
    PROVE  /\ Keep(shared) \in [Units -> Nat]
           /\ \A u \in Units : Keep(shared)[u] # Bad => Keep(shared)[u] = tree[u] /\ tree[u] # Bad
  BY DEF Keep, Bad

(* A failed commit keeps the engine's types.                               *)
LEMMA FailType ==
    ASSUME TypeOK, Fail
    PROVE  /\ pc' \in {"closed", "idle"}
           /\ next_generation' \in Nat /\ watermark' \in Nat /\ next_seq' \in Nat
           /\ poisoned' \in BOOLEAN /\ dirty' \in BOOLEAN /\ collapsed' \in BOOLEAN
           /\ tree' \in [Units -> Nat]
           /\ sb' = NoSB
           /\ UNCHANGED ghostVars
<1>1. CASE next_generation = 0 /\ Forget
  BY <1>1, ConstantlyType DEF Fail, Forget, DATA_START
<1>2. CASE /\ pc' = "idle" /\ poisoned' = TRUE /\ sb' = NoSB
           /\ UNCHANGED <<next_generation, watermark, next_seq, dirty, collapsed, tree>>
  BY <1>2 DEF Fail, TypeOK
<1> QED
  BY <1>1, <1>2 DEF Fail

(* Every step keeps the types; that a commit in progress has a superblock  *)
(* is needed for it.                                                       *)
LEMMA TypeStep == TypeInv /\ [Next]_vars => TypeInv'
<1> SUFFICES ASSUME TypeInv, [Next]_vars PROVE TypeInv'
  OBVIOUS
<1>0. /\ VfsTypeOK
      /\ TypeOK
      /\ Committing => sb \in Superblock
  BY DEF TypeInv, TypeOK, VfsTypeOK
<1> DEFINE MemOK == /\ next_generation \in Nat /\ watermark \in Nat /\ next_seq \in Nat
                    /\ tree \in [Units -> Nat]
           FlagOK == poisoned \in BOOLEAN /\ dirty \in BOOLEAN /\ collapsed \in BOOLEAN
           GhostOK == acked \in Superblock \cup {NoSB} /\ attempted \in SUBSET Superblock
           SbOK == sb \in Superblock \cup {NoSB} /\ (Committing => sb \in Superblock)
<1>a. MemOK /\ FlagOK /\ GhostOK /\ SbOK /\ pc \in Control /\ stamp \in Nat
  BY <1>0 DEF TypeOK
<1>b. SUFFICES VfsTypeOK' /\ MemOK' /\ FlagOK' /\ GhostOK' /\ SbOK' /\ pc' \in Control /\ stamp' \in Nat
  BY DEF TypeInv, TypeOK, VfsTypeOK
<1>c. /\ UNCHANGED vfsVars => VfsTypeOK'
      /\ UNCHANGED memVars => MemOK' /\ FlagOK'
      /\ UNCHANGED ghostVars => GhostOK'
      /\ UNCHANGED <<sb, pc>> => SbOK' /\ pc' \in Control
      /\ UNCHANGED stamp => stamp' \in Nat
  <2>1. UNCHANGED vfsVars => VfsTypeOK'
    BY <1>0 DEF VfsTypeOK, vfsVars
  <2>2. UNCHANGED memVars => MemOK' /\ FlagOK'
    BY <1>a DEF memVars
  <2>3. UNCHANGED ghostVars => GhostOK'
    BY <1>a DEF ghostVars
  <2>4. UNCHANGED <<sb, pc>> => SbOK' /\ pc' \in Control
    BY <1>a DEF Committing
  <2>5. UNCHANGED stamp => stamp' \in Nat
    BY <1>a
  <2> QED
    BY <2>1, <2>2, <2>3, <2>4, <2>5
<1>d. Forget => MemOK' /\ FlagOK' /\ SbOK' /\ pc' \in Control
  <2> SUFFICES ASSUME Forget PROVE MemOK' /\ FlagOK' /\ SbOK' /\ pc' \in Control
    OBVIOUS
  <2>1. MemOK' /\ SbOK' /\ pc' \in Control
    BY ConstantlyType DEF Forget, Committing, Control, DATA_START
  <2>2. FlagOK'
    BY DEF Forget
  <2> QED
    BY <2>1, <2>2
<1>e. Fail => MemOK' /\ FlagOK' /\ GhostOK' /\ SbOK' /\ pc' \in Control
  BY <1>0, <1>c, FailType DEF Committing, Control
<1>f. ASSUME NEW n \in 1 .. MaxAppend, NEW vals \in [Units -> Nat],
             WriteData(Base, n, vals)
      PROVE  VfsTypeOK'
  BY <1>0, <1>a, <1>f, WriteDataType DEF Base
<1> HIDE DEF MemOK, FlagOK, GhostOK, SbOK
<1>1. CASE Create
  <2>1. MemOK' /\ SbOK' /\ pc' \in Control
    BY <1>1, <1>a, ConstantlyType DEF Create, MemOK, SbOK, Committing, Control, DATA_START
  <2>2. FlagOK'
    BY <1>1 DEF Create, FlagOK
  <2> QED
    BY <1>1, <1>c, <2>1, <2>2 DEF Create
<1>2. CASE Open
  <2>1. Best(view) \in Superblock
    BY <1>0, <1>2, BestType DEF Open, TypeOK
  <2>2. VfsTypeOK'
    BY <1>0, <1>2, <2>1, SetLenType DEF Open, CutAt, Superblock
  <2>3. MemOK' /\ SbOK' /\ pc' \in Control
    BY <1>2, <1>a, <2>1 DEF Open, MemOK, SbOK, Committing, Control, GenerationAfter, Superblock
  <2>4. FlagOK'
    BY <1>2 DEF Open, FlagOK
  <2> QED
    BY <1>2, <1>c, <2>2, <2>3, <2>4 DEF Open
<1>3. CASE OpenRefused
  BY <1>3, <1>c DEF OpenRefused, vars
<1>4. CASE Close
  BY <1>4, <1>c, <1>d DEF Close
<1>5. CASE Crash
  BY <1>0, <1>5, <1>c, <1>d, SyncType DEF Crash
<1>6. CASE Mutate \/ Drain
  <2>1. MemOK'
    BY <1>6, <1>a DEF Mutate, Drain, MemOK
  <2>0. UNCHANGED <<vfsVars, pc, sb, stamp, ghostVars>>
    BY <1>6 DEF Mutate, Drain
  <2>2. FlagOK'
    BY <1>6, <1>a DEF Mutate, Drain, RootAfter, FlagOK
  <2> QED
    BY <1>c, <2>0, <2>1, <2>2
<1>7. ASSUME NEW shared \in SUBSET Refs, CommitClean(shared)
      PROVE  VfsTypeOK' /\ MemOK' /\ FlagOK' /\ GhostOK' /\ SbOK' /\ pc' \in Control /\ stamp' \in Nat
  <2>0. Keep(shared) \in [Units -> Nat]
    BY <1>a, KeepType DEF MemOK
  <2>1. SbOK' /\ pc' \in Control
    BY <1>7, <1>a, <2>0 DEF CommitClean, SbOK, MemOK, Superblock, Control
  <2> QED
    BY <1>7, <1>c, <2>1 DEF CommitClean
<1>8. ASSUME NEW n \in 1 .. MaxAppend, NEW shared \in SUBSET Refs, CommitDirty(n, shared)
      PROVE  VfsTypeOK' /\ MemOK' /\ FlagOK' /\ GhostOK' /\ SbOK' /\ pc' \in Control /\ stamp' \in Nat
  <2>1. NewRefs(n, shared) \in [Units -> Nat]
    BY <1>a, KeepType DEF NewRefs, MemOK
  <2>2. SbOK' /\ pc' \in Control /\ stamp' \in Nat
    BY <1>8, <1>a, <2>1 DEF CommitDirty, SbOK, MemOK, Superblock, Control
  <2>3. Constantly(stamp + 1) \in [Units -> Nat]
    BY <1>a, ConstantlyType
  <2> QED
    BY <1>8, <1>c, <1>f, <2>2, <2>3 DEF CommitDirty
<1>9. ASSUME NEW n \in 1 .. MaxAppend, CommitWriteFails(n)
      PROVE  VfsTypeOK' /\ MemOK' /\ FlagOK' /\ GhostOK' /\ SbOK' /\ pc' \in Control /\ stamp' \in Nat
  <2>1. PICK last \in {Bad, stamp + 1} :
          WriteData(Base, n, [Constantly(stamp + 1) EXCEPT ![Base + n - 1] = last])
    BY <1>9 DEF CommitWriteFails
  <2> DEFINE w == [Constantly(stamp + 1) EXCEPT ![Base + n - 1] = last]
  <2>2. w \in [Units -> Nat]
    <3>1. Constantly(stamp + 1) \in [Units -> Nat]
      BY <1>a, ConstantlyType
    <3>2. last \in Nat
      BY <1>a DEF Bad
    <3> QED
      BY <3>1, <3>2
  <2>3. WriteData(Base, n, w)
    BY <2>1
  <2> HIDE DEF w
  <2>4. VfsTypeOK'
    BY <1>f, <2>2, <2>3
  <2>5. stamp' \in Nat
    BY <1>9, <1>a DEF CommitWriteFails
  <2> QED
    BY <1>9, <1>e, <2>4, <2>5 DEF CommitWriteFails
<1>10. CASE CommitAborts
  BY <1>10, <1>c, <1>e DEF CommitAborts
<1>11. CASE SyncData
  <2>1. SbOK' /\ pc' \in Control
    BY <1>11, <1>a DEF SyncData, SbOK, Committing, Control
  <2> QED
    BY <1>0, <1>11, <1>c, <2>1, SyncType DEF SyncData
<1>12. CASE SyncDataFails \/ SyncSlotFails
  BY <1>0, <1>12, <1>c, <1>e, SyncType DEF SyncDataFails, SyncSlotFails
<1>13. CASE Publish
  <2>1. sb \in Superblock
    BY <1>13, <1>a DEF Publish, SbOK, Committing
  <2>2. SbOK' /\ pc' \in Control /\ GhostOK'
    BY <1>13, <1>a, <2>1 DEF Publish, SbOK, GhostOK, Control
  <2>3. VfsTypeOK'
    BY <1>0, <1>a, <1>13, <2>1, SlotParity, WriteSlotType DEF Publish, MemOK
  <2> QED
    BY <1>13, <1>c, <2>2, <2>3 DEF Publish
<1>14. CASE PublishFails
  <2>1. VfsTypeOK'
    BY <1>0, <1>a, <1>c, <1>14, SlotParity, WriteSlotType DEF PublishFails, MemOK
  <2> QED
    BY <1>14, <1>c, <1>e, <2>1 DEF PublishFails
<1>15. CASE SyncSlot
  <2>1. sb \in Superblock
    BY <1>15, <1>a DEF SyncSlot, SbOK, Committing
  <2>2. MemOK' /\ SbOK' /\ pc' \in Control /\ GhostOK'
    BY <1>15, <1>a, <2>1
       DEF SyncSlot, Adopt, MemOK, SbOK, GhostOK, Committing, Control, Superblock
  <2>3. FlagOK'
    BY <1>15, <1>a DEF SyncSlot, Adopt, FlagOK
  <2> QED
    BY <1>0, <1>15, <1>c, <2>2, <2>3, SyncType DEF SyncSlot
<1>16. CASE UNCHANGED vars
  BY <1>16, <1>c DEF vars
<1> QED
  BY <1>1, <1>2, <1>3, <1>4, <1>5, <1>6, <1>7, <1>8, <1>9, <1>10, <1>11, <1>12, <1>13,
     <1>14, <1>15, <1>16 DEF Next

(* Every variable of the commit protocol keeps the type of the field of    *)
(* DiskEngine or FaultyVfs it stands for, whatever the bounds.             *)
THEOREM TypeCorrect == Spec => []TypeOK
<1>1. TypeInv => TypeOK
  BY DEF TypeInv
<1> QED
  BY <1>1, TypeInit, TypeStep, PTL DEF Spec

-----------------------------------------------------------------------------
(* What each device operation does to a sound file                         *)

SlotsBelow(f, end) == \A s \in Slots : f.slot[s] # NoSB => f.slot[s].watermark <= end

(* A superblock in a slot has its fields.                                  *)
LEMMA SlotFacts ==
    ASSUME NEW f \in File, NEW s \in Slots, f.slot[s] # NoSB
    PROVE  /\ f.slot[s] \in Superblock
           /\ f.slot[s].generation \in Nat
           /\ f.slot[s].watermark \in Nat
           /\ f.slot[s].last_seq \in Nat
           /\ f.slot[s].refs \in [Units -> Nat]
<1>1. f.slot[s] \in Superblock
  BY FileFacts
<1> QED
  BY <1>1 DEF Superblock

(* Appending above every watermark preserves all that recovery reads.      *)
LEMMA KeepSound ==
    ASSUME NEW f \in File, NEW g \in File, NEW end \in Nat, Sound(f), SlotsBelow(f, end),
           g.slot = f.slot,
           \A s \in Slots : f.slot[s] # NoSB => f.slot[s].watermark <= g.len,
           \A u \in Units : u < end => g.data[u] = f.data[u]
    PROVE  Sound(g) /\ Best(g) = Best(f)
<1>1. ASSUME NEW s \in Slots, f.slot[s] # NoSB
      PROVE  Intact(g, f.slot[s])
  <2> SUFFICES ASSUME NEW u \in Units, f.slot[s].refs[u] # Bad
               PROVE  g.data[u] = f.slot[s].refs[u]
    BY DEF Intact
  <2>1. u < f.slot[s].watermark /\ f.data[u] = f.slot[s].refs[u]
    BY <1>1 DEF Sound, Below, Intact
  <2>2. u < end
    BY <1>1, <2>1, SlotFacts, UnitsAreIntegers DEF SlotsBelow
  <2> QED
    BY <2>1, <2>2
<1>2. Sound(g)
  BY <1>1 DEF Sound
<1> QED
  BY <1>2, BestBySlots

(* A file extended above every watermark stays sound and recovers the      *)
(* same.                                                                   *)
LEMMA ExtendSound ==
    ASSUME NEW f \in File, NEW g, NEW off \in Nat, Sound(f), SlotsBelow(f, off),
           Extends(f, g, off)
    PROVE  Sound(g) /\ Best(g) = Best(f)
<1>1. \A s \in Slots : f.slot[s] # NoSB => f.slot[s].watermark <= g.len
  BY FileFacts, SlotFacts DEF Sound, Extends
<1> QED
  BY <1>1, KeepSound DEF Extends

(* Cutting off what lies above every watermark keeps the file sound and    *)
(* what it recovers.                                                       *)
LEMMA ResizeSound ==
    ASSUME NEW f \in File, NEW len \in Nat, Sound(f), SlotsBelow(f, len), DATA_START <= len
    PROVE  Sound(Resize(f, len)) /\ Best(Resize(f, len)) = Best(f)
<1> DEFINE g == Resize(f, len)
<1>1. /\ g \in File
      /\ g.len = len
      /\ g.slot = f.slot
      /\ \A u \in Units : u < len => g.data[u] = f.data[u]
  BY ResizeFacts
<1> HIDE DEF g
<1>2. Sound(g) /\ Best(g) = Best(f)
  BY <1>1, KeepSound DEF SlotsBelow
<1> QED
  BY <1>2 DEF g

(* A newer superblock over durable records becomes the one recovered.      *)
LEMMA PublishSound ==
    ASSUME NEW f \in File, NEW b \in Superblock, Sound(f),
           DATA_START <= b.watermark, b.watermark <= f.len,
           Below(b.refs, b.watermark), Intact(f, b),
           \A t \in Slots : f.slot[t] # NoSB =>
               \/ f.slot[t] = b
               \/ f.slot[t].generation < b.generation /\ f.slot[t].watermark <= b.watermark,
           NEW g, g = PatchSlot(f, SlotOf(b.generation), b)
    PROVE  Sound(g) /\ Best(g) = b
<1> DEFINE s == SlotOf(b.generation)
<1>0. b.generation \in Nat /\ b.watermark \in Nat /\ b # NoSB
  BY NoSBAssumption DEF Superblock
<1>1. s \in Slots
  BY <1>0, SlotParity
<1>2. /\ g \in File
      /\ g.slot[s] = b
      /\ \A t \in Slots : t # s => g.slot[t] = f.slot[t]
      /\ g.data = f.data
      /\ f.len <= g.len
  BY <1>1, PatchSlotFacts
<1>3. f.len \in Nat /\ g.len \in Nat
  BY <1>2, FileFacts
<1>4. ASSUME NEW t \in Slots, g.slot[t] # NoSB
      PROVE  /\ SlotOf(g.slot[t].generation) = t
             /\ DATA_START <= g.slot[t].watermark
             /\ g.slot[t].watermark <= g.len
             /\ Below(g.slot[t].refs, g.slot[t].watermark)
             /\ Intact(g, g.slot[t])
  <2>1. CASE t = s
    BY <1>0, <1>2, <1>3, <2>1 DEF Intact
  <2>2. CASE t # s
    <3>1. g.slot[t] = f.slot[t] /\ f.slot[t] # NoSB /\ f.slot[t].watermark \in Nat
      BY <1>2, <1>4, <2>2, SlotFacts
    <3> QED
      BY <1>2, <1>3, <3>1 DEF Sound, Intact, DATA_START
  <2> QED
    BY <2>1, <2>2
<1>5. \A t \in Slots : g.slot[t] # NoSB => \/ g.slot[t] = b
                                        \/ /\ g.slot[t].generation < b.generation
                                           /\ g.slot[t].watermark <= b.watermark
  BY <1>2
<1>6. \A t, r \in Slots :
        g.slot[t] # NoSB /\ g.slot[r] # NoSB /\ g.slot[t].generation <= g.slot[r].generation
        => g.slot[t].watermark <= g.slot[r].watermark
  BY <1>0, <1>1, <1>2, <1>5, SlotFacts DEF Slots
<1>7. Sound(g)
  BY <1>4, <1>6 DEF Sound
<1>8. Best(g) # NoSB /\ \E t \in Slots : Best(g) = g.slot[t]
  BY <1>0, <1>1, <1>2, <1>7, BestFacts
<1>9. b.generation <= Best(g).generation
  BY <1>0, <1>1, <1>2, <1>7, BestFacts
<1> QED
  BY <1>0, <1>2, <1>5, <1>7, <1>8, <1>9, SlotFacts

(* A mangled slot leaves the other one to recover from.                    *)
LEMMA EraseSound ==
    ASSUME NEW f \in File, NEW s \in Slots, Sound(f), NEW g, g = PatchSlot(f, s, NoSB)
    PROVE  /\ Sound(g)
           /\ \A t \in Slots : t # s => Best(g) = f.slot[t]
<1>1. /\ g \in File
      /\ g.slot[s] = NoSB
      /\ \A t \in Slots : t # s => g.slot[t] = f.slot[t]
      /\ g.data = f.data
      /\ f.len <= g.len
      /\ f.len \in Nat /\ g.len \in Nat
  BY PatchSlotFacts, FileFacts
<1>2. ASSUME NEW t \in Slots, g.slot[t] # NoSB
      PROVE  /\ SlotOf(g.slot[t].generation) = t
             /\ DATA_START <= g.slot[t].watermark
             /\ g.slot[t].watermark <= g.len
             /\ Below(g.slot[t].refs, g.slot[t].watermark)
             /\ Intact(g, g.slot[t])
  <2>1. g.slot[t] = f.slot[t] /\ f.slot[t] # NoSB /\ f.slot[t].watermark \in Nat
    BY <1>1, <1>2, SlotFacts
  <2> QED
    BY <1>1, <2>1 DEF Sound, Intact
<1>3. Sound(g)
  BY <1>1, <1>2 DEF Sound, Slots
<1>4. ASSUME NEW t \in Slots, t # s PROVE Best(g) = f.slot[t]
  <2>1. \A r \in Slots : r = t \/ r = s
    BY <1>4 DEF Slots
  <2>2. CASE f.slot[t] = NoSB
    BY <1>1, <1>3, <2>1, <2>2, BestFacts
  <2>3. CASE f.slot[t] # NoSB
    <3>1. Best(g) # NoSB
      BY <1>1, <1>3, <1>4, <2>3, BestFacts
    <3> QED
      BY <1>1, <1>3, <1>4, <2>1, <3>1, BestFacts
  <2> QED
    BY <2>2, <2>3
<1> QED
  BY <1>3, <1>4

-----------------------------------------------------------------------------
(* What each device operation does to the invariant                        *)

CanCommit == pc # "closed" /\ ~poisoned

Live == {acked} \cup attempted

(* What the invariant says of each file that open() may find.              *)
LEMMA RecoverableFacts ==
    ASSUME IndInv
    PROVE  /\ settled \in images
           /\ images \in SUBSET Recoverable
           /\ ~Lost => view \in Recoverable
           /\ \A f \in Recoverable : f \in File /\ Sound(f) /\ Best(f) \in Live
           /\ CanCommit => ~Lost
  BY DEF IndInv, DeviceInv, EngineInv, TypeOK, Recoverable, Live, CanCommit

(* Before a superblock is in flight, all that recovery could need lies     *)
(* below the watermark.                                                    *)
LEMMA BelowWatermark ==
    ASSUME IndInv, CanCommit, pc # "slot"
    PROVE  /\ \A f \in Recoverable : SlotsBelow(f, watermark)
           /\ watermark \in Nat /\ DATA_START <= watermark
  BY DEF IndInv, TypeOK, EngineInv, CanCommit, SlotsBelow

(* A step that leaves the device and the ghosts alone keeps DeviceInv.     *)
LEMMA DeviceUnchanged ==
    ASSUME IndInv, UNCHANGED <<vfsVars, ghostVars>>
    PROVE  DeviceInv' /\ Recoverable' = Recoverable /\ Lost' = Lost
  BY DEF IndInv, DeviceInv, vfsVars, ghostVars, Recoverable, Lost

(* Appending records at the watermark keeps DeviceInv and everything       *)
(* recoverable.                                                            *)
LEMMA DeviceWriteData ==
    ASSUME IndInv, pc = "idle", CanCommit, NEW n \in Nat, NEW vals \in [Units -> Nat],
           WriteData(watermark, n, vals), UNCHANGED ghostVars
    PROVE  /\ DeviceInv'
           /\ ~Lost'
           /\ Extends(view, view', watermark)
           /\ Extends(settled, settled', watermark)
           /\ \A g \in Recoverable' : \E f \in Recoverable : g.slot = f.slot
<1>0. /\ view \in File /\ settled \in File /\ ~Lost
      /\ watermark \in Nat /\ DATA_START <= watermark
  BY RecoverableFacts, BelowWatermark DEF IndInv, TypeOK
<1>1. Extends(view, view', watermark) /\ Extends(settled, settled', watermark)
  BY <1>0, PatchExtends DEF WriteData
<1>2. ~Lost'
  BY <1>0, <1>1 DEF Extends, Lost
<1>3. ASSUME NEW g \in Recoverable'
      PROVE  \E f \in Recoverable : Extends(f, g, watermark) /\ (g \in images' => f \in images)
  <2>1. CASE g \in images'
    <3>1. PICK i \in images : g \in DataFates(i, watermark, n, vals)
      BY <2>1 DEF WriteData
    <3>2. i \in File /\ i \in Recoverable
      BY RecoverableFacts
    <3> QED
      BY <1>0, <3>1, <3>2, DataFatesExtend
  <2>2. CASE g \notin images'
    <3>1. g = view'
      BY <1>3, <2>2 DEF Recoverable
    <3> QED
      BY <1>0, <1>1, <2>2, <3>1, RecoverableFacts
  <2> QED
    BY <2>1, <2>2
<1>4. ASSUME NEW f \in Recoverable, NEW g, Extends(f, g, watermark)
      PROVE  Sound(g) /\ Best(g) = Best(f) /\ g.slot = f.slot
  BY <1>0, <1>4, RecoverableFacts, BelowWatermark, ExtendSound DEF Extends
<1>5. settled' \in images'
  <2>1. settled \in images
    BY RecoverableFacts
  <2>2. settled' \in DataFates(settled, watermark, n, vals)
    BY DEF WriteData, DataFates
  <2> QED
    BY <2>1, <2>2 DEF WriteData
<1>6. \A g \in Recoverable' : Sound(g) /\ Best(g) \in {acked'} \cup attempted'
  BY <1>3, <1>4, RecoverableFacts DEF Live, ghostVars
<1>7. \A g \in images' : Dominates(Best(view'), g)
  <2>1. \A f \in images : Dominates(Best(view), f)
    BY <1>0 DEF IndInv, DeviceInv
  <2>2. Best(view') = Best(view)
    BY <1>0, <1>1, <1>4, RecoverableFacts
  <2>3. \A g \in images' : \E f \in images : g.slot = f.slot
    BY <1>3, <1>4 DEF Recoverable
  <2> QED
    BY <2>1, <2>2, <2>3 DEF Dominates
<1>8. view'.len # 0
  <2>1. watermark + n <= view'.len
    BY <1>0, PatchFacts DEF WriteData
  <2> QED
    BY <1>0, <2>1 DEF DATA_START
<1> QED
  BY <1>1, <1>2, <1>3, <1>4, <1>5, <1>6, <1>7, <1>8 DEF DeviceInv

(* A sync keeps DeviceInv: it only narrows the crash images to one of      *)
(* them.                                                                   *)
LEMMA DeviceSyncOk ==
    ASSUME IndInv, SyncOk, UNCHANGED ghostVars
    PROVE  /\ DeviceInv'
           /\ Lost' = Lost
           /\ Recoverable' \subseteq Recoverable
<1>1. Lost' = Lost /\ images' = {settled} /\ view' = view /\ settled' = settled
  BY DEF SyncOk, Lost
<1>2. Recoverable' \subseteq Recoverable /\ images' \subseteq images
  BY <1>1, RecoverableFacts DEF Recoverable
<1> QED
  BY <1>1, <1>2 DEF IndInv, DeviceInv, ghostVars

(* A failed sync keeps DeviceInv, whichever subset of the window it made   *)
(* durable.                                                                *)
LEMMA DeviceSyncFail ==
    ASSUME IndInv, CanCommit, SyncFail, UNCHANGED ghostVars
    PROVE  DeviceInv'
<1>1. PICK i \in images : settled' = i /\ images' = {i}
  BY DEF SyncFail
<1>2. view' = view /\ ~Lost
  BY RecoverableFacts DEF SyncFail
<1>3. Recoverable' \subseteq Recoverable /\ images' \subseteq images
  BY <1>1, <1>2, RecoverableFacts DEF Recoverable
<1> QED
  BY <1>1, <1>2, <1>3 DEF IndInv, DeviceInv, ghostVars

(* A power loss keeps DeviceInv, whichever image is left.                  *)
LEMMA DevicePowerLoss ==
    ASSUME IndInv, PowerLoss, UNCHANGED ghostVars
    PROVE  DeviceInv'
<1>1. PICK i \in images : view' = i /\ settled' = i /\ images' = {i}
  BY DEF PowerLoss
<1>2. i \in File /\ Sound(i) /\ Best(i) \in Live
  BY RecoverableFacts
<1>3. Recoverable' = {i}
  BY <1>1 DEF Recoverable
<1>4. Dominates(Best(i), i)
  <2> SUFFICES ASSUME NEW s \in Slots, i.slot[s] # NoSB
               PROVE  /\ Best(i) # NoSB
                      /\ i.slot[s].generation <= Best(i).generation
                      /\ i.slot[s].watermark <= Best(i).watermark
    BY DEF Dominates
  <2>1. Best(i) # NoSB /\ i.slot[s].generation <= Best(i).generation
    BY <1>2, BestFacts
  <2>2. PICK t \in Slots : Best(i) = i.slot[t]
    BY <1>2, <2>1, BestFacts
  <2> QED
    BY <1>2, <2>1, <2>2 DEF Sound
<1>5. i.len = 0 => i.slot = EmptyFile.slot
  <2>1. i.len = 0 => \A s \in Slots : i.slot[s] = NoSB
    BY <1>2, SlotFacts DEF Sound, DATA_START
  <2> QED
    BY <1>2, <2>1, FileFacts DEF EmptyFile
<1> QED
  BY <1>1, <1>2, <1>3, <1>4, <1>5 DEF DeviceInv, Live, ghostVars

(* The slot write of a commit, complete (b = sb) or cut short (b = NoSB).  *)
(* A crash finds the old slot, the new one, or one that does not decode;   *)
(* the superblock in the other slot is there in every case.                *)
LEMMA DeviceWriteSlot ==
    ASSUME IndInv, pc = "publish", NEW b \in {sb, NoSB},
           WriteSlot(SlotOf(next_generation), b), acked' = acked,
           attempted' \in SUBSET Superblock,
           attempted \subseteq attempted', b = sb => sb \in attempted'
    PROVE  /\ DeviceInv'
           /\ ~Lost'
           /\ \A g \in images' \cup {view'}, s \in Slots :
                s # SlotOf(next_generation) => g.slot[s] = settled.slot[s]
           /\ \A g \in Recoverable', s \in Slots : g.slot[s] # NoSB =>
                 \/ g.slot[s] = sb
                 \/ g.slot[s].generation < next_generation /\ g.slot[s].watermark <= watermark
           /\ settled'.slot[SlotOf(next_generation)] = b
           /\ settled'.data = settled.data /\ settled.len <= settled'.len
           /\ view'.data = view.data /\ view.len <= view'.len
           /\ \A g \in images' : g.data = settled.data /\ settled.len <= g.len
<1> DEFINE s0 == SlotOf(next_generation)
<1>0. /\ next_generation \in Nat /\ s0 \in Slots
      /\ view \in File /\ settled \in File
      /\ sb \in Superblock /\ sb # NoSB
      /\ sb.generation = next_generation
      /\ sb.watermark \in Nat /\ watermark \in Nat
      /\ DATA_START <= sb.watermark /\ watermark <= sb.watermark
      /\ Below(sb.refs, sb.watermark)
      /\ CanCommit
  <2>1. Committing /\ CommitInv /\ TypeOK
    BY DEF IndInv, Committing
  <2>2. CanCommit
    BY <2>1 DEF CommitInv, CanCommit
  <2>3. DATA_START <= watermark /\ watermark \in Nat
    BY <2>2, BelowWatermark
  <2> QED
    BY <2>1, <2>2, <2>3, SlotParity, NoSBAssumption DEF CommitInv, TypeOK, Superblock, DATA_START
<1>1. images = {settled} /\ view.slot = settled.slot
  BY <1>0, RecoverableFacts DEF IndInv, CommitInv, Committing, Lost
<1>2. /\ Sound(settled) /\ Sound(view)
      /\ Intact(settled, sb) /\ sb.watermark <= settled.len
      /\ Intact(view, sb) /\ sb.watermark <= view.len
      /\ settled \in Recoverable /\ view \in Recoverable
  BY <1>0, RecoverableFacts DEF IndInv, CommitInv, Committing
<1>3. /\ view' = PatchSlot(view, s0, b)
      /\ settled' = PatchSlot(settled, s0, b)
      /\ images' = {settled, PatchSlot(settled, s0, b), PatchSlot(settled, s0, NoSB)}
  BY <1>1 DEF WriteSlot, SlotFates
<1> DEFINE Fate(f, g) == \/ g = PatchSlot(f, s0, sb) /\ b = sb
                         \/ g = PatchSlot(f, s0, NoSB)
<1>4. Fate(view, view') /\ Fate(settled, settled')
      /\ \A g \in images' : g = settled \/ Fate(settled, g)
  BY <1>3
<1>5. \A f \in {view, settled}, t \in Slots : f.slot[t] # NoSB =>
          f.slot[t].generation < next_generation /\ f.slot[t].watermark <= watermark
  BY <1>0, <1>2 DEF IndInv, EngineInv, CanCommit
<1>6. ASSUME NEW f \in {view, settled}, NEW g, Fate(f, g)
      PROVE  /\ g \in File /\ Sound(g)
             /\ \A t \in Slots : t # s0 => g.slot[t] = settled.slot[t]
             /\ g.slot[s0] = b \/ g.slot[s0] = NoSB
             /\ g.data = f.data /\ f.len <= g.len
             /\ Best(g) \in {acked} \cup attempted'
  <2>0. f \in File /\ Sound(f) /\ Intact(f, sb) /\ sb.watermark <= f.len /\ f.slot = settled.slot
    BY <1>0, <1>1, <1>2
  <2>1. CASE g = PatchSlot(f, s0, sb) /\ b = sb
    <3>1. \A t \in Slots : f.slot[t] # NoSB =>
              f.slot[t].generation < sb.generation /\ f.slot[t].watermark <= sb.watermark
      BY <1>0, <1>5, <2>0, SlotFacts
    <3>2. Sound(g) /\ Best(g) = sb
      BY <1>0, <2>0, <2>1, <3>1, PublishSound
    <3> QED
      BY <1>0, <2>0, <2>1, <3>2, PatchSlotFacts
  <2>2. CASE g = PatchSlot(f, s0, NoSB)
    <3>1. Sound(g) /\ \A t \in Slots : t # s0 => Best(g) = f.slot[t]
      BY <1>0, <2>0, <2>2, EraseSound
    <3>2. Best(g) \in {acked} \cup attempted
      <4>1. CASE next_generation = 0
        <5>1. acked = NoSB
          BY <1>0, <4>1 DEF IndInv, EngineInv, CanCommit
        <5>2. \A t \in Slots : f.slot[t] = NoSB
          BY <1>5, <2>0, <4>1, SlotFacts
        <5>3. \E t \in Slots : t # s0
          BY DEF Slots
        <5> QED
          BY <3>1, <5>1, <5>2, <5>3
      <4>2. CASE next_generation > 0
        <5>1. Current \in {acked} \cup attempted
          BY <1>0, <4>2 DEF IndInv, EngineInv, CanCommit
        <5>2. SlotOf(next_generation - 1) \in Slots /\ SlotOf(next_generation - 1) # s0
          BY <1>0, <4>2, SlotParity
        <5> QED
          BY <2>0, <3>1, <5>1, <5>2 DEF Current
      <4> QED
        BY <1>0, <4>1, <4>2
    <3> QED
      BY <1>0, <2>0, <2>2, <3>1, <3>2, PatchSlotFacts
  <2> QED
    BY <1>6, <2>1, <2>2
<1> HIDE DEF Fate
<1>7. ~Lost'
  <2>1. view'.slot \in [Slots -> Superblock \cup {NoSB}] /\ settled'.slot \in [Slots -> Superblock \cup {NoSB}]
    BY <1>4, <1>6, FileFacts
  <2>2. view'.slot[s0] = b /\ settled'.slot[s0] = b
    BY <1>0, <1>3, PatchSlotFacts
  <2>3. \A t \in Slots : view'.slot[t] = settled'.slot[t]
    BY <1>4, <1>6, <2>2
  <2> QED
    BY <2>1, <2>3 DEF Lost
<1>8. \A g \in Recoverable' : g = settled \/ \E f \in {view, settled} : Fate(f, g)
  BY <1>4 DEF Recoverable
<1>9. \A g \in Recoverable' : g \in File /\ Sound(g) /\ Best(g) \in {acked'} \cup attempted'
  BY <1>0, <1>2, <1>6, <1>8, RecoverableFacts DEF Live
<1>10. \A g \in Recoverable', t \in Slots : g.slot[t] # NoSB =>
                 \/ g.slot[t] = sb
                 \/ g.slot[t].generation < next_generation /\ g.slot[t].watermark <= watermark
  BY <1>5, <1>6, <1>8
<1>11. \A g \in images' : Dominates(Best(view'), g)
  <2> SUFFICES ASSUME NEW g \in images', NEW t \in Slots, g.slot[t] # NoSB
               PROVE  /\ Best(view') # NoSB
                      /\ g.slot[t].generation <= Best(view').generation
                      /\ g.slot[t].watermark <= Best(view').watermark
    BY DEF Dominates
  <2>0. g \in File /\ g \in Recoverable'
    BY <1>9 DEF Recoverable
  <2>1. CASE b = sb
    <3>1. Best(view') = sb
      BY <1>0, <1>2, <1>3, <1>5, <2>1, PublishSound, SlotFacts
    <3> QED
      BY <1>0, <1>10, <2>0, <3>1, SlotFacts
  <2>2. CASE b # sb
    <3>1. g.slot[t] # sb /\ g.slot[t].generation < next_generation /\ g.slot[t].watermark <= watermark
      <4>1. b = NoSB
        BY <2>2
      <4>2. g.slot[t] = settled.slot[t] \/ g.slot[t] = NoSB
        BY <1>4, <1>6, <4>1
      <4> QED
        BY <1>0, <1>5, <4>2
    <3>2. next_generation > 0
      BY <1>0, <2>0, <3>1, SlotFacts
    <3>3. /\ Current # NoSB
          /\ Current.generation = next_generation - 1
          /\ Current.watermark = watermark
      BY <1>0, <3>2 DEF IndInv, EngineInv, CanCommit
    <3>4. Best(view') = Current
      <4>1. SlotOf(next_generation - 1) \in Slots /\ SlotOf(next_generation - 1) # s0
        BY <1>0, <3>2, SlotParity
      <4> QED
        BY <1>0, <1>1, <1>2, <1>3, <2>2, <4>1, EraseSound DEF Current
    <3> QED
      BY <1>0, <2>0, <3>1, <3>2, <3>3, <3>4, SlotFacts
  <2> QED
    BY <2>1, <2>2
<1>12. view'.len # 0
  BY <1>0, <1>3, PatchSlotFacts, FileFacts DEF Slots
<1>13. settled' \in images'
  BY <1>3
<1>14. DeviceInv'
  BY <1>9, <1>11, <1>12, <1>13 DEF DeviceInv
<1>15. settled'.slot[s0] = b
  BY <1>0, <1>3, PatchSlotFacts
<1>16. settled.len <= settled.len
  BY <1>0, FileFacts
<1>17. \A g \in images' : g.data = settled.data /\ settled.len <= g.len
  BY <1>4, <1>6, <1>16
<1>18. \A g \in images' \cup {view'}, s \in Slots : s # s0 => g.slot[s] = settled.slot[s]
  BY <1>4, <1>6
<1> QED
  BY <1>4, <1>6, <1>7, <1>10, <1>14, <1>15, <1>17, <1>18

-----------------------------------------------------------------------------
(* The inductive invariant                                                 *)

(* The records of the clean tree are where the engine believes they are.   *)
LEMMA TreeIntact ==
    ASSUME IndInv, CanCommit, NEW f \in {view, settled}
    PROVE  /\ \A u \in Units : tree[u] # Bad => f.data[u] = tree[u] /\ u < watermark
           /\ next_generation > 0 => watermark <= f.len
<1>1. EngineInv /\ ~Lost /\ next_generation \in Nat
  BY RecoverableFacts DEF IndInv, TypeOK
<1>2. Below(tree, watermark)
  BY <1>1 DEF EngineInv, CanCommit
<1>3. CASE next_generation = 0
  BY <1>1, <1>2, <1>3 DEF EngineInv, CanCommit, NoTree, Constantly, Below
<1>4. CASE next_generation > 0
  <2>1. SlotOf(next_generation - 1) \in Slots
    BY <1>1, <1>4, SlotParity
  <2>2. f.slot[SlotOf(next_generation - 1)] = Current
    BY <1>1 DEF Current, Lost
  <2>3. Current # NoSB /\ Current.watermark = watermark /\ Current.refs = tree
    BY <1>1, <1>4 DEF EngineInv, CanCommit
  <2>4. f \in File /\ Sound(f)
    BY <1>1, RecoverableFacts
  <2>5. Intact(f, Current) /\ Current.watermark <= f.len
    BY <2>1, <2>2, <2>3, <2>4 DEF Sound
  <2> QED
    BY <1>2, <2>3, <2>5 DEF Intact, Below
<1> QED
  BY <1>1, <1>3, <1>4

(* The initial state satisfies the inductive invariant.                    *)
LEMMA IndInit == Init => IndInv
<1> SUFFICES ASSUME Init PROVE IndInv
  OBVIOUS
<1>1. TypeOK /\ EmptyFile \in File
  BY TypeInit DEF TypeInv, TypeOK, Init, VfsInit
<1>2. \A s \in Slots : EmptyFile.slot[s] = NoSB
  BY DEF EmptyFile
<1>3. Sound(EmptyFile)
  BY <1>2 DEF Sound
<1>4. Best(EmptyFile) = NoSB
  BY <1>1, <1>2, <1>3, BestFacts
<1>5. Recoverable = {EmptyFile}
  BY DEF Recoverable, Init, VfsInit
<1>6. DeviceInv
  BY <1>2, <1>3, <1>4, <1>5 DEF DeviceInv, Init, VfsInit, Dominates, EmptyFile
<1> QED
  BY <1>1, <1>6 DEF Init, IndInv, GhostInv, EngineInv, CommitInv, Committing

(* A failed operation leaves no engine, or one that refuses to commit.     *)
LEMMA FailStep ==
    ASSUME IndInv, Fail
    PROVE  GhostInv' /\ EngineInv' /\ CommitInv' /\ UNCHANGED ghostVars
<1>1. UNCHANGED ghostVars
  BY DEF Fail
<1>2. pc' = "closed" \/ (pc' = "idle" /\ poisoned')
  BY DEF Fail, Forget
<1> QED
  BY <1>1, <1>2 DEF IndInv, GhostInv, EngineInv, CommitInv, Committing, ghostVars

(* A step that leaves no process running owes nothing about the engine.    *)
LEMMA ClosedStep ==
    ASSUME IndInv, pc' = "closed", UNCHANGED ghostVars
    PROVE  GhostInv' /\ EngineInv' /\ CommitInv'
  BY DEF IndInv, GhostInv, EngineInv, CommitInv, Committing, ghostVars

(* create_on keeps the invariant.                                          *)
LEMMA CreateStep ==
    ASSUME IndInv, Create
    PROVE  DeviceInv' /\ GhostInv' /\ EngineInv' /\ CommitInv'
<1>1. DeviceInv' /\ Recoverable' = Recoverable /\ Lost' = Lost
  BY DeviceUnchanged DEF Create
<1>2. GhostInv' /\ CommitInv'
  BY DEF Create, IndInv, GhostInv, CommitInv, Committing, ghostVars
<1>3. view.slot = EmptyFile.slot /\ \A f \in images : f.len = 0
  BY DEF Create, IndInv, DeviceInv
<1>4. ASSUME NEW f \in images PROVE \A s \in Slots : f.slot[s] = NoSB
  <2>1. f \in File /\ Sound(f) /\ f.len = 0
    BY <1>3, RecoverableFacts
  <2> QED
    BY <2>1, SlotFacts DEF Sound, DATA_START
<1>5. \A s \in Slots : view.slot[s] = NoSB
  BY <1>3 DEF EmptyFile
<1>6. settled \in File /\ view \in File /\ settled \in images /\ Sound(settled)
  BY RecoverableFacts DEF IndInv, TypeOK
<1>7. ~Lost
  <2>1. \A s \in Slots : view.slot[s] = settled.slot[s]
    BY <1>4, <1>5, <1>6
  <2> QED
    BY <1>6, <2>1, FileFacts DEF Lost
<1>8. \A f \in Recoverable, s \in Slots : f.slot[s] = NoSB
  BY <1>4, <1>5 DEF Recoverable
<1>9. acked = NoSB
  <2>1. Best(settled) = NoSB
    BY <1>4, <1>6, BestFacts
  <2>2. NoSB \in Live
    BY <1>6, <2>1, RecoverableFacts
  <2> QED
    BY <2>2, NoSBAssumption DEF Live, IndInv, TypeOK
<1>10. /\ pc' = "idle" /\ next_generation' = 0 /\ watermark' = DATA_START /\ next_seq' = 0
       /\ dirty' /\ tree' = NoTree /\ acked' = acked
  BY DEF Create, ghostVars
<1>11. Below(NoTree, DATA_START)
  BY DEF Below, NoTree, Constantly
<1>12. EngineInv'
  BY <1>1, <1>7, <1>8, <1>9, <1>10, <1>11 DEF EngineInv, DATA_START
<1> QED
  BY <1>1, <1>2, <1>12

(* open_on keeps the invariant, and no crash image recovers anything else  *)
(* for it.                                                                 *)
LEMMA OpenStep ==
    ASSUME IndInv, Open, ~ReopenLost
    PROVE  /\ DeviceInv' /\ GhostInv' /\ EngineInv' /\ CommitInv'
           /\ \A f \in images : Best(Resize(f, Best(view).watermark)) = Best(f)
<1> DEFINE b == Best(view)
           len == b.watermark
<1>0. ~Lost /\ pc = "closed" /\ view \in File /\ settled \in File /\ images \in SUBSET File
  BY DEF Open, IndInv, TypeOK
<1>1. /\ b \in Superblock /\ b # NoSB /\ len \in Nat
      /\ b.generation \in Nat /\ b.last_seq \in Nat
  BY <1>0, BestType DEF Open, Superblock
<1>2. view \in Recoverable /\ Sound(view) /\ b \in Live
  BY <1>0, RecoverableFacts
<1>3. PICK s0 \in Slots : b = view.slot[s0]
  BY <1>0, <1>1, <1>2, BestFacts
<1>4. /\ DATA_START <= len /\ SlotOf(b.generation) = s0
      /\ Below(b.refs, len)
  BY <1>1, <1>2, <1>3 DEF Sound
<1>5. \A f \in images : Dominates(b, f)
  BY <1>0 DEF IndInv, DeviceInv
<1>5a. Dominates(b, view)
  <2>1. view.slot = settled.slot /\ settled \in images
    BY <1>0, RecoverableFacts DEF Lost
  <2> QED
    BY <1>5, <2>1 DEF Dominates
<1>6. \A f \in Recoverable : f \in File /\ Sound(f) /\ Dominates(b, f) /\ SlotsBelow(f, len)
  BY <1>1, <1>5, <1>5a, RecoverableFacts DEF Recoverable, Dominates, SlotsBelow
<1>7. /\ view' = Resize(view, len)
      /\ settled' = Resize(settled, len)
      /\ images' = images \cup {Resize(i, len) : i \in images}
  BY DEF Open, SetLen, CutAt
<1> HIDE DEF b, len
<1>8. \A f \in Recoverable : /\ Resize(f, len) \in File
                             /\ Resize(f, len).len = len
                             /\ Resize(f, len).slot = f.slot
                             /\ Sound(Resize(f, len))
                             /\ Best(Resize(f, len)) = Best(f)
  BY <1>1, <1>4, <1>6, ResizeFacts, ResizeSound
<1>9. settled \in Recoverable /\ settled \in images /\ images \subseteq Recoverable
  BY RecoverableFacts
<1>10. ~Lost' /\ settled'.slot = settled.slot /\ view'.slot = view.slot
  BY <1>0, <1>2, <1>7, <1>8, <1>9 DEF Lost
<1>11. \A g \in Recoverable' : \E f \in Recoverable :
          g.slot = f.slot /\ Sound(g) /\ Best(g) = Best(f)
  BY <1>2, <1>6, <1>7, <1>8, <1>9 DEF Recoverable
<1>12. \A g \in images' : \E f \in images : g.slot = f.slot
  BY <1>7, <1>8, <1>9
<1>13. Best(view') = b
  BY <1>2, <1>7, <1>8 DEF b
<1>14. UNCHANGED ghostVars
  BY DEF Open
<1>15. DeviceInv'
  <2>1. settled' \in images'
    BY <1>7, <1>9
  <2>2. \A g \in Recoverable' : Sound(g) /\ Best(g) \in {acked'} \cup attempted'
    BY <1>11, <1>14, RecoverableFacts DEF Live, ghostVars
  <2>3. \A g \in images' : Dominates(Best(view'), g)
    BY <1>5, <1>12, <1>13 DEF Dominates
  <2>4. view'.len # 0
    BY <1>1, <1>2, <1>4, <1>7, <1>8 DEF DATA_START
  <2> QED
    BY <2>1, <2>2, <2>3, <2>4 DEF DeviceInv
<1>16. GhostInv' /\ CommitInv'
  BY <1>14 DEF Open, IndInv, GhostInv, CommitInv, Committing, ghostVars
<1>17. /\ pc' = "idle"
       /\ next_generation' = b.generation + 1 /\ watermark' = len
       /\ next_seq' = b.last_seq /\ tree' = b.refs
  BY DEF Open, GenerationAfter, b, len
<1>18. \A g \in Recoverable', s \in Slots : g.slot[s] # NoSB =>
          g.slot[s].generation < next_generation' /\ g.slot[s].watermark <= watermark'
  <2> SUFFICES ASSUME NEW g \in Recoverable', NEW s \in Slots, g.slot[s] # NoSB
               PROVE  g.slot[s].generation < next_generation' /\ g.slot[s].watermark <= watermark'
    OBVIOUS
  <2>1. PICK f \in Recoverable : g.slot = f.slot
    BY <1>11
  <2>2. f \in File /\ Dominates(b, f)
    BY <1>6
  <2> QED
    BY <1>1, <1>17, <2>1, <2>2, SlotFacts DEF Dominates, len
<1>19. Current' = b
  <2>1. (b.generation + 1) - 1 = b.generation
    BY <1>1
  <2> QED
    BY <1>0, <1>3, <1>4, <1>10, <1>17, <2>1 DEF Current, Lost
<1>20. acked # NoSB => b.generation >= acked.generation /\ b.last_seq >= acked.last_seq
  BY <1>1, <1>2 DEF Live, IndInv, GhostInv, TypeOK, Superblock
<1>21. EngineInv'
  <2>1. acked' # NoSB => next_generation' > acked'.generation /\ next_seq' >= acked'.last_seq
    BY <1>1, <1>14, <1>17, <1>20 DEF IndInv, TypeOK, Superblock, ghostVars
  <2>2. next_generation' > 0 /\ next_generation' # 0 /\ next_generation' - 1 = b.generation
    BY <1>1, <1>17
  <2>3. Current' \in {acked'} \cup attempted'
    BY <1>2, <1>14, <1>19 DEF Live, ghostVars
  <2> QED
    BY <1>1, <1>4, <1>10, <1>17, <1>18, <1>19, <2>1, <2>2, <2>3 DEF EngineInv, len
<1> QED
  BY <1>8, <1>9, <1>15, <1>16, <1>21 DEF b, len

(* Mutations and drain keep the invariant.                                 *)
LEMMA MutateStep ==
    ASSUME IndInv, Mutate \/ Drain
    PROVE  DeviceInv' /\ GhostInv' /\ EngineInv' /\ CommitInv'
<1>1. /\ pc = "idle" /\ pc' = "idle" /\ next_generation > 0
      /\ UNCHANGED <<vfsVars, ghostVars>>
      /\ next_generation' = next_generation /\ watermark' = watermark /\ tree' = tree
      /\ ~poisoned' => ~poisoned
  BY DEF Mutate, Drain, Ready, ghostVars
<1>2. next_seq' \in Nat /\ next_seq <= next_seq' /\ next_generation \in Nat
  BY DEF Mutate, Drain, IndInv, TypeOK
<1>3. DeviceInv' /\ Recoverable' = Recoverable /\ Lost' = Lost
  BY <1>1, DeviceUnchanged
<1>4. GhostInv' /\ CommitInv'
  BY <1>1 DEF IndInv, GhostInv, CommitInv, Committing, ghostVars
<1>5. Current' = Current /\ acked' = acked /\ attempted' = attempted
  BY <1>1 DEF Current, vfsVars, ghostVars
<1>6. acked # NoSB => acked.last_seq \in Nat
  BY DEF IndInv, TypeOK, Superblock
<1>7. ASSUME ~poisoned' PROVE EngineInv'
  <2>1. ~poisoned
    BY <1>1, <1>7
  <2>2. EngineInv /\ next_seq \in Nat
    BY DEF IndInv, TypeOK
  <2>3. acked # NoSB => next_generation > acked.generation /\ next_seq' >= acked.last_seq
    BY <1>1, <1>2, <1>6, <2>1, <2>2 DEF EngineInv
  <2> QED
    BY <1>1, <1>2, <1>3, <1>5, <2>1, <2>2, <2>3 DEF EngineInv
<1>8. ASSUME poisoned' PROVE EngineInv'
  BY <1>8 DEF EngineInv
<1> QED
  BY <1>3, <1>4, <1>7, <1>8

(* A commit with nothing dirty keeps the invariant.                        *)
LEMMA CommitCleanStep ==
    ASSUME IndInv, NEW shared \in SUBSET Refs, CommitClean(shared)
    PROVE  DeviceInv' /\ GhostInv' /\ EngineInv' /\ CommitInv'
<1>1. /\ pc = "idle" /\ pc' = "data" /\ ~poisoned /\ ~dirty
      /\ UNCHANGED <<vfsVars, ghostVars, memVars>>
      /\ sb' = [generation |-> next_generation, watermark |-> watermark,
                last_seq |-> next_seq, refs |-> Keep(shared)]
  BY DEF CommitClean, Refused
<1>2. CanCommit
  BY <1>1 DEF CanCommit
<1>3. DeviceInv' /\ Recoverable' = Recoverable /\ Lost' = Lost
  BY <1>1, DeviceUnchanged
<1>4. /\ view' = view /\ settled' = settled /\ acked' = acked /\ attempted' = attempted
      /\ next_generation' = next_generation /\ watermark' = watermark /\ tree' = tree
      /\ next_seq' = next_seq /\ poisoned' = poisoned /\ dirty' = dirty
  BY <1>1 DEF vfsVars, ghostVars, memVars
<1>5. GhostInv'
  BY <1>4 DEF IndInv, GhostInv
<1>6. EngineInv'
  BY <1>1, <1>3, <1>4 DEF IndInv, EngineInv, Current
<1>7. next_generation > 0 /\ next_generation \in Nat
  BY <1>1, <1>2 DEF IndInv, TypeOK, EngineInv, CanCommit
<1>8. sb' \in Superblock
  BY <1>1, KeepType DEF IndInv, TypeOK, Superblock
<1>9. \A f \in {view, settled} :
         /\ \A u \in Units : Keep(shared)[u] # Bad => f.data[u] = Keep(shared)[u] /\ u < watermark
         /\ watermark <= f.len
  <2>1. \A u \in Units : Keep(shared)[u] # Bad => Keep(shared)[u] = tree[u] /\ tree[u] # Bad
    BY KeepType DEF IndInv, TypeOK
  <2> QED
    BY <1>2, <1>7, <2>1, TreeIntact
<1>10. watermark <= watermark
  BY DEF IndInv, TypeOK
<1>11. CommitInv'
  BY <1>1, <1>4, <1>8, <1>9, <1>10 DEF CommitInv, Intact, Below
<1> QED
  BY <1>3, <1>5, <1>6, <1>11

(* Appending the dirty records keeps the invariant: they lie above all     *)
(* that is recoverable.                                                    *)
LEMMA CommitDirtyStep ==
    ASSUME IndInv, NEW n \in 1 .. MaxAppend, NEW shared \in SUBSET Refs, CommitDirty(n, shared)
    PROVE  DeviceInv' /\ GhostInv' /\ EngineInv' /\ CommitInv'
<1> DEFINE vals == Constantly(stamp + 1)
<1>1. /\ pc = "idle" /\ pc' = "data" /\ ~poisoned
      /\ UNCHANGED <<ghostVars, memVars>>
      /\ WriteData(watermark, n, vals)
      /\ sb' = [generation |-> next_generation, watermark |-> watermark + n,
                last_seq |-> next_seq, refs |-> NewRefs(n, shared)]
  BY DEF CommitDirty, Refused, Base
<1>2. CanCommit
  BY <1>1 DEF CanCommit
<1>3. n \in Nat /\ vals \in [Units -> Nat] /\ stamp + 1 \in Nat
  BY ConstantlyType DEF IndInv, TypeOK
<1>4. /\ view \in File /\ settled \in File /\ tree \in [Units -> Nat]
      /\ watermark \in Nat /\ next_generation \in Nat /\ next_seq \in Nat
      /\ DATA_START <= watermark
  BY <1>1, <1>2, BelowWatermark DEF IndInv, TypeOK
<1>5. /\ \A u \in Units : vals[u] = stamp + 1
      /\ view' = Patch(view, watermark, n, vals)
      /\ settled' = Patch(settled, watermark, n, vals)
  BY <1>1 DEF WriteData, Constantly
<1> HIDE DEF vals
<1>6. /\ DeviceInv'
      /\ ~Lost'
      /\ Extends(view, view', watermark)
      /\ Extends(settled, settled', watermark)
      /\ \A g \in Recoverable' : \E f \in Recoverable : g.slot = f.slot
  BY <1>1, <1>2, <1>3, DeviceWriteData
<1>7. /\ acked' = acked /\ attempted' = attempted
      /\ next_generation' = next_generation /\ watermark' = watermark /\ tree' = tree
      /\ next_seq' = next_seq /\ poisoned' = poisoned /\ dirty' = dirty
  BY <1>1 DEF ghostVars, memVars
<1>8. GhostInv'
  BY <1>7 DEF IndInv, GhostInv
<1>9. EngineInv'
  <2>1. Current' = Current
    BY <1>6, <1>7 DEF Current, Extends
  <2>2. \A g \in Recoverable', s \in Slots : g.slot[s] # NoSB =>
            g.slot[s].generation < next_generation /\ g.slot[s].watermark <= watermark
    BY <1>1, <1>6 DEF IndInv, EngineInv
  <2> QED
    BY <1>1, <1>6, <1>7, <2>1, <2>2 DEF IndInv, EngineInv
<1>10. NewRefs(n, shared) \in [Units -> Nat]
  BY <1>3, <1>4, KeepType DEF NewRefs
<1>11. sb' \in Superblock
  BY <1>1, <1>3, <1>4, <1>10 DEF Superblock
<1>12. ASSUME NEW f \in {view, settled}, NEW g, g = Patch(f, watermark, n, vals)
       PROVE  /\ watermark + n <= g.len
              /\ \A u \in Units : NewRefs(n, shared)[u] # Bad =>
                    g.data[u] = NewRefs(n, shared)[u] /\ u < watermark + n
  <2>0. f \in File
    BY <1>4
  <2>1. /\ watermark + n <= g.len
        /\ \A u \in Units : u < watermark => g.data[u] = f.data[u]
        /\ \A u \in Units : watermark <= u /\ u < watermark + n => g.data[u] = vals[u]
    <3>1. watermark + n <= g.len
      BY <1>3, <1>4, <1>12, <2>0, PatchFacts
    <3>2. Extends(f, g, watermark)
      BY <1>3, <1>4, <1>12, <2>0, PatchExtends
    <3>3. \A u \in Units : watermark <= u /\ u < watermark + n => g.data[u] = vals[u]
      BY <1>3, <1>4, <1>12, <2>0, UnitsAreIntegers, PatchWrites
    <3> QED
      BY <3>1, <3>2, <3>3 DEF Extends
  <2>2. \A u \in Units : tree[u] # Bad => f.data[u] = tree[u] /\ u < watermark
    BY <1>2, TreeIntact
  <2> SUFFICES ASSUME NEW u \in Units, NewRefs(n, shared)[u] # Bad
               PROVE  g.data[u] = NewRefs(n, shared)[u] /\ u < watermark + n
    BY <2>1
  <2>3. u \in Int
    BY UnitsAreIntegers
  <2>4. CASE watermark <= u /\ u < watermark + n
    BY <1>5, <2>1, <2>4 DEF NewRefs
  <2>5. CASE ~(watermark <= u /\ u < watermark + n)
    <3>1. NewRefs(n, shared)[u] = tree[u] /\ tree[u] # Bad
      BY <1>4, <2>5, KeepType DEF NewRefs
    <3> QED
      BY <1>3, <1>4, <2>1, <2>2, <2>3, <3>1
  <2> QED
    BY <2>4, <2>5
<1>13. \A f \in {view', settled'} :
         /\ watermark + n <= f.len
         /\ \A u \in Units : NewRefs(n, shared)[u] # Bad =>
               f.data[u] = NewRefs(n, shared)[u] /\ u < watermark + n
  BY <1>5, <1>12
<1>14. watermark <= watermark + n
  BY <1>3, <1>4
<1>15. CommitInv'
  BY <1>1, <1>7, <1>11, <1>13, <1>14 DEF CommitInv, Intact, Below
<1> QED
  BY <1>6, <1>8, <1>9, <1>15

(* A data write that fails half way keeps the invariant.                   *)
LEMMA CommitWriteFailsStep ==
    ASSUME IndInv, NEW n \in 1 .. MaxAppend, CommitWriteFails(n)
    PROVE  DeviceInv' /\ GhostInv' /\ EngineInv' /\ CommitInv'
<1>1. pc = "idle" /\ CanCommit /\ Fail
  BY DEF CommitWriteFails, Refused, CanCommit
<1>2. PICK last \in {Bad, stamp + 1} :
         WriteData(Base, n, [Constantly(stamp + 1) EXCEPT ![Base + n - 1] = last])
  BY DEF CommitWriteFails
<1> DEFINE w == [Constantly(stamp + 1) EXCEPT ![Base + n - 1] = last]
<1>3. w \in [Units -> Nat]
  <2>1. Constantly(stamp + 1) \in [Units -> Nat] /\ last \in Nat
    BY ConstantlyType DEF IndInv, TypeOK, Bad
  <2> QED
    BY <2>1
<1>4. WriteData(watermark, n, w)
  BY <1>2 DEF Base
<1> HIDE DEF w
<1>5. GhostInv' /\ EngineInv' /\ CommitInv' /\ UNCHANGED ghostVars
  BY <1>1, FailStep
<1> QED
  BY <1>1, <1>3, <1>4, <1>5, DeviceWriteData

(* The data sync keeps the invariant and leaves one crash image, in which  *)
(* the new tree is intact.                                                 *)
LEMMA SyncDataStep ==
    ASSUME IndInv, SyncData
    PROVE  DeviceInv' /\ GhostInv' /\ EngineInv' /\ CommitInv'
<1>1. /\ pc = "data" /\ pc' = "publish" /\ SyncOk /\ sb' = sb
      /\ images' = {settled} /\ view' = view /\ settled' = settled
      /\ UNCHANGED <<ghostVars, memVars>>
  BY DEF SyncData, SyncOk
<1>2. /\ acked' = acked /\ attempted' = attempted
      /\ next_generation' = next_generation /\ watermark' = watermark /\ tree' = tree
      /\ next_seq' = next_seq /\ poisoned' = poisoned /\ dirty' = dirty
  BY <1>1 DEF ghostVars, memVars
<1>3. DeviceInv' /\ Lost' = Lost /\ Recoverable' \subseteq Recoverable
  BY <1>1, DeviceSyncOk
<1>4. GhostInv'
  BY <1>2 DEF IndInv, GhostInv
<1>5. EngineInv'
  <2>1. Current' = Current
    BY <1>1, <1>2 DEF Current
  <2> QED
    BY <1>1, <1>2, <1>3, <2>1 DEF IndInv, EngineInv
<1>6. CommitInv'
  BY <1>1, <1>2 DEF IndInv, CommitInv, Committing
<1> QED
  BY <1>3, <1>4, <1>5, <1>6

(* The slot write keeps the invariant, whichever of its fates a crash      *)
(* would pick.                                                             *)
LEMMA PublishStep ==
    ASSUME IndInv, Publish
    PROVE  DeviceInv' /\ GhostInv' /\ EngineInv' /\ CommitInv'
<1>1. /\ pc = "publish" /\ pc' = "slot" /\ sb' = sb
      /\ WriteSlot(SlotOf(next_generation), sb)
      /\ attempted' = attempted \cup {sb} /\ acked' = acked
      /\ UNCHANGED memVars
  BY DEF Publish
<1>2. CommitInv /\ EngineInv /\ TypeOK /\ Committing /\ CanCommit /\ sb \in Superblock
  BY <1>1 DEF IndInv, CommitInv, Committing, CanCommit
<1>3. /\ next_generation' = next_generation /\ watermark' = watermark /\ tree' = tree
      /\ next_seq' = next_seq /\ poisoned' = poisoned /\ dirty' = dirty
  BY <1>1 DEF memVars
<1>4. attempted' \in SUBSET Superblock
  BY <1>1, <1>2 DEF TypeOK
<1>5. /\ DeviceInv'
      /\ ~Lost'
      /\ \A g \in images' \cup {view'}, s \in Slots :
           s # SlotOf(next_generation) => g.slot[s] = settled.slot[s]
      /\ \A g \in Recoverable', s \in Slots : g.slot[s] # NoSB =>
            \/ g.slot[s] = sb
            \/ g.slot[s].generation < next_generation /\ g.slot[s].watermark <= watermark
      /\ settled'.slot[SlotOf(next_generation)] = sb
      /\ settled'.data = settled.data /\ settled.len <= settled'.len
      /\ view'.data = view.data /\ view.len <= view'.len
      /\ \A g \in images' : g.data = settled.data /\ settled.len <= g.len
  BY <1>1, <1>4, DeviceWriteSlot
<1>6. settled' \in images'
  BY <1>5 DEF DeviceInv
<1>7. next_generation > 0 => /\ SlotOf(next_generation - 1) \in Slots
                             /\ SlotOf(next_generation - 1) # SlotOf(next_generation)
  BY <1>2, SlotParity DEF TypeOK
<1>8. next_generation > 0 => /\ Current' = Current
                             /\ \A g \in images' : g.slot[SlotOf(next_generation - 1)] = Current
  BY <1>3, <1>5, <1>6, <1>7 DEF Current
<1>9. GhostInv'
  BY <1>1, <1>2 DEF IndInv, GhostInv, EngineInv, CommitInv, CanCommit
<1>10. EngineInv'
  BY <1>1, <1>2, <1>3, <1>5, <1>8 DEF EngineInv, CanCommit
<1>11. /\ view' \in File /\ settled' \in File /\ images' \in SUBSET File
       /\ view \in File /\ settled \in File
  <2>1. TypeInv
    BY <1>2 DEF TypeInv
  <2>2. TypeInv'
    BY <2>1, TypeStep DEF Next
  <2> QED
    BY <1>2, <2>2 DEF TypeInv, TypeOK
<1>12. /\ sb.watermark <= settled'.len /\ sb.watermark <= view'.len
       /\ \A g \in images' : sb.watermark <= g.len
  BY <1>2, <1>5, <1>11, FileFacts DEF CommitInv, Superblock
<1>13. /\ Intact(settled', sb) /\ Intact(view', sb)
       /\ \A g \in images' : Intact(g, sb)
  BY <1>2, <1>5 DEF CommitInv, Intact
<1>14. CommitInv'
  BY <1>1, <1>2, <1>3, <1>5, <1>8, <1>12, <1>13 DEF CommitInv
<1> QED
  BY <1>5, <1>9, <1>10, <1>14

(* A slot write that fails keeps the invariant.                            *)
LEMMA PublishFailsStep ==
    ASSUME IndInv, PublishFails
    PROVE  DeviceInv' /\ GhostInv' /\ EngineInv' /\ CommitInv'
<1>1. GhostInv' /\ EngineInv' /\ CommitInv' /\ UNCHANGED ghostVars
  BY FailStep DEF PublishFails
<1>2. CASE UNCHANGED vfsVars
  BY <1>1, <1>2, DeviceUnchanged
<1>3. CASE WriteSlot(SlotOf(next_generation), NoSB)
  <2>1. sb # NoSB
    BY NoSBAssumption DEF PublishFails, IndInv, CommitInv, Committing
  <2>2. attempted' \in SUBSET Superblock /\ attempted \subseteq attempted' /\ acked' = acked
    BY <1>1 DEF ghostVars, IndInv, TypeOK
  <2> QED
    BY <1>1, <1>3, <2>1, <2>2, DeviceWriteSlot DEF PublishFails
<1> QED
  BY <1>2, <1>3 DEF PublishFails

(* The commit returns: its superblock is the only one recovery can pick.   *)
LEMMA SyncSlotStep ==
    ASSUME IndInv, SyncSlot
    PROVE  DeviceInv' /\ GhostInv' /\ EngineInv' /\ CommitInv'
<1>1. /\ pc = "slot" /\ pc' = "idle"
      /\ images' = {settled} /\ view' = view /\ settled' = settled
      /\ watermark' = sb.watermark /\ next_generation' = next_generation + 1
      /\ tree' = sb.refs /\ next_seq' = next_seq
      /\ acked' = sb /\ attempted' = {}
  BY DEF SyncSlot, SyncOk, Adopt
<1>2. /\ CommitInv /\ EngineInv /\ TypeOK /\ CanCommit
      /\ sb \in Superblock /\ sb.generation = next_generation /\ sb # NoSB
      /\ sb.watermark \in Nat /\ watermark \in Nat /\ next_generation \in Nat
      /\ watermark <= sb.watermark /\ DATA_START <= watermark
      /\ Below(sb.refs, sb.watermark) /\ sb.last_seq = next_seq
  BY <1>1, NoSBAssumption DEF IndInv, CommitInv, EngineInv, Committing, CanCommit, TypeOK, Superblock
<1>3. ~Lost /\ view.slot = settled.slot /\ settled.slot[SlotOf(next_generation)] = sb
  BY <1>1, <1>2, RecoverableFacts DEF CommitInv, Committing, Lost
<1>4. /\ settled \in File /\ view \in File /\ Sound(settled) /\ Sound(view)
      /\ settled \in Recoverable
  BY <1>3, RecoverableFacts
<1>5. \A s \in Slots : settled.slot[s] # NoSB =>
        \/ settled.slot[s] = sb
        \/ settled.slot[s].generation < next_generation /\ settled.slot[s].watermark <= watermark
  BY <1>2, <1>4 DEF EngineInv, CanCommit
<1>6. SlotOf(next_generation) \in Slots
  BY <1>2, SlotParity
<1>7. Best(settled) = sb
  <2>1. Best(settled) # NoSB /\ sb.generation <= Best(settled).generation
    BY <1>2, <1>3, <1>4, <1>6, BestFacts
  <2>2. PICK s \in Slots : Best(settled) = settled.slot[s]
    BY <1>4, <2>1, BestFacts
  <2> QED
    BY <1>2, <1>4, <1>5, <2>1, <2>2, SlotFacts
<1>8. Best(view) = sb
  BY <1>3, <1>4, <1>7, BestBySlots
<1>9. Recoverable' = {settled, view} /\ ~Lost'
  BY <1>1, <1>3 DEF Recoverable, Lost
<1>10. Dominates(sb, settled)
  BY <1>2, <1>4, <1>5, SlotFacts DEF Dominates
<1>11. view.len # 0
  BY <1>2, <1>4, FileFacts DEF CommitInv, Committing, IndInv, CanCommit, DATA_START, SyncSlot
<1>12. DeviceInv'
  BY <1>1, <1>4, <1>7, <1>8, <1>9, <1>10, <1>11 DEF DeviceInv
<1>13. GhostInv' /\ CommitInv'
  BY <1>1 DEF GhostInv, CommitInv, Committing
<1>14. Current' = sb
  <2>1. (next_generation + 1) - 1 = next_generation
    BY <1>2
  <2> QED
    BY <1>1, <1>3, <2>1 DEF Current
<1>15. \A f \in Recoverable', s \in Slots : f.slot[s] # NoSB =>
         f.slot[s].generation < next_generation' /\ f.slot[s].watermark <= watermark'
  <2>1. \A s \in Slots : settled.slot[s] # NoSB =>
         settled.slot[s].generation < next_generation + 1 /\ settled.slot[s].watermark <= sb.watermark
    BY <1>2, <1>4, <1>5, SlotFacts
  <2> QED
    BY <1>1, <1>3, <1>9, <2>1
<1>16. EngineInv'
  <2>1. /\ DATA_START <= sb.watermark
        /\ next_generation' > 0 /\ next_generation' # 0 /\ next_generation' - 1 = sb.generation
        /\ next_generation' > sb.generation /\ next_seq >= sb.last_seq
    BY <1>1, <1>2 DEF DATA_START, TypeOK
  <2> QED
    BY <1>1, <1>2, <1>9, <1>14, <1>15, <2>1 DEF EngineInv
<1> QED
  BY <1>12, <1>13, <1>16

(* Every step keeps the inductive invariant.                               *)
LEMMA IndStep ==
    ASSUME ~ReopenLost
    PROVE  IndInv /\ [Next]_vars => IndInv'
<1> SUFFICES ASSUME IndInv, [Next]_vars PROVE IndInv'
  OBVIOUS
<1>1. TypeOK'
  BY TypeStep DEF IndInv, TypeInv, CommitInv
<1>2. SUFFICES DeviceInv' /\ GhostInv' /\ EngineInv' /\ CommitInv'
  BY <1>1 DEF IndInv
<1>3. CASE Create
  BY <1>3, CreateStep
<1>4. CASE Open
  BY <1>4, OpenStep
<1>5. CASE OpenRefused \/ UNCHANGED vars
  BY <1>5 DEF OpenRefused, vars, vfsVars, memVars, ghostVars, IndInv, DeviceInv, GhostInv,
              EngineInv, CommitInv, Committing, Current, Recoverable, Lost
<1>6. CASE Close
  BY <1>6, DeviceUnchanged, ClosedStep DEF Close, Forget
<1>7. CASE Crash
  BY <1>7, DevicePowerLoss, ClosedStep DEF Crash, Forget
<1>8. CASE Mutate \/ Drain
  BY <1>8, MutateStep
<1>9. ASSUME NEW shared \in SUBSET Refs, CommitClean(shared)
      PROVE  DeviceInv' /\ GhostInv' /\ EngineInv' /\ CommitInv'
  BY <1>9, CommitCleanStep
<1>10. ASSUME NEW n \in 1 .. MaxAppend, NEW shared \in SUBSET Refs, CommitDirty(n, shared)
       PROVE  DeviceInv' /\ GhostInv' /\ EngineInv' /\ CommitInv'
  BY <1>10, CommitDirtyStep
<1>11. ASSUME NEW n \in 1 .. MaxAppend, CommitWriteFails(n)
       PROVE  DeviceInv' /\ GhostInv' /\ EngineInv' /\ CommitInv'
  BY <1>11, CommitWriteFailsStep
<1>12. CASE CommitAborts
  BY <1>12, FailStep, DeviceUnchanged DEF CommitAborts
<1>13. CASE SyncData
  BY <1>13, SyncDataStep
<1>14. CASE SyncDataFails \/ SyncSlotFails
  <2>1. CanCommit /\ Fail /\ SyncFail
    BY <1>14 DEF SyncDataFails, SyncSlotFails, IndInv, CommitInv, Committing, CanCommit
  <2> QED
    BY <2>1, FailStep, DeviceSyncFail
<1>15. CASE Publish
  BY <1>15, PublishStep
<1>16. CASE PublishFails
  BY <1>16, PublishFailsStep
<1>17. CASE SyncSlot
  BY <1>17, SyncSlotStep
<1> QED
  BY <1>3, <1>4, <1>5, <1>6, <1>7, <1>8, <1>9, <1>10, <1>11, <1>12, <1>13, <1>14, <1>15,
     <1>16, <1>17 DEF Next

(* The invariant that all of the following rest on: what every file that   *)
(* recovery may find looks like, and what an engine that may still commit  *)
(* knows of them (disk.rs commit_inner, open_on_with).  From here on the   *)
(* page cache is never reopened after a failed sync discarded a superblock *)
(* it shows: the case the lost run refutes.                                *)
THEOREM Inductive == ~ReopenLost => (Spec => []IndInv)
<1> SUFFICES ASSUME ~ReopenLost PROVE Spec => []IndInv
  OBVIOUS
<1>1. IndInv /\ [Next]_vars => IndInv'
  BY IndStep
<1> QED
  BY IndInit, <1>1, PTL DEF Spec

(* A commit that returned Ok survives every crash, for every device size,  *)
(* every bound and every interleaving of crashes, failed writes and failed *)
(* syncs with the commit protocol (SPEC A1 and A3).                        *)
THEOREM Durability == ~ReopenLost => (Spec => []AckedSurvives)
<1>1. IndInv => AckedSurvives
  BY DEF IndInv, DeviceInv, AckedSurvives
<1> QED
  BY <1>1, Inductive, PTL

(* What a crash image recovers is a commit that was made or attempted, and *)
(* all its records are there as written (SPEC A2).                         *)
THEOREM ExactRecovery == ~ReopenLost => (Spec => []RecoveryExact)
<1>1. IndInv => RecoveryExact
  <2> SUFFICES ASSUME IndInv, NEW f \in Recoverable, Best(f) # NoSB
               PROVE  /\ Best(f) \in {acked} \cup attempted
                      /\ Intact(f, Best(f))
                      /\ Best(f).watermark <= f.len
    BY DEF RecoveryExact
  <2>1. f \in File /\ Sound(f) /\ Best(f) \in Live
    BY RecoverableFacts
  <2>2. PICK s \in Slots : Best(f) = f.slot[s]
    BY <2>1, BestFacts
  <2> QED
    BY <2>1, <2>2 DEF Sound, Live
<1> QED
  BY <1>1, Inductive, PTL

(* Recovery resumes with a generation and a seqno no older than those of   *)
(* the last commit that returned Ok (SPEC A3 and A5).                      *)
THEOREM MonotoneRecovery == ~ReopenLost => (Spec => []RecoveryNotBehind)
<1>1. IndInv => RecoveryNotBehind
  <2> SUFFICES ASSUME IndInv, acked # NoSB, NEW f \in Recoverable
               PROVE  /\ Best(f).generation >= acked.generation
                      /\ Best(f).last_seq >= acked.last_seq
    BY DEF RecoveryNotBehind
  <2>1. Best(f) \in {acked} \cup attempted /\ acked \in Superblock /\ attempted \subseteq Superblock
    BY DEF IndInv, DeviceInv, TypeOK
  <2> QED
    BY <2>1 DEF IndInv, GhostInv, Superblock
<1> QED
  BY <1>1, Inductive, PTL

(* Opening the file, which cuts off its tail without a sync, changes       *)
(* nothing about what a crash would recover: recovery may itself be cut    *)
(* short and repeated (disk.rs open_on_with).                              *)
THEOREM IdempotentRecovery == ~ReopenLost => (Spec => OpenKeepsRecovery)
<1> SUFFICES ASSUME ~ReopenLost PROVE Spec => OpenKeepsRecovery
  OBVIOUS
<1> DEFINE Opened == pc = "closed" /\ pc' = "idle" /\ next_generation' > 0
           Kept == {Best(f) : f \in images'} = {Best(f) : f \in images}
<1>1. IndInv /\ [Next]_vars => [Opened => Kept]_vars
  <2> SUFFICES ASSUME IndInv, Next, Opened PROVE Kept
    OBVIOUS
  <2>1. Open
    BY DEF Next, Create, OpenRefused, Close, Crash, Forget, Mutate, Drain, Ready, CommitClean,
           CommitDirty, CommitWriteFails, CommitAborts, SyncData, SyncDataFails, Publish,
           PublishFails, SyncSlot, SyncSlotFails, vars
  <2>2. \A f \in images : Best(Resize(f, Best(view).watermark)) = Best(f)
    BY <2>1, OpenStep
  <2>3. images' = images \cup {Resize(f, Best(view).watermark) : f \in images}
    BY <2>1 DEF Open, SetLen, CutAt
  <2> QED
    BY <2>2, <2>3
<1> QED
  BY <1>1, Inductive, PTL DEF Spec, OpenKeepsRecovery

(* Every record that a superblock of a sound file names lies below the     *)
(* watermark of the superblock that recovery would take.                   *)
LEMMA BestBelow ==
    ASSUME IndInv, NEW f \in images, Best(f) # NoSB
    PROVE  /\ \E s \in Slots : Best(f) = f.slot[s] /\ f.slot[s] # NoSB
           /\ Best(f).watermark \in Nat
           /\ Below(Best(f).refs, Best(f).watermark)
<1>1. f \in File /\ Sound(f)
  BY RecoverableFacts
<1>2. PICK s \in Slots : Best(f) = f.slot[s]
  BY <1>1, BestFacts
<1>3. Best(f) \in Superblock
  BY <1>1, BestFacts
<1> QED
  BY <1>1, <1>2, <1>3 DEF Sound, Superblock

(* A data write at the watermark hits no unit that a crash image needs.    *)
LEMMA AppendsOnly ==
    ASSUME IndInv, pc = "idle", CanCommit, NEW n \in Nat, NEW vals \in [Units -> Nat],
           WriteData(watermark, n, vals), NEW f \in images, Best(f) # NoSB,
           NEW u \in Units, Best(f).refs[u] # Bad
    PROVE  view'.data[u] = view.data[u]
<1>1. view \in File /\ watermark \in Nat
  BY DEF IndInv, TypeOK
<1>2. Best(f).watermark <= watermark
  BY BestBelow, RecoverableFacts, BelowWatermark DEF SlotsBelow
<1>3. u < watermark
  BY <1>1, <1>2, BestBelow, UnitsAreIntegers DEF Below
<1>4. view' = Patch(view, watermark, n, vals)
  BY DEF WriteData
<1> QED
  BY <1>1, <1>3, <1>4, PatchExtends DEF Extends

(* Copy on write, for every behaviour: while an engine runs, no step of    *)
(* its own changes a unit that a crash image would need for the state it   *)
(* recovers, neither a commit's data write nor the truncation of open()    *)
(* (disk.rs commit_inner, open_on_with).                                   *)
THEOREM CopyOnWrite == ~ReopenLost => (Spec => NeverOverwritesRecoverable)
<1> SUFFICES ASSUME ~ReopenLost PROVE Spec => NeverOverwritesRecoverable
  OBVIOUS
<1> DEFINE Kept == \A f \in images : Best(f) # NoSB =>
                      \A u \in Units : Best(f).refs[u] # Bad => view'.data[u] = view.data[u]
<1>1. IndInv /\ [Next]_vars => [pc' # "closed" => Kept]_vars
  <2> SUFFICES ASSUME IndInv, Next, pc' # "closed",
                      NEW f \in images, Best(f) # NoSB,
                      NEW u \in Units, Best(f).refs[u] # Bad
               PROVE  view'.data[u] = view.data[u]
    OBVIOUS
  <2>1. CASE view' = view
    BY <2>1
  <2>2. CASE Open
    <3>1. ~Lost /\ view' = Resize(view, Best(view).watermark) /\ Best(view) # NoSB
      BY <2>2 DEF Open, SetLen, CutAt
    <3>2. view \in File /\ Sound(view) /\ Dominates(Best(view), f)
      BY <3>1, RecoverableFacts DEF IndInv, DeviceInv
    <3>3. Best(view) \in Superblock /\ \E s \in Slots : Best(view) = view.slot[s]
      BY <3>1, <3>2, BestFacts
    <3>4. Best(view).watermark \in Nat /\ DATA_START <= Best(view).watermark
      BY <3>1, <3>2, <3>3 DEF Sound, Superblock
    <3>5. Best(f).watermark <= Best(view).watermark
      BY <3>2, BestBelow DEF Dominates
    <3>6. u < Best(view).watermark
      BY <3>4, <3>5, BestBelow, UnitsAreIntegers DEF Below
    <3> QED
      BY <3>1, <3>2, <3>4, <3>6, ResizeFacts
  <2>3. ASSUME NEW n \in 1 .. MaxAppend, NEW shared \in SUBSET Refs, CommitDirty(n, shared)
        PROVE  view'.data[u] = view.data[u]
    <3>1. pc = "idle" /\ CanCommit /\ WriteData(watermark, n, Constantly(stamp + 1))
      BY <2>3 DEF CommitDirty, Refused, Base, CanCommit
    <3>2. n \in Nat /\ Constantly(stamp + 1) \in [Units -> Nat]
      BY ConstantlyType DEF IndInv, TypeOK
    <3> QED
      BY <3>1, <3>2, AppendsOnly
  <2>4. ASSUME NEW n \in 1 .. MaxAppend, CommitWriteFails(n)
        PROVE  view'.data[u] = view.data[u]
    <3>1. PICK last \in {Bad, stamp + 1} :
             WriteData(watermark, n, [Constantly(stamp + 1) EXCEPT ![watermark + n - 1] = last])
      BY <2>4 DEF CommitWriteFails, Base
    <3> DEFINE vals == [Constantly(stamp + 1) EXCEPT ![watermark + n - 1] = last]
    <3>2. pc = "idle" /\ CanCommit
      BY <2>4 DEF CommitWriteFails, Refused, CanCommit
    <3>3. n \in Nat /\ stamp + 1 \in Nat /\ last \in Nat
      BY DEF IndInv, TypeOK, Bad
    <3>4. vals \in [Units -> Nat]
      BY <3>3, ConstantlyType
    <3>5. WriteData(watermark, n, vals)
      BY <3>1
    <3> HIDE DEF vals
    <3> QED
      BY <3>2, <3>3, <3>4, <3>5, AppendsOnly
  <2>5. CASE Publish \/ PublishFails
    <3>1. view' = view \/ \E b \in Superblock \cup {NoSB} :
                             view' = PatchSlot(view, SlotOf(next_generation), b)
      BY <2>5 DEF Publish, PublishFails, WriteSlot, vfsVars, IndInv, TypeOK
    <3>2. view \in File /\ SlotOf(next_generation) \in Slots
      BY SlotParity DEF IndInv, TypeOK
    <3> QED
      BY <3>1, <3>2, PatchSlotFacts
  <2>6. Next => \/ view' = view \/ pc' = "closed" \/ Open \/ Publish \/ PublishFails
                \/ \E n \in 1 .. MaxAppend, shared \in SUBSET Refs : CommitDirty(n, shared)
                \/ \E n \in 1 .. MaxAppend : CommitWriteFails(n)
    BY DEF Next, Create, OpenRefused, Close, Crash, Forget, Mutate, Drain, CommitClean,
           CommitAborts, SyncData, SyncDataFails, SyncSlot, SyncSlotFails, SyncOk, SyncFail,
           vars, vfsVars
  <2> QED
    BY <2>1, <2>2, <2>3, <2>4, <2>5, <2>6
<1> QED
  BY <1>1, Inductive, PTL DEF Spec, NeverOverwritesRecoverable

-----------------------------------------------------------------------------
(* Writes between two syncs                                                *)

Files == images \cup {view, settled}

HollowOK == \A f \in Files : f.len = 0 => SlotsEmpty(f)

(* No device operation leaves an empty file with a superblock in it.       *)
LEMMA DeviceHollow ==
    ASSUME VfsTypeOK, HollowOK,
           \/ \E off \in Nat, n \in Nat, vals \in [Units -> Nat] : WriteData(off, n, vals)
           \/ \E s \in Slots, b \in Superblock \cup {NoSB} : WriteSlot(s, b)
           \/ \E len \in Nat : SetLen(len)
           \/ SyncOk \/ SyncFail \/ PowerLoss
           \/ UNCHANGED vfsVars
    PROVE  HollowOK'
<1>0. \A f \in Files : f \in File
  BY DEF Files, VfsTypeOK
<1>1. ASSUME NEW off \in Nat, NEW n \in Nat, NEW vals \in [Units -> Nat],
             WriteData(off, n, vals)
      PROVE  HollowOK'
  <2> SUFFICES ASSUME NEW g \in Files', g.len = 0 PROVE SlotsEmpty(g)
    BY DEF HollowOK
  <2>1. \E f \in Files : Extends(f, g, off)
    <3>1. CASE g \in images'
      <4>1. PICK i \in images : g \in DataFates(i, off, n, vals)
        BY <1>1, <3>1 DEF WriteData
      <4> QED
        BY <1>0, <4>1, DataFatesExtend DEF Files
    <3>2. CASE g = view' \/ g = settled'
      BY <1>0, <1>1, <3>2, PatchExtends DEF Files, WriteData
    <3> QED
      BY <3>1, <3>2 DEF Files
  <2>2. PICK f \in Files : Extends(f, g, off)
    BY <2>1
  <2>3. f.len = 0 /\ g.slot = f.slot
    BY <1>0, <2>2, FileFacts DEF Extends
  <2> QED
    BY <2>3 DEF HollowOK, SlotsEmpty
<1>2. ASSUME NEW s \in Slots, NEW b \in Superblock \cup {NoSB}, WriteSlot(s, b)
      PROVE  HollowOK'
  <2> SUFFICES ASSUME NEW g \in Files', g.len = 0 PROVE g \in Files
    BY DEF HollowOK
  <2>1. ASSUME NEW f \in Files, NEW c \in {b, NoSB}
        PROVE  PatchSlot(f, s, c).len # 0
    <3>1. f \in File /\ c \in Superblock \cup {NoSB}
      BY <1>0
    <3>2. PatchSlot(f, s, c).len \in Nat /\ s < PatchSlot(f, s, c).len
      BY <3>1, PatchSlotFacts, FileFacts
    <3> QED
      BY <3>2 DEF Slots
  <2>2. CASE g \in images'
    BY <1>2, <2>1, <2>2 DEF Files, WriteSlot, SlotFates
  <2>3. CASE g = view' \/ g = settled'
    BY <1>2, <2>1, <2>3 DEF Files, WriteSlot
  <2> QED
    BY <2>2, <2>3 DEF Files
<1>3. ASSUME NEW len \in Nat, SetLen(len)
      PROVE  HollowOK'
  <2> SUFFICES ASSUME NEW g \in Files', g.len = 0 PROVE SlotsEmpty(g)
    BY DEF HollowOK
  <2>1. g \in Files \/ \E f \in Files : g = Resize(f, len)
    BY <1>3 DEF Files, SetLen
  <2>2. ASSUME NEW f \in Files, g = Resize(f, len)
        PROVE  SlotsEmpty(g)
    <3>1. f \in File
      BY <1>0
    <3>2. len = 0
      BY <2>2, <3>1 DEF Resize, File
    <3>3. g.slot = [t \in Slots |-> IF t < len THEN f.slot[t] ELSE NoSB]
      BY <2>2, <3>1 DEF Resize, File
    <3> QED
      BY <3>2, <3>3 DEF SlotsEmpty, Slots
  <2> QED
    BY <2>1, <2>2 DEF HollowOK
<1>4. CASE SyncOk \/ SyncFail \/ PowerLoss
  BY <1>4 DEF HollowOK, Files, SyncOk, SyncFail, PowerLoss
<1>5. CASE UNCHANGED vfsVars
  BY <1>5 DEF HollowOK, Files, vfsVars
<1> QED
  BY <1>1, <1>2, <1>3, <1>4, <1>5

(* Each step of the engine keeps HollowOK: it does one thing to the device *)
(* at most.                                                                *)
LEMMA HollowStep ==
    ASSUME TypeInv, HollowOK, [Next]_vars
    PROVE  HollowOK'
<1>0. /\ VfsTypeOK /\ watermark \in Nat /\ stamp \in Nat /\ next_generation \in Nat
      /\ SlotOf(next_generation) \in Slots
      /\ Committing => sb \in Superblock
  BY SlotParity DEF TypeInv, TypeOK, VfsTypeOK
<1>1. CASE Open
  <2>1. Best(view) \in Superblock
    BY <1>0, <1>1, BestType DEF Open, VfsTypeOK
  <2>2. Best(view).watermark \in Nat /\ SetLen(Best(view).watermark)
    BY <1>1, <2>1 DEF Open, CutAt, Superblock
  <2> QED
    BY <1>0, <2>2, DeviceHollow
<1>2. ASSUME NEW n \in 1 .. MaxAppend, NEW shared \in SUBSET Refs, CommitDirty(n, shared)
      PROVE  HollowOK'
  <2>1. /\ n \in Nat /\ Constantly(stamp + 1) \in [Units -> Nat]
        /\ WriteData(watermark, n, Constantly(stamp + 1))
    BY <1>0, <1>2, ConstantlyType DEF CommitDirty, Base
  <2> QED
    BY <1>0, <2>1, DeviceHollow
<1>3. ASSUME NEW n \in 1 .. MaxAppend, CommitWriteFails(n)
      PROVE  HollowOK'
  <2>1. PICK last \in {Bad, stamp + 1} :
           WriteData(watermark, n, [Constantly(stamp + 1) EXCEPT ![watermark + n - 1] = last])
    BY <1>3 DEF CommitWriteFails, Base
  <2> DEFINE vals == [Constantly(stamp + 1) EXCEPT ![watermark + n - 1] = last]
  <2>2. n \in Nat /\ stamp + 1 \in Nat /\ last \in Nat
    BY <1>0 DEF Bad
  <2>3. vals \in [Units -> Nat]
    BY <2>2, ConstantlyType
  <2>4. WriteData(watermark, n, vals)
    BY <2>1
  <2> HIDE DEF vals
  <2> QED
    BY <1>0, <2>2, <2>3, <2>4, DeviceHollow
<1>4. CASE Publish \/ PublishFails
  <2>1. \/ \E b \in Superblock \cup {NoSB} : WriteSlot(SlotOf(next_generation), b)
        \/ UNCHANGED vfsVars
    BY <1>0, <1>4 DEF Publish, PublishFails, Committing
  <2> QED
    BY <1>0, <2>1, DeviceHollow
<1>5. CASE Crash \/ SyncData \/ SyncDataFails \/ SyncSlot \/ SyncSlotFails
  BY <1>0, <1>5, DeviceHollow DEF Crash, SyncData, SyncDataFails, SyncSlot, SyncSlotFails
<1>6. CASE UNCHANGED vfsVars
  BY <1>0, <1>6, DeviceHollow
<1> QED
  BY <1>1, <1>2, <1>3, <1>4, <1>5, <1>6
  DEF Next, Create, OpenRefused, Close, Mutate, Drain, CommitClean, CommitAborts, vars, vfsVars

(* A file whose slots are empty has nothing to recover.                    *)
LEMMA NothingToOpen ==
    ASSUME NEW f \in File, SlotsEmpty(f)
    PROVE  Best(f) = NoSB
  BY DEF SlotsEmpty, Best, Readable, Slots

(* Every step keeps WindowInv if a process that is killed in a commit, or  *)
(* after one that failed, takes the machine with it.                       *)
LEMMA WindowStep ==
    ASSUME ~WarmReopen, TypeInv, WindowInv, [Next]_vars
    PROVE  WindowInv'
<1>0. HollowOK'
  BY HollowStep DEF WindowInv, HollowOK, Files
<1>1. SUFFICES
        /\ pc' \in {"idle", "data", "publish"} /\ next_generation' = 0 => SlotsEmpty(view')
        /\ pc' = "closed" /\ unsynced' # {} => view'.len # 0 /\ SlotsEmpty(view')
        /\ (pc' = "idle" /\ ~poisoned') \/ pc' = "publish" => unsynced' = {}
        /\ ~overlapped'
  BY <1>0 DEF WindowInv, HollowOK, Files
<1>2. /\ view \in File /\ settled \in File
      /\ watermark \in Nat /\ stamp \in Nat /\ next_generation \in Nat
      /\ SlotOf(next_generation) \in Slots
  BY SlotParity DEF TypeInv, TypeOK
<1>3. CASE Create
  BY <1>3 DEF Create, WindowInv, vfsVars
<1>4. CASE Open
  <2>1. Best(view) # NoSB /\ pc = "closed" /\ pc' = "idle"
        /\ next_generation' = Best(view).generation + 1
        /\ UNCHANGED <<unsynced, overlapped>>
    BY <1>4 DEF Open, SetLen, GenerationAfter
  <2>2. Best(view).generation \in Nat
    BY <1>2, <2>1, BestType DEF Superblock
  <2>3. unsynced = {}
    BY <1>2, <2>1, NothingToOpen DEF WindowInv
  <2> QED
    BY <2>1, <2>2, <2>3 DEF WindowInv
<1>5. CASE OpenRefused \/ UNCHANGED vars
  BY <1>5 DEF OpenRefused, vars, vfsVars, memVars, WindowInv
<1>6. CASE Close
  BY <1>6 DEF Close, Forget, vfsVars, WindowInv
<1>7. CASE Crash
  BY <1>7 DEF Crash, PowerLoss, Forget, WindowInv
<1>8. CASE Mutate \/ Drain
  BY <1>2, <1>8 DEF Mutate, Drain, Ready, vfsVars, WindowInv
<1>9. ASSUME NEW shared \in SUBSET Refs, CommitClean(shared)
      PROVE  WindowInv'
  BY <1>0, <1>9 DEF CommitClean, Refused, vfsVars, memVars, WindowInv, HollowOK, Files
<1>10. ASSUME NEW n \in 1 .. MaxAppend, NEW vals \in [Units -> Nat],
              WriteData(watermark, n, vals), pc = "idle", ~poisoned
       PROVE  /\ ~overlapped' /\ view'.len # 0
              /\ next_generation = 0 => SlotsEmpty(view')
  <2>1. unsynced = {} /\ ~overlapped /\ (next_generation = 0 => SlotsEmpty(view))
    BY <1>10 DEF WindowInv
  <2>2. view' = Patch(view, watermark, n, vals)
    BY <1>10 DEF WriteData
  <2>3. n \in Nat /\ n > 0
    OBVIOUS
  <2>4. Extends(view, view', watermark)
    BY <1>2, <1>10, <2>2, <2>3, PatchExtends
  <2>5. view'.len # 0
    <3>1. watermark + n <= view'.len
      BY <1>2, <1>10, <2>3, PatchFacts DEF WriteData
    <3> QED
      BY <1>2, <2>3, <2>4, <3>1, FileFacts DEF Extends
  <2>6. ~overlapped'
    BY <1>10, <2>1 DEF WriteData
  <2> QED
    BY <2>1, <2>4, <2>5, <2>6 DEF SlotsEmpty, Extends
<1>11. ASSUME NEW n \in 1 .. MaxAppend, NEW shared \in SUBSET Refs, CommitDirty(n, shared)
       PROVE  WindowInv'
  <2>1. /\ WriteData(watermark, n, Constantly(stamp + 1)) /\ pc = "idle" /\ ~poisoned
        /\ pc' = "data" /\ next_generation' = next_generation
    BY <1>11 DEF CommitDirty, Base, Refused, memVars
  <2>2. Constantly(stamp + 1) \in [Units -> Nat]
    BY <1>2, ConstantlyType
  <2> QED
    BY <1>0, <1>10, <2>1, <2>2 DEF WindowInv, HollowOK, Files
<1>12. ASSUME NEW n \in 1 .. MaxAppend, CommitWriteFails(n)
       PROVE  WindowInv'
  <2>1. PICK last \in {Bad, stamp + 1} :
           WriteData(watermark, n, [Constantly(stamp + 1) EXCEPT ![watermark + n - 1] = last])
    BY <1>12 DEF CommitWriteFails, Base
  <2> DEFINE vals == [Constantly(stamp + 1) EXCEPT ![watermark + n - 1] = last]
  <2>2. stamp + 1 \in Nat /\ last \in Nat
    BY <1>2 DEF Bad
  <2>3. vals \in [Units -> Nat]
    BY <2>2, ConstantlyType
  <2>4. WriteData(watermark, n, vals)
    BY <2>1
  <2> HIDE DEF vals
  <2>5. pc = "idle" /\ ~poisoned /\ Fail
    BY <1>12 DEF CommitWriteFails, Refused
  <2>6. ~overlapped' /\ view'.len # 0 /\ (next_generation = 0 => SlotsEmpty(view'))
    BY <1>10, <2>3, <2>4, <2>5
  <2> QED
    BY <1>0, <2>5, <2>6 DEF Fail, Forget, WindowInv, HollowOK, Files
<1>13. CASE CommitAborts
  BY <1>13 DEF CommitAborts, Refused, Fail, Forget, vfsVars, WindowInv
<1>14. CASE SyncData \/ SyncSlot
  BY <1>2, <1>14 DEF SyncData, SyncSlot, SyncOk, Adopt, memVars, WindowInv
<1>15. CASE SyncDataFails \/ SyncSlotFails
  BY <1>15 DEF SyncDataFails, SyncSlotFails, SyncFail, Fail, Forget, WindowInv
<1>16. CASE Publish
  BY <1>16 DEF Publish, WriteSlot, memVars, WindowInv
<1>17. CASE PublishFails
  <2>1. pc = "publish" /\ unsynced = {} /\ ~overlapped /\ Fail
    BY <1>17 DEF PublishFails, WindowInv
  <2>2. CASE UNCHANGED vfsVars
    BY <2>1, <2>2 DEF Fail, Forget, vfsVars
  <2>3. CASE WriteSlot(SlotOf(next_generation), NoSB)
    <3>1. /\ view' \in File /\ SlotOf(next_generation) < view'.len
          /\ view'.slot[SlotOf(next_generation)] = NoSB
          /\ \A t \in Slots : t # SlotOf(next_generation) => view'.slot[t] = view.slot[t]
      BY <1>2, <2>3, PatchSlotFacts DEF WriteSlot
    <3>2. view'.len # 0
      BY <1>2, <3>1, FileFacts DEF Slots
    <3>3. next_generation = 0 => SlotsEmpty(view')
      BY <2>1, <3>1 DEF WindowInv, SlotsEmpty
    <3> QED
      BY <2>1, <2>3, <3>2, <3>3 DEF WriteSlot, Fail, Forget
  <2> QED
    BY <1>17, <2>2, <2>3 DEF PublishFails
<1> QED
  BY <1>3, <1>4, <1>5, <1>6, <1>7, <1>8, <1>9, <1>11, <1>12, <1>13, <1>14, <1>15, <1>16,
     <1>17 DEF Next, WindowInv

(* The assertion of FaultyVfs::write_all_at never fires on the engine: as  *)
(* long as a process killed in mid-commit takes the machine with it, no    *)
(* unit is written twice between two syncs, whatever writes, syncs and     *)
(* creates fail (disk.rs commit_inner, ADR-0010).                          *)
THEOREM DisjointWrites == ~WarmReopen => (Spec => []WritesDisjoint)
<1> SUFFICES ASSUME ~WarmReopen PROVE Spec => []WritesDisjoint
  OBVIOUS
<1>1. Init => TypeInv /\ WindowInv
  BY TypeInit DEF Init, VfsInit, WindowInv, SlotsEmpty, EmptyFile
<1>2. TypeInv /\ WindowInv /\ [Next]_vars => (TypeInv /\ WindowInv)'
  BY TypeStep, WindowStep
<1>3. WindowInv => WritesDisjoint
  BY DEF WindowInv, WritesDisjoint
<1> QED
  BY <1>1, <1>2, <1>3, PTL DEF Spec
=============================================================================
