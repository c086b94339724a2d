----------------------------- MODULE DiskCommit -----------------------------
(***************************************************************************)
(* The commit protocol, poisoning and recovery of DiskEngine               *)
(* (src/disk.rs): create_on, open_on, commit and the effect mutations have *)
(* on what the next commit writes, over the device of module Vfs.  The     *)
(* tree itself is abstracted to the records that it keeps on disk.         *)
(***************************************************************************)
EXTENDS Vfs, FiniteSets

CONSTANTS
    MaxStamp,     \* bound: data writes in a behaviour
    MaxSeq,       \* bound: next_seq
    MaxGeneration,\* bound: the generation a commit may publish
    MaxAppend,    \* bound: units one commit appends
    MaxAttempts,  \* bound: superblocks published since the last Ok
    WarmReopen,   \* may a process die mid-commit and the file be reopened
                  \* without the machine going down?
    ReopenLost    \* may it be reopened so after a failed sync discarded a
                  \* superblock that the page cache still shows?

ASSUME BoundsAssumption == /\ MaxStamp \in Nat /\ MaxSeq \in Nat
                           /\ MaxGeneration \in Nat /\ MaxAppend \in Nat
                           /\ MaxAttempts \in Nat
ASSUME SwitchAssumption == WarmReopen \in BOOLEAN /\ ReopenLost \in BOOLEAN

VARIABLES
    pc,               \* where the process is: see Control
    next_generation,  \* \
    watermark,        \*  | the fields of DiskEngine
    next_seq,         \*  |
    poisoned,         \* /
    dirty,            \* is the root dirty: does the next commit append?
    collapsed,        \* is it instead a clean node below the committed root?
    tree,             \* the on-disk records of the last adopted tree, as refs
    sb,               \* commit_inner's local: the superblock being published
    stamp,            \* how many data writes there have been
    acked,            \* the superblock of the last commit that returned Ok
    attempted         \* superblocks handed to the device since then

memVars == <<next_generation, watermark, next_seq, poisoned, dirty, collapsed, tree>>
ghostVars == <<acked, attempted>>
vars == <<vfsVars, pc, memVars, sb, stamp, ghostVars>>

(* closed: no process.  idle: between calls.  data, publish, slot: inside  *)
(* commit_inner, before the data sync, the slot write and the slot sync.   *)
Control == {"closed", "idle", "data", "publish", "slot"}

NoTree == Constantly(Bad)

Init ==
    /\ VfsInit
    /\ pc = "closed"
    /\ next_generation = 0 /\ watermark = DATA_START /\ next_seq = 0
    /\ poisoned = FALSE /\ dirty = FALSE /\ collapsed = FALSE /\ tree = NoTree
    /\ sb = NoSB
    /\ stamp = 0
    /\ acked = NoSB /\ attempted = {}

-----------------------------------------------------------------------------
(* Opening and closing                                                     *)

(* create_on: refused (NotEmpty) unless the file is empty, then commit     *)
(* generation 0.  Until that commit returns the caller has no engine, so   *)
(* next_generation = 0 marks a create still in progress.                   *)
Create ==
    /\ pc = "closed"
    /\ view.len = 0
    /\ pc' = "idle"
    /\ next_generation' = 0 /\ watermark' = DATA_START /\ next_seq' = 0
    /\ poisoned' = FALSE /\ dirty' = TRUE /\ collapsed' = FALSE /\ tree' = NoTree
    /\ UNCHANGED <<vfsVars, sb, stamp, ghostVars>>

(* Faulty: truncate to the start of the data region.                       *)
CutAllData(b) == DATA_START

(* Where open() truncates: everything past the watermark was appended by a *)
(* commit whose superblock never landed.                                   *)
CutAt(b) == b.watermark

(* Faulty: count on from the generation recovered, not past it.            *)
RepeatGeneration(b) == b.generation

(* Faulty: count down.                                                     *)
GenerationBefore(b) == b.generation - 1

GenerationAfter(b) == b.generation + 1

(* open_on: recover the best superblock and drop the tail, without a sync. *)
Open ==
    /\ pc = "closed"
    /\ ~Lost \/ ReopenLost
    /\ LET b == Best(view)
       IN /\ b # NoSB
          /\ SetLen(CutAt(b))
          /\ next_generation' = GenerationAfter(b)
          /\ watermark' = b.watermark
          /\ next_seq' = b.last_seq
          /\ tree' = b.refs
    /\ pc' = "idle"
    /\ poisoned' = FALSE /\ dirty' = FALSE /\ collapsed' = FALSE
    /\ UNCHANGED <<sb, stamp, ghostVars>>

(* NoValidSuperblock: the caller gets an error and nothing changes.        *)
OpenRefused ==
    /\ pc = "closed"
    /\ Best(view) = NoSB
    /\ UNCHANGED vars

Forget ==
    /\ pc' = "closed"
    /\ next_generation' = 0 /\ watermark' = DATA_START /\ next_seq' = 0
    /\ poisoned' = FALSE /\ dirty' = FALSE /\ collapsed' = FALSE /\ tree' = NoTree
    /\ sb' = NoSB

(* The engine is dropped or its process dies; the machine stays up.        *)
Close ==
    /\ pc # "closed"
    /\ WarmReopen \/ (pc = "idle" /\ ~poisoned)
    /\ Forget
    /\ UNCHANGED <<vfsVars, stamp, ghostVars>>

(* The machine goes down, with or without a process running.               *)
Crash ==
    /\ PowerLoss
    /\ Forget
    /\ UNCHANGED <<stamp, ghostVars>>

-----------------------------------------------------------------------------
(* Mutations, as far as they concern the next commit                       *)

Ready == pc = "idle" /\ next_generation > 0

(* restore_root_with may end in a root collapse onto a clean child.        *)
RootAfter ==
    \/ dirty' = TRUE /\ collapsed' = FALSE
    \/ dirty' = FALSE /\ collapsed' = TRUE

(* try_insert, try_delete, try_upsert: a seqno, and the root is dirty,     *)
(* unless it collapses.  A load that fails inside the flush cascade        *)
(* poisons the engine.                                                     *)
Mutate ==
    /\ Ready
    /\ next_seq < MaxSeq
    /\ next_seq' = next_seq + 1
    /\ RootAfter
    /\ UNCHANGED poisoned \/ poisoned' = TRUE
    /\ UNCHANGED <<vfsVars, pc, next_generation, watermark, tree, sb, stamp, ghostVars>>

(* drain moves buffered messages down: no seqno, and the root stays as it  *)
(* is if it held no message itself and neither lost nor gained a child.    *)
Drain ==
    /\ Ready
    /\ RootAfter \/ UNCHANGED <<dirty, collapsed>>
    /\ UNCHANGED poisoned \/ poisoned' = TRUE
    /\ UNCHANGED <<vfsVars, pc, next_generation, watermark, next_seq, tree, sb, stamp,
                   ghostVars>>

-----------------------------------------------------------------------------
(* commit                                                                  *)

(* Faulty: a poisoned engine may commit again.                             *)
NeverRefused == FALSE

InBounds == next_generation <= MaxGeneration /\ Cardinality(attempted) < MaxAttempts

(* The first thing commit looks at.                                        *)
Refused == poisoned

(* An error inside commit_inner poisons the engine; if create_on made the  *)
(* call, the engine is dropped and its caller gets the error.              *)
Fail ==
    /\ \/ next_generation = 0 /\ Forget
       \/ /\ next_generation > 0
          /\ pc' = "idle" /\ poisoned' = TRUE /\ sb' = NoSB
          /\ UNCHANGED <<next_generation, watermark, next_seq, dirty, collapsed, tree>>
    /\ UNCHANGED ghostVars

Refs == {u \in Units : tree[u] # Bad}

Keep(shared) == [u \in Units |-> IF u \in shared THEN tree[u] ELSE Bad]

(* The tree after n units are appended at the watermark: the new records   *)
(* and the clean ones among the old that it still shares.                  *)
NewRefs(n, shared) ==
    [u \in Units |-> IF watermark <= u /\ u < watermark + n THEN stamp + 1
                     ELSE Keep(shared)[u]]

(* Faulty: records go to the start of the data region.                     *)
RewriteInPlace == DATA_START

(* commit_inner's base: dirty records are appended, never written in place.*)
Base == watermark

(* commit_inner up to the data sync, nothing dirty: no data write.  The    *)
(* tree is the one last committed or, after a collapse, a part of it.      *)
CommitClean(shared) ==
    /\ pc = "idle" /\ ~Refused /\ ~dirty
    /\ IF collapsed THEN shared \notin {{}, Refs} ELSE shared = Refs
    /\ InBounds
    /\ sb' = [generation |-> next_generation, watermark |-> watermark,
              last_seq |-> next_seq, refs |-> Keep(shared)]
    /\ pc' = "data"
    /\ UNCHANGED <<vfsVars, memVars, stamp, ghostVars>>

(* The same with n units of dirty records, the root's among them.          *)
CommitDirty(n, shared) ==
    /\ pc = "idle" /\ ~Refused /\ dirty
    /\ InBounds
    /\ stamp < MaxStamp
    /\ watermark + n <= Size
    /\ WriteData(Base, n, Constantly(stamp + 1))
    /\ sb' = [generation |-> next_generation, watermark |-> watermark + n,
              last_seq |-> next_seq, refs |-> NewRefs(n, shared)]
    /\ stamp' = stamp + 1
    /\ pc' = "data"
    /\ UNCHANGED <<memVars, ghostVars>>

(* The data write fails after n units, the last of them perhaps cut short. *)
CommitWriteFails(n) ==
    /\ pc = "idle" /\ ~Refused /\ dirty
    /\ InBounds
    /\ stamp < MaxStamp
    /\ watermark + n <= Size
    /\ \E last \in {Bad, stamp + 1} :
         WriteData(Base, n, [Constantly(stamp + 1) EXCEPT ![Base + n - 1] = last])
    /\ stamp' = stamp + 1
    /\ Fail

(* Nothing reached the device: a node too large, or the write failed.      *)
CommitAborts ==
    /\ pc = "idle" /\ ~Refused /\ dirty
    /\ Fail
    /\ UNCHANGED <<vfsVars, stamp>>

(* Faulty: publish without waiting for the data to be durable.             *)
SkipDataSync ==
    /\ pc = "data"
    /\ pc' = "publish"
    /\ UNCHANGED <<vfsVars, memVars, sb, stamp, ghostVars>>

SyncData ==
    /\ pc = "data"
    /\ SyncOk
    /\ pc' = "publish"
    /\ UNCHANGED <<memVars, sb, stamp, ghostVars>>

SyncDataFails ==
    /\ pc = "data"
    /\ SyncFail
    /\ Fail
    /\ UNCHANGED stamp

(* Publish through the inactive slot.                                      *)
Publish ==
    /\ pc = "publish"
    /\ WriteSlot(SlotOf(next_generation), sb)
    /\ attempted' = attempted \cup {sb}
    /\ pc' = "slot"
    /\ UNCHANGED <<memVars, sb, stamp, acked>>

(* The slot write fails, leaving the slot alone or cut short.              *)
PublishFails ==
    /\ pc = "publish"
    /\ \/ WriteSlot(SlotOf(next_generation), NoSB)
       \/ UNCHANGED vfsVars
    /\ Fail
    /\ UNCHANGED stamp

(* The commit is durable: adopt it in memory and return Ok.                *)
Adopt ==
    /\ watermark' = sb.watermark
    /\ next_generation' = next_generation + 1
    /\ tree' = sb.refs
    /\ dirty' = FALSE /\ collapsed' = FALSE
    /\ sb' = NoSB
    /\ pc' = "idle"
    /\ acked' = sb
    /\ attempted' = {}

(* Faulty: report success without the second sync.                         *)
SkipSlotSync ==
    /\ pc = "slot"
    /\ Adopt
    /\ UNCHANGED <<vfsVars, next_seq, poisoned, stamp>>

SyncSlot ==
    /\ pc = "slot"
    /\ SyncOk
    /\ Adopt
    /\ UNCHANGED <<next_seq, poisoned, stamp>>

SyncSlotFails ==
    /\ pc = "slot"
    /\ SyncFail
    /\ Fail
    /\ UNCHANGED stamp

Next ==
    \/ Create \/ Open \/ OpenRefused \/ Close \/ Crash
    \/ Mutate \/ Drain
    \/ \E shared \in SUBSET Refs :
         \/ CommitClean(shared)
         \/ \E n \in 1 .. MaxAppend : CommitDirty(n, shared)
    \/ \E n \in 1 .. MaxAppend : CommitWriteFails(n)
    \/ CommitAborts
    \/ SyncData \/ SyncDataFails
    \/ Publish \/ PublishFails
    \/ SyncSlot \/ SyncSlotFails

Spec == Init /\ [][Next]_vars

-----------------------------------------------------------------------------
(* Properties                                                              *)

(* Every variable keeps the type of the field it stands for.               *)
TypeOK ==
    /\ view \in File /\ settled \in File /\ images \in SUBSET File
    /\ unsynced \in SUBSET (Slots \cup Units) /\ overlapped \in BOOLEAN
    /\ pc \in Control
    /\ next_generation \in Nat /\ watermark \in Nat /\ next_seq \in Nat
    /\ poisoned \in BOOLEAN /\ dirty \in BOOLEAN /\ collapsed \in BOOLEAN
    /\ tree \in [Units -> Nat]
    /\ sb \in Superblock \cup {NoSB}
    /\ stamp \in Nat
    /\ acked \in Superblock \cup {NoSB}
    /\ attempted \in SUBSET Superblock

(* Every file the next open() may find: any crash image, and the page      *)
(* cache itself unless it shows superblocks that were discarded.           *)
Recoverable == images \cup (IF Lost THEN {} ELSE {view})

(* SPEC A1 and A3.  Once a commit has returned Ok, every crash image       *)
(* recovers that very commit or one handed to the device after it          *)
(* (disk.rs commit_inner, open_on_with).                                   *)
AckedSurvives ==
    acked # NoSB => \A f \in Recoverable : Best(f) \in {acked} \cup attempted

(* SPEC A2.  Whatever a crash image recovers was really committed or       *)
(* attempted, and every record of its tree is in the image as written.     *)
RecoveryExact ==
    \A f \in Recoverable :
        Best(f) # NoSB => /\ Best(f) \in {acked} \cup attempted
                          /\ Intact(f, Best(f))
                          /\ Best(f).watermark <= f.len

(* SPEC A3 and A5.  Neither the generation nor the seqno that recovery     *)
(* resumes from is behind the last acknowledged commit.                    *)
RecoveryNotBehind ==
    acked # NoSB => \A f \in Recoverable :
                        /\ Best(f).generation >= acked.generation
                        /\ Best(f).last_seq >= acked.last_seq

(* ADR-0010 and the assertion in FaultyVfs::write_all_at: the commit       *)
(* protocol never writes a unit twice between two syncs.                   *)
WritesDisjoint == ~overlapped

(* Copy on write: a step of a running engine never changes a unit that a   *)
(* crash image would need for the state it recovers.                       *)
NeverOverwritesRecoverable ==
    [][pc' # "closed" =>
         \A f \in images : Best(f) # NoSB =>
            \A u \in Units : Best(f).refs[u] # Bad => view'.data[u] = view.data[u]
      ]_vars

(* Recovery is idempotent: opening the file, tail truncation included,     *)
(* changes nothing about what a crash would recover.                       *)
OpenKeepsRecovery ==
    [][pc = "closed" /\ pc' = "idle" /\ next_generation' > 0 =>
         {Best(f) : f \in images'} = {Best(f) : f \in images}]_vars

-----------------------------------------------------------------------------
(* The inductive invariant behind AckedSurvives, RecoveryExact and         *)
(* RecoveryNotBehind                                                       *)

Below(refs, end) == \A u \in Units : refs[u] # Bad => u < end

(* Each decodable slot of f is in its place, lies within the file and      *)
(* finds its records; of two, the newer has the higher watermark.          *)
Sound(f) ==
    /\ \A s \in Slots : f.slot[s] # NoSB =>
         /\ SlotOf(f.slot[s].generation) = s
         /\ DATA_START <= f.slot[s].watermark
         /\ f.slot[s].watermark <= f.len
         /\ Below(f.slot[s].refs, f.slot[s].watermark)
         /\ Intact(f, f.slot[s])
    /\ \A s, t \in Slots :
         f.slot[s] # NoSB /\ f.slot[t] # NoSB
           /\ f.slot[s].generation <= f.slot[t].generation
         => f.slot[s].watermark <= f.slot[t].watermark

(* No superblock anywhere is ahead of the one b recovers.                  *)
Dominates(b, f) ==
    \A s \in Slots : f.slot[s] # NoSB =>
        /\ b # NoSB
        /\ f.slot[s].generation <= b.generation
        /\ f.slot[s].watermark <= b.watermark

DeviceInv ==
    /\ settled \in images
    /\ \A f \in Recoverable : Sound(f) /\ Best(f) \in {acked} \cup attempted
    /\ ~Lost => \A f \in images : Dominates(Best(view), f)
    /\ view.len = 0 => /\ view.slot = EmptyFile.slot
                       /\ \A f \in images : f.len = 0

GhostInv ==
    acked # NoSB => \A b \in attempted : /\ b.generation > acked.generation
                                        /\ b.last_seq >= acked.last_seq

Committing == pc \in {"data", "publish", "slot"}

(* The superblock the running engine last recovered or committed.          *)
Current == settled.slot[SlotOf(next_generation - 1)]

(* What an engine that may still commit knows about the device.            *)
EngineInv ==
    pc # "closed" /\ ~poisoned =>
        /\ ~Lost
        /\ DATA_START <= watermark
        /\ Below(tree, watermark)
        /\ \A f \in Recoverable, s \in Slots : f.slot[s] # NoSB =>
             \/ pc = "slot" /\ f.slot[s] = sb
             \/ f.slot[s].generation < next_generation /\ f.slot[s].watermark <= watermark
        /\ next_generation = 0 => acked = NoSB /\ dirty /\ tree = NoTree
        /\ next_generation > 0 =>
             /\ Current # NoSB
             /\ Current.generation = next_generation - 1
             /\ Current.watermark = watermark
             /\ Current.refs = tree
             /\ Current \in {acked} \cup attempted
        /\ acked # NoSB => next_generation > acked.generation /\ next_seq >= acked.last_seq

(* What holds of the superblock being published.                           *)
CommitInv ==
    Committing =>
        /\ ~poisoned
        /\ sb \in Superblock
        /\ sb.generation = next_generation
        /\ sb.last_seq = next_seq
        /\ watermark <= sb.watermark
        /\ Below(sb.refs, sb.watermark)
        /\ Intact(settled, sb) /\ sb.watermark <= settled.len
        /\ Intact(view, sb) /\ sb.watermark <= view.len
        /\ pc = "publish" => images = {settled}
        /\ pc = "slot" =>
             /\ sb \in attempted
             /\ settled.slot[SlotOf(next_generation)] = sb
             /\ \A f \in images :
                  /\ Intact(f, sb) /\ sb.watermark <= f.len
                  /\ next_generation > 0 => f.slot[SlotOf(next_generation - 1)] = Current

(* The whole of it.                                                        *)
IndInv == TypeOK /\ DeviceInv /\ GhostInv /\ EngineInv /\ CommitInv

-----------------------------------------------------------------------------
(* The inductive invariant behind WritesDisjoint: an engine that may write *)
(* next begins with an empty window, and a create that failed with writes  *)
(* in its window leaves a file that can be neither created nor opened.     *)

SlotsEmpty(f) == \A s \in Slots : f.slot[s] = NoSB

WindowInv ==
    /\ \A f \in images \cup {view, settled} : f.len = 0 => SlotsEmpty(f)
    /\ pc \in {"idle", "data", "publish"} /\ next_generation = 0 => SlotsEmpty(view)
    /\ pc = "closed" /\ unsynced # {} => view.len # 0 /\ SlotsEmpty(view)
    /\ (pc = "idle" /\ ~poisoned) \/ pc = "publish" => unsynced = {}
    /\ ~overlapped
=============================================================================
