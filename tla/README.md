# A verification of beetree

beetree is a single-threaded Bε-tree key-value store: an in-memory tree
(`src/betree.rs`), the same tree kept copy-on-write in one file
(`src/disk.rs`), a device abstraction with a crash model (`src/vfs.rs`), a
trivial reference engine (`src/naive.rs`), and an oracle that searches for better
flush decisions (`src/bin/oracle.rs`). This directory holds TLA+ models of
its core, the TLC configurations that check them, and proofs that TLAPS checks.
Paths below are relative to the crate; `PROJECT.json` maps every definition to
the lines it models.

## The system

| part | state | operations | what makes it correct |
| --- | --- | --- | --- |
| layout (`format.rs`) | two superblock slots, a data region of checksummed records | encode, decode | a torn slot or record is recognised as such |
| device (`vfs.rs`) | bytes seen by readers, durable bytes, the un-synced window, a log | `write_all_at`, `set_len`, `sync`, crash, failed sync, `crash_image_at` | a crash keeps what was synced and any part of the rest; the images built from the log are those |
| commit and recovery (`disk.rs`) | next generation, watermark, next seqno, poison flag | `create_on`, `open_on`, `commit` | SPEC "Durability contract" and A1 to A5 |
| node cache (`disk.rs`) | bytes and nodes in memory, a queue of stamped entries, a budget | hit, load, change, release, `enforce_budget` | the totals are exact; the least recently used clean unpinned node goes; the loop ends |
| disk tree (`disk.rs`) | a slot per node id: loaded, on disk or freed; an offset per slot; an id per offset | the tree's calls, `ensure_loaded`, `commit`, reopen | a clean node is its record; one id per record; it is a map with a saved copy |
| messages (`types.rs`, `node.rs`) | none | `apply`, `coalesce`, `apply_to_leaf`, `apply_chain` | merging early equals applying one by one |
| tree (`node.rs`, `betree.rs`) | arena of nodes, root, dirty flags | `insert`, `delete`, `upsert`, `drain`, `simulate_commit` | invariants I1 to I7 of `check.rs`; it is a map |
| reads (`betree.rs`) | none | `get`, `scan` | both see the newest message |
| policies (`policy.rs`) | the policy's own | `choose` | any child with pending messages is a legal answer |
| reference (`naive.rs`, `engine.rs`) | an ordered map | the `KvEngine` trait | it is the specification |
| oracle (`bin/oracle.rs`) | the run, a checkpoint, the script of decisions, records | run, resolve a sampled decision, accept | rollouts start where the run is; the script replays; the run is not worse than greedy |
| traces (`trace.rs`) | two event lists | record, `replay`, `replay2` | a replay is the same engine |
| workloads, benchmarks | | | measurement; no engine state |

A public mutation takes a seqno, puts one message into the root, and runs
`restore_root_with`: flush overfull buffers down a stack of nodes, split what
became overfull, unlink what became empty, grow or collapse the root. The disk
engine runs the same cascade over slots that it loads lazily and evicts when a
load exceeds the cache's budget; a load that fails in the middle of a mutation
poisons the engine. `commit` appends
the records of all dirty nodes at the watermark, syncs, writes the superblock
of the next generation into slot `generation % 2`, and syncs again; any error
poisons the engine. `open` takes the valid slot of highest generation and
truncates the file to its watermark.

There are no threads. What is hard is failure (a crash between any two device
operations, with any part of the window lost; failing writes and syncs; reopening
afterwards) and long cascades, whose intermediate states no test looks at.
`PROJECT.json` lists the hazards with their lines.

## Modules

```
Format --- Vfs --- DiskCommit --- DiskCommitProofs
            |
            +-- INSTANCE (refinement) -- FaultyVfs --- FaultyVfsProofs
Messages --- Nodes --+-- BeTree --+-- BeTreeCheck --- BeTreeProofs
   |                 +-- Reads ---+                  |
   |                       |  +-- NodesProofs -------+
   |                       |  |
   |                       |  +------------ DiskTreeProofs
   |                       +-- DiskTree --- DiskTreeCheck --+
   +-- KvSpec       INSTANCE in BeTreeCheck (refinement) and Trace
   |     +-- Trace --- TraceProofs
   +-- DurableKv    INSTANCE in DiskTreeCheck (refinement)
NodeCache --- NodeCacheProofs     Oracle --- OracleProofs
```

**Format** is the file. It is measured in units: two superblock slots and data
units. A data unit holds the stamp of the commit that wrote it, or `Bad` if a
checksum would reject it. A superblock carries `refs`, the units and stamps its
tree consists of; the code finds them by following offsets from `root_offset`.
`Best(f)` is what `open` recovers from file `f`; `Intact(f, sb)` says that all
records of `sb`'s tree are in `f`.

**Vfs** is the device. `FaultyVfs` keeps an operation log and rebuilds a crash
image from a choice of fates; the model keeps the set `images` of all crash
images directly, so that a property of "every crash here" is a quantifier, not
a search. `view` is the page cache; `settled` is what a successful sync will
make durable. A failed sync picks one image as the durable file and leaves
`view` alone, so the two can differ for good (`Lost`).

**DiskCommit** is `DiskEngine` as far as the file is concerned. `pc` says where
the process is; `commit_inner` is cut at its device calls (`CommitClean` or
`CommitDirty`, `SyncData`, `Publish`, `SyncSlot`), and each has its failing
twin. `CommitDirty(n, shared)` appends `n` units and keeps any subset `shared`
of the old records, which covers every tree that mutations could have made.
`collapsed` covers the one case where the tree changed and nothing is dirty: the
root collapsed onto a clean child. `acked` and `attempted` are history
variables: the last commit that returned Ok and the superblocks handed to the
device since. A process may be closed, die with the machine up (`WarmReopen`)
or die with the machine (`Crash`). A single process at a time has the file open:
the code takes no lock, and two openers are outside what it supports.

**Messages** has the values and the algebra of messages. An 8-byte value is a
number modulo `Modulus`; every other value is `Opaque`, because `apply` treats
them alike (base 0). **KvSpec** is `NaiveEngine`, the abstract map.

**Nodes** has the structural operations as functions from arena to arena, with
the source's names. Recursion is written as recursive functions. **BeTree** is
the state machine: `insert`, `delete`, `upsert`, `drain` and `simulate_commit`
start when the tree is at rest, and the actions under `Cascade` are the
iterations of the loops of `flush_with` and `restore_root_with`: `Deliver`,
`Descend` (drain only), `SettleChild`, `RestartEmpty`, `Grow`, `Return`. The
flush policy is any legal choice; `drain` uses the greedy rule, as in the code.
The dirty flags are fields of the nodes.

`fork_for_sim` is an operator on the state: the arena and root of the copy, and the
engine's counters. Nodes are numbered from 1 where the code counts from 0.

**Reads** has `get` and `scan`, **BeTreeCheck** the invariants of `check.rs` and
all properties of the tree. `Get` is defined on a node that has just lost its
last child, which the code never reads, so that the refinement can be stated
in the middle of a cascade.

**DiskTree** is the tree of `DiskEngine`. A slot is a node, `OnDisk` or `Freed`;
`disk_offset` and `offsets` are the two directions of offset interning; the file is
a sequence of node records, and a superblock names the root's. The operations on
nodes are those of `Nodes`, applied to slots. `ensure_loaded` reads a record, makes
slots for the children and then may evict any set of clean nodes that are neither
pinned nor just loaded. The calls of `DiskTree` are those of `BeTree` plus reads,
`commit`, a failing commit and `Reopen`; a drain probes children one node at a time,
as the loads happen in between. `UseReads` switches on walks (`get`, `height`,
`load_all`, which look at a node and go on) and scans, which come back to the nodes
on their stack. **DurableKv** is what this promises: a map, a saved map, and poison.

**NodeCache** says which nodes are evicted, and that eviction ends; node contents are
only sizes there. A call that loops takes one step per iteration, and `loop` says which
loop runs: `adopt` loads the nodes in `todo`, `load_all` loads with the budget
suspended, `stamp` then stamps what is in memory from slot `next` on, and `enforce` is
`enforce_budget`, with its arguments and the number of entries it may still examine. A
change is charged to the
cache at the next access, because `loaded_mut` measures a node before it is changed.

**FaultyVfs** is the device byte by byte, with its log, armed sync failures and
`crash_image_at`. It implements `Vfs`: a file of bytes is a file of units, where a
unit is readable if it holds the bytes of one write, and the length is rounded up. A
slot is written only when both slots lie inside the durable file, which is how the
engine does it. `ReorderingIgnorable` is stated for windows in which a cut comes first
and no write straddles it, which is how `open` and `commit` fill a window; without
that, the order of a cut and a write matters.

**Oracle** is `improved_run`. The tree is not modelled again: a tree is its history of
operations, choices and commits, and what the next decision is and what a commit
costs is read off one hash of that history, seeded, with sixteen seeds in the run. A
mistake in rebuilding a history shows as a different hash. The proofs use of the hash only
that it is a natural number and depends on nothing but seed and history. **Trace** is the
recorder over `KvSpec`.

The disk engine is thus in three layers that meet at stated properties. `DiskCommit`
lets a commit keep any subset of the old tree's records; `CommitKeepsLive` of
`DiskTree` says that a commit keeps no others. `DiskTree` lets a commit fail with
the superblock durable or not and returns to it on `Reopen`; `AckedSurvives` and
`RecoveryExact` of `DiskCommit` say that nothing else can happen. `DiskTree` evicts
any set of clean unpinned nodes; `EvictsOldest` of `NodeCache` says that what goes is
among those. `DiskCommit` stands on `Vfs`, which `FaultyVfs` implements.

Definitions marked "Faulty" are variants of the code that the properties are
tested against; nothing else refers to them.

## Runs

| run | checks | shows |
| --- | --- | --- |
| `disk_crash` | `TypeOK`, `AckedSurvives`, `RecoveryExact`, `RecoveryNotBehind`, `WritesDisjoint`, `NeverOverwritesRecoverable`, `OpenKeepsRecovery` | the durability contract and A1, A2, A3 under every machine crash, write failure and sync failure |
| `disk_warm` | `IndInv` | the inductive invariant of the proofs, which implies the contract, also when a process dies mid-commit or is dropped while poisoned and the file is reopened without a reboot |
| `disk_lost` | `AckedSurvives`, violated | finding 1 |
| `betree_map` | `ScanAgrees`, `DirtyConnected`, `ForkFaithful`, `ImplementsMap` | the tree refines `KvSpec` call by call; scans of all ranges agree with gets; without `drain`, a commit's walk finds every dirty node; a fork is the same tree |
| `betree_cascade` | `OrderedThroughout`, `FitsAtRest`, `DrainEmpties`, `CallsReturn`, `ImplementsMap` | I1 to I7 and termination on trees of three levels; drains keep the contents |
| `betree_drained` | `DirtyConnected`, violated | finding 2 |
| `cache_lru` | `Accounting`, `OvercommitJustified`, `EvictsOldest`, `QueueBounded`, `EnforcementEnds` | the cache's books, the order of eviction, and that it ends |
| `disk_tree_fresh` | `CleanIsRecord`, `StackResident`, `CommitKeepsLive`, `ImplementsDurableMap` | the disk tree refines `DurableKv` with upserts, reads and one storage error, from a fresh file and from a stored tree |
| `disk_tree_deep` | `NoOrphans`, `RecordsValid`, `InterningExact`, `ImplementsDurableMap`, `CallsReturn` | the same for mutations and drains that cascade through three levels loaded node by node, with a load failing anywhere |
| `oracle_run` | `RebuildExact`, `ScriptReplays`, `RecordsExact`, `NeverCostlier` | the oracle's bookkeeping and policy improvement |
| `vfs_images` | `ReplayExact`, `ReorderingIgnorable`, `ImplementsVfs` | crash images from the log are the right ones; `FaultyVfs` refines `Vfs` |
| `trace_replay` | `ReplayFaithful`, `OldReplayFaithful` | both traces replay |

The two refinements of a map are stated in two parts: `Kv!Spec`, that every step is
a step of the map or none, and `CallsMatch`, that a concrete `insert`, `delete` or
`upsert` is the abstract call of the same name and arguments. Without the second, a
wrong result of an upsert could pass for an insert of that value.

### Bounds

Disk: 4 data units (3 in `disk_warm`, whose extra reopenings are costly), commits
of at most 2 units, 3 data writes (`MaxStamp`),
generations up to 2, so both slots are written and one is overwritten, one
mutation counted by seqno, and at most 2 published superblocks since the last Ok
(`MaxAttempts`). This is enough for a commit after a recovery after a failed
commit, with the torn tail still in the window. The set of crash images is the
expensive part; larger bounds add behaviours of the same shape, and the theorems
cover every size.

Tree: F = 2, B = 1, L = 1, the smallest legal capacities, at which every
operation overflows something. With 4 keys and 6 mutations the tree reaches height
3, internal nodes below the root split and are removed, and the root collapses
and restarts empty. `betree_map` has 3 keys and 5 mutations with an opaque value
and a delta that wraps (`Modulus` 4), which is enough for upsert chains through
two buffers. Nothing is symmetric: keys are ordered.

Disk tree: the same capacities. `disk_tree_fresh` has 2 keys, 3 mutations and 2
commits from a new file; from the stored tree `TwoLeaves` of three levels it has
drains, reads and a commit. `disk_tree_deep` starts from `ThreeLevels`, 3 keys, with two
mutations, which is when the root overflows into nodes that overflow in turn, one
commit, and one storage error. Both stored trees are reached by the calls named in
their comments. Any bound on the cache is covered, since any set of nodes may go.

Cache: 3 nodes of size 1 or 2, budget 2, compaction from 2 entries (64 in the code),
5 calls: enough for a queue that holds stale entries of every node and is compacted,
and for nodes above the budget that must stay.

Oracle: 4 operations of up to 3 decisions among 3 children, 16 trees, commit intervals
1 to 3, windows that end at once, in the middle and past the end, samples that hit
none, some and all decisions, several in one operation.

Device: 4 units of 2 bytes, so that a unit can tear; writes of up to 2 units, windows of
2 entries, logs of 3; starting empty and with 3 units. Two entries in a window are
enough for overlap, reordering and a cut before a write.

Traces: 2 keys and 5 events, which is every order of calls, reads and decisions that
can separate the two traces.

Deadlock is checked except in `cache_lru`, `oracle_run`, `vfs_images` and
`trace_replay`, where a bound ends every behaviour. In the runs of the in-memory tree
`drain` or `simulate_commit` is always possible at rest, so the check shows that a
cascade is never stuck. The disk tree can always be reopened, so there it is
`CallsReturn` that shows it.

`WritesDisjoint` is checked without warm reopening: after a process died in the middle
of a commit, the next one writes where it had written, in the same window.

### Fairness

`CallsReturn` is checked under `FairSpec`: a call, once started, keeps taking
steps on the caller's thread until it returns. It is stated without `ENABLED`
(either the tree is at rest infinitely often or non-rest steps occur infinitely
often), which is weak fairness of `Cascade` given that a cascade is never stuck;
the deadlock check of the same run shows that. `DiskTree` states it the same way,
with `GoesOn`, the disjunction of the guards of the running call's steps, in place of
`ENABLED`; a state in which a call is stuck satisfies `~GoesOn` and violates
`CallsReturn`. `NodeCache` has weak fairness of `Iterate`: a loop runs to its
end before the call that made it returns. No fairness is assumed of callers.

## Findings

1. `disk_lost`: after the superblock sync of generation g fails, the caller is
   told to reopen. If the machine stayed up, `open` reads generation g from the
   page cache although the device may have discarded it, and the next commit
   overwrites the slot of g - 1, the only durable one. A crash that tears that
   write loses an acknowledged commit. Reopening after a reboot is safe
   (`disk_warm` allows everything else).
2. `betree_drained`: `drain` after a commit dirties nodes below clean ones, so
   the comment in `commit_inner` about a connected dirty subtree is wrong. Such
   nodes are not written by the next commit. Contents do not change, since a
   drain only moves messages.

Not a run of its own: `node_count` of the in-memory engine is documented as the number
of live nodes (`betree.rs:92`) and is the length of the arena, which has kept unlinked
leaves and collapsed roots since reclamation was added.

## Proofs

`DiskCommitProofs` proves, for every device size and every bound:

- `TypeCorrect`: `Spec => []TypeOK`;
- `Durability`, `ExactRecovery`, `MonotoneRecovery`: `AckedSurvives`,
  `RecoveryExact` and `RecoveryNotBehind` are invariants, provided
  `~ReopenLost`, the condition that finding 1 shows to be needed;
- `IdempotentRecovery`: `OpenKeepsRecovery`, under the same condition.

None of these invariants is inductive: they speak of the images there are now,
and the next sync, write or truncation makes new ones. `IndInv` adds what the
protocol relies on. `DeviceInv`: every slot of every image is in its place,
within the file, with its records intact, a newer slot never has a lower
watermark, and what the page cache would recover dominates every slot of every
image. `EngineInv`: an engine that is not poisoned knows that all slots anywhere
are older than its next generation and end at or below its watermark, and that
the superblock it was built from is durable (`Current`); so writing at or above
the watermark disturbs no recoverable tree, and writing the other slot cannot
remove `Current`. `CommitInv`: before publication the new tree is intact in
`settled`, and after the data sync `settled` is the only image. The proof that
each step preserves `IndInv` has one lemma per action, over lemmas on what
`Patch`, `PatchSlot` and `Resize` do to `Sound`, `Intact` and `Best`. The
assumptions are those of `Format` and `DiskCommit` on their constants.

From the same invariant, `CopyOnWrite` proves `NeverOverwritesRecoverable`: a step of
a running engine writes at or above a watermark that no recoverable tree reaches.
`DisjointWrites` proves `WritesDisjoint` for `~WarmReopen`. It rests on `WindowInv`, an
invariant of its own: an engine that may write next begins with an empty window, and
a `create` that failed with writes in its window leaves a file that can be neither
created nor opened until the machine has been restarted.

For messages, `NodesProofs` proves for every modulus that `coalesce` is sound
(`CoalesceSound`: the merged message has the effect of the older followed by the
newer, and the newer seqno) and that `get`'s running sum is
(`ChainSound`).

`NodeCacheProofs` proves for every number of nodes, sizes, budget and compaction
threshold, in the middle of loops too:

- `Books`: `Accounting`, a sum over all slots;
- `Overcommit`: `OvercommitJustified`;
- `EvictionOrder`: `EvictsOldest`;
- `QueueLimit`: `QueueBounded`.

The invariant (`IndInv` of `NodeCache`, theorem `Inductive`) says that the queue is
ordered by tick and holds a current entry for every stamped node in memory, that all
of memory is stamped but for what a suspended budget let in and the stamping loop has not
reached, and that the entries which `enforce_budget` has put back are of nodes that
must stay. So the first entry in the queue that is current and may go is the least
recently used; when all entries have been examined, all that is left must stay; and a
compacted queue has one entry per node in memory, which is why it is within its limit.

`FaultyVfsProofs` proves `CrashImagesExact`: `ReplayExact` for every device, log and
armed failure. The invariant is that the window begins behind the last sync of the
log and that `durable`, which `sync` updates, equals the replay of all syncs of the log
on the image the device began with; the rest is induction over the window.
`ReorderingCovered` proves `ReorderingIgnorable`. `ApartInv` says that the writes of a window do
not overlap, which is what `write_all_at` asserts. Behind a leading cut, applying a window is
then an overlay: each byte comes from the one write that covers it and was kept, or from the
file below, and how long the file is depends on the kept writes, not on their order. A
permuted window with some fates is thus the window in program order with the fates moved
along, and when the permutation moves the cut behind a write, the cut has either nothing
or all of that write, as none straddles it.

`TraceProofs` proves `CompleteTrace` (`ReplayFaithful`) and `OldTrace`
(`OldReplayFaithful`) for every set of keys and values and traces of every length.

`NodesProofs` and `BeTreeProofs` prove that the tree is a map, for all capacities that
the code admits and all keys and values: `MapImplemented` (`ImplementsMap`). `NodesProofs`
is about arenas. `Shape(ns, r, L, rk, iv)` says that the live nodes `L` form a tree below
root `r` in which no node has two parents, that every node, leaked ones included, has
a height `rk` over its leaves, one less for each child, and that every live node has
a range of keys `iv` that contains what it holds and its pivots, and of which each child
has the part that routing gives it. `Vals` defines the value of a key at a node from the
values at its children, and `GetIs` shows that `get`, which adds upserts up on its way
down, finds that value at the root. On that rest the theorems about the operations: a
flush (`FlushKeeps`), a split with its integration (`SplitKeeps`), an unlinked child
(`RemoveKeeps`), a message that enters the root (`ApplyRoot`), a new root (`GrowKeeps`), the
root collapse (`CollapseKeeps`) and the restart from an empty leaf (`RestartKeeps`). Each
says that the result has a shape again, and which values changed: none, but for
`ApplyRoot`. The split of a node into many pieces is taken apart into cuts in two
(`SplitInTwoKeeps`), with the arena after each cut as an intermediate state;
`partition_sizes` is shown to yield nonempty pieces within capacity (`PartitionPieces`).

`BeTreeProofs` adds the state of a cascade. Its invariant `MapInv` (theorem `TreeSound`)
says that the arena has a shape, that the stack of `flush_with` is a path of
internal nodes from the root, that no node on it buffers anything for the next one, and
that no live node but the one on top is without children. The third part is what makes it safe
to unlink the top node when its children are gone, whose messages would be lost
otherwise, and the last what makes every other operation applicable. Every step of a cascade then
leaves the map alone, and a mutation changes it as the reference engine would. The
assumptions are those on the constants in `Messages`, `Nodes` and `BeTree`.

Four more theorems are about the same steps, each with an invariant of its own beside `MapInv`,
and two are about reads and forks:

- `DrainComplete` (`DrainEmpties`). A step that ends a drain is a collapse to a root, or a restart
  from an empty leaf, of a tree whose root is done, and `drain` is done with a root only when
  nothing below it has messages. `StackStarts` says why an empty stack means a leaf.
- `CapacitiesKept` (`FitsAtRest`). In the middle of a cascade `FitInv` holds: every live node that is
  neither the root nor on the stack is within its capacities and not an emptied leaf. So the
  nodes over capacity are those the cascade returns to. The pieces of a split are within
  capacity by `PartitionPieces`, and a child is settled before its parent is left.
- `OrderKept` (`OrderedThroughout`). That what is held for a key gets older on its path is not
  inductive: a flush, split or collapse changes the paths. `AgeInv` compares each live node with
  all nodes beneath it, whether or not they are on one path, and bounds every seqno by
  `next_seq`. An operation that only moves messages or nodes is shown to give an arena in which each
  node stems from a node that held all it holds, and its children from children of that node (`Stems`);
  then the order is kept (`AgedFrom`). Ranges, pivots and depths follow from `MapInv`, by induction
  over the height (`PathReaches`, `PathDown`, `LeafDepthsIs`).
- `CommitsReach` (`DirtyConnected`), under the hypothesis `UseDrain = FALSE`, which finding 2 shows to be
  needed. `DirtyInv` adds that the nodes on the stack are dirty: a mutation has entered the root, and each
  node above it on the stack was given messages by the one below. So whatever a flush, split or removal
  dirties has only dirty nodes above it, and as no live node has two parents, nothing else becomes a
  parent of it. For a commit, `WalkIs` and `WalkReaches` show that its walk cleans all dirty nodes.
- `ForksFaithful` (`ForkFaithful`). By induction over the height, the visit of `fork_for_sim` meets the nodes
  below a node, and a live node once, because subtrees of equal height are disjoint (`SubtreesApart`,
  `VisitFacts`). So each live node has one place in the copy (`PlacedOnce`), the copy is an arena with the same
  heights (`CompactedIs`), each copy unfolds to what its node unfolds to (`CopyUnfolds`), and the copy of the
  root reaches the copy of whatever the root reaches (`CopyReaches`).
- `ScansAgree` (`ScanAgrees`). `ChildRange` shows that the clipped ranges of the children hold exactly the keys
  that routing leads to each, so every key of a range is in one visited child (`ChildrenScanned`); with
  what get finds at a node by what it finds at its children (`FoundAt`), folding the buffer onto the union
  gives what get finds (`NodeScanned`). This needs the heights and sorted pivots of `MapInv` only, and so
  holds for any bounds and for leaked nodes, too.

`OracleProofs` proves the four invariants of the oracle for every number of operations, interval, window,
sample and seed: `RolloutsStartHere` (`RebuildExact`), `ScriptIsTheRun` (`ScriptReplays`), `RecordsAreTheRun`
(`RecordsExact`) and `PolicyImproves` (`NeverCostlier`). They speak of states between operations or at the end, so
`IndInv` says what holds while an operation is resolved, with `Base` the tree before it and `Fixed` its
choices so far: `Base` is what the checkpoint leads to and what the script leads to; the fixed choices are
made, legally, by the operation run with them; the records are those of the sampled decisions up to the last
fixed one; and going on greedily from the script and the fixed choices is the greedy run or cheaper. The
last is policy improvement: fixing the rollout's cheapest choice never raises that cost when the rollout
reaches the end, and fixing the greedy one leaves the run as it is. Underneath are lemmas on runs: a run with
a script is the run of a prefix followed by the rest, and depends on no more of the script than it uses.

`DiskTreeProofs` proves the invariants of the disk engine's tree, with and without drains, for all capacities,
keys and values and for every set of files to open: `Interning` (`InterningExact`), `EvictionLosesNothing`
(`CleanIsRecord`), `StacksStay` (`StackResident`), `RecordsStayValid` (`RecordsValid`), `CommitsKeepLive`
(`CommitKeepsLive`) and `NothingOrphaned` (`NoOrphans`). Of the files it assumes what every commit leaves
(`StoredAssumption`, which TLC evaluates on the stored trees of the runs): records name earlier ones, the
leaves below a record are equally deep, and the records below the root's form a tree.

The invariants hang together: that a slot is freed only when nothing refers to it needs that no two slots or
records share a child, which needs interning, which needs that no freed slot is referred to. So there is one
induction, on `DiskInv` (theorem `EngineSound`). Its core `Sane` says that there are a height `rk`, a parent
`par` and a set of records `ft` for every slot in use, such that

- `Leveled`: records name earlier ones, each once, and have heights themselves;
- `Held`: a clean node is its record, and a node on disk has one;
- `Interned`: `offsets` and `disk_offset` are inverse to each other on the slots in use;
- `Half`: for a node on disk, either all its children have slots, since it was in memory before, or nothing
  below it has. With eviction this is what a reload meets, and it makes slots for all children or for none;
- `Rooted`: the slots in use form one tree, where the children of a node on disk are those its record leads to;
- `Apart`: the records of a node are among those of its parent, and two nodes of one height have none in
  common. A clean node's are those below its record, and form a tree. Parts of the tree that were never loaded
  are thus known to be disjoint before they have slots, which is what loading a node has to know.

`FileSane` adds that the records below the superblock's root form a tree, and `Bound` that an engine which is not
poisoned shares no other records with the file; `Excused` exempts the node on top of the stack, which may have lost
its children; `Calling` says what the running call holds: a path of internal nodes in memory, the nodes still to be
probed, the frames of a scan. There is a lemma that says that `Sane` is kept for each thing done to the engine: loading
(`Loads`), evicting (`EvictKeeps`), flushing (`ExtractKeeps`, `DeliverKeeps`), splitting (`SplitIntoKeeps`), unlinking
(`UnlinkKeeps`), the root's changes (`GrowRoot`, `ShedRoot`, `EmptyRoot`) and a commit (`CommitKeeps`); the lemmas
called `...Ok` lift them to the actions. A commit is shown to write, children first, all dirty nodes that its walk finds, and below each
clean node that it stops at to keep exactly that node's records, whatever is dirty further down: that is why it
publishes a tree even where finding 2 applies.

The provers cannot instantiate a theorem whose parameter is a predicate, so in all these modules induction is
stated for sets of numbers (`SetInduction`), and a function defined by recursion is shown to exist by
induction on its domain (`RecursionExists`, and the lemmas called `...Loop`).

Only model-checked: the refinements `ImplementsDurableMap` and `ImplementsVfs`, and the liveness properties
`CallsReturn` and `EnforcementEnds`, which are out of reach of the provers used here.

## Not modelled

- The format-version gate of `open`: no operation creates a file of another version.
- Bytes and checksums: a record is readable or not, and a node has a size only where
  the cache counts it.
- `workload.rs`, a seeded generator whose promise is a distribution; the models take
  every sequence of calls. `bin/bench.rs`, which measures and prints.
- The oracle's argument parsing and output, and the JSON-lines form of traces.
- `FileVfs`, which hands each call to the operating system, and `CountingVfs`, which
  counts calls and hands them on.
- Two processes with one file open: the code takes no lock.

## Plan

Done: the commit protocol, messages, the node cache, the device log and traces with
their proofs; the in-memory tree, its reads, its fork, its dirty flags and its refinement of the map,
and the oracle, with their proofs; the disk engine's tree, with the proofs of its invariants.

What is left is proving the refinements `ImplementsDurableMap`, which needs the values of the keys
on top of `DiskInv`, and `ImplementsVfs`.
