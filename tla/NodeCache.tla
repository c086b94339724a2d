------------------------------ MODULE NodeCache -----------------------------
(***************************************************************************)
(* The bounded node cache of the disk engine (struct Cache and the slot    *)
(* bookkeeping of src/disk.rs): a lazy LRU queue of stamped entries, of    *)
(* which all but the newest for a node are stale, and the loop that evicts *)
(* clean nodes until the byte budget is met.                               *)
(*                                                                         *)
(* A node is its size here.  The engine has been given a budget: without   *)
(* one, none of this runs.  The counters hits, misses and evictions feed   *)
(* cache_stats only and are left out.  One step is one call or, where a    *)
(* call loops, one iteration of its loop.                                  *)
(***************************************************************************)
EXTENDS Integers, Sequences, FiniteSets

CONSTANTS
    Sizes,         \* the sizes of nodes, in bytes
    Budget,        \* the cache's budget, in bytes
    CompactFloor,  \* the queue is never compacted below this length (64)
    MaxNodes,      \* bound: slots
    MaxCalls       \* bound: calls in a behaviour

ASSUME CacheAssumption == /\ Sizes \subseteq Nat \ {0} /\ Sizes # {}
                          /\ Budget \in Nat /\ CompactFloor \in Nat
                          /\ MaxNodes \in Nat \ {0} /\ MaxCalls \in Nat

VARIABLES
    slots,       \* the arena; an OnDisk slot's bytes are its record's length
    cache,       \* bytes, resident, tick and lru of struct Cache
    loop,        \* the loop that is running, or "none"
    todo,        \* "adopt": the nodes left, with their record's size
    next,        \* "stamp": the slot to look at next
    pins,        \* \
    just_loaded, \*  | "enforce": the arguments of enforce_budget,
    left,        \* /  and how many entries it may still examine
    calls        \* how many calls were made

loopVars == <<loop, todo, next, pins, just_loaded, left>>
vars == <<slots, cache, loopVars, calls>>

Slot == [place : {"Loaded", "OnDisk", "Freed"}, dirty : BOOLEAN, bytes : Nat,
         last_tick : Nat]

Loaded(dirty, bytes) ==
    [place |-> "Loaded", dirty |-> dirty, bytes |-> bytes, last_tick |-> 0]

OnDisk(bytes) == [place |-> "OnDisk", dirty |-> FALSE, bytes |-> bytes, last_tick |-> 0]

Freed == [place |-> "Freed", dirty |-> FALSE, bytes |-> 0, last_tick |-> 0]

In(s, place) == {i \in DOMAIN s : s[i].place = place}

Resident == In(slots, "Loaded")

-----------------------------------------------------------------------------
(* What the calls do to arena and cache, as functions of the pair e        *)

(* An LRU entry is current when its node is resident and was not stamped   *)
(* since.                                                                  *)
Current(s, entry) == s[entry[1]].place = "Loaded" /\ s[entry[1]].last_tick = entry[2]

Stamp(e, id) ==
    [slots |-> [e.slots EXCEPT ![id].last_tick = e.cache.tick + 1],
     cache |-> [e.cache EXCEPT !.tick = @ + 1,
                               !.lru = Append(@, <<id, e.cache.tick + 1>>)]]

(* The entries of queue q that are current, in order.                      *)
Compacted(s, q) ==
    LET kept[i \in 0 .. Len(q)] ==
            IF i = 0 THEN <<>>
            ELSE IF Current(s, q[i]) THEN Append(kept[i - 1], q[i]) ELSE kept[i - 1]
    IN kept[Len(q)]

(* Faulty: the queue is never compacted.                                   *)
touch_grows(e, id) == Stamp(e, id)

Limit(resident) == IF CompactFloor > 4 * resident THEN CompactFloor ELSE 4 * resident

touch(e, id) ==
    LET stamped == Stamp(e, id)
    IN IF Len(stamped.cache.lru) <= Limit(e.cache.resident) THEN stamped
       ELSE [stamped EXCEPT !.cache.lru = Compacted(stamped.slots, @)]

Counted(c, bytes) == [c EXCEPT !.bytes = @ + bytes, !.resident = @ + 1]

(* Node id becomes resident: its bytes count.                              *)
Admit(e, id, slot) ==
    [slots |-> [e.slots EXCEPT ![id] = slot], cache |-> Counted(e.cache, slot.bytes)]

(* Faulty: the node is gone, its bytes are still counted.                  *)
DropLeaks(e, id, slot) ==
    [slots |-> [e.slots EXCEPT ![id] = slot],
     cache |-> [e.cache EXCEPT !.resident = @ - 1]]

(* Node id leaves memory.                                                  *)
Drop(e, id, slot) ==
    [slots |-> [e.slots EXCEPT ![id] = slot],
     cache |-> [e.cache EXCEPT !.bytes = @ - e.slots[id].bytes, !.resident = @ - 1]]

Resize(e, id, dirty, bytes) ==
    [slots |-> [e.slots EXCEPT ![id].dirty = dirty, ![id].bytes = bytes],
     cache |-> [e.cache EXCEPT !.bytes = @ - e.slots[id].bytes + bytes]]

-----------------------------------------------------------------------------
Engine == [slots |-> slots, cache |-> cache]

Becomes(e) == slots' = e.slots /\ cache' = e.cache

Call == /\ loop = "none"
        /\ calls < MaxCalls
        /\ calls' = calls + 1

NoNode == 0

(* enforce_budget starts, after a call that left engine e.                 *)
Enforce(e, p, j) ==
    /\ Becomes(e)
    /\ loop' = "enforce"
    /\ pins' = p /\ just_loaded' = j
    /\ left' = Len(e.cache.lru)
    /\ todo' = <<>> /\ next' = 0

(* create_on_with leaves the root just committed, open_on_with on disk.    *)
Init ==
    /\ calls = 0 /\ todo = <<>> /\ next = 0 /\ pins = {} /\ just_loaded = NoNode
    /\ \E b \in Sizes :
          LET empty == [bytes |-> 0, resident |-> 0, tick |-> 0, lru |-> <<>>]
              root == [slots |-> <<OnDisk(b)>>, cache |-> empty]
              created == touch(Admit(root, 1, Loaded(FALSE, b)), 1)
          IN \/ /\ slots = root.slots /\ cache = root.cache
                /\ loop = "none" /\ left = 0
             \/ /\ slots = created.slots /\ cache = created.cache
                /\ loop = "enforce" /\ left = Len(created.cache.lru)

(* ensure_loaded finds node id in memory.                                  *)
Hit(id) ==
    /\ Call
    /\ slots[id].place = "Loaded"
    /\ Becomes(touch(Engine, id))
    /\ UNCHANGED loopVars

(* The slots of children that a loaded record names for the first time.    *)
Discoveries == {<<>>} \cup IF Len(slots) < MaxNodes THEN {<<OnDisk(b)>> : b \in Sizes} ELSE {}

(* Node id and what its record names, once it is read from disk.           *)
Read(id, found) ==
    Admit([slots |-> slots \o found, cache |-> cache], id, Loaded(FALSE, slots[id].bytes))

(* ensure_loaded reads node id from disk.  p are nodes that the caller     *)
(* holds ids of.                                                           *)
Load(id, p, found) ==
    /\ Call
    /\ slots[id].place = "OnDisk"
    /\ Enforce(touch(Read(id, found), id), p, id)

(* A mutation of node id.  est is what it measures before the change.      *)
loaded_mut(id, est) ==
    /\ Call
    /\ slots[id].place = "Loaded"
    /\ Becomes(Resize(Engine, id, TRUE, est))
    /\ UNCHANGED loopVars

alloc_dirty(bytes) ==
    /\ Call
    /\ Len(slots) < MaxNodes
    /\ LET e == [slots |-> Append(slots, Loaded(TRUE, bytes)), cache |-> Counted(cache, bytes)]
       IN Becomes(touch(e, Len(slots) + 1))
    /\ UNCHANGED loopVars

release_slot(id) ==
    /\ Call
    /\ slots[id].place # "Freed"
    /\ IF slots[id].place = "Loaded" THEN Becomes(Drop(Engine, id, Freed))
       ELSE slots' = [slots EXCEPT ![id] = Freed] /\ UNCHANGED cache
    /\ UNCHANGED loopVars

-----------------------------------------------------------------------------
(* The end of commit_inner: the nodes written are clean and have the size  *)
(* of their record.                                                        *)

Adopt(size) ==
    /\ Call
    /\ \A id \in DOMAIN size : slots[id].place = "Loaded" /\ slots[id].dirty
    /\ loop' = "adopt" /\ todo' = size
    /\ UNCHANGED <<slots, cache, next, pins, just_loaded, left>>

AdoptNode(id) ==
    /\ loop = "adopt"
    /\ Becomes(Resize(Engine, id, FALSE, todo[id]))
    /\ todo' = [i \in DOMAIN todo \ {id} |-> todo[i]]
    /\ UNCHANGED <<loop, next, pins, just_loaded, left, calls>>

Adopted ==
    /\ loop = "adopt"
    /\ DOMAIN todo = {}
    /\ Enforce(Engine, {}, NoNode)
    /\ UNCHANGED calls

-----------------------------------------------------------------------------
(* check_invariants_full loads the tree with the budget suspended, so that *)
(* neither touch nor enforce_budget does anything until its end.           *)

check_invariants_full ==
    /\ Call
    /\ loop' = "load_all"
    /\ UNCHANGED <<slots, cache, todo, next, pins, just_loaded, left>>

LoadOne(id, found) ==
    /\ loop = "load_all"
    /\ slots[id].place = "OnDisk"
    /\ Becomes(Read(id, found))
    /\ UNCHANGED <<loopVars, calls>>

LoadedAll ==
    /\ loop = "load_all"
    /\ In(slots, "OnDisk") = {}
    /\ loop' = "stamp" /\ next' = 1
    /\ UNCHANGED <<slots, cache, todo, pins, just_loaded, left, calls>>

(* Faulty: the nodes loaded while the budget was suspended stay unstamped. *)
RestampNone(e, id) == e

(* Its budget back in force, it stamps whatever is resident.               *)
Restamp(e, id) == IF e.slots[id].place = "Loaded" THEN touch(e, id) ELSE e

RestampNext ==
    /\ loop = "stamp"
    /\ next <= Len(slots)
    /\ Becomes(Restamp(Engine, next))
    /\ next' = next + 1
    /\ UNCHANGED <<loop, todo, pins, just_loaded, left, calls>>

Restamped ==
    /\ loop = "stamp"
    /\ next > Len(slots)
    /\ Enforce(Engine, {}, NoNode)
    /\ UNCHANGED calls

-----------------------------------------------------------------------------
(* The loop of enforce_budget                                              *)

Kept(id) == slots[id].dirty \/ id \in pins \/ id = just_loaded

Over == loop = "enforce" /\ cache.bytes > Budget /\ left > 0 /\ cache.lru # <<>>

(* The engine without the entry that is examined.                          *)
Popped == [slots |-> slots, cache |-> [cache EXCEPT !.lru = Tail(@)]]

(* Faulty: a node that cannot go is put back as it was, not counted.       *)
ExamineAgain ==
    /\ Over
    /\ LET entry == Head(cache.lru)
           id == entry[1]
           kept == Current(slots, entry) /\ Kept(id)
       IN /\ Becomes(IF ~Current(slots, entry) THEN Popped
                     ELSE IF Kept(id) THEN [Popped EXCEPT !.cache.lru = Append(@, entry)]
                     ELSE Drop(Popped, id, OnDisk(slots[id].bytes)))
          /\ left' = IF kept THEN left ELSE left - 1
    /\ UNCHANGED <<loop, todo, next, pins, just_loaded, calls>>

(* Faulty: only dirty nodes are kept.                                      *)
ExamineUnpinned ==
    /\ Over
    /\ LET entry == Head(cache.lru)
           id == entry[1]
       IN Becomes(IF ~Current(slots, entry) THEN Popped
                  ELSE IF slots[id].dirty THEN Stamp(Popped, id)
                  ELSE Drop(Popped, id, OnDisk(slots[id].bytes)))
    /\ left' = left - 1
    /\ UNCHANGED <<loop, todo, next, pins, just_loaded, calls>>

(* One iteration: a stale entry is skipped, a node that must stay counts   *)
(* as just used, any other is evicted.                                     *)
Examine ==
    /\ Over
    /\ LET entry == Head(cache.lru)
           id == entry[1]
       IN Becomes(IF ~Current(slots, entry) THEN Popped
                  ELSE IF Kept(id) THEN Stamp(Popped, id)
                  ELSE Drop(Popped, id, OnDisk(slots[id].bytes)))
    /\ left' = left - 1
    /\ UNCHANGED <<loop, todo, next, pins, just_loaded, calls>>

(* The loop ends and the call returns.                                     *)
Return ==
    /\ loop = "enforce" /\ ~Over
    /\ loop' = "none" /\ pins' = {} /\ just_loaded' = NoNode /\ left' = 0
    /\ UNCHANGED <<slots, cache, todo, next, calls>>

enforce_budget == Examine \/ Return

(* An iteration of whichever loop is running.                              *)
Iterate ==
    \/ \E id \in DOMAIN todo : AdoptNode(id)
    \/ Adopted
    \/ \E id \in DOMAIN slots, found \in Discoveries : LoadOne(id, found)
    \/ LoadedAll \/ RestampNext \/ Restamped
    \/ enforce_budget

Next ==
    \/ \E id \in DOMAIN slots :
          \/ Hit(id)
          \/ \E p \in SUBSET (Resident \cup {id}), found \in Discoveries : Load(id, p, found)
          \/ \E est \in Sizes : loaded_mut(id, est)
          \/ release_slot(id)
    \/ \E bytes \in Sizes : alloc_dirty(bytes)
    \/ \E written \in SUBSET {id \in Resident : slots[id].dirty} :
          \E size \in [written -> Sizes] : Adopt(size)
    \/ check_invariants_full
    \/ Iterate

(* The engine is called on one thread: a call that runs goes on.           *)
Spec == Init /\ [][Next]_vars /\ WF_vars(Iterate)

-----------------------------------------------------------------------------
(* The bytes of the nodes in memory.                                       *)
ResidentBytes(s) ==
    LET upto[n \in 0 .. Len(s)] ==
            IF n = 0 THEN 0
            ELSE upto[n - 1] + (IF s[n].place = "Loaded" THEN s[n].bytes ELSE 0)
    IN upto[Len(s)]

(* The cache's totals are what is in memory, through loads, mutations,     *)
(* evictions, reclamations and the suspension of the budget: drift would   *)
(* let the cache grow without limit, or underflow the counters.            *)
Accounting ==
    /\ cache.resident = Cardinality(Resident)
    /\ cache.bytes = ResidentBytes(slots)

(* A node leaves memory for its record only when the cache is over budget, *)
(* and then it is the least recently used of those that are clean, not     *)
(* pinned and not just loaded.                                             *)
EvictsOldest ==
    [][\A id \in Resident : slots'[id].place = "OnDisk" =>
          /\ cache.bytes > Budget
          /\ ~Kept(id)
          /\ \A other \in Resident \ {id} :
                ~Kept(other) => slots[id].last_tick < slots[other].last_tick]_vars

(* When enforce_budget gives up over budget (an overcommit event), all     *)
(* that is left in memory is dirty, pinned or the node just loaded.        *)
OvercommitJustified ==
    loop = "enforce" /\ ~Over => cache.bytes <= Budget \/ \A id \in Resident : Kept(id)

(* The queue does not grow beyond the compaction limit, however many hits  *)
(* are queued.                                                             *)
QueueBounded ==
    [][Len(cache'.lru) > Len(cache.lru) => Len(cache'.lru) <= Limit(cache'.resident)]_vars

(* Every call comes to an end, also when nothing can be evicted.           *)
EnforcementEnds == loop # "none" ~> loop = "none"

-----------------------------------------------------------------------------
(* The inductive invariant behind Accounting, EvictsOldest,                *)
(* OvercommitJustified and QueueBounded                                    *)

TypeOK ==
    /\ slots \in Seq(Slot)
    /\ cache \in [bytes : Nat, resident : Nat, tick : Nat, lru : Seq(Nat \X Nat)]
    /\ loop \in {"none", "adopt", "load_all", "stamp", "enforce"}
    /\ DOMAIN todo \subseteq DOMAIN slots /\ \A id \in DOMAIN todo : todo[id] \in Nat
    /\ next \in Nat /\ pins \subseteq DOMAIN slots /\ just_loaded \in Nat /\ left \in Nat
    /\ calls \in Nat

(* The queue q at time t: entries in the order of their stamps, and one    *)
(* that is current for each stamped node in memory.                        *)
QueueOK(s, t, q) ==
    /\ \A j \in DOMAIN q : q[j][1] \in DOMAIN s /\ 0 < q[j][2] /\ q[j][2] <= t
    /\ \A j, k \in DOMAIN q : j < k => q[j][2] < q[k][2]
    /\ \A id \in In(s, "Loaded") :
          s[id].last_tick # 0 => \E j \in DOMAIN q : q[j] = <<id, s[id].last_tick>>

(* All of memory is stamped, but for what a suspended budget let in.       *)
Stamped ==
    \A id \in Resident :
        \/ slots[id].last_tick # 0
        \/ loop = "load_all"
        \/ loop = "stamp" /\ next <= id

(* The entries that enforce_budget has put back are of nodes that it must  *)
(* keep.                                                                   *)
PutBackKept ==
    loop = "enforce" => \A j \in DOMAIN cache.lru : left < j => Kept(cache.lru[j][1])

IndInv ==
    /\ TypeOK
    /\ Accounting
    /\ QueueOK(slots, cache.tick, cache.lru)
    /\ Stamped
    /\ loop = "adopt" => DOMAIN todo \subseteq Resident
    /\ loop = "stamp" => next > 0
    /\ PutBackKept
=============================================================================
