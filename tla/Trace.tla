-------------------------------- MODULE Trace --------------------------------
(***************************************************************************)
(* Recording and replay (src/trace.rs).  Every engine records what is      *)
(* called and decided into two traces at once: the complete one, and one   *)
(* in an older, closed vocabulary that knows neither deletes, upserts nor  *)
(* scans.  A replay builds an engine from the calls of a trace; engines    *)
(* are taken for the map that they implement (module KvSpec).              *)
(***************************************************************************)
EXTENDS Messages, SequencesExt

CONSTANTS
    Puts, Deltas,  \* what insert and upsert are called with
    MaxEvents      \* bound: events of a trace

ASSUME TraceAssumption ==
    Puts \subseteq Values /\ Deltas \subseteq Numbers /\ MaxEvents \in Nat

VARIABLES
    map, next_seq, \* the engine
    v1, v2         \* its Recorder

vars == <<map, next_seq, v1, v2>>

Engine == INSTANCE KvSpec

Insert(k, v) == [op |-> "Insert", key |-> k, value |-> v]
DeleteOf(k) == [op |-> "Delete", key |-> k]
UpsertOf(k, d) == [op |-> "Upsert", key |-> k, delta |-> d]

Op(seq, call) == [event |-> "Op", seq |-> seq, call |-> call]

-----------------------------------------------------------------------------
(* Recorder                                                                *)

(* Faulty: an op that the old vocabulary cannot express is not recorded.   *)
op_closed(seq, call) ==
    \/ /\ call.op = "Insert"
       /\ v1' = Append(v1, Op(seq, call)) /\ v2' = Append(v2, Op(seq, call))
    \/ call.op # "Insert" /\ UNCHANGED <<v1, v2>>

op(seq, call) ==
    /\ v1' = IF call.op = "Insert" THEN Append(v1, Op(seq, call)) ELSE v1
    /\ v2' = Append(v2, Op(seq, call))

(* A get or a flush decision goes into both traces, a scan into one.       *)
Both(event) == v1' = Append(v1, event) /\ v2' = Append(v2, event)

Complete(event) == v2' = Append(v2, event) /\ UNCHANGED v1

-----------------------------------------------------------------------------
(* The engine's calls                                                      *)

Init == Engine!Init /\ v1 = <<>> /\ v2 = <<>>

insert(k, v) == Engine!insert(k, v) /\ op(next_seq + 1, Insert(k, v))

delete(k) == Engine!delete(k) /\ op(next_seq + 1, DeleteOf(k))

upsert(k, d) == Engine!upsert(k, d) /\ op(next_seq + 1, UpsertOf(k, d))

get(k) == Both([event |-> "Get", key |-> k]) /\ UNCHANGED <<map, next_seq>>

scan == Complete([event |-> "Scan"]) /\ UNCHANGED <<map, next_seq>>

flush_decision == Both([event |-> "FlushDecision"]) /\ UNCHANGED <<map, next_seq>>

Next ==
    /\ Len(v2) < MaxEvents
    /\ \/ \E k \in Keys : \/ \E v \in Puts : insert(k, v)
                          \/ delete(k)
                          \/ \E d \in Deltas : upsert(k, d)
                          \/ get(k)
       \/ scan
       \/ flush_decision

Spec == Init /\ [][Next]_vars

-----------------------------------------------------------------------------
(* Replay                                                                  *)

New == [map |-> [k \in Keys |-> NoValue], next_seq |-> 0, ops |-> <<>>]

(* One call on an engine that records its ops in turn.                     *)
Call(e, call) ==
    [map |-> [e.map EXCEPT ![call.key] =
                 CASE call.op = "Insert" -> call.value
                   [] call.op = "Delete" -> NoValue
                   [] call.op = "Upsert" -> apply(call.delta, @)],
     next_seq |-> e.next_seq + 1,
     ops |-> Append(e.ops, Op(e.next_seq + 1, call))]

IsOp(event) == event.event = "Op"

(* One event met by a replay: whatever is not an op is passed over.        *)
Replayed(e, event) == IF IsOp(event) THEN Call(e, event.call) ELSE e

(* A new engine after the given events, in order.                          *)
Rebuilt(events) ==
    LET engine[i \in 0 .. Len(events)] ==
            IF i = 0 THEN New ELSE Replayed(engine[i - 1], events[i])
    IN engine[Len(events)]

(* Faulty: the replay ends at the first event that is not an op.           *)
replay_prefix(events) ==
    Rebuilt(SelectSeq(events, LAMBDA event :
        \E i \in DOMAIN events : events[i] = event /\ \A j \in 1 .. i : IsOp(events[j])))

replay(events) == Rebuilt(events)

replay2(events) == Rebuilt(events)

-----------------------------------------------------------------------------
(* The ops among the given events.                                         *)
OpsOf(events) ==
    LET ops[i \in 0 .. Len(events)] ==
            IF i = 0 THEN <<>>
            ELSE IF IsOp(events[i]) THEN Append(ops[i - 1], events[i]) ELSE ops[i - 1]
    IN ops[Len(events)]

(* Replaying the complete trace gives an engine with the same contents     *)
(* that goes on with the same seqno and has assigned the recorded ones.    *)
ReplayFaithful ==
    LET e == replay2(v2)
    IN e.map = map /\ e.next_seq = next_seq /\ e.ops = OpsOf(v2)

(* The keys that were never deleted or upserted.                           *)
OnlyInserted ==
    {k \in Keys : \A i \in DOMAIN v2 :
        IsOp(v2[i]) /\ v2[i].call.key = k => v2[i].call.op = "Insert"}

(* The old trace is faithful for what its vocabulary can express: it       *)
(* replays to the right value of every key that was only ever inserted,    *)
(* whatever else the workload did, and to the same engine if all were.     *)
OldReplayFaithful ==
    LET e == replay(v1)
    IN /\ \A k \in OnlyInserted : e.map[k] = map[k]
       /\ OnlyInserted = Keys => e.next_seq = next_seq /\ e.ops = OpsOf(v2)
=============================================================================
