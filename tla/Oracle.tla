------------------------------- MODULE Oracle -------------------------------
(***************************************************************************)
(* The rollout oracle (src/bin/oracle.rs): one step of policy improvement  *)
(* over the greedy flush policy, along a run of Ops operations.            *)
(*                                                                         *)
(* A tree is what was done to it: the operations, each with the choices    *)
(* of its flush decisions, and the simulated commits.  What an operation   *)
(* has to decide and what a commit costs is read off a hash of that        *)
(* history, one for each seed, so whatever the oracle does not rebuild     *)
(* exactly as it was shows.                                                *)
(***************************************************************************)
EXTENDS Integers, SequencesExt, FiniteSetsExt

CONSTANTS
    Ops,            \* the number of operations, numbered from 0
    Children,       \* the children of a flushing node
    MaxDecisions,   \* bound: decisions of one operation
    Seeds,          \* the trees
    Intervals, Windows, Samples   \* what the oracle is configured with

ASSUME OracleAssumption ==
    /\ Ops \in Nat /\ MaxDecisions \in Nat /\ Children \subseteq Nat
    /\ Seeds \subseteq Nat /\ Intervals \subseteq Nat \ {0} /\ Windows \subseteq Nat
    /\ Samples \subseteq SUBSET Nat

VARIABLES
    cfg,            \* seed, commit_interval, window, and the sampled decisions
    i,              \* the current operation
    t,              \* the tree of the improved run
    checkpoint,     \* its state after the last operation that was resolved,
    checkpoint_at,  \* and the number of the operation after that
    counter,        \* how many decisions were made
    script,         \* what they were
    records,        \* the decisions that were evaluated
    pre,            \* the state before the operation that is being resolved
    fixed,          \* its resolved choices
    resolving       \* is an operation being resolved?

vars == <<cfg, i, t, checkpoint, checkpoint_at, counter, script, records, pre, fixed, resolving>>

-----------------------------------------------------------------------------
(* Trees                                                                   *)

Commit == <<Ops>>

(* The hash of a history stands for the contents of the tree.              *)
Mix(x, y) == (31 * x + 17 * y + 7) % 1009

Hash(tree, more) == FoldLeft(Mix, cfg.seed, FlattenSeq(tree) \o more)

(* How many messages wait for each child at the next decision of operation *)
(* m, after the given choices: the child_pending of a FlushCtx.            *)
Context(tree, m, choices) ==
    LET before == Hash(tree, <<m>> \o choices)
    IN [c \in Children |-> IF Len(choices) = MaxDecisions THEN 0
                           ELSE Max({0, (Mix(before, c) % 4) - 1})]

Legal(ctx) == {c \in Children : ctx[c] > 0}

(* The greedy choice: the fullest child, the first of several.             *)
pick(ctx) == Min({c \in Legal(ctx) : \A d \in Children : ctx[d] <= ctx[c]})

(* The bytes that simulate_commit counts: the superblock and what is dirty.*)
simulate_commit(tree) ==
    1 + IF tree = <<>> \/ Last(tree) = Commit THEN 0 ELSE Hash(tree, <<>>) % 5

Chosen(ds) == [j \in DOMAIN ds |-> ds[j].choice]

(* The decisions of operation m when the first ones are forced.            *)
run_op(tree, m, forced) ==
    LET go[n \in 0 .. MaxDecisions] ==
            IF n = 0 THEN <<>>
            ELSE LET ds == go[n - 1]
                     ctx == Context(tree, m, Chosen(ds))
                 IN IF Len(ds) < n - 1 \/ Legal(ctx) = {} THEN ds
                    ELSE Append(ds, [ctx |-> ctx,
                                     choice |-> IF n <= Len(forced) THEN forced[n]
                                                                    ELSE pick(ctx)])
    IN go[MaxDecisions]

After(tree, m, ds) == Append(tree, <<m>> \o Chosen(ds))

CommitDue(m) == (m + 1) % cfg.commit_interval = 0

Settle(tree, m) == IF CommitDue(m) THEN Append(tree, Commit) ELSE tree

(* Operations from .. to - 1 on tree under forced-then-greedy choices, with *)
(* the commits at their boundaries: the tree, the cost and the decisions.  *)
Run(tree, from, to, forced) ==
    LET run[n \in from .. to] ==
            IF n = from THEN [tree |-> tree, cost |-> 0, ds |-> <<>>]
            ELSE LET before == run[n - 1]
                     ds == run_op(before.tree, n - 1,
                                  SubSeq(forced, Len(before.ds) + 1, Len(forced)))
                     done == After(before.tree, n - 1, ds)
                 IN [tree |-> Settle(done, n - 1),
                     cost |-> before.cost + (IF CommitDue(n - 1) THEN simulate_commit(done)
                                                                 ELSE 0),
                     ds   |-> before.ds \o ds]
    IN run[to]

run_cost(forced) ==
    LET run == Run(<<>>, 0, Ops, forced)
    IN run.cost + (IF Ops % cfg.commit_interval # 0 THEN simulate_commit(run.tree) ELSE 0)

rollout_cost(tree, m, forced) ==
    LET run == Run(tree, m, Min({m + 1 + cfg.window, Ops}), forced)
    IN run.cost + simulate_commit(run.tree)

(* Faulty: the first of the cheapest, greedy or not.                       *)
pick_argmin_first(cost, greedy) ==
    Min({c \in DOMAIN cost : \A d \in DOMAIN cost : cost[c] <= cost[d]})

(* The cheapest alternative; of several the greedy one, else the first.    *)
pick_argmin(cost, greedy) ==
    LET best == {c \in DOMAIN cost : \A d \in DOMAIN cost : cost[c] <= cost[d]}
    IN IF greedy \in best THEN greedy ELSE Min(best)

-----------------------------------------------------------------------------
(* improved_run                                                            *)

Init ==
    /\ cfg \in [seed : Seeds, commit_interval : Intervals, window : Windows, sampled : Samples]
    /\ i = 0 /\ t = <<>> /\ checkpoint = <<>> /\ checkpoint_at = 0
    /\ counter = 0 /\ script = <<>> /\ records = <<>>
    /\ pre = <<>> /\ fixed = <<>> /\ resolving = FALSE

(* Faulty: decisions are numbered within their operation.                  *)
SampledLocally(ds, from) == {j \in (from + 1) .. Len(ds) : j - 1 \in cfg.sampled}

(* The sampled decisions of the current operation after the first ones.    *)
Sampled(ds, from) == {j \in (from + 1) .. Len(ds) : counter + j - 1 \in cfg.sampled}

(* Faulty: the commits of the replayed span are forgotten.                 *)
RebuildUncommitted ==
    FoldLeft(LAMBDA x, m : After(x, m, run_op(x, m, <<>>)), checkpoint,
             [n \in 1 .. (i - checkpoint_at) |-> checkpoint_at + n - 1])

(* The state before the current operation, from the checkpoint.            *)
Rebuild == Run(checkpoint, checkpoint_at, i, <<>>).tree

(* Faulty: only operations that were resolved get into the script.         *)
RecordResolved(ds) == script' = IF resolving THEN script \o Chosen(ds) ELSE script

Record(ds) == script' = script \o Chosen(ds)

(* The current operation is done, with decisions ds from tree.             *)
Done(tree, ds) ==
    /\ t' = Settle(After(tree, i, ds), i)
    /\ counter' = counter + Len(ds)
    /\ Record(ds)
    /\ i' = i + 1

(* The operation is run greedily.  If one of its decisions turns out to be *)
(* sampled, the run is thrown away and the operation resolved.             *)
RunOp ==
    /\ ~resolving
    /\ i < Ops
    /\ LET ds == run_op(t, i, <<>>)
       IN \/ /\ Sampled(ds, 0) = {}
             /\ Done(t, ds)
             /\ UNCHANGED <<pre, fixed, resolving>>
          \/ /\ Sampled(ds, 0) # {}
             /\ t' = After(t, i, ds)
             /\ pre' = Rebuild
             /\ fixed' = SubSeq(Chosen(ds), 1, Min(Sampled(ds, 0)) - 1)
             /\ resolving' = TRUE
             /\ UNCHANGED <<i, counter, script>>
    /\ UNCHANGED <<cfg, checkpoint, checkpoint_at, records>>

(* The next sampled decision: every alternative is rolled out.             *)
Resolve ==
    /\ resolving
    /\ LET ds == run_op(pre, i, fixed)
           j == Min(Sampled(ds, Len(fixed)))
           known == SubSeq(Chosen(ds), 1, j - 1)
           ctx == ds[j].ctx
           cost == [c \in Legal(ctx) |-> rollout_cost(pre, i, Append(known, c))]
           chosen == pick_argmin(cost, pick(ctx))
       IN /\ Sampled(ds, Len(fixed)) # {}
          /\ records' = Append(records, [op_index |-> i, decision_index |-> counter + j - 1,
                                         ctx |-> ctx, alternatives |-> cost, chosen |-> chosen,
                                         greedy_choice |-> pick(ctx)])
          /\ fixed' = Append(known, chosen)
    /\ UNCHANGED <<cfg, i, t, checkpoint, checkpoint_at, counter, script, pre, resolving>>

(* No sampled decision is left: the greedy tail is fixed too, the run is   *)
(* accepted and a checkpoint taken.                                        *)
Accept ==
    /\ resolving
    /\ LET ds == run_op(pre, i, fixed)
       IN /\ Sampled(ds, Len(fixed)) = {}
          /\ fixed' = Chosen(ds)
          /\ Done(pre, ds)
    /\ checkpoint' = t' /\ checkpoint_at' = i + 1
    /\ resolving' = FALSE
    /\ UNCHANGED <<cfg, records, pre>>

Next == RunOp \/ Resolve \/ Accept

Spec == Init /\ [][Next]_vars

-----------------------------------------------------------------------------
(* The state rebuilt from the checkpoint is the one that the operation was *)
(* run on, commits included: rollouts start from where the run really is.  *)
RebuildExact == resolving => pre = Front(t)

(* Replaying the script reproduces the run: the same state, each choice    *)
(* legal where it is made, and no decision too many or too few             *)
(* (scripted_cost's assertion).                                            *)
ScriptReplays ==
    ~resolving =>
        LET run == Run(<<>>, 0, i, script)
        IN /\ run.tree = t
           /\ Len(run.ds) = Len(script) /\ counter = Len(script)
           /\ \A d \in DOMAIN script : run.ds[d].choice \in Legal(run.ds[d].ctx)

(* There is exactly one record for each sampled decision, taken where it   *)
(* was made and holding what was decided; all others are greedy.           *)
RecordsExact ==
    ~resolving =>
        LET ds == Run(<<>>, 0, i, script).ds
        IN /\ {records[r].decision_index : r \in DOMAIN records}
                = {g \in cfg.sampled : g < counter}
           /\ \A r \in 2 .. Len(records) :
                 records[r - 1].decision_index < records[r].decision_index
           /\ \A r \in DOMAIN records :
                 LET d == ds[records[r].decision_index + 1]
                 IN d.ctx = records[r].ctx /\ d.choice = records[r].chosen
           /\ \A g \in 1 .. counter : g - 1 \notin cfg.sampled => ds[g].choice = pick(ds[g].ctx)

(* Policy improvement: when every rollout reaches the end of the run, the  *)
(* whole run costs no more than the greedy one, and less if it differs.    *)
NeverCostlier ==
    i = Ops /\ cfg.window >= Ops - 1 =>
        \/ script = Chosen(Run(<<>>, 0, Ops, <<>>).ds)
        \/ run_cost(script) < run_cost(<<>>)
=============================================================================
