--------------------------- MODULE WorkflowEngine ---------------------------
(***************************************************************************)
(* The workflow engine of octoscript-workflow (src/lib.rs): a reviewed     *)
(* plan of ordered steps runs under one-use approvals that carry the       *)
(* capability leases of the steps; a step whose script awaits an external  *)
(* tool suspends the whole execution until the host settles the call; a    *)
(* checkpoint lets a later engine resume after the completed prefix.       *)
(*                                                                         *)
(* Steps are numbered 1 .. NSteps.  A script's evaluation is a choice of   *)
(* what it starts, awaits and returns.  Local (host-pump) calls are driven *)
(* to their end inside the evaluation and leave no trace here.  Every      *)
(* engine call is one step of this module except `execute', `resume' and   *)
(* `continue_suspended_execution', whose loop over steps is unrolled: while*)
(* the engine is "running" the host cannot call it, but can crash.         *)
(***************************************************************************)
EXTENDS Naturals, Integers, Sequences, FiniteSets

CONSTANTS
    NSteps,         \* the steps of the plan
    Modes,          \* the executions considered: "plain", "dataflow"
    Leasings,       \* how approvals carry leases: "shared", "per_step"
    Softs,          \* whether the soft time budget is below the hard one
    MaxStepCalls,   \* external calls one evaluation of a step starts
    MaxCalls,       \* external calls one engine starts
    MaxEngines,     \* engines created, one after the other
    MaxApprovals    \* approvals issued

ASSUME EngineAssumption ==
    /\ NSteps \in Nat \ {0}
    /\ {MaxStepCalls, MaxCalls, MaxEngines, MaxApprovals} \subseteq Nat

VARIABLES
    style,          \* [mode, leasing, soft] of the plan's executions
    engine,         \* the WorkflowEngine that is alive
    calls,          \* the unsettled external calls of its CapabilityRuntime
    held,           \* {} or {an Evaluation the host got from the runtime}
    approvals,      \* the Approval values the host holds
    issued,         \* how many approvals were issued
    saved,          \* {} or {the checkpoint in durable storage, with its data}
    done            \* the steps that have succeeded under some engine

engineVars == <<style, engine, calls, held, approvals, issued, saved, done>>

Prefix(n) == 1 .. n
Shared == 0         \* the lease that covers every step
NoLease == -1
NoCount == -1

(***************************************************************************)
(* A new engine: nothing suspended, no dataflow retained.  `step' counts   *)
(* the completed steps of the execution under way (the code's step_index   *)
(* of the step that runs next); `base' is the first call id of the step.   *)
(***************************************************************************)
NewEngine(id) ==
    [id |-> id, pc |-> "idle", step |-> 0, lease |-> NoLease, leases |-> <<>>,
     data |-> {}, last |-> {}, global |-> {}, reported |-> NoCount,
     base |-> 1, next |-> 1]

EngineInit ==
    /\ style \in [mode : Modes, leasing : Leasings, soft : Softs]
    /\ engine = NewEngine(1)
    /\ calls = {}
    /\ held = {}
    /\ approvals = {}
    /\ issued = 0
    /\ saved = {}
    /\ done = {}

Dataflow == style.mode = "dataflow"

(***************************************************************************)
(* Leases (WorkflowCapabilityLeases).  A lease is named by the step it was *)
(* issued for.                                                             *)
(***************************************************************************)
Leases(first) ==
    IF style.leasing = "shared" THEN <<Shared>>
    ELSE [i \in 1 .. NSteps - first + 1 |-> first + i - 1]

take_for_step(e) ==
    [e EXCEPT !.lease = Head(e.leases), !.leases = Tail(@)]

complete_step(e) ==
    [e EXCEPT !.lease = NoLease,
              !.leases = IF style.leasing = "shared" THEN <<e.lease>> ELSE @]

(* validate_step_capability_lease_count, for per-step leases only *)
LeaseCountHolds(leases, completed) ==
    style.leasing = "shared" \/ Len(leases) = NSteps - completed

(***************************************************************************)
(* Dataflow contexts.  Outputs are named by the step that produced them.   *)
(***************************************************************************)
dataflow_snapshot(e) ==
    IF e.pc = "suspended" /\ Dataflow THEN {e.data} ELSE e.last

validate_for_completed_prefix(data, completed) ==
    completed <= NSteps /\ data = Prefix(completed)

(***************************************************************************)
(* Evaluations.  A slice of a step's script, from its start or from the    *)
(* call it awaited, starts some external calls and then suspends on one of *)
(* the live calls it started, is paused by the soft time budget, which the *)
(* engine takes for a suspension too although nothing is awaited, returns a*)
(* value the engine can retain ("succeeded"), returns one it cannot (not   *)
(* JSON, too large, against the step's contract: "unusable", dataflow      *)
(* only), or fails.                                                        *)
(***************************************************************************)
Started(e, n) ==
    {[id |-> i, step |-> e.step + 1, ord |-> i - e.base + 1,
      state |-> "queued", awaited |-> FALSE] : i \in e.next .. e.next + n - 1}

Await(cs, c) == (cs \ {c}) \cup {[c EXCEPT !.awaited = TRUE]}

Slices(e, cs) ==
    UNION {LET now == cs \cup Started(e, n)
           IN  {[status |-> s, calls |-> now, next |-> e.next + n] :
                   s \in {"succeeded", "failed"}
                         \cup (IF Dataflow THEN {"unusable"} ELSE {})}
               \cup
               {[status |-> "suspended", calls |-> waiting, next |-> e.next + n] :
                   waiting \in {Await(now, c) : c \in {d \in now : d.id >= e.base}}
                           \cup (IF style.soft THEN {now} ELSE {})} :
           n \in {k \in 0 .. MaxStepCalls :
                     /\ e.next - e.base + k <= MaxStepCalls
                     /\ e.next + k - 1 <= MaxCalls}}

(***************************************************************************)
(* The end of an execution, however it ends: the leases are dropped, a     *)
(* dataflow context is kept as the last one and the script's global is     *)
(* cleared.                                                                *)
(***************************************************************************)
Ended(e, completed) ==
    [e EXCEPT !.pc = "idle", !.lease = NoLease, !.leases = <<>>,
              !.last = IF Dataflow THEN {e.data} ELSE @,
              !.global = {}, !.reported = completed]

(* The variant counts the step that failed among the completed ones. *)
drive_step_counts_failed(e, r) ==
    CASE r.status = "suspended" ->
            [e EXCEPT !.pc = "suspended", !.reported = e.step]
      [] r.status = "succeeded" ->
            complete_step([e EXCEPT !.pc = "running", !.step = @ + 1, !.global = {},
                                    !.data = IF Dataflow THEN @ \cup {e.step + 1}
                                             ELSE @])
      [] OTHER -> Ended(e, e.step + 1)

(* The variant keeps an output that the dataflow context refused. *)
drive_step_keeps_refused(e, r) ==
    CASE r.status = "suspended" ->
            [e EXCEPT !.pc = "suspended", !.reported = e.step]
      [] r.status = "succeeded" ->
            complete_step([e EXCEPT !.pc = "running", !.step = @ + 1, !.global = {},
                                    !.data = IF Dataflow THEN @ \cup {e.step + 1}
                                             ELSE @])
      [] r.status = "unusable" ->
            Ended([e EXCEPT !.data = @ \cup {e.step + 1}], e.step)
      [] OTHER -> Ended(e, e.step)

(* drive_step and drive_dataflow_step, for the engine's own fields *)
drive_step(e, r) ==
    CASE r.status = "suspended" ->
            [e EXCEPT !.pc = "suspended", !.reported = e.step]
      [] r.status = "succeeded" ->
            complete_step([e EXCEPT !.pc = "running", !.step = @ + 1, !.global = {},
                                    !.data = IF Dataflow THEN @ \cup {e.step + 1}
                                             ELSE @])
      [] OTHER -> Ended(e, e.step)

(* The variant leaves the calls nobody awaited in the queue. *)
cancel_unawaited_nothing(r) == r.calls

(* cancel_unawaited_external_work, at the end of a step *)
cancel_unawaited_external_work(r) ==
    IF r.status = "suspended" THEN r.calls
    ELSE {c \in r.calls : c.state # "queued"}

(* The engine applies an evaluation's report to the step under way. *)
Drive(e, r) ==
    /\ engine' = drive_step(e, r)
    /\ calls' = cancel_unawaited_external_work(r)
    /\ done' = done \cup (IF r.status = "succeeded" THEN {e.step + 1} ELSE {})

-----------------------------------------------------------------------------
(* Approvals *)

Approval(completed, data, leases) ==
    [engine |-> engine.id, completed |-> completed, data |-> data,
     leases |-> leases, nonce |-> issued + 1]

Issue(a) ==
    /\ issued < MaxApprovals
    /\ engine.pc # "running"
    /\ approvals' = approvals \cup {a}
    /\ issued' = issued + 1
    /\ UNCHANGED <<style, engine, calls, held, saved, done>>

(* approve and approve_dataflow, with a full or a per-step set of leases *)
approve == Issue(Approval(0, {}, Leases(1)))

(* The variant accepts per-step leases without counting them. *)
approve_resume_uncounted ==
    \E c \in saved, first \in 1 .. NSteps + 1 :
       /\ Dataflow => validate_for_completed_prefix(c.data, c.completed)
       /\ Issue(Approval(c.completed, c.data, Leases(first)))

(* approve_resume and approve_dataflow_resume: the host supplies leases for
   the steps from `first' on; the engine checks their number against the
   steps that remain. *)
approve_resume ==
    \E c \in saved, first \in 1 .. NSteps + 1 :
       /\ Dataflow => validate_for_completed_prefix(c.data, c.completed)
       /\ LeaseCountHolds(Leases(first), c.completed)
       /\ style.leasing = "shared" => first = 1
       /\ Issue(Approval(c.completed, c.data, Leases(first)))

(* approval_matches: the approval was issued by this engine *)
approval_matches(a) == a.engine = engine.id

(* execute, execute_dataflow, resume, resume_dataflow: the call consumes
   the approval whether or not it is accepted.  It is refused while another
   execution is suspended, when the approval is another engine's, and when
   the runtime no longer accepts the leases. *)
execute(a) ==
    /\ engine.pc # "running"
    /\ a \in approvals
    /\ approvals' = approvals \ {a}
    /\ \/ engine' = engine
       \/ /\ engine.pc = "idle"
          /\ approval_matches(a)
          /\ engine' = [engine EXCEPT !.pc = "running", !.step = a.completed,
                                     !.leases = a.leases, !.data = a.data,
                                     !.last = {}, !.reported = NoCount]
    /\ UNCHANGED <<style, calls, held, issued, saved, done>>

-----------------------------------------------------------------------------
(* The step loop: execute_from and execute_dataflow_from *)

Complete ==
    /\ engine.pc = "running"
    /\ engine.step = NSteps
    /\ engine' = Ended(engine, NSteps)
    /\ UNCHANGED <<calls, done>>

(* The step's lease and its dataflow context, as its evaluation starts *)
Entering ==
    [take_for_step(engine) EXCEPT !.base = engine.next,
                                  !.global = IF Dataflow THEN {engine.data} ELSE {}]

RunStep ==
    /\ engine.pc = "running"
    /\ engine.step < NSteps
    /\ engine.leases # <<>>
    /\ \E r \in Slices(Entering, calls) :
          Drive([Entering EXCEPT !.next = r.next], r)

(* The source is refused by the syntax check, or the runtime or the lease
   refuses to start the evaluation: no script ran. *)
RefuseStep ==
    /\ engine.pc = "running"
    /\ engine.step < NSteps
    /\ \E completed \in {engine.step, NoCount} : engine' = Ended(engine, completed)
    /\ UNCHANGED <<calls, done>>

Advance ==
    /\ Complete \/ RunStep \/ RefuseStep
    /\ UNCHANGED <<style, held, approvals, issued, saved>>

-----------------------------------------------------------------------------
(* External calls *)

Queued == {c \in calls : c.state = "queued"}
NextQueued == {c \in Queued : \A d \in Queued : c.id <= d.id}
Replace(c, state) == (calls \ {c}) \cup {[c EXCEPT !.state = state]}

claim_next_external_tool ==
    /\ engine.pc = "suspended"
    /\ \E c \in NextQueued : calls' = Replace(c, "claimed")
    /\ UNCHANGED <<style, engine, held, approvals, issued, saved, done>>

request_external_tool_cancellation(c) ==
    /\ engine.pc = "suspended"
    /\ c \in calls
    /\ c.state = "claimed"
    /\ calls' = Replace(c, "cancel_requested")
    /\ UNCHANGED <<style, engine, held, approvals, issued, saved, done>>

(* A call is settled, and the script that awaited it runs on and is driven
   by the engine. *)
Resume(c) ==
    /\ engine.pc = "suspended"
    /\ c \in calls
    /\ IF c.awaited
       THEN \E r \in Slices(engine, calls \ {c}) :
               Drive([engine EXCEPT !.next = r.next], r)
       ELSE calls' = calls \ {c} /\ UNCHANGED <<engine, done>>
    /\ UNCHANGED <<style, held, approvals, issued, saved>>

(* The variant refuses the result of a call whose cancellation was asked
   for. *)
SettleUncancelled(c) == c.state = "claimed" /\ Resume(c)

(* complete_external_tool, cancel_external_tool and, once cancellation was
   requested, confirm_external_tool_cancellation *)
Settle(c) == c.state # "queued" /\ Resume(c)

(* The host settles the call through the runtime and holds the evaluation
   that comes out of it: a reconciliation of a claimed call, or a deadline
   (expire_due_pending), which ends queued calls as well. *)
SettleInRuntime(c) ==
    /\ engine.pc # "running"
    /\ held = {}
    /\ c \in calls
    /\ IF c.awaited
       THEN \E r \in Slices(engine, calls \ {c}) :
               /\ engine' = [engine EXCEPT !.next = r.next]
               /\ calls' = r.calls
               /\ held' = {[status |-> r.status, engine |-> engine.id]}
       ELSE calls' = calls \ {c} /\ UNCHANGED <<engine, held>>
    /\ UNCHANGED <<style, approvals, issued, saved, done>>

continue_suspended_execution ==
    /\ engine.pc # "running"
    /\ \E h \in held :
          IF engine.pc = "suspended"
          THEN Drive(engine, [status |-> h.status, calls |-> calls])
          ELSE UNCHANGED <<engine, calls, done>>
    /\ held' = {}
    /\ UNCHANGED <<style, approvals, issued, saved>>

-----------------------------------------------------------------------------
(* Checkpoints and restarts *)

(* checkpoint_after and dataflow_checkpoint_after, with the count the
   engine reported and the snapshot it retains; the host stores both *)
checkpoint_after ==
    /\ engine.pc # "running"
    /\ engine.reported # NoCount
    /\ IF Dataflow
       THEN \E d \in dataflow_snapshot(engine) :
               /\ validate_for_completed_prefix(d, engine.reported)
               /\ saved' = {[completed |-> engine.reported, data |-> d]}
       ELSE saved' = {[completed |-> engine.reported, data |-> {}]}
    /\ UNCHANGED <<style, engine, calls, held, approvals, issued, done>>

(* The host takes the last context away, with the count that goes with it. *)
take_dataflow_snapshot ==
    /\ engine.pc = "idle"
    /\ engine.last # {}
    /\ engine' = [engine EXCEPT !.last = {}, !.reported = NoCount]
    /\ UNCHANGED <<style, calls, held, approvals, issued, saved, done>>

(* The engine is dropped, at any point, with its runtime; a host that
   survives may still hold approvals and the plan of the old engine. *)
Restart ==
    /\ engine.id < MaxEngines
    /\ engine' = NewEngine(engine.id + 1)
    /\ calls' = {}
    /\ held' = {}
    /\ approvals' \in {approvals, {}}
    /\ UNCHANGED <<style, issued, saved, done>>

-----------------------------------------------------------------------------
EngineNext ==
    \/ approve
    \/ approve_resume
    \/ \E a \in approvals : execute(a)
    \/ Advance
    \/ claim_next_external_tool
    \/ \E c \in calls : \/ request_external_tool_cancellation(c)
                        \/ Settle(c)
                        \/ SettleInRuntime(c)
    \/ continue_suspended_execution
    \/ checkpoint_after
    \/ take_dataflow_snapshot
    \/ Restart

(* The engine's own loop runs on; the host claims what is queued and settles
   what it claimed, and hands a held evaluation back. *)
EngineFairness ==
    /\ WF_engineVars(Advance)
    /\ WF_engineVars(claim_next_external_tool)
    /\ WF_engineVars(\E c \in calls : c.awaited /\ Settle(c))
    /\ WF_engineVars(continue_suspended_execution)

EngineSpec == EngineInit /\ [][EngineNext]_engineVars /\ EngineFairness

-----------------------------------------------------------------------------
(* Properties *)

(* The lease that governs a step is the one issued for it.  While an
   execution is under way the leases left are exactly those of the steps
   that come after, so an approval never runs out and a later step's
   authority is never active while an earlier step evaluates or is
   suspended (WorkflowCapabilityLeases; approve_resume's lease count). *)
LeaseFitsStep ==
    /\ engine.pc = "suspended" =>
          /\ engine.lease \in {Shared, engine.step + 1}
          /\ engine.leases = IF style.leasing = "shared" THEN <<>>
                             ELSE Leases(engine.step + 2)
    /\ engine.pc = "running" => engine.leases = Leases(engine.step + 1)

(* A step runs only when every step before it has succeeded, whatever
   sequence of failures, checkpoints, restarts and resumptions led there,
   and a stored checkpoint names only steps that have succeeded. *)
NoStepSkipped ==
    /\ engine.pc # "idle" => Prefix(engine.step) \subseteq done
    /\ \A c \in saved : Prefix(c.completed) \subseteq done

(* Whenever the engine has reported a completed-step count and still holds a
   dataflow context, that context holds the outputs of exactly those steps,
   so dataflow_checkpoint_after accepts the pair: a failed, refused or
   suspended step leaves neither an output too many nor one too few.  The
   script's `workflow' global is that context while a step is suspended and
   is gone when the execution has ended (clear_dataflow_context). *)
SnapshotFitsReport ==
    (Dataflow /\ engine.pc # "running") =>
        /\ engine.reported # NoCount =>
              dataflow_snapshot(engine) = {Prefix(engine.reported)}
        /\ engine.global = IF engine.pc = "suspended" THEN {engine.data} ELSE {}

(* A queued call belongs to the step that is suspended.  A call the script
   started and never awaited is cancelled before the next step runs and
   before the execution ends (cancel_unawaited_external_work), so the host
   never claims one step's call under another step's approval. *)
QueuedCallsAreCurrent ==
    \A c \in Queued : /\ engine.pc = "suspended"
                      /\ c.step = engine.step + 1
                      /\ c.id >= engine.base

(* The script was paused by its soft time budget and awaits nothing: no
   call that is settled and no evaluation that is held can continue it.
   CapabilityRuntime shows the pause in the runtime. *)
SoftPaused ==
    /\ style.soft
    /\ engine.pc = "suspended"
    /\ held = {}
    /\ \A c \in calls : ~c.awaited

(* A suspended execution ends, for a host that claims and settles calls and
   hands the evaluations it holds back, unless the soft time budget pauses
   its script on the way: every other suspension waits on a live call or on a
   held evaluation, whichever of the engine and the runtime settled the call
   before it, and however many steps and suspensions are still to come
   (drive_step, continue_suspended_execution). *)
SuspensionEnds ==
    (engine.pc = "suspended") ~> (engine.pc = "idle" \/ SoftPaused)

=============================================================================
