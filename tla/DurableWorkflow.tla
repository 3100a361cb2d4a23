--------------------------- MODULE DurableWorkflow ---------------------------
(***************************************************************************)
(* A host that runs a workflow with durable external operations: the       *)
(* engine (WorkflowEngine), the ledger it keeps (OperationLedger), the     *)
(* storage of the ledger, and the worker that performs the effects.  The   *)
(* engine's bridge binds every frame to the call it serves: prepare the    *)
(* next queued call, persist the ledger, claim the prepared call, dispatch,*)
(* apply the worker's answer, persist again, settle the call.              *)
(*                                                                         *)
(* The worker is the promise of WorkerSession: one effect per key, a       *)
(* terminal state that never changes.  Answers reach the host late,        *)
(* repeatedly and out of order.                                            *)
(*                                                                         *)
(* The ledger is one record of a fenced store (FencedStore).  The host     *)
(* writes it under a lease it reserves when it loads it.  Other processes  *)
(* may recover an operation meanwhile (recover_bubblewrap_operation): they *)
(* ask a fresh worker for its state and write the answer under a lease of  *)
(* their own.                                                              *)
(***************************************************************************)
EXTENDS WorkflowEngine, OperationLedger

CONSTANTS
    Outcomes,       \* the terminal states the worker's effects end in
    Scopes,         \* what a behaviour has: `approvals' executions, `calls'
                    \* external calls per engine, compensation policies for
                    \* the operations `compensable', and the `recoverers'
    Recoverers,     \* processes that recover an operation, once each
    Recoverable,    \* the operations they recover
    MaxRevision,    \* bound on the storage revision of the ledger
    MaxFence        \* bound on its fencing tokens

ASSUME DurableWorkflowAssumption == Outcomes \subseteq Terminal

VARIABLES
    scope,          \* one of the Scopes
    ledger,         \* the ledger in the host's memory
    stored,         \* the ledger in storage
    floor,          \* its storage revision
    fence,          \* its current fencing token
    written,        \* the ledger as the host last loaded or wrote it
    base,           \* the storage revision of that
    lease,          \* the host's fencing token
    recovery,       \* where each recovery is
    prepared,       \* PreparedWorkflowExternalOperation values the host holds
    claimed,        \* ClaimedWorkflowExternalOperation values the host holds
    consents,       \* compensation approvals the host holds
    effect,         \* the worker's state of each operation
    inverse,        \* the worker's state of each compensation
    frames,         \* the dispatch frames sent, and when
    undone          \* the operations a compensation frame was sent for

storeVars == <<stored, floor, fence>>
hostVars == <<written, base, lease>>
storage == <<scope, storeVars, hostVars, recovery>>
opVars == <<ledger, storage, prepared, claimed, consents, effect, inverse,
            frames, undone>>
vars == <<engineVars, opVars>>

Keys == Prefix(NSteps) \X (1 .. MaxStepCalls)
KeyOf(c) == <<c.step, c.ord>>

Store == INSTANCE FencedStore WITH
    Payloads <- {}, NoPayload <- for_plan, payload <- stored

NoRecovery == [at |-> "start", ledger |-> for_plan, revision |-> 0, token |-> 0,
               key |-> <<0, 0>>, answer |-> "absent"]

Init ==
    /\ EngineInit
    /\ scope \in Scopes
    /\ ledger = for_plan
    /\ stored = for_plan /\ floor = 0 /\ fence = 1
    /\ written = for_plan /\ base = 0 /\ lease = 1
    /\ recovery = [r \in Recoverers |-> NoRecovery]
    /\ prepared = {}
    /\ claimed = {}
    /\ consents = {}
    /\ effect = [k \in Keys |-> "absent"]
    /\ inverse = [k \in Keys |-> "absent"]
    /\ frames = {}
    /\ undone = {}

-----------------------------------------------------------------------------
(* The bridge.  Every engine call checks that the plan is the engine's. *)

Token(c) == [engine |-> engine.id, step |-> c.step, call |-> c.id, key |-> KeyOf(c)]

Idle == engine.pc # "running"

(* The host stores each change of the ledger before it makes another. *)
LedgerStored == written = ledger

(* suspended_step_for_plan and the comparison with the token's step *)
TokenIsCurrent(t) ==
    /\ t.engine = engine.id
    /\ engine.pc = "suspended"
    /\ t.step = engine.step + 1

(* validate_external_operation_binding *)
BindingHolds(l, t) == Recorded(l, t.key) /\ ~Settled(l, t.key)

prepare_next_external_operation ==
    /\ engine.pc = "suspended"
    /\ LedgerStored
    /\ \E c \in NextQueued :
          /\ prepared = {}
          /\ IF Recorded(ledger, KeyOf(c))
             THEN ~Settled(ledger, KeyOf(c)) /\ ledger' = ledger
             ELSE ~RecordRefused(ledger, KeyOf(c)) /\ ledger' = record(ledger, KeyOf(c))
          /\ prepared' = prepared \cup {Token(c)}
    /\ UNCHANGED <<engineVars, storage, claimed, consents, effect, inverse,
                   frames, undone>>

(* The host claims only what it has persisted; the prepared value is spent
   whether or not the engine accepts it. *)
claim_prepared_external_operation(t) ==
    /\ Idle
    /\ t \in prepared
    /\ Recorded(written, t.key)
    /\ prepared' = {}
    /\ IF TokenIsCurrent(t) /\ BindingHolds(ledger, t)
          /\ \E c \in Queued : c.id = t.call
       THEN /\ calls' = Replace(CHOOSE c \in Queued : c.id = t.call, "claimed")
            /\ claimed' = claimed \cup {t}
       ELSE UNCHANGED <<calls, claimed>>
    /\ UNCHANGED <<style, engine, held, approvals, issued, saved, done, ledger,
                   storage, consents, effect, inverse, frames, undone>>

(* The variant trusts the claimed value without asking the runtime or the
   suspended step. *)
ClaimTrusted(t) == t.engine = engine.id

(* validate_claimed_external_operation: the call is still claimed in this
   engine's runtime and its step is the suspended one *)
ClaimIsCurrent(t) ==
    /\ TokenIsCurrent(t)
    /\ \E c \in calls : c.id = t.call /\ c.state = "claimed"

(* A frame is remembered with when it was sent: while the stored ledger had
   the operation open, or after its outcome was in storage, by a host that
   still held the ledger's lease or by one whose lease was taken over. *)
Sent(k) ==
    IF ~Settled(stored, k) THEN "open"
    ELSE IF lease = fence THEN "late" ELSE "fenced"

Frame(t) == [key |-> t.key, engine |-> engine.id, sent |-> Sent(t.key)]

prepare_authenticated_claimed_external_operation_dispatch(t) ==
    /\ Idle
    /\ t \in claimed
    /\ ClaimIsCurrent(t)
    /\ BindingHolds(ledger, t)
    /\ frames' = frames \cup {Frame(t)}
    /\ UNCHANGED <<engineVars, ledger, storage, prepared, claimed, consents,
                   effect, inverse, undone>>

(* apply_verified_operation_dispatch_result and
   apply_verified_operation_reconciliation, with any status the worker has
   had since it started *)
Observed(s) == IF s = "absent" THEN {} ELSE {"running", s}

ObserveOperation(k) ==
    /\ Idle
    /\ LedgerStored
    /\ \E s \in Observed(effect[k]) :
          /\ ~ObservationRefused(ledger, k, s)
          /\ ledger' = apply_verified_reconciliation(ledger, k, s)
    /\ UNCHANGED <<engineVars, storage, prepared, claimed, consents, effect,
                   inverse, frames, undone>>

(* The host's fenced compare_and_swap of the ledger.  A host whose write is
   refused loads the ledger again when it restarts. *)
Persist ==
    /\ written # ledger
    /\ Store!compare_and_swap(base, ledger, lease)
    /\ written' = ledger
    /\ base' = floor'
    /\ UNCHANGED <<engineVars, scope, ledger, lease, recovery, prepared,
                   claimed, consents, effect, inverse, frames, undone>>

-----------------------------------------------------------------------------
(* The script starts no more calls than the scope has. *)
CallsInScope == engine'.next <= scope.calls + 1

(* Settling calls.  The host completes a call once its operation's terminal
   state is stored; it gives a call up when the ledger shows that an earlier
   run already settled it, and, claimed or not, at its deadline: the runtime
   expires the call and the host hands the evaluation to the engine. *)

CompleteCall(t) ==
    /\ t \in claimed
    /\ Settled(written, t.key)
    /\ t.engine = engine.id
    /\ \E c \in calls : c.id = t.call /\ Settle(c) /\ CallsInScope
    /\ claimed' = claimed \ {t}
    /\ UNCHANGED <<ledger, storage, prepared, consents, effect, inverse, frames,
                   undone>>

GiveUpSettled ==
    /\ \E c \in NextQueued : Settled(ledger, KeyOf(c))
    /\ claim_next_external_tool
    /\ UNCHANGED opVars

DropCall(c) ==
    /\ \A t \in claimed : t.engine = engine.id => t.call # c.id
    /\ Settle(c) /\ CallsInScope
    /\ UNCHANGED opVars

ExpireQueued(c) ==
    /\ c.state = "queued"
    /\ Resume(c) /\ CallsInScope
    /\ UNCHANGED opVars

TimeOutCall(t) ==
    /\ t \in claimed
    /\ t.engine = engine.id
    /\ \E c \in calls : c.id = t.call /\ Settle(c) /\ CallsInScope
    /\ UNCHANGED opVars

-----------------------------------------------------------------------------
(* Compensation, which this host decides on between executions, when it
   holds no claimed call *)

RecordCompensation(k) ==
    /\ engine.pc = "idle"
    /\ LedgerStored
    /\ k \in scope.compensable
    /\ claimed = {}
    /\ ~CompensationRefused(ledger, k)
    /\ ledger' = record_compensation(ledger, k)
    /\ UNCHANGED <<engineVars, storage, prepared, claimed, consents, effect,
                   inverse, frames, undone>>

(* A session lives as long as the engine it was opened with. *)
approve_compensation(k) ==
    /\ engine.pc = "idle"
    /\ consents = {}
    /\ LedgerStored
    /\ Recorded(ledger, k)
    /\ State(ledger, k) = "succeeded"
    /\ Compensation(ledger, k) # "none"
    /\ consents' = {[engine |-> engine.id, revision |-> ledger.revision, key |-> k]}
    /\ UNCHANGED <<engineVars, ledger, storage, prepared, claimed, effect,
                   inverse, frames, undone>>

(* The approval is spent whether or not the engine accepts it. *)
prepare_authenticated_operation_compensation(a) ==
    /\ engine.pc = "idle"
    /\ a \in consents
    /\ consents' = {}
    /\ undone' = IF /\ a.engine = engine.id
                    /\ a.revision = ledger.revision
                    /\ State(ledger, a.key) = "succeeded"
                    /\ Compensation(ledger, a.key) # "none"
                 THEN undone \cup {a.key} ELSE undone
    /\ UNCHANGED <<engineVars, ledger, storage, prepared, claimed, effect,
                   inverse, frames>>

ObserveCompensation(k) ==
    /\ Idle
    /\ LedgerStored
    /\ \E s \in Observed(inverse[k]) :
          /\ ~CompensationObservationRefused(ledger, k, s)
          /\ ledger' = apply_verified_compensation(ledger, k, s)
    /\ UNCHANGED <<engineVars, storage, prepared, claimed, consents, effect,
                   inverse, frames, undone>>

-----------------------------------------------------------------------------
(* The worker, and restarts *)

Run(s, outcomes) == IF s = "absent" THEN {"running"}
                    ELSE IF s = "running" THEN outcomes ELSE {}

PerformEffect(k) ==
    /\ \E f \in frames : f.key = k
    /\ \E s \in Run(effect[k], Outcomes) : effect' = [effect EXCEPT ![k] = s]
    /\ UNCHANGED <<engineVars, ledger, storage, prepared, claimed, consents,
                   inverse, frames, undone>>

PerformInverse(k) ==
    /\ k \in undone
    /\ \E s \in Run(inverse[k], {"succeeded"}) : inverse' = [inverse EXCEPT ![k] = s]
    /\ UNCHANGED <<engineVars, ledger, storage, prepared, claimed, consents,
                   effect, frames, undone>>

(* The host crashes and comes back with what is stored and a fresh lease, or
   only the engine is replaced and the host keeps everything it holds. *)
RestartHost ==
    /\ Restart
    /\ \/ /\ Store!reserve_fence
          /\ lease' = fence'
          /\ ledger' = stored
          /\ written' = stored
          /\ base' = floor
          /\ prepared' = {}
          /\ claimed' = {}
          /\ consents' = {}
       \/ UNCHANGED <<storeVars, hostVars, ledger, prepared, claimed, consents>>
    /\ UNCHANGED <<scope, recovery, effect, inverse, frames, undone>>

-----------------------------------------------------------------------------
(* recover_bubblewrap_operation, by a process of its own *)

Recover(r, entry) ==
    /\ recovery' = [recovery EXCEPT ![r] = entry]
    /\ UNCHANGED <<engineVars, scope, ledger, hostVars, prepared, claimed,
                   consents, effect, inverse, frames, undone>>

(* prepare_recovery_ledger, up to its last check of the loaded ledger *)
LoadLedger(r, k) ==
    /\ r \in scope.recoverers
    /\ recovery[r].at = "start"
    /\ Recorded(stored, k) /\ ~Settled(stored, k)
    /\ Recover(r, [recovery[r] EXCEPT !.at = "loaded", !.ledger = stored,
                                      !.revision = floor, !.key = k])
    /\ UNCHANGED storeVars

(* The variant writes under the fence it finds. *)
ReserveNoFence(r) ==
    /\ recovery[r].at = "loaded"
    /\ UNCHANGED storeVars
    /\ Recover(r, [recovery[r] EXCEPT !.at = "prepared", !.token = fence])

(* prepare_recovery_ledger: the fence is reserved last *)
ReserveFence(r) ==
    /\ recovery[r].at = "loaded"
    /\ Store!reserve_fence
    /\ Recover(r, [recovery[r] EXCEPT !.at = "prepared", !.token = fence'])

(* execute_reconciliation: the fresh worker answers, once; a failed or late
   exchange ends the recovery where it is. *)
execute_reconciliation(r) ==
    /\ recovery[r].at = "prepared"
    /\ \E s \in Observed(effect[recovery[r].key]) :
          Recover(r, [recovery[r] EXCEPT !.at = "answered", !.answer = s])
    /\ UNCHANGED storeVars

(* The ledger a recovery writes *)
Reconciled(e) == apply_verified_reconciliation(e.ledger, e.key, e.answer)

(* The variant writes over whatever is stored. *)
persist_over_anything(r) ==
    LET e == recovery[r] IN
    /\ e.at = "answered"
    /\ ~ObservationRefused(e.ledger, e.key, e.answer)
    /\ Store!compare_and_swap(floor, Reconciled(e), fence)
    /\ Recover(r, [NoRecovery EXCEPT !.at = "over"])

(* The answer is written only at the revision that was loaded and under the
   newest lease; any other outcome ends the recovery without a write. *)
persist_recovery_observation(r) ==
    LET e == recovery[r] IN
    /\ e.at = "answered"
    /\ \/ /\ ~ObservationRefused(e.ledger, e.key, e.answer)
          /\ Store!compare_and_swap(e.revision, Reconciled(e), e.token)
       \/ UNCHANGED storeVars
    /\ Recover(r, [NoRecovery EXCEPT !.at = "over"])

RecoverOperation(r) ==
    \/ \E k \in Recoverable : LoadLedger(r, k)
    \/ ReserveFence(r)
    \/ execute_reconciliation(r)
    \/ persist_recovery_observation(r)

-----------------------------------------------------------------------------
(* The host approves an execution, from the checkpoint it stored if there is
   one, and starts it at once; approvals that wait, evaluations the host
   holds and steps that are refused are left to WorkflowEngine. *)
Launch ==
    /\ engine.pc = "idle"
    /\ issued < scope.approvals
    /\ issued' = issued + 1
    /\ \E c \in IF saved = {} THEN {[completed |-> 0, data |-> {}]} ELSE saved :
          /\ c.completed < NSteps
          /\ engine' = [engine EXCEPT !.pc = "running", !.step = c.completed,
                                      !.leases = Leases(c.completed + 1),
                                      !.data = c.data, !.last = {},
                                      !.reported = NoCount]
    /\ UNCHANGED <<style, calls, held, approvals, saved, done>>

RunSteps ==
    /\ Complete \/ RunStep
    /\ CallsInScope
    /\ UNCHANGED <<style, held, approvals, issued, saved>>

Drives ==
    /\ Launch \/ RunSteps \/ checkpoint_after
    /\ UNCHANGED opVars

Operate(k) ==
    \/ ObserveOperation(k)
    \/ RecordCompensation(k)
    \/ approve_compensation(k)
    \/ ObserveCompensation(k)
    \/ PerformEffect(k)
    \/ PerformInverse(k)

Next ==
    \/ Drives
    \/ prepare_next_external_operation
    \/ \E t \in prepared : claim_prepared_external_operation(t)
    \/ \E t \in claimed :
          \/ prepare_authenticated_claimed_external_operation_dispatch(t)
          \/ CompleteCall(t)
          \/ TimeOutCall(t)
    \/ GiveUpSettled
    \/ \E c \in calls : DropCall(c) \/ ExpireQueued(c)
    \/ Persist
    \/ \E k \in Keys : Operate(k)
    \/ \E a \in consents : prepare_authenticated_operation_compensation(a)
    \/ RestartHost
    \/ \E r \in Recoverers : RecoverOperation(r)

Spec == Init /\ [][Next]_vars

-----------------------------------------------------------------------------
(* Properties *)

(* A stored terminal state, of an operation or of its compensation, is final
   and is the state the worker reached, whatever late or repeated answer,
   unsaved ledger change, restart or superseded recovery comes after it:
   nobody acts on an outcome the worker does not have (accepts, and "the
   final fenced CAS still detects every race"). *)
StoredOutcomeIsFinal ==
    [][\A k \in DOMAIN stored.operations :
          /\ is_terminal(State(stored, k)) =>
                /\ State(stored', k) = State(stored, k)
                /\ State(stored, k) = effect[k]
          /\ is_terminal(Compensation(stored, k)) =>
                /\ Compensation(stored', k) = Compensation(stored, k)
                /\ Compensation(stored, k) = inverse[k]]_vars

(* Once an operation's outcome is in storage, whether this host, an earlier
   one or a recovery wrote it, the holder of the ledger's lease sends no
   dispatch frame for it, not even for a call it prepared or claimed before
   the answer arrived.  Only a host whose lease was taken over may still send
   one: its copy of the ledger is old, and it can store nothing any more
   (validate_external_operation_binding, persist_recovery_observation). *)
OutcomeStopsDispatch == \A f \in frames : f.sent # "late"

(* A dispatch frame is sent only for a recorded and stored operation, and
   only while the very call it serves is claimed in the suspended step:
   values prepared or claimed under an earlier step or an earlier engine
   never reach a worker. *)
DispatchServesCurrentCall ==
    [][\A f \in frames' \ frames :
          /\ Recorded(stored, f.key)
          /\ engine.pc = "suspended"
          /\ \E c \in calls : /\ KeyOf(c) = f.key
                              /\ c.state = "claimed"
                              /\ c.step = engine.step + 1]_vars

(* An inverse effect is asked for only when the worker performed the effect
   and the decision is in storage, so a crash can repeat the request but
   not lose or invent the decision. *)
CompensationIsDecided ==
    \A k \in undone : /\ effect[k] = "succeeded"
                      /\ Recorded(stored, k)
                      /\ Compensation(stored, k) # "none"

=============================================================================
