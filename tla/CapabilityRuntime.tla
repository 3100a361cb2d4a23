------------------------- MODULE CapabilityRuntime -------------------------
(***************************************************************************)
(* CapabilityRuntime and CapabilityHost: one script evaluation at a time,  *)
(* its tool calls under a capability lease, and the promises of its        *)
(* deferred calls, which the host pumps, claims, completes, cancels,       *)
(* retries, expires and collects in any order.                             *)
(*                                                                         *)
(* The VM is single-flight and the runtime single-threaded: host calls     *)
(* happen only between script steps that left the VM idle or paused, while *)
(* deadlines may pass at any time.  A call that ends in an error and       *)
(* changes only the audit log or consumes an identifier is not a step.     *)
(***************************************************************************)
EXTENDS Naturals, FiniteSets

CONSTANTS
    Tools,          \* tool names
    External,       \* those registered for external dispatch
    Leases,         \* capability leases the host may issue
    Grants,         \* Grants[l][t]: calls of t that lease l allows
    NoLease,
    MaxPromises,    \* bound on the promise identifiers handed out
    MaxCalls,       \* ToolPolicy::max_calls
    MaxPending,     \* max_pending_tools
    Limits          \* configurations: `attempts` is ToolPolicy::max_attempts,
                    \* `chunks` ToolStreamPolicy::max_chunks, `soft` says that
                    \* the soft time budget is below the hard one, and
                    \* `promises` bounds the identifiers handed out

ASSUME CapabilityRuntimeAssumption ==
    /\ External \subseteq Tools
    /\ NoLease \notin Leases
    /\ Grants \in [Leases -> [Tools -> 0..MaxCalls]]
    /\ MaxPromises \in Nat /\ MaxCalls \in Nat /\ MaxPending \in Nat
    /\ Limits \subseteq [promises : 0..MaxPromises, attempts : Nat \ {0},
                          chunks : Nat, soft : BOOLEAN]

VARIABLES
    limits,         \* the configuration, fixed when the runtime is built
    registered,     \* CapabilityHost.tools
    calls,          \* RegisteredTool.calls
    issued,         \* the catalog each lease was issued against
    leaseCalls,     \* CapabilityLeaseState.calls
    active,         \* CapabilityHost.active_lease
    vm,             \* idle, running, paused
    under,          \* history: the lease the current evaluation started with
    pending,        \* CapabilityHost.pending, by promise
    next,           \* CapabilityHost.next_pending_id
    reachable,      \* promises whose handle the script still holds
    claimed,        \* history: promises handed to the host
    settled         \* history: terminal audit events of each promise

leaseVars == <<limits, registered, issued, active, under>>
promiseVars == <<pending, next, reachable, claimed, settled>>
vars == <<leaseVars, calls, leaseCalls, vm, promiseVars>>

-----------------------------------------------------------------------------

Promises == 1..MaxPromises

Unresolved == {"HostPump", "ExternalQueued", "ExternalClaimed",
               "ExternalCancellationRequested"}

(* How a call ends; an answer is a value, a denial or a failure, or a value that
   its output contract turns into a failure. *)
Results == {"Answered", "Cancelled", "TimedOut"}

Held == DOMAIN pending

In(states) == {p \in Held : pending[p].state \in states}

Init ==
    /\ limits \in Limits
    /\ registered = {}
    /\ calls = [t \in Tools |-> 0]
    /\ issued = [l \in Leases |-> {}]
    /\ leaseCalls = [l \in Leases |-> [t \in Tools |-> 0]]
    /\ active = NoLease
    /\ vm = "idle"
    /\ under = NoLease
    /\ pending = [p \in {} |-> 0]
    /\ next = 0
    /\ reachable = {}
    /\ claimed = {}
    /\ settled = [p \in Promises |-> 0]

-----------------------------------------------------------------------------
(* Catalog, leases and evaluations. *)

(* register_with_validators *)
register(t) ==
    /\ vm # "running"
    /\ active = NoLease
    /\ t \notin registered
    /\ registered' = registered \cup {t}
    /\ UNCHANGED <<limits, issued, active, under, calls, leaseCalls, vm, promiseVars>>

(* issue_capability_lease, for a nonempty grant over registered tools. *)
issue_capability_lease(l) ==
    /\ vm # "running"
    /\ active = NoLease
    /\ issued[l] = {}
    /\ registered # {}
    /\ \A t \in Tools : Grants[l][t] > 0 => t \in registered
    /\ issued' = [issued EXCEPT ![l] = registered]
    /\ UNCHANGED <<limits, registered, active, under, calls, leaseCalls, vm, promiseVars>>

(* eval *)
eval ==
    /\ vm = "idle"
    /\ vm' = "running"
    /\ under' = NoLease
    /\ UNCHANGED <<limits, registered, issued, active, calls, leaseCalls, promiseVars>>

(* eval_with_capability_lease: the lease is bound to the catalog it was issued
   against.  If the VM is paused, the evaluation fails and the lease that was
   activated for it is cleared again. *)
eval_with_capability_lease(l) ==
    /\ vm = "idle"
    /\ active = NoLease
    /\ issued[l] = registered /\ issued[l] # {}
    /\ active' = l
    /\ under' = l
    /\ vm' = "running"
    /\ UNCHANGED <<limits, registered, issued, calls, leaseCalls, promiseVars>>

(* clear_capability_lease_after an evaluation that returned; the variant takes
   a suspended evaluation for a finished one. *)
ClearLeaseAlways(suspended) == active' = NoLease

clear_capability_lease_after(suspended) ==
    active' = IF suspended THEN active ELSE NoLease

(* The evaluation ends.  Handles the script did not keep in its module become
   unreachable. *)
Finish ==
    /\ vm = "running"
    /\ vm' = "idle"
    /\ clear_capability_lease_after(FALSE)
    /\ under' = NoLease
    /\ reachable' \in SUBSET reachable
    /\ UNCHANGED <<limits, registered, issued, calls, leaseCalls, pending, next,
                   claimed, settled>>

(* The soft time budget pauses the thread; only a promise could resume it. *)
SoftYield ==
    /\ limits.soft
    /\ vm = "running"
    /\ vm' = "paused"
    /\ clear_capability_lease_after(TRUE)
    /\ UNCHANGED <<limits, registered, issued, under, calls, leaseCalls, promiseVars>>

-----------------------------------------------------------------------------
(* Tool calls of the script. *)

(* reserve_registered and CapabilityLeaseState::authorize: one call of t is
   charged to the tool's budget and to the active lease. *)
reserve(t) ==
    /\ t \in registered
    /\ calls[t] < MaxCalls
    /\ calls' = [calls EXCEPT ![t] = @ + 1]
    /\ \/ active = NoLease /\ UNCHANGED leaseCalls
       \/ /\ active # NoLease
          /\ leaseCalls[active][t] < Grants[active][t]
          /\ leaseCalls' = [leaseCalls EXCEPT ![active][t] = @ + 1]

(* tool.call: a host-pump tool runs at once. *)
call(t) ==
    /\ vm = "running"
    /\ t \notin External
    /\ reserve(t)
    /\ UNCHANGED <<leaseVars, vm, promiseVars>>

(* begin_async_with_format: room for one more promise. *)
HasRoom == Cardinality(Held) < MaxPending

(* tool.start: begin_async and new_tool_promise. *)
start(t) ==
    /\ vm = "running"
    /\ HasRoom
    /\ next < limits.promises
    /\ reserve(t)
    /\ next' = next + 1
    /\ pending' = [p \in Held \cup {next + 1} |->
          IF p \in Held THEN pending[p] ELSE
          [tool |-> t, waiting |-> FALSE, attempt |-> 1, chunks |-> 0,
           state |-> IF t \in External THEN "ExternalQueued" ELSE "HostPump",
           orphaned |-> FALSE, expired |-> FALSE, result |-> "none"]]
    /\ reachable' = reachable \cup {next + 1}
    /\ UNCHANGED <<leaseVars, vm, claimed, settled>>

(* promise.await() of an unresolved promise pauses the thread. *)
await(p) ==
    /\ vm = "running"
    /\ p \in reachable \cap In(Unresolved)
    /\ ~pending[p].waiting
    /\ pending' = [pending EXCEPT ![p].waiting = TRUE]
    /\ vm' = "paused"
    /\ clear_capability_lease_after(TRUE)
    /\ UNCHANGED <<limits, registered, issued, under, calls, leaseCalls, next, reachable,
                   claimed, settled>>

(* The script lets go of a promise. *)
Drop(p) ==
    /\ vm = "running"
    /\ p \in reachable
    /\ reachable' = reachable \ {p}
    /\ UNCHANGED <<leaseVars, calls, leaseCalls, vm, pending, next, claimed, settled>>

-----------------------------------------------------------------------------
(* Resolving promises. *)

(* complete_ticket: a result that comes after the deadline is a timeout; the
   variant accepts it. *)
CompleteTicketLate(p, result) == result

complete_ticket(p, result) == IF pending[p].expired THEN "TimedOut" ELSE result

(* resume_pending_evaluation if one of the promises ps was awaited. *)
Resumed(ps) == IF \E p \in ps : pending[p].waiting THEN "running" ELSE vm

(* The promises ps become Ready, each with its terminal audit event; those
   whose handle was collected are forgotten; if one of them was awaited, the
   paused evaluation goes on. *)
Resolve(ps, result) ==
    /\ pending' = [p \in Held \ {q \in ps : pending[q].orphaned} |->
          IF p \in ps
          THEN [pending[p] EXCEPT !.state = "Ready", !.waiting = FALSE,
                                  !.result = complete_ticket(p, result)]
          ELSE pending[p]]
    /\ settled' = [p \in Promises |-> settled[p] + IF p \in ps THEN 1 ELSE 0]
    /\ vm' = Resumed(ps)
    /\ UNCHANGED <<leaseVars, calls, leaseCalls, next, reachable, claimed>>

(* pump: one queued local call runs. *)
pump ==
    /\ vm # "running"
    /\ \E p \in In({"HostPump"}) : Resolve({p}, "Answered")

(* The states in which the host may resolve an external call; the variant lets
   it answer a call again. *)
AnswerableAlways == Unresolved \cup {"Ready"}

Answerable == {"ExternalClaimed", "ExternalCancellationRequested"}

(* complete_external_tool, cancel_external_tool, and reconcile_external_tool
   with a terminal status. *)
complete_external(p, result) ==
    /\ vm # "running"
    /\ p \in In(Answerable)
    /\ Resolve({p}, result)

(* confirm_external_tool_cancellation *)
confirm_external_cancellation(p) ==
    /\ vm # "running"
    /\ p \in In({"ExternalCancellationRequested"})
    /\ Resolve({p}, "Cancelled")

(* expire_timed_out_tools_up_to *)
expire_timed_out_tools ==
    /\ vm # "running"
    /\ \E due \in SUBSET {p \in In(Unresolved) : pending[p].expired} :
          due # {} /\ Resolve(due, "TimedOut")

-----------------------------------------------------------------------------
(* External calls before they are resolved. *)

(* One promise changes state or counters and nothing else happens. *)
Update(p, entry) ==
    /\ vm # "running"
    /\ pending' = [pending EXCEPT ![p] = entry]
    /\ UNCHANGED <<leaseVars, calls, leaseCalls, vm, next, reachable, settled>>

(* claim_external_tool: also a call whose deadline has passed is handed out,
   which the variant refuses. *)
ClaimInTime(p) ==
    /\ p \in In({"ExternalQueued"})
    /\ ~pending[p].expired
    /\ Update(p, [pending[p] EXCEPT !.state = "ExternalClaimed"])
    /\ claimed' = claimed \cup {p}

claim_external(p) ==
    /\ p \in In({"ExternalQueued"})
    /\ Update(p, [pending[p] EXCEPT !.state = "ExternalClaimed"])
    /\ claimed' = claimed \cup {p}

(* request_external_tool_cancellation *)
request_external_cancellation(p) ==
    /\ p \in In({"ExternalClaimed"})
    /\ Update(p, [pending[p] EXCEPT !.state = "ExternalCancellationRequested"])
    /\ UNCHANGED claimed

(* The state in which a call may be retried or stream output; the variant does
   not look for a cancellation request. *)
LiveUnlessReady == Answerable

Live == {"ExternalClaimed"}

(* retry_external_tool *)
retry_external(p) ==
    /\ p \in In(Live)
    /\ ~pending[p].expired
    /\ pending[p].attempt < limits.attempts
    /\ Update(p, [pending[p] EXCEPT !.attempt = @ + 1])
    /\ UNCHANGED claimed

(* push_external_tool_chunk *)
push_external_stream_chunk(p) ==
    /\ p \in In(Live)
    /\ ~pending[p].expired
    /\ pending[p].chunks < limits.chunks
    /\ Update(p, [pending[p] EXCEPT !.chunks = @ + 1])
    /\ UNCHANGED claimed

(* The deadline of a deferred call passes. *)
DeadlinePasses(p) ==
    /\ p \in In(Unresolved)
    /\ ~pending[p].expired
    /\ pending' = [pending EXCEPT ![p].expired = TRUE]
    /\ UNCHANGED <<leaseVars, calls, leaseCalls, vm, next, reachable, claimed, settled>>

(* The promises a collection forgets; the others it marks as orphaned.  The
   variant forgets claimed calls as well. *)
ForgottenAll(garbage) == garbage

Forgotten(garbage) == garbage \ In(Answerable)

(* What a collection finds unreachable: a paused thread roots the promise it
   awaits. *)
Garbage == Held \ reachable

(* collect_garbage and ToolPromiseGc::gc *)
collect_garbage ==
    /\ vm # "running"
    /\ Garbage # {}
    /\ pending' = [p \in Held \ Forgotten(Garbage) |->
          [pending[p] EXCEPT !.orphaned = @ \/ p \in Garbage]]
    /\ UNCHANGED <<leaseVars, calls, leaseCalls, vm, next, reachable, claimed, settled>>

-----------------------------------------------------------------------------

Script ==
    \/ Finish \/ SoftYield
    \/ \E t \in Tools : call(t) \/ start(t)
    \/ \E p \in Promises : await(p) \/ Drop(p)

Host ==
    \/ eval \/ pump \/ expire_timed_out_tools \/ collect_garbage
    \/ \E t \in Tools : register(t)
    \/ \E l \in Leases : issue_capability_lease(l) \/ eval_with_capability_lease(l)
    \/ \E p \in Promises :
          \/ claim_external(p) \/ request_external_cancellation(p)
          \/ retry_external(p) \/ push_external_stream_chunk(p)
          \/ confirm_external_cancellation(p)
          \/ \E result \in Results \ {"TimedOut"} : complete_external(p, result)

Next == Script \/ Host \/ \E p \in Promises : DeadlinePasses(p)

Spec == Init /\ [][Next]_vars

(* The host's event loop runs queued local calls, and claims and completes
   external ones; nothing is assumed of deadlines, retries or cancellation. *)
Fairness ==
    /\ WF_vars(pump)
    /\ \A p \in Promises :
          /\ WF_vars(claim_external(p))
          /\ WF_vars(\E result \in Results \ {"TimedOut"} : complete_external(p, result))

FairSpec == Spec /\ Fairness

-----------------------------------------------------------------------------
(* Properties. *)

(* A deferred call ends once: completion, cancellation, a late answer, a
   deadline and the pump race, and exactly one terminal audit event records the
   winner; a result the script can read has been recorded. *)
OneOutcomePerCall ==
    /\ \A p \in Promises : settled[p] <= 1
    /\ \A p \in Held : settled[p] = 1 <=> pending[p].state = "Ready"

(* No promise is lost to whoever holds it, and none is taken on that there is no
   room for.  "Once claimed, an operation remains reserved until the host
   completes or cancels it even if the script drops its promise handle,
   preserving the audit record": a call handed to the host is pending or was
   recorded as ended.  await() never meets an unknown promise: no resolution or
   collection removes one whose handle the script holds.  The table never exceeds
   max_pending_tools, orphaned promises included. *)
PromisesAccountedFor ==
    /\ \A p \in claimed : p \in Held \/ settled[p] = 1
    /\ reachable \subseteq Held
    /\ Cardinality(Held) <= MaxPending

(* A suspended evaluation waits for exactly one unresolved promise, whose
   resolution resumes it; otherwise the runtime could never evaluate again. *)
SuspendedIsResumable ==
    vm = "paused" =>
        \E p \in Held : \A q \in Held :
            (pending[q].waiting /\ pending[q].state # "Ready") <=> q = p

(* "The lease remains active until the resumed evaluation completes": every
   step of an evaluation, before and after it was suspended, runs under the
   lease it started with, sees the catalog that lease was issued against and
   calls no tool more often than it grants, and no lease outlives its
   evaluation. *)
LeaseSpansEvaluation ==
    /\ active = under /\ (vm = "idle" => active = NoLease)
    /\ active # NoLease => issued[active] = registered
    /\ \A l \in Leases, t \in Tools : leaseCalls[l][t] <= Grants[l][t]

(* A deadline that passed before an answer arrived is what the script sees. *)
DeadlineDecides ==
    \A p \in Held : pending[p].state = "Ready" /\ pending[p].expired =>
                        pending[p].result = "TimedOut"

(* While cancellation is requested there is no new attempt and no new output,
   and the request is not withdrawn. *)
CancellationStops ==
    [][\A p \in In({"ExternalCancellationRequested"}) : p \in DOMAIN pending' =>
          /\ pending'[p].state \in {"ExternalCancellationRequested", "Ready"}
          /\ pending'[p].attempt = pending[p].attempt
          /\ pending'[p].chunks = pending[p].chunks]_vars

(* A suspended evaluation goes on as long as the host's event loop does.  Where
   the soft time budget pauses evaluations too, this is said of those that await
   a promise. *)
SuspendedResumes ==
    vm = "paused" /\ (limits.soft => \E p \in Held : pending[p].waiting)
        ~> vm = "running"
=============================================================================
