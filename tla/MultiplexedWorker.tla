------------------------- MODULE MultiplexedWorker -------------------------
(***************************************************************************)
(* A cancellable external tool call from end to end: the host's supervised *)
(* session with its watchdog, the coordinator thread of the multiplexed    *)
(* transport, the two pipes with a demand-driven reader thread at each     *)
(* end, the worker's driver loop and its adapter thread.                   *)
(*                                                                         *)
(* A command to the coordinator blocks its caller until it is accepted, so *)
(* handling it and the caller's reaction to the answer are one step.       *)
(***************************************************************************)
EXTENDS SessionAuthorizer, Sequences

CONSTANTS
    MaxRequests,    \* bound on the external calls of one session
    Modes           \* is the session supervised, or a bare binding used

ASSUME MultiplexedWorkerAssumption == MaxRequests \in Nat /\ Modes \subseteq BOOLEAN

VARIABLES
    app,            \* the caller: its mode, phase, bound call and cancellation
    runtime,        \* state of each external call in the capability runtime
    watchdog,       \* idle, armed, fired
    host,           \* coordinator thread of the transport
    hostEvents,     \* its event queue: commands and frames
    delivered,      \* result channel of each call
    toWorker, toHost,   \* the pipes
    worker,         \* driver loop
    workerEvents,   \* its event queue: frames and the adapter's return
    adapter,        \* the adapter thread's call and cancellation token
    effect,         \* history: what became of each call's effect
    late            \* history: calls during which the watchdog fired

hostVars == <<app, runtime, host, hostEvents, delivered>>
workerVars == <<worker, workerEvents, adapter, effect>>
vars == <<app, runtime, watchdog, host, hostEvents, delivered, toWorker, toHost,
          worker, workerEvents, adapter, effect, late>>

Requests == 1..MaxRequests
None == 0

Event(kind, r) == [kind |-> kind, request |-> r]

Init ==
    /\ app \in [supervised : Modes, phase : {"ready"}, waits : {"none"}, binding : {None},
                asked : {FALSE}, next : {1}]
    /\ runtime = [r \in Requests |-> "unclaimed"]
    /\ watchdog = "idle"
    /\ host = [up |-> TRUE, auth |-> NewAuthorizer, active |-> None, completed |-> FALSE,
               cancelling |-> FALSE, closing |-> FALSE, permits |-> 1, fault |-> FALSE]
    /\ hostEvents = << >>
    /\ delivered = [r \in Requests |-> "none"]
    /\ toWorker = << >> /\ toHost = << >>
    /\ worker = [phase |-> "up", auth |-> NewAuthorizer, active |-> None, cancelling |-> FALSE,
                 last |-> None, permits |-> 1, fault |-> FALSE]
    /\ workerEvents = << >>
    /\ adapter = [request |-> None, token |-> FALSE]
    /\ effect = [r \in Requests |-> "none"]
    /\ late = {}

-----------------------------------------------------------------------------
(* The worker process and its watchdog. *)

(* The process is gone, and the adapter's effect with it is anyone's guess. *)
Killed ==
    /\ worker' = [worker EXCEPT !.phase = "down"]
    /\ adapter' = [request |-> None, token |-> FALSE]
    /\ effect' = [r \in Requests |-> IF r = adapter.request THEN "killed" ELSE effect[r]]

(* The worker process dies for reasons of its own. *)
WorkerCrash ==
    /\ worker.phase # "down"
    /\ Killed
    /\ UNCHANGED <<hostVars, watchdog, toWorker, toHost, workerEvents, late>>

(* The deadline of an armed invocation passes. *)
WatchdogFires ==
    /\ watchdog = "armed"
    /\ watchdog' = "fired"
    /\ late' = late \cup {app.binding}
    /\ Killed
    /\ UNCHANGED <<hostVars, toWorker, toHost, workerEvents>>

-----------------------------------------------------------------------------
(* The caller: SupervisedMultiplexedWorkerSession, or a bare binding. *)

Post(event) == hostEvents' = Append(hostEvents, event)

(* fail_transport: the session is poisoned and its worker terminated.  Without
   supervision the caller gives the binding up; a transport whose close failed
   is gone in both cases. *)
FailTransport ==
    /\ app' = [app EXCEPT !.phase = IF app.supervised \/ app.waits = "close" THEN "poisoned" ELSE @,
                          !.waits = "none", !.binding = None]
    /\ watchdog' = "idle"
    /\ IF app.supervised THEN Killed ELSE UNCHANGED <<worker, adapter, effect>>

(* start_external_tool: the watchdog is armed before anything is sent. *)
start_external_tool ==
    /\ app.phase = "ready" /\ app.waits = "none" /\ app.binding = None
    /\ app.next \in Requests
    /\ runtime' = [runtime EXCEPT ![app.next] = "claimed"]
    /\ app' = [app EXCEPT !.waits = "start", !.binding = app.next, !.asked = FALSE,
                          !.next = @ + 1]
    /\ watchdog' = IF app.supervised THEN "armed" ELSE "idle"
    /\ Post(Event("Start", app.next))
    /\ UNCHANGED <<host, delivered, toWorker, toHost, workerVars, late>>

(* request_external_tool_cancellation, first of the runtime, then of the
   session.  The caller asks once for each call. *)
request_external_tool_cancellation ==
    /\ app.phase = "ready" /\ app.waits = "none" /\ app.binding # None
    /\ ~app.asked
    /\ runtime' = [runtime EXCEPT ![app.binding] = "cancelRequested"]
    /\ app' = [app EXCEPT !.waits = "cancel", !.asked = TRUE]
    /\ Post(Event("Cancel", app.binding))
    /\ UNCHANGED <<watchdog, host, delivered, toWorker, toHost, workerVars, late>>

(* A call that finished: finish_invocation resolves the race with the watchdog
   before the runtime learns of it. *)
Finish(r, state) ==
    \/ /\ watchdog = "fired"
       /\ app' = [app EXCEPT !.binding = None, !.phase = "poisoned"]
       /\ UNCHANGED runtime
    \/ /\ watchdog # "fired"
       /\ runtime' = [runtime EXCEPT ![r] = state]
       /\ app' = [app EXCEPT !.binding = None]

(* poll_external_tool *)
poll_external_tool ==
    /\ app.phase = "ready" /\ app.waits = "none" /\ app.binding # None
    /\ \/ /\ delivered[app.binding] = "error"
          /\ FailTransport
          /\ UNCHANGED runtime
       \/ /\ delivered[app.binding] = "Completed"
          /\ Finish(app.binding, "completed")
          /\ watchdog' = "idle"
          /\ UNCHANGED <<worker, adapter, effect>>
       \/ /\ delivered[app.binding] = "Cancelled"
          /\ Finish(app.binding, "cancelled")
          /\ watchdog' = "idle"
          /\ UNCHANGED <<worker, adapter, effect>>
    /\ UNCHANGED <<host, hostEvents, delivered, toWorker, toHost, workerEvents, late>>

(* close: an idle session is closed gracefully. *)
close ==
    /\ app.phase = "ready" /\ app.waits = "none" /\ app.binding = None
    /\ app' = [app EXCEPT !.waits = "close"]
    /\ Post(Event("Close", None))
    /\ UNCHANGED <<runtime, watchdog, host, delivered, toWorker, toHost, workerVars, late>>

(* Drop of the transport, from any state in which the caller runs. *)
Drop ==
    /\ app.phase \in {"ready", "poisoned"} /\ app.waits = "none"
    /\ app' = [app EXCEPT !.phase = "dropped", !.binding = None]
    /\ watchdog' = "idle"
    /\ Post(Event("Abandon", None))
    /\ UNCHANGED <<runtime, host, delivered, toWorker, toHost, workerVars, late>>

(* What a caller does whose cancellation request was not accepted: a session
   fails as for any transport error, a bare binding can still be polled. *)
CancelRefused ==
    IF app.supervised
    THEN FailTransport
    ELSE /\ app' = [app EXCEPT !.waits = "none"]
         /\ UNCHANGED <<watchdog, worker, adapter, effect>>

(* The coordinator is gone: the caller's command is never accepted. *)
Unavailable ==
    /\ app.waits # "none"
    /\ ~host.up
    /\ IF app.waits = "cancel" THEN CancelRefused ELSE FailTransport
    /\ UNCHANGED <<runtime, host, hostEvents, delivered, toWorker, toHost, workerEvents, late>>

-----------------------------------------------------------------------------
(* run_coordinator: one event at a time. *)

NextEvent(kinds) ==
    /\ host.up
    /\ hostEvents # << >>
    /\ Head(hostEvents).kind \in kinds
    /\ hostEvents' = Tail(hostEvents)

(* fail_active, and the thread ends. *)
Break(fault) ==
    /\ host' = [host EXCEPT !.up = FALSE, !.active = None, !.fault = @ \/ fault]
    /\ delivered' = [r \in Requests |-> IF r = host.active THEN "error" ELSE delivered[r]]

(* Writing a frame fails once the worker process is gone. *)
Writable == worker.phase # "down"

Send(event) == toWorker' = Append(toWorker, event)

HandleStart ==
    /\ NextEvent({"Start"})
    /\ LET r == Head(hostEvents).request
           admitted == host.active = None /\ ~host.closing /\ MayAuthorize(host.auth, r)
       IN \/ /\ admitted /\ Writable
             /\ Send(Event("Invoke", r))
             /\ host' = [host EXCEPT !.auth = authorize(@, r), !.active = r,
                                     !.completed = FALSE, !.cancelling = FALSE]
             /\ app' = [app EXCEPT !.waits = "none"]
             /\ UNCHANGED <<delivered, watchdog, worker, adapter, effect>>
          \/ /\ admitted /\ ~Writable
             /\ Break(FALSE)
             /\ FailTransport
             /\ UNCHANGED toWorker
          \/ /\ ~admitted
             /\ FailTransport
             /\ UNCHANGED <<host, delivered, toWorker>>
    /\ UNCHANGED <<runtime, toHost, workerEvents, late>>

HandleCancel ==
    /\ NextEvent({"Cancel"})
    /\ LET r == Head(hostEvents).request
           admitted == host.active = r /\ ~host.cancelling /\ MayAuthorizeCancellation(host.auth, r)
       IN \/ /\ admitted /\ Writable
             /\ Send(Event("CancelRequest", r))
             /\ host' = [host EXCEPT !.auth = authorize_cancellation(@, r), !.cancelling = TRUE]
             /\ app' = [app EXCEPT !.waits = "none"]
             /\ UNCHANGED <<delivered, watchdog, worker, adapter, effect>>
          \/ /\ admitted /\ ~Writable
             /\ Break(FALSE)
             /\ CancelRefused
             /\ UNCHANGED toWorker
          \/ /\ ~admitted
             /\ CancelRefused
             /\ UNCHANGED <<host, delivered, toWorker>>
    /\ UNCHANGED <<runtime, toHost, workerEvents, late>>

HandleClose ==
    /\ NextEvent({"Close"})
    /\ IF host.active # None \/ host.closing
       THEN FailTransport /\ UNCHANGED <<host, delivered, toWorker>>
       ELSE IF Writable
       THEN /\ Send(Event("CloseSession", None))
            /\ host' = [host EXCEPT !.closing = TRUE]
            /\ UNCHANGED <<app, watchdog, delivered, worker, adapter, effect>>
       ELSE Break(FALSE) /\ FailTransport /\ UNCHANGED toWorker
    /\ UNCHANGED <<runtime, toHost, workerEvents, late>>

HandleAbandon ==
    /\ NextEvent({"Abandon"})
    /\ Break(FALSE)
    /\ UNCHANGED <<app, runtime, watchdog, toWorker, toHost, workerVars, late>>

-----------------------------------------------------------------------------
(* handle_worker_message *)

(* A result; while a cancellation is pending it is held back until its
   disposition has arrived.  The variant delivers it at once. *)
AcceptResultAtOnce(r) ==
    LET auth == validate_result(host.auth, r) IN
    /\ host' = [host EXCEPT !.auth = auth, !.active = None, !.permits = @ + 1]
    /\ delivered' = [delivered EXCEPT ![r] = "Completed"]

AcceptResult(r) ==
    LET auth == validate_result(host.auth, r) IN
    \/ /\ host.cancelling
       /\ host' = [host EXCEPT !.auth = auth, !.completed = TRUE, !.permits = @ + 1]
       /\ UNCHANGED delivered
    \/ /\ ~host.cancelling
       /\ host' = [host EXCEPT !.auth = auth, !.active = None, !.permits = @ + 1]
       /\ delivered' = [delivered EXCEPT ![r] = "Completed"]

(* A cancellation's disposition ends the call, unless the worker does not
   support cancellation.  The variant takes every end for a cancellation. *)
AcceptAnyAsCancelled(r, outcome) ==
    /\ host' = [host EXCEPT !.auth = validate_cancellation_result(@, r, outcome),
                            !.cancelling = FALSE, !.permits = @ + 1, !.active = None]
    /\ delivered' = [delivered EXCEPT ![r] = "Cancelled"]

AcceptDisposition(r, outcome) ==
    LET ends == outcome # "Unsupported" IN
    /\ host' = [host EXCEPT !.auth = validate_cancellation_result(@, r, outcome),
                            !.cancelling = FALSE, !.permits = @ + 1,
                            !.active = IF ends THEN None ELSE @]
    /\ delivered' = [delivered EXCEPT ![r] =
          CASE outcome = "Acknowledged" -> "Cancelled"
            [] outcome = "TooLate" -> "Completed"
            [] OTHER -> @]

(* A frame of the worker, or the end of its output. *)
HandleFrame ==
    /\ NextEvent({"Result"} \cup Outcomes)
    /\ LET e == Head(hostEvents)
           expected ==
               /\ e.request = host.active
               /\ IF e.kind = "Result"
                  THEN ValidResult(host.auth, e.request) /\ ~host.completed
                  ELSE host.cancelling /\ ValidDisposition(host.auth, e.request, e.kind)
       IN IF ~expected THEN Break(TRUE)
          ELSE IF e.kind = "Result" THEN AcceptResult(e.request)
          ELSE AcceptDisposition(e.request, e.kind)
    /\ UNCHANGED <<app, runtime, watchdog, toWorker, toHost, workerVars, late>>

HandleEnd ==
    /\ NextEvent({"End"})
    /\ Break(FALSE)
    /\ app' = IF host.closing THEN [app EXCEPT !.phase = "closed", !.waits = "none"] ELSE app
    /\ UNCHANGED <<runtime, watchdog, toWorker, toHost, workerVars, late>>

(* spawn_reader: one read for each permit; at the end of a dead worker's output
   it reports the end of the stream. *)
HostReads ==
    /\ host.up
    /\ host.permits > 0
    /\ \/ /\ toHost # << >>
          /\ Post(Head(toHost))
          /\ toHost' = Tail(toHost)
       \/ /\ toHost = << >> /\ worker.phase = "down"
          /\ Post(Event("End", None))
          /\ UNCHANGED toHost
    /\ host' = [host EXCEPT !.permits = @ - 1]
    /\ UNCHANGED <<app, runtime, watchdog, delivered, toWorker, workerVars, late>>

-----------------------------------------------------------------------------
(* CancellableWorkerSessionDriver::run *)

NextWork(kinds) ==
    /\ worker.phase = "up"
    /\ workerEvents # << >>
    /\ Head(workerEvents).kind \in kinds
    /\ workerEvents' = Tail(workerEvents)

Reply(events) == toHost' = toHost \o events

(* The loop returns.  An active adapter is asked to stop and joined before the
   process ends; the variant detaches it. *)
ReturnDetached(fault) ==
    /\ worker' = [worker EXCEPT !.phase = "down", !.fault = @ \/ fault]
    /\ adapter' = adapter

Return(fault) ==
    /\ worker' = [worker EXCEPT !.fault = @ \/ fault,
          !.phase = IF adapter.request = None THEN "down" ELSE "draining"]
    /\ adapter' = [adapter EXCEPT !.token = adapter.request # None]

DriveInvoke ==
    /\ NextWork({"Invoke"})
    /\ LET r == Head(workerEvents).request
           admitted == worker.active = None /\ MayAuthorize(worker.auth, r)
       IN IF admitted
          THEN
             /\ worker' = [worker EXCEPT !.auth = authorize(@, r), !.active = r,
                                         !.cancelling = FALSE, !.permits = @ + 1]
             /\ adapter' = [request |-> r, token |-> FALSE]
             /\ effect' = [effect EXCEPT ![r] = "running"]
          ELSE Return(TRUE) /\ UNCHANGED effect
    /\ UNCHANGED <<hostVars, watchdog, toWorker, toHost, late>>

(* A cancellation of the active call sets its token and asks for no frame; one
   that comes after the result is too late. *)
DriveCancel ==
    /\ NextWork({"CancelRequest"})
    /\ LET r == Head(workerEvents).request
           admitted == MayAuthorizeCancellation(worker.auth, r)
           auth == authorize_cancellation(worker.auth, r)
       IN IF admitted /\ worker.active = r
          THEN /\ worker' = [worker EXCEPT !.auth = auth, !.cancelling = TRUE]
               /\ adapter' = [adapter EXCEPT !.token = adapter.request = r]
               /\ UNCHANGED toHost
          ELSE IF admitted /\ worker.active = None /\ worker.last = r
          THEN /\ worker' = [worker EXCEPT !.permits = @ + 1,
                                !.auth = validate_cancellation_result(auth, r, "TooLate")]
               /\ Reply(<<Event("TooLate", r)>>)
               /\ UNCHANGED adapter
          ELSE Return(TRUE) /\ UNCHANGED toHost
    /\ UNCHANGED <<hostVars, watchdog, toWorker, effect, late>>

(* CloseSession, and the end of the input. *)
DriveEnd ==
    /\ NextWork({"CloseSession", "End"})
    /\ Return(Head(workerEvents).kind = "CloseSession" /\ worker.active # None)
    /\ UNCHANGED <<hostVars, watchdog, toWorker, toHost, effect, late>>

(* The adapter thread returned.  Its result goes out before the disposition of
   a cancellation; one variant swaps them, the other forgets the disposition. *)
AnswersSwapped(r) ==
    IF worker.cancelling THEN <<Event("TooLate", r), Event("Result", r)>>
                         ELSE <<Event("Result", r)>>

AnswersResultOnly(r) == <<Event("Result", r)>>

Answers(r) ==
    IF worker.cancelling THEN <<Event("Result", r), Event("TooLate", r)>>
                         ELSE <<Event("Result", r)>>

DriveFinished ==
    /\ NextWork({"AdapterCompleted", "AdapterAcknowledged", "AdapterFailed"})
    /\ LET e == Head(workerEvents)
           r == e.request
           result == validate_result(worker.auth, r)
           both == validate_cancellation_result(result, r, "TooLate")
       IN \/ /\ e.kind = "AdapterCompleted"
             /\ worker' = [worker EXCEPT !.active = None, !.cancelling = FALSE, !.last = r,
                   !.auth = IF worker.cancelling THEN both ELSE result,
                   !.permits = IF worker.cancelling THEN @ + 1 ELSE @]
             /\ Reply(Answers(r))
             /\ UNCHANGED adapter
          \/ /\ e.kind = "AdapterAcknowledged" /\ worker.cancelling
             /\ worker' = [worker EXCEPT !.active = None, !.cancelling = FALSE, !.last = None,
                   !.auth = validate_cancellation_result(@, r, "Acknowledged"),
                   !.permits = @ + 1]
             /\ Reply(<<Event("Acknowledged", r)>>)
             /\ UNCHANGED adapter
          \/ /\ e.kind = "AdapterFailed" \/ (e.kind = "AdapterAcknowledged" /\ ~worker.cancelling)
             /\ Return(FALSE)
             /\ UNCHANGED toHost
    /\ UNCHANGED <<hostVars, watchdog, toWorker, effect, late>>

(* An answer cannot be written: the host has let go of the worker's output. *)
DriveUnheard ==
    /\ ~host.up
    /\ NextWork({"AdapterCompleted", "AdapterAcknowledged"})
    /\ Return(FALSE)
    /\ UNCHANGED <<hostVars, watchdog, toWorker, toHost, effect, late>>

(* spawn_frame_reader *)
WorkerReads ==
    /\ worker.phase = "up"
    /\ worker.permits > 0
    /\ \/ /\ toWorker # << >>
          /\ workerEvents' = Append(workerEvents, Head(toWorker))
          /\ toWorker' = Tail(toWorker)
       \/ /\ toWorker = << >> /\ ~host.up
          /\ workerEvents' = Append(workerEvents, Event("End", None))
          /\ UNCHANGED toWorker
    /\ worker' = [worker EXCEPT !.permits = @ - 1]
    /\ UNCHANGED <<hostVars, watchdog, toHost, adapter, effect, late>>

(* invoke_cancellable returns: with a result, with an error or a panic, or with
   the acknowledgement that the effect stopped, be it asked for or not. *)
AdapterReturns ==
    /\ adapter.request # None
    /\ \E outcome \in {"Completed", "Failed", "Acknowledged"} :
          /\ effect' = [effect EXCEPT ![adapter.request] = outcome]
          /\ workerEvents' =
                IF worker.phase = "up"
                THEN Append(workerEvents, Event(
                        CASE outcome = "Completed" -> "AdapterCompleted"
                          [] outcome = "Failed" -> "AdapterFailed"
                          [] OTHER -> "AdapterAcknowledged", adapter.request))
                ELSE workerEvents
    /\ adapter' = [request |-> None, token |-> FALSE]
    /\ worker' = [worker EXCEPT !.phase = IF @ = "draining" THEN "down" ELSE @]
    /\ UNCHANGED <<hostVars, watchdog, toWorker, toHost, late>>

-----------------------------------------------------------------------------

Caller ==
    \/ start_external_tool \/ request_external_tool_cancellation
    \/ poll_external_tool \/ close \/ Drop \/ Unavailable

Coordinator ==
    \/ HandleStart \/ HandleCancel \/ HandleClose \/ HandleAbandon
    \/ HandleFrame \/ HandleEnd \/ HostReads

Driver ==
    \/ DriveInvoke \/ DriveCancel \/ DriveEnd \/ DriveFinished \/ DriveUnheard
    \/ WorkerReads

Next == Caller \/ Coordinator \/ Driver \/ AdapterReturns \/ WatchdogFires \/ WorkerCrash

Spec == Init /\ [][Next]_vars

(* The threads run, the adapter returns and the host polls.  The watchdog is
   not relied upon, and nobody has to cancel, close or drop. *)
Fairness ==
    /\ WF_vars(Coordinator) /\ WF_vars(Driver) /\ WF_vars(AdapterReturns)
    /\ WF_vars(poll_external_tool) /\ WF_vars(Unavailable)

FairSpec == Spec /\ Fairness

-----------------------------------------------------------------------------
(* Properties. *)

(* The two drivers understand each other: however a cancellation, a result, the
   next call and a close cross on the pipes, neither side ever receives a frame
   its authorizer or its state machine rejects as a protocol error. *)
NoProtocolFault == ~host.fault /\ ~worker.fault

(* "A terminal success or failure can still win the race and resolve normally"
   while cancellation is requested: a result the transport has delivered is
   still held by the caller or reached the runtime, unless the watchdog won or
   the caller gave the session up. *)
DeliveredResultKept ==
    \A r \in Requests : delivered[r] = "Completed" =>
        \/ app.binding = r
        \/ runtime[r] = "completed"
        \/ r \in late
        \/ app.phase = "dropped"

(* What the runtime is told is what happened: a call it sees completed had its
   effect, and a call it sees cancelled was acknowledged by an adapter that
   stopped, never because the process died or the pipe closed.  "A process
   deadline or force-stop always leaves that runtime operation pending for
   reconciliation; it never confirms cancellation."  And what happened is not
   lost to a caller without a supervisor: a bare binding whose cancellation was
   refused because its result had been delivered can still be polled. *)
OutcomeIsTruthful ==
    /\ \A r \in Requests :
          /\ runtime[r] = "completed" => effect[r] = "Completed"
          /\ runtime[r] = "cancelled" => effect[r] = "Acknowledged"
    /\ \A r \in late : runtime[r] \notin {"completed", "cancelled"}
    /\ ~app.supervised => DeliveredResultKept

(* "A fatal frame error must not return a detached effect to an embedding
   process": when the driver has returned, no adapter runs. *)
NoDetachedEffect == worker.phase = "down" => adapter.request = None

(* Every call comes to an end for its caller, and so does a close, if the
   adapter returns and the host polls. *)
CallsEnd ==
    /\ app.binding # None ~> app.binding = None
    /\ app.waits = "close" ~> app.waits = "none"
=============================================================================
