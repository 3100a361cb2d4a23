-------------------------- MODULE SupervisedWorker --------------------------
(***************************************************************************)
(* A worker process under supervision: ProtocolWorkerClient over a         *)
(* BoundedWorkerTransport, over the authenticated frames of one session    *)
(* (SessionFrames) on the worker's pipes, beside the thread of its         *)
(* BubblewrapWorkerWatchdog, a BubblewrapWorkerControl in another host     *)
(* thread, the process itself and the clock.  Requests to the watchdog     *)
(* wait in one queue; each is answered on a channel of its own.            *)
(***************************************************************************)
EXTENDS SessionFrames, FiniteSets

CONSTANTS
    Own,        \* the session of this worker
    MaxFaults,  \* system calls of terminate_and_reap that fail
    MaxStops    \* requests of the control handle

ASSUME SupervisedWorkerAssumption ==
    /\ Own \in Sessions
    /\ MaxSequence > 1
    /\ {"Request", "Result"} \subseteq Bodies
    /\ MaxFaults \in Nat
    /\ MaxStops \in Nat

VARIABLES
    profile,    \* how the worker was started: in a cgroup, with a session deadline
    worker,     \* the Bubblewrap child, the processes below it, its CgroupV2Session
    dog,        \* the watchdog thread: WatchdogState and next_sequence
    elapsed,    \* the deadlines that have passed: of the armed call, of the session
    inbox,      \* the commands sent to the watchdog
    host,       \* the client's call and the poisoned flags of its transports
    reply,      \* the watchdog's answer to the client
    control,    \* the requests the control handle has made
    faults,     \* the system calls that failed
    reaped,     \* BubblewrapWorkerReaped: the proof that close_reaped hands out
    accepted,   \* history: the calls whose result the client returned
    overtaken   \* history: the calls stopped, or past a deadline, while armed

frameVars == <<outgoing, incoming, wire, sent, received>>
dogVars == <<worker, dog, elapsed, inbox, reply, faults, overtaken>>
supervisedVars == <<frameVars, profile, dogVars, host, control, reaped, accepted>>

HostEnd == [session |-> Own, role |-> "Host"]
WorkerEnd == Peer(HostEnd)
NoReply == [kind |-> "none", call |-> 0]
Message(body) == [session |-> Own, body |-> body]

(* A session's first frames, up to an answer of its worker that is on the way. *)
FirstMessage(e) ==
    [session |-> e.session, body |-> IF e.role = "Host" THEN "Request" ELSE "Result"]

FirstFrame(e) ==
    [sequence |-> 1, message |-> FirstMessage(e), tag |-> Tag(e, 1, FirstMessage(e))]

(* The worker and its watchdog are up, and the host's first frame has opened the
   session; other sessions are under way. *)
SupervisedInit ==
    /\ outgoing = [e \in Endpoints |-> IF e = WorkerEnd THEN 1 ELSE 2]
    /\ incoming = [e \in Endpoints |-> IF e.role = "Host" THEN 1 ELSE 2]
    /\ wire = {FirstFrame(e) : e \in Endpoints \ {WorkerEnd}}
    /\ sent = [e \in Endpoints |-> IF e = WorkerEnd THEN << >> ELSE <<FirstMessage(e)>>]
    /\ received = [e \in Endpoints |-> IF e.role = "Host" THEN << >> ELSE <<FirstMessage(Peer(e))>>]
    /\ profile \in [cgroup : BOOLEAN, bounded : BOOLEAN]
    /\ worker = [child |-> "running", tree |-> TRUE, cgroup |-> profile.cgroup]
    /\ dog = [state |-> "idle", call |-> 0, next |-> 1]
    /\ elapsed = {}
    /\ inbox = << >>
    /\ host = [pc |-> "ready", call |-> 0, result |-> "none", poisoned |-> FALSE,
               transport |-> FALSE, channel |-> FALSE]
    /\ reply = NoReply
    /\ control = 0
    /\ faults = 0
    /\ reaped = FALSE
    /\ accepted = {}
    /\ overtaken = {}

-----------------------------------------------------------------------------
(* Process control. *)

(* The system call that fails; terminate_and_reap goes on past some of them. *)
Faults == {"none", "inspect", "cgroup_kill", "kill", "wait", "cleanup"}

(* cgroup.kill ends the whole subtree, whatever became of the direct child. *)
KillCgroup(w, fault) ==
    IF w.cgroup /\ fault # "cgroup_kill"
    THEN [w EXCEPT !.child = IF @ = "running" THEN "exited" ELSE @, !.tree = FALSE]
    ELSE w

(* terminate_running_child for a child that was running at the first look:
   "alone" says that it has ended by itself when kill fails. *)
KillChild(w, fault, alone) ==
    CASE fault = "kill" /\ ~alone -> w
      [] fault = "wait" -> [w EXCEPT !.child = "exited"]
      [] OTHER -> [w EXCEPT !.child = "reaped"]

(* cleanup_cgroup_after_termination: an empty cgroup can be removed, and is then
   forgotten.  "alone" says that the subtree has ended during the retries.  The
   variant forgets the cgroup whether or not it was removed. *)
CleanupForgets(w, fault, alone) == [w EXCEPT !.cgroup = FALSE]

CleanupCgroup(w, fault, alone) ==
    LET empty == w.child # "running" /\ (~w.tree \/ alone)
    IN  IF w.cgroup /\ empty /\ fault # "cleanup"
        THEN [w EXCEPT !.tree = FALSE, !.cgroup = FALSE]
        ELSE w

(* The worker terminate_and_reap leaves behind. *)
terminate_and_reap(w, fault, alone) ==
    LET killed == KillCgroup(w, fault)
        ended == IF w.child = "running" THEN KillChild(killed, fault, alone)
                 ELSE [killed EXCEPT !.child = "reaped"]
    IN  IF fault = "inspect" THEN w ELSE CleanupCgroup(ended, fault, alone)

(* Whether it reports success. *)
Terminated(w, fault, alone) ==
    LET after == terminate_and_reap(w, fault, alone)
    IN  /\ fault # "inspect"
        /\ w.cgroup => fault # "cgroup_kill"
        /\ ~after.cgroup
        /\ after.child = "reaped"

(* The watchdog's use of it, with at most MaxFaults failing calls of those it makes. *)
Lifecycle(fault) ==
    /\ fault # "none" => faults < MaxFaults
    /\ fault \in {"cgroup_kill", "cleanup"} => worker.cgroup
    /\ fault \in {"kill", "wait"} => worker.child = "running"
    /\ faults' = faults + (IF fault = "none" THEN 0 ELSE 1)

(* The child ends by itself, and what it started some time after it (the sandbox
   is started with --die-with-parent in a process namespace of its own). *)
ChildExits ==
    /\ worker.child = "running"
    /\ worker' = [worker EXCEPT !.child = "exited"]
    /\ UNCHANGED <<frameVars, profile, dog, elapsed, inbox, reply, faults, overtaken,
                   host, control, reaped, accepted>>

TreeEnds ==
    /\ worker.child # "running" /\ worker.tree
    /\ worker' = [worker EXCEPT !.tree = FALSE]
    /\ UNCHANGED <<frameVars, profile, dog, elapsed, inbox, reply, faults, overtaken,
                   host, control, reaped, accepted>>

(* Both ends of the pipes close with the last process that holds them. *)
PipesClosed == worker.child # "running" /\ ~worker.tree
-----------------------------------------------------------------------------
(* The watchdog thread. *)

(* Time passes.  The deadline of a call runs from the moment it is armed. *)
CallTimeElapses ==
    /\ dog.state = "active" /\ "call" \notin elapsed
    /\ elapsed' = elapsed \cup {"call"}
    /\ overtaken' = overtaken \cup {dog.call}
    /\ UNCHANGED <<frameVars, profile, worker, dog, inbox, reply, faults,
                   host, control, reaped, accepted>>

SessionTimeElapses ==
    /\ profile.bounded /\ "session" \notin elapsed
    /\ elapsed' = elapsed \cup {"session"}
    /\ overtaken' = overtaken \cup (IF dog.state = "active" THEN {dog.call} ELSE {})
    /\ UNCHANGED <<frameVars, profile, worker, dog, inbox, reply, faults,
                   host, control, reaped, accepted>>

(* expired_watchdog_reason; the variants forget the session deadline while a call
   is armed, or while none is. *)
ExpiredByOneDeadline ==
    \/ dog.state = "idle" /\ "session" \in elapsed
    \/ dog.state = "active" /\ "call" \in elapsed

ExpiredWhileActive == dog.state = "active" /\ elapsed # {}

Expired ==
    \/ dog.state \in {"idle", "active"} /\ "session" \in elapsed
    \/ dog.state = "active" /\ "call" \in elapsed

(* terminate_watchdog_worker: a worker that was terminated is not touched again, a
   termination that failed is tried again. *)
terminate_watchdog_worker(fault, alone) ==
    IF dog.state = "terminated"
    THEN UNCHANGED <<worker, dog, faults, overtaken>>
    ELSE /\ Lifecycle(fault)
         /\ worker' = terminate_and_reap(worker, fault, alone)
         /\ dog' = [dog EXCEPT !.call = 0,
                     !.state = IF Terminated(worker, fault, alone) THEN "terminated" ELSE "failed"]
         /\ overtaken' = overtaken \cup (IF dog.state = "active" THEN {dog.call} ELSE {})

(* A deadline has passed when the loop looks: run_watchdog_loop before it waits,
   when its wait times out and again when a command has arrived. *)
Expire ==
    /\ Expired
    /\ \E fault \in Faults, alone \in BOOLEAN : terminate_watchdog_worker(fault, alone)
    /\ UNCHANGED <<frameVars, profile, elapsed, inbox, reply, host, control, reaped, accepted>>

(* handle_watchdog_command takes the next command; no deadline has passed by then. *)
Handle(kind, rest) ==
    /\ dog.state \notin {"leaving", "gone"}
    /\ inbox # << >> /\ Head(inbox).kind = kind
    /\ ~Expired
    /\ inbox' = rest
    /\ UNCHANGED <<frameVars, profile, host, control, reaped, accepted>>

Answer(kind, call) == reply' = [kind |-> kind, call |-> call]

(* arm_watchdog_call, on a worker that is not terminated.  A child that has exited
   ends the session with its whole subtree; a failure leaves the watchdog idle. *)
ArmFindsExit ==
    /\ dog.state = "idle"
    /\ \E fault \in Faults, alone \in BOOLEAN :
        /\ worker.child # "running" \/ fault = "inspect"
        /\ Lifecycle(fault)
        /\ worker' = terminate_and_reap(worker, fault, alone)
        /\ dog' = IF Terminated(worker, fault, alone) THEN [dog EXCEPT !.state = "terminated"] ELSE dog
    /\ Answer("error", 0)
    /\ UNCHANGED <<elapsed, overtaken>>

ArmStarts ==
    /\ dog.state = "idle" /\ worker.child = "running" /\ NumberLeft(dog.next)
    /\ dog' = [state |-> "active", call |-> dog.next, next |-> saturating_add(dog.next)]
    /\ elapsed' = elapsed \ {"call"}
    /\ Answer("armed", dog.next)
    /\ UNCHANGED <<worker, faults, overtaken>>

ArmRefused ==
    /\ dog.state # "idle" \/ (worker.child = "running" /\ ~NumberLeft(dog.next))
    /\ Answer("error", 0)
    /\ UNCHANGED <<worker, dog, elapsed, faults, overtaken>>

arm_watchdog_call == Handle("Arm", Tail(inbox)) /\ (ArmFindsExit \/ ArmStarts \/ ArmRefused)

(* finish_watchdog_call: the answer to a call that the watchdog still has armed is
   the only one that lets its result through. *)
FinishOutcome(call) ==
    CASE dog.state = "active" /\ dog.call = call -> "completed"
      [] dog.state = "terminated" -> "stopped"
      [] OTHER -> "error"

finish_watchdog_call ==
    /\ Handle("Disarm", Tail(inbox))
    /\ Answer(FinishOutcome(Head(inbox).call), 0)
    /\ dog' = IF FinishOutcome(Head(inbox).call) = "completed"
              THEN [dog EXCEPT !.state = "idle", !.call = 0] ELSE dog
    /\ UNCHANGED <<worker, elapsed, faults, overtaken>>

(* Terminate, from the client or the control handle. *)
HandleTerminate ==
    /\ Handle("Terminate", Tail(inbox))
    /\ \E fault \in Faults, alone \in BOOLEAN : terminate_watchdog_worker(fault, alone)
    /\ IF Head(inbox).from = "client"
       THEN Answer(IF dog'.state = "terminated" THEN "ok" ELSE "error", 0)
       ELSE UNCHANGED reply
    /\ UNCHANGED elapsed

(* Shutdown ends the loop, and the queue with it; run_watchdog_thread terminates
   the worker once more, whatever the answer was. *)
HandleShutdown ==
    /\ Handle("Shutdown", << >>)
    /\ \E fault \in Faults, alone \in BOOLEAN :
        LET stopped == dog.state = "terminated"
            ok == stopped \/ Terminated(worker, fault, alone)
        IN  /\ stopped => fault = "none"
            /\ Lifecycle(fault)
            /\ worker' = IF stopped THEN worker ELSE terminate_and_reap(worker, fault, alone)
            /\ Answer(IF ok THEN "ok" ELSE "error", 0)
    /\ dog' = [dog EXCEPT !.state = "leaving", !.call = 0]
    /\ UNCHANGED <<elapsed, overtaken>>

ThreadEnds ==
    /\ dog.state = "leaving"
    /\ \E fault \in Faults, alone \in BOOLEAN :
        Lifecycle(fault) /\ worker' = terminate_and_reap(worker, fault, alone)
    /\ dog' = [dog EXCEPT !.state = "gone"]
    /\ UNCHANGED <<frameVars, profile, elapsed, inbox, reply, overtaken, host, control, reaped, accepted>>
-----------------------------------------------------------------------------
(* The host. *)

Request(kind, call) ==
    inbox' = Append(inbox, [from |-> "client", kind |-> kind, call |-> call])

(* A step of the client that uses no frame. *)
ClientStep ==
    UNCHANGED <<frameVars, profile, worker, dog, elapsed, faults, overtaken, control>>

(* BoundedWorkerTransport::discard, which poisons both transports and terminates;
   dispatch does the same on its way out of an error, and the client once more on
   every error and on every result it refuses. *)
discard(pc) ==
    /\ host' = [host EXCEPT !.pc = pc, !.call = 0, !.result = "none",
                 !.poisoned = TRUE, !.transport = TRUE]
    /\ Request("Terminate", 0)

(* dispatch_json and dispatch up to begin_invocation. *)
dispatch ==
    /\ host.pc = "ready"
    /\ IF host.poisoned
       THEN discard("discarding")
       ELSE /\ host' = [host EXCEPT !.pc = "arming"]
            /\ Request("Arm", 0)
    /\ reply' = NoReply
    /\ ClientStep /\ UNCHANGED <<reaped, accepted>>

Armed ==
    /\ host.pc = "arming" /\ reply # NoReply
    /\ IF reply.kind = "armed"
       THEN /\ host' = [host EXCEPT !.pc = "sending", !.call = reply.call]
            /\ UNCHANGED inbox
       ELSE discard("stopping")
    /\ reply' = NoReply
    /\ ClientStep /\ UNCHANGED <<reaped, accepted>>

(* The inner dispatch has its result; finish_invocation is asked. *)
Finishing(result, transport, channel) ==
    /\ host' = [host EXCEPT !.pc = "finishing", !.result = result,
                 !.transport = @ \/ transport, !.channel = @ \/ channel]
    /\ Request("Disarm", host.call)
    /\ UNCHANGED <<profile, worker, dog, elapsed, faults, overtaken, reply, control, reaped, accepted>>

(* AuthenticatedFrameWorkerTransport::dispatch and JsonLineWorkerChannel: the
   request is sealed and written, unless the numbers have run out or nobody is
   left to read it. *)
SendRequest ==
    /\ host.pc = "sending" /\ ~PipesClosed
    /\ seal(HostEnd, Message("Request"))
    /\ host' = [host EXCEPT !.pc = "receiving"]
    /\ UNCHANGED <<profile, dogVars, control, reaped, accepted>>

SendFails ==
    /\ host.pc = "sending" /\ PipesClosed
    /\ seal(HostEnd, Message("Request"))
    /\ Finishing("error", TRUE, TRUE)

SealRefused ==
    /\ host.pc = "sending" /\ ~NumberLeft(outgoing[HostEnd])
    /\ Finishing("error", FALSE, FALSE)
    /\ UNCHANGED frameVars

(* A frame arrives and is opened; only a result is an answer. *)
ReceiveFrame ==
    /\ host.pc = "receiving"
    /\ \E f \in Arrivals :
        /\ open(HostEnd, f)
        /\ IF f.message.body = "Result" THEN Finishing("ok", FALSE, FALSE)
           ELSE Finishing("error", TRUE, FALSE)

ReceiveRefused ==
    /\ host.pc = "receiving"
    /\ {f \in Arrivals : ~Accepts(HostEnd, f)} # {}
    /\ Finishing("error", TRUE, FALSE)
    /\ UNCHANGED frameVars

(* A line that is no frame, a failed read, or the end of the stream. *)
ReceiveFails ==
    /\ host.pc = "receiving"
    /\ Finishing("error", TRUE, TRUE)
    /\ UNCHANGED frameVars

(* The rest of dispatch and dispatch_json: the watchdog's outcome decides before
   the result does; the authorizer may still refuse the result. *)
MayAccept == reply.kind = "completed" /\ host.result = "ok"

Finished ==
    /\ host.pc = "finishing" /\ reply # NoReply
    /\ \/ /\ MayAccept
          /\ host' = [host EXCEPT !.pc = "ready", !.call = 0, !.result = "none"]
          /\ accepted' = accepted \cup {host.call}
          /\ UNCHANGED inbox
       \/ /\ MayAccept \/ reply.kind = "stopped"
          /\ discard("discarding")
          /\ UNCHANGED accepted
       \/ /\ ~MayAccept /\ reply.kind # "stopped"
          /\ discard("stopping")
          /\ UNCHANGED accepted
    /\ reply' = NoReply
    /\ ClientStep /\ UNCHANGED reaped

(* dispatch returns its error once the termination is answered, and the client
   discards the transport. *)
Stopped ==
    /\ host.pc = "stopping" /\ reply # NoReply
    /\ discard("discarding")
    /\ reply' = NoReply
    /\ ClientStep /\ UNCHANGED <<reaped, accepted>>

Discarded ==
    /\ host.pc = "discarding" /\ reply # NoReply
    /\ host' = [host EXCEPT !.pc = "ready"]
    /\ reply' = NoReply
    /\ ClientStep /\ UNCHANGED <<inbox, reaped, accepted>>

(* close, close_reaped and Drop: Shutdown, then join; a proof only for a worker
   whose termination succeeded. *)
shutdown ==
    /\ host.pc = "ready"
    /\ host' = [host EXCEPT !.pc = "closing"]
    /\ Request("Shutdown", 0)
    /\ reply' = NoReply
    /\ ClientStep /\ UNCHANGED <<reaped, accepted>>

close_reaped ==
    /\ host.pc = "closing" /\ reply # NoReply /\ dog.state = "gone"
    /\ host' = [host EXCEPT !.pc = "closed"]
    /\ reaped' = (reply.kind = "ok")
    /\ ClientStep /\ UNCHANGED <<inbox, reply, accepted>>

(* BubblewrapWorkerControl::terminate, in another thread of the host. *)
request_termination ==
    /\ control < MaxStops /\ dog.state \notin {"leaving", "gone"}
    /\ control' = control + 1
    /\ inbox' = Append(inbox, [from |-> "control", kind |-> "Terminate", call |-> 0])
    /\ UNCHANGED <<frameVars, profile, worker, dog, elapsed, reply, faults, overtaken,
                   host, reaped, accepted>>

(* The worker's process, while it lives, reads frames and answers them, with a
   result or anything else, and with at most one frame more than it owes: it owes
   none for the opening frame. *)
WorkerReads ==
    /\ worker.child = "running"
    /\ \E f \in Arrivals : open(WorkerEnd, f)
    /\ UNCHANGED <<profile, dogVars, host, control, reaped, accepted>>

WorkerAnswers ==
    /\ worker.child = "running"
    /\ Len(sent[WorkerEnd]) < Len(received[WorkerEnd])
    /\ \E body \in Bodies : seal(WorkerEnd, Message(body))
    /\ UNCHANGED <<profile, dogVars, host, control, reaped, accepted>>

Watchdog ==
    Expire \/ arm_watchdog_call \/ finish_watchdog_call \/ HandleTerminate \/ HandleShutdown \/ ThreadEnds

Receive == ReceiveFrame \/ ReceiveRefused \/ ReceiveFails

Answered == Armed \/ Finished \/ Stopped \/ Discarded \/ close_reaped

SupervisedNext ==
    \/ ChildExits \/ TreeEnds \/ CallTimeElapses \/ SessionTimeElapses
    \/ Expire \/ arm_watchdog_call \/ finish_watchdog_call
    \/ HandleTerminate \/ HandleShutdown \/ ThreadEnds
    \/ dispatch \/ SendRequest \/ SendFails \/ SealRefused
    \/ ReceiveFrame \/ ReceiveRefused \/ ReceiveFails
    \/ Armed \/ Finished \/ Stopped \/ Discarded
    \/ shutdown \/ close_reaped \/ request_termination \/ WorkerReads \/ WorkerAnswers

(* The host's threads run and the clock advances.  A write or read on the pipes is
   only sure to return once no process holds the other end, and a process below
   the child is only sure to end after the child. *)
SupervisedFairness ==
    /\ WF_supervisedVars(Watchdog)
    /\ WF_supervisedVars(Answered)
    /\ WF_supervisedVars(SendFails \/ SealRefused)
    /\ WF_supervisedVars(PipesClosed /\ Receive)
    /\ WF_supervisedVars(CallTimeElapses)
    /\ WF_supervisedVars(SessionTimeElapses)
    /\ WF_supervisedVars(TreeEnds)

SupervisedSpec == SupervisedInit /\ [][SupervisedNext]_supervisedVars /\ SupervisedFairness

-----------------------------------------------------------------------------
(* Properties. *)

Gone == worker.child = "reaped" /\ (profile.cgroup => ~worker.tree)

(* "It only establishes that this exact contained session can no longer race a
   fresh reconciliation session": when close_reaped hands out its proof, and when
   a poisoned transport has returned to its caller with the watchdog not failed,
   the child has been reaped and no process of its cgroup is left, whichever
   system calls failed on the way and whoever asked for the stop first. *)
StoppedMeansGone ==
    reaped \/ (host.pc = "ready" /\ host.poisoned /\ dog.state # "failed") => Gone

(* "Even a valid response that races with a deadline or host process stop is not
   safe to accept": no call whose deadline, or whose session's, passed while it
   was armed, and none that was stopped while armed, ever returns its result. *)
StoppedCallRefused == accepted \cap overtaken = {}

(* A call that was begun returns, also when the worker never answers, and a
   session with a deadline ends, unless a termination fails. *)
SupervisionEnds ==
    /\ (host.pc \notin {"ready", "closed"})
            ~> (host.pc \in {"ready", "closed"} \/ dog.state = "failed")
    /\ profile.bounded ~> (dog.state \in {"terminated", "failed", "gone"})
=============================================================================
