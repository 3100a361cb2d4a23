--------------------- MODULE MultiplexedWorkerInvariant ---------------------
(***************************************************************************)
(* The inductive invariant of MultiplexedWorker, for any number of calls   *)
(* and any budget of calls and identities, and the proofs that every step  *)
(* keeps its types, what the caller's side relies on, and what is reported *)
(* to the runtime.  MultiplexedWorkerProofs has the protocol itself and    *)
(* the theorems.                                                           *)
(*                                                                         *)
(* What one side may receive depends on where the other side is and on the *)
(* frames between them.  The order of the queues matters little: a pipe    *)
(* and the queue behind it hold a frame at most once, and a second frame   *)
(* only behind the first of its call.  So the invariant speaks of the SETS *)
(* of frames under way, and says for each such set where the two drivers   *)
(* are.                                                                    *)
(***************************************************************************)
EXTENDS MultiplexedWorker, TLAPS

(* Queues as sets *)

Elems(s) == {s[i] : i \in 1..Len(s)}

Distinct(s) == \A i, j \in 1..Len(s) : s[i] = s[j] => i = j

Of(s, kinds) == {e \in Elems(s) : e.kind \in kinds}

HostKinds == {"Invoke", "CancelRequest", "CloseSession"}
WorkerKinds == {"Result", "TooLate", "Acknowledged"}
ReturnKinds == {"AdapterCompleted", "AdapterAcknowledged", "AdapterFailed"}
CommandKinds == {"Start", "Cancel", "Close", "Abandon"}

(* Frames on their way to the worker and to the host, and the adapter's return *)
Downward == Elems(toWorker) \cup Of(workerEvents, HostKinds)
Upward == Elems(toHost) \cup Of(hostEvents, WorkerKinds)
Returned == Of(workerEvents, ReturnKinds)

-----------------------------------------------------------------------------
(* The invariant. *)

Calls == Requests \cup {None}

Events(kinds) == [kind : kinds, request : Calls]

Authorizers ==
    [seen : SUBSET ({"invoke", "cancel"} \X Calls), calls : Nat,
     completed : SUBSET ({"invoke", "cancel"} \X Calls), asked : SUBSET Calls,
     cancelled : SUBSET Calls]

AppStates ==
    [supervised : BOOLEAN, phase : {"ready", "poisoned", "closed", "dropped"},
     waits : {"none", "start", "cancel", "close"}, binding : Calls, asked : BOOLEAN, next : Nat]

HostStates ==
    [up : BOOLEAN, auth : Authorizers, active : Calls, completed : BOOLEAN,
     cancelling : BOOLEAN, closing : BOOLEAN, permits : Nat, fault : BOOLEAN]

WorkerStates ==
    [phase : {"up", "draining", "down"}, auth : Authorizers, active : Calls,
     cancelling : BOOLEAN, last : Calls, permits : Nat, fault : BOOLEAN]

HostEvents == Events(CommandKinds \cup WorkerKinds \cup {"End"})
WorkerEvents == Events(HostKinds \cup ReturnKinds \cup {"End"})

Effects == {"none", "running", "killed", "Completed", "Failed", "Acknowledged"}

TypeInv ==
    /\ app \in AppStates
    /\ runtime \in [Requests -> {"unclaimed", "claimed", "cancelRequested", "completed",
                                 "cancelled"}]
    /\ watchdog \in {"idle", "armed", "fired"}
    /\ host \in HostStates
    /\ hostEvents \in Seq(HostEvents)
    /\ delivered \in [Requests -> {"none", "error", "Completed", "Cancelled"}]
    /\ toWorker \in Seq(Events(HostKinds))
    /\ toHost \in Seq(Events(WorkerKinds))
    /\ worker \in WorkerStates
    /\ workerEvents \in Seq(WorkerEvents)
    /\ adapter \in [request : Calls, token : BOOLEAN]
    /\ effect \in [Requests -> Effects]
    /\ late \subseteq Requests

(* Behind a pipe there is one frame at most, and it came before those in the
   pipe; the first frame of a call comes before the second. *)
LineInv(pipe, queue, kinds, first, permits) ==
    /\ Distinct(pipe) /\ Distinct(queue)
    /\ \A e \in Elems(pipe) : e \notin Elems(queue)
    /\ permits > 0 => permits = 1 /\ Of(queue, kinds \cup {"End"}) = {}
    /\ \A e, f \in Of(queue, kinds \cup {"End"}) : e = f
    /\ \A e \in Elems(pipe) : e.kind = first => e = Head(pipe) /\ Of(queue, kinds) = {}

QueueInv ==
    /\ host.up => LineInv(toHost, hostEvents, WorkerKinds, "Result", host.permits)
    /\ worker.phase = "up" =>
          /\ LineInv(toWorker, workerEvents, HostKinds, "Invoke", worker.permits)
          /\ worker.cancelling => worker.permits = 0 /\ Of(workerEvents, HostKinds \cup {"End"}) = {}

(* The caller and its command before the coordinator *)
CommandsInv ==
    host.up =>
       /\ \A e \in Elems(hostEvents) :
             /\ e.kind = "Start" => app.waits = "start" /\ e.request = app.binding
             /\ e.kind = "Cancel" => app.waits = "cancel" /\ e.request = app.binding
             /\ e.kind = "Close" => app.waits = "close" /\ e.request = None
             /\ e.kind = "Abandon" => app.phase = "dropped" /\ e.request = None
       /\ host.closing =>
             app.waits = "close" /\ \A e \in Elems(hostEvents) : e.kind # "Close"

(* The caller and its call *)
BindingInv ==
    /\ app.waits # "none" => app.phase = "ready" /\ (app.binding = None <=> app.waits = "close")
    /\ app.binding # None =>
          /\ app.phase = "ready" /\ app.binding < app.next
          /\ runtime[app.binding] \in {"claimed", "cancelRequested"}
    /\ app.waits = "start" => delivered[app.binding] = "none"
    /\ app.next # 0
    /\ \A r \in Requests : r >= app.next =>
          runtime[r] = "unclaimed" /\ delivered[r] = "none" /\ r \notin late

(* The watchdog *)
WatchdogInv ==
    /\ watchdog = "armed" => app.binding # None
    /\ watchdog # "idle" => app.supervised
    /\ app.binding \in late => watchdog = "fired"
    /\ \A r \in late : runtime[r] \notin {"completed", "cancelled"}

(* The coordinator's call and its caller *)
ActiveInv ==
    host.active # None =>
       /\ host.up /\ host.active < app.next /\ delivered[host.active] = "none"
       /\ \/ app.binding = host.active /\ app.waits # "start"
          \/ app.phase = "dropped"
          \/ app.supervised /\ app.phase = "poisoned"

KeptInv == ~app.supervised => DeliveredResultKept

CallerInv == CommandsInv /\ BindingInv /\ WatchdogInv /\ ActiveInv /\ KeptInv

(* An authorizer keeps its books *)
BooksInv(a) ==
    /\ a.completed \subseteq a.seen
    /\ a.cancelled \subseteq a.asked
    /\ \A r \in a.asked : Cancellation(r) \in a.seen
    /\ \A r \in Calls : Cancellation(r) \in a.seen => Invocation(r) \in a.seen

(* The worker and the frames on their way to it *)
WorkerInv ==
    /\ BooksInv(worker.auth)
    /\ worker.phase = "up" =>
          /\ worker.active # None =>
                /\ Invocation(worker.active) \in worker.auth.seen
                /\ \/ adapter.request = worker.active /\ Returned = {}
                   \/ /\ adapter.request = None
                      /\ \E k \in ReturnKinds : Returned = {Event(k, worker.active)}
          /\ worker.active = None =>
                adapter.request = None /\ Returned = {} /\ ~worker.cancelling
          /\ worker.cancelling => worker.active \in worker.auth.asked
          /\ worker.last # None => Invocation(worker.last) \in worker.auth.seen
          /\ \A r \in Calls : Event("Invoke", r) \in Downward =>
                /\ r \in Requests
                /\ Downward \subseteq {Event("Invoke", r), Event("CancelRequest", r)}
                /\ worker.active = None
                /\ MayAuthorize(worker.auth, r)
                /\ Event("CancelRequest", r) \in Downward =>
                      MayAuthorizeCancellation(authorize(worker.auth, r), r)
          /\ \A r \in Calls :
                Event("CancelRequest", r) \in Downward /\ Event("Invoke", r) \notin Downward =>
                   /\ r \in Requests
                   /\ Downward = {Event("CancelRequest", r)}
                   /\ MayAuthorizeCancellation(worker.auth, r)
                   /\ ~worker.cancelling
                   /\ \/ worker.active = r
                      \/ worker.active = None /\ worker.last = r
          /\ \A e \in Downward : e.kind = "CloseSession" =>
                Downward = {Event("CloseSession", None)} /\ worker.active = None

(* The host and the frames on their way to it *)
HostInv ==
    /\ BooksInv(host.auth)
    /\ host.active # None =>
          /\ Invocation(host.active) \in host.auth.seen
          /\ Cancellation(host.active) \notin host.auth.completed
          /\ host.active \notin host.auth.cancelled
          /\ host.completed <=> Invocation(host.active) \in host.auth.completed
          /\ host.completed => host.cancelling
          /\ host.cancelling => host.active \in host.auth.asked
          /\ ~host.closing
    /\ host.up =>
          /\ \A e \in Upward : e.request = host.active /\ host.active # None
          /\ \A e \in Upward :
                /\ e.kind = "Result" => ~host.completed
                /\ e.kind = "TooLate" =>
                      /\ host.cancelling
                      /\ host.completed \/ Event("Result", e.request) \in Upward
                /\ e.kind = "Acknowledged" =>
                      host.cancelling /\ ~host.completed /\ Upward = {e}

(* The identities and the calls a set of frames will tell the worker of *)
Announced(frames) ==
    {i \in {"invoke", "cancel"} \X Calls :
        \E r \in Calls : \/ i = Invocation(r) /\ Event("Invoke", r) \in frames
                         \/ i = Cancellation(r) /\ Event("CancelRequest", r) \in frames}

Ordered(frames) == IF \E e \in frames : e.kind = "Invoke" THEN 1 ELSE 0

(* Both together, while both run *)
BetweenInv ==
    host.up /\ worker.phase = "up" =>
       /\ host.auth.seen = worker.auth.seen \cup Announced(Downward)
       /\ host.auth.calls = worker.auth.calls + Ordered(Downward)
       /\ worker.active # None =>
             /\ host.active = worker.active /\ Upward = {} /\ ~host.completed
             /\ Downward \subseteq {Event("CancelRequest", worker.active)}
             /\ host.cancelling <=> worker.cancelling \/ Downward # {}
       /\ \A r \in Calls : Event("Invoke", r) \in Downward =>
             /\ host.active = r /\ Upward = {} /\ ~host.completed
             /\ host.cancelling <=> Event("CancelRequest", r) \in Downward
       /\ \A r \in Calls :
             Downward = {Event("CancelRequest", r)} /\ worker.active = None =>
                /\ host.active = r /\ host.cancelling
                /\ \/ Upward = {Event("Result", r)} /\ ~host.completed
                   \/ Upward = {} /\ host.completed
       /\ Downward = {} /\ worker.active = None =>
             \/ host.active = None
             \/ host.cancelling /\ \E e \in Upward : e.kind # "Result"
             \/ ~host.cancelling /\ Upward = {Event("Result", host.active)}
                                 /\ worker.last = host.active
       /\ Event("CloseSession", None) \in Downward => host.active = None /\ host.closing

(* Frames, dispositions and what the runtime learns are true. *)
TrueFrame(e) ==
    /\ e.kind \in {"Result", "TooLate", "AdapterCompleted"} => effect[e.request] = "Completed"
    /\ e.kind \in {"Acknowledged", "AdapterAcknowledged"} => effect[e.request] = "Acknowledged"

TruthInv ==
    /\ host.up => \A e \in Upward : TrueFrame(e)
    /\ worker.phase = "up" =>
          /\ \A e \in Returned : TrueFrame(e)
          /\ worker.last # None => effect[worker.last] = "Completed"
    /\ adapter.request # None => effect[adapter.request] = "running"
    /\ \A r \in Requests :
          /\ effect[r] # "none" => Invocation(r) \in worker.auth.seen
          /\ delivered[r] = "Completed" \/ runtime[r] = "completed" => effect[r] = "Completed"
          /\ delivered[r] = "Cancelled" \/ runtime[r] = "cancelled" => effect[r] = "Acknowledged"

ProtocolInv ==
    QueueInv /\ WorkerInv /\ HostInv /\ BetweenInv /\ NoProtocolFault /\ NoDetachedEffect

MultiplexedInv == TypeInv /\ ProtocolInv /\ CallerInv /\ TruthInv

-----------------------------------------------------------------------------
(* Queues. *)

(* An empty queue holds nothing. *)
LEMMA ElemsEmpty == Elems(<< >>) = {} /\ Distinct(<< >>)
  BY DEF Elems, Distinct

(* An appended element is the only new one. *)
LEMMA ElemsAppend ==
    ASSUME NEW S, NEW s \in Seq(S), NEW x \in S
    PROVE  /\ Append(s, x) \in Seq(S)
           /\ Elems(Append(s, x)) = Elems(s) \cup {x}
           /\ Distinct(s) /\ x \notin Elems(s) => Distinct(Append(s, x))
           /\ Head(Append(s, x)) = IF s = << >> THEN x ELSE Head(s)
  <1>1. /\ Append(s, x) \in Seq(S) /\ Len(Append(s, x)) = Len(s) + 1 /\ Len(s) \in Nat
        /\ \A i \in 1..Len(s) : Append(s, x)[i] = s[i]
        /\ Append(s, x)[Len(s) + 1] = x
    OBVIOUS
  <1>2. 1..(Len(s) + 1) = 1..Len(s) \cup {Len(s) + 1} /\ Len(s) + 1 \notin 1..Len(s)
    BY <1>1
  <1>3. Elems(Append(s, x)) = Elems(s) \cup {x}
    BY ZenonT(60), <1>1, <1>2 DEF Elems
  <1>4. Distinct(s) /\ x \notin Elems(s) => Distinct(Append(s, x))
    BY <1>1, <1>2 DEF Elems, Distinct
  <1>5. Head(Append(s, x)) = IF s = << >> THEN x ELSE Head(s)
    OBVIOUS
  <1> QED BY Zenon, <1>1, <1>3, <1>4, <1>5

(* A queue without its head holds what is left. *)
LEMMA ElemsTail ==
    ASSUME NEW S, NEW s \in Seq(S), s # << >>
    PROVE  /\ Head(s) \in S /\ Tail(s) \in Seq(S)
           /\ Elems(s) = {Head(s)} \cup Elems(Tail(s))
           /\ Distinct(s) => Distinct(Tail(s)) /\ Head(s) \notin Elems(Tail(s))
  <1>1. /\ Head(s) \in S /\ Tail(s) \in Seq(S)
        /\ Len(s) \in Nat /\ Len(s) > 0 /\ Len(Tail(s)) = Len(s) - 1
        /\ Head(s) = s[1] /\ \A i \in 1..Len(Tail(s)) : Tail(s)[i] = s[i + 1]
    OBVIOUS
  <1>2. /\ \A i \in 1..Len(s) : i # 1 => i - 1 \in 1..Len(Tail(s)) /\ i - 1 + 1 = i
        /\ \A i \in 1..Len(Tail(s)) : i + 1 \in 1..Len(s) /\ i + 1 # 1
        /\ 1 \in 1..Len(s)
        /\ \A i, j \in 1..Len(Tail(s)) : i + 1 = j + 1 => i = j
    BY <1>1
  <1>3. Elems(s) \subseteq {Head(s)} \cup Elems(Tail(s))
    <2> SUFFICES ASSUME NEW i \in 1..Len(s) PROVE s[i] \in {Head(s)} \cup Elems(Tail(s))
      BY Zenon DEF Elems
    <2>1. CASE i = 1
      BY Zenon, <1>1, <2>1
    <2>2. CASE i - 1 \in 1..Len(Tail(s)) /\ i - 1 + 1 = i
      <3>1. Tail(s)[i - 1] = s[i]
        BY Zenon, <1>1, <2>2
      <3> QED BY Zenon, <2>2, <3>1 DEF Elems
    <2> QED BY Zenon, <1>2, <2>1, <2>2
  <1>4. {Head(s)} \cup Elems(Tail(s)) \subseteq Elems(s)
    BY <1>1, <1>2 DEF Elems
  <1>5. Distinct(s) => Distinct(Tail(s)) /\ Head(s) \notin Elems(Tail(s))
    BY <1>1, <1>2 DEF Elems, Distinct
  <1> QED BY Zenon, <1>1, <1>3, <1>4, <1>5

(* A queue that holds nothing is empty. *)
LEMMA ElemsNone ==
    ASSUME NEW S, NEW s \in Seq(S), Elems(s) = {}
    PROVE  s = << >>
  <1> SUFFICES ASSUME s # << >> PROVE FALSE
    OBVIOUS
  <1>1. Elems(s) = {Head(s)} \cup Elems(Tail(s))
    BY Zenon, ElemsTail
  <1> QED BY Zenon, <1>1

(* The head is one of the elements. *)
LEMMA HeadIn ==
    ASSUME NEW S, NEW s \in Seq(S), s # << >>
    PROVE  Head(s) \in Elems(s)
  <1>1. Elems(s) = {Head(s)} \cup Elems(Tail(s))
    BY Zenon, ElemsTail
  <1> QED BY Zenon, <1>1

(* What a queue holds has the type of the queue. *)
LEMMA ElemsType ==
    ASSUME NEW S, NEW s \in Seq(S)
    PROVE  Elems(s) \subseteq S
  BY DEF Elems

(* Queues that are appended to, or taken from, keep their type. *)
LEMMA QueueType ==
    ASSUME NEW S, NEW s \in Seq(S)
    PROVE  /\ \A x \in S : Append(s, x) \in Seq(S)
           /\ s # << >> => Tail(s) \in Seq(S) /\ Head(s) \in S
  OBVIOUS

(* An event is its kind and its request. *)
LEMMA EventForm ==
    /\ \A K, k, r : k \in K /\ r \in Calls => Event(k, r) \in Events(K)
    /\ \A K : \A e \in Events(K) : e = Event(e.kind, e.request) /\ e.kind \in K /\ e.request \in Calls
    /\ \A k, r : Event(k, r).kind = k /\ Event(k, r).request = r
  BY DEF Event, Events

-----------------------------------------------------------------------------
(* The start. *)

Delivered == [Requests -> {"none", "error", "Completed", "Cancelled"}]

Runtime == [Requests -> {"unclaimed", "claimed", "cancelRequested", "completed", "cancelled"}]

(* No frames announce nothing. *)
LEMMA AnnouncedNone == Announced({}) = {} /\ Ordered({}) = 0
  BY Zenon DEF Announced, Ordered

(* The invariant holds at the start. *)
LEMMA MultiplexedStarts == Init => MultiplexedInv
  <1> SUFFICES ASSUME Init PROVE MultiplexedInv
    BY Zenon
  <1>1. /\ app.supervised \in BOOLEAN /\ app.phase = "ready" /\ app.waits = "none"
        /\ app.binding = None /\ app.next = 1 /\ app \in AppStates
    <2>1. app \in [supervised : Modes, phase : {"ready"}, waits : {"none"}, binding : {None},
                    asked : {FALSE}, next : {1}]
      BY Zenon DEF Init
    <2>2. /\ Modes \subseteq BOOLEAN /\ {None} \subseteq Calls /\ {1} \subseteq Nat
          /\ {"ready"} \subseteq {"ready", "poisoned", "closed", "dropped"}
      BY MultiplexedWorkerAssumption DEF Calls
    <2>3. app.supervised \in BOOLEAN
      BY Zenon, <2>1, <2>2
    <2> QED BY Zenon, <2>1, <2>2, <2>3 DEF AppStates
  <1>2. /\ NewAuthorizer \in Authorizers /\ BooksInv(NewAuthorizer)
    BY DEF NewAuthorizer, Authorizers, BooksInv
  <1>3. /\ host \in HostStates /\ host.up /\ host.auth = NewAuthorizer /\ host.active = None
        /\ host.permits = 1 /\ ~host.closing /\ ~host.fault
    BY <1>2 DEF Init, HostStates, Calls
  <1>4. /\ worker \in WorkerStates /\ worker.phase = "up" /\ worker.auth = NewAuthorizer
        /\ worker.active = None /\ worker.last = None /\ worker.permits = 1
        /\ ~worker.cancelling /\ ~worker.fault
    BY <1>2 DEF Init, WorkerStates, Calls
  <1>5. adapter \in [request : Calls, token : BOOLEAN] /\ adapter.request = None
    BY DEF Init, Calls
  <1>6. /\ hostEvents = << >> /\ workerEvents = << >> /\ toHost = << >> /\ toWorker = << >>
        /\ late = {} /\ watchdog = "idle"
        /\ \A r \in Requests : runtime[r] = "unclaimed" /\ delivered[r] = "none" /\ effect[r] = "none"
    BY Zenon DEF Init
  <1>7. TypeInv
    <2>1. \A S : << >> \in Seq(S)
      OBVIOUS
    <2>2. /\ runtime \in Runtime /\ delivered \in Delivered /\ effect \in [Requests -> Effects]
      BY DEF Init, Runtime, Delivered, Effects
    <2> QED BY Zenon, <1>1, <1>3, <1>4, <1>5, <1>6, <2>1, <2>2 DEF TypeInv, Runtime, Delivered
  <1>8. Downward = {} /\ Upward = {} /\ Returned = {}
    BY Zenon, <1>6, ElemsEmpty DEF Downward, Upward, Returned, Of
  <1>9. QueueInv
    <2>1. \A K, k : LineInv(<< >>, << >>, K, k, 1)
      BY Zenon, ElemsEmpty DEF LineInv, Of
    <2> QED BY Zenon, <1>3, <1>4, <1>6, <2>1 DEF QueueInv
  <1>10. WorkerInv
    BY Zenon, <1>2, <1>4, <1>5, <1>8 DEF WorkerInv
  <1>11. HostInv
    BY Zenon, <1>2, <1>3, <1>8 DEF HostInv
  <1>12. BetweenInv
    <2>1. Announced({}) = {} /\ Ordered({}) = 0
      BY Zenon, AnnouncedNone
    <2>2. host.auth.seen = worker.auth.seen \cup {} /\ host.auth.calls = worker.auth.calls + 0
      BY <1>3, <1>4 DEF NewAuthorizer
    <2> QED BY Zenon, <1>3, <1>4, <1>8, <2>1, <2>2 DEF BetweenInv
  <1>13. CommandsInv /\ WatchdogInv /\ ActiveInv
    <2>1. app.binding \notin late
      BY Zenon, <1>6
    <2> QED BY Zenon, <1>1, <1>3, <1>6, <2>1, ElemsEmpty DEF CommandsInv, WatchdogInv, ActiveInv
  <1>14. BindingInv /\ KeptInv
    <2>1. app.next # 0
      BY <1>1
    <2> QED BY Zenon, <1>1, <1>6, <2>1 DEF BindingInv, KeptInv, DeliveredResultKept
  <1>15. TruthInv
    BY Zenon, <1>4, <1>5, <1>6, <1>8 DEF TruthInv
  <1>16. NoProtocolFault /\ NoDetachedEffect
    BY Zenon, <1>3, <1>4, <1>5 DEF NoProtocolFault, NoDetachedEffect
  <1> QED BY Zenon, <1>7, <1>9, <1>10, <1>11, <1>12, <1>13, <1>14, <1>15, <1>16
          DEF MultiplexedInv, ProtocolInv, CallerInv

-----------------------------------------------------------------------------
(* The caller. *)

(* The caller whose command the coordinator takes *)
LEMMA CommandWaits ==
    ASSUME TypeInv, CallerInv, host.up, hostEvents # << >>, NEW e, e = Head(hostEvents)
    PROVE  /\ e \in Elems(hostEvents) /\ e \in HostEvents
           /\ e.kind \in {"Start", "Cancel"} =>
                 e.request = app.binding /\ app.binding \in Requests /\ app.phase = "ready"
           /\ e.kind = "Start" => app.waits = "start"
           /\ e.kind = "Cancel" => app.waits = "cancel"
           /\ e.kind = "Close" => app.waits = "close"
           /\ e.kind = "Abandon" => app.phase = "dropped"
  <1>1. e \in Elems(hostEvents) /\ e \in HostEvents
    BY Zenon, HeadIn, ElemsTail DEF TypeInv
  <1>2. app.binding \in Calls
    BY Zenon DEF TypeInv, AppStates
  <1>3. /\ e.kind = "Start" => app.waits = "start" /\ e.request = app.binding
        /\ e.kind = "Cancel" => app.waits = "cancel" /\ e.request = app.binding
        /\ e.kind = "Close" => app.waits = "close"
        /\ e.kind = "Abandon" => app.phase = "dropped"
    BY Zenon, <1>1 DEF CallerInv, CommandsInv
  <1>4. app.waits # "none" => app.phase = "ready" /\ (app.binding = None <=> app.waits = "close")
    BY Zenon DEF CallerInv, BindingInv
  <1> QED BY Zenon, <1>1, <1>2, <1>3, <1>4 DEF Calls

(* HandleFrame takes a frame the host expects. *)
LEMMA FrameExpected ==
    ASSUME TypeInv, ProtocolInv, host.up, hostEvents # << >>, NEW e, e = Head(hostEvents),
           e.kind \in WorkerKinds
    PROVE  /\ e \in Upward /\ e.request = host.active /\ host.active \in Requests
           /\ host.active # None
           /\ e.kind = "Result" => ValidResult(host.auth, e.request) /\ ~host.completed
           /\ e.kind # "Result" =>
                 host.cancelling /\ ValidDisposition(host.auth, e.request, e.kind)
           /\ e.kind = "TooLate" => host.completed
  <1>0. QueueInv /\ HostInv
    BY Zenon DEF ProtocolInv
  <1>1. /\ hostEvents \in Seq(HostEvents) /\ host.active \in Calls
        /\ LineInv(toHost, hostEvents, WorkerKinds, "Result", host.permits)
    BY Zenon, <1>0 DEF TypeInv, HostStates, QueueInv
  <1>2. e \in Elems(hostEvents)
    BY Zenon, <1>1, HeadIn
  <1>3. e \in Of(hostEvents, WorkerKinds) /\ e \in Of(hostEvents, WorkerKinds \cup {"End"})
    BY Zenon, <1>2 DEF Of
  <1>4. e \in Upward /\ e.request = host.active /\ host.active # None
    BY Zenon, <1>0, <1>3 DEF HostInv, Upward
  <1>5. host.active \in Requests
    BY Zenon, <1>1, <1>4 DEF Calls
  <1>6. /\ Cancellation(host.active) \notin host.auth.completed
        /\ host.active \notin host.auth.cancelled
        /\ host.completed <=> Invocation(host.active) \in host.auth.completed
    BY Zenon, <1>0, <1>4 DEF HostInv
  <1>7. CASE e.kind = "Result"
    BY Zenon, <1>0, <1>4, <1>5, <1>6, <1>7 DEF HostInv, ValidResult
  <1>8. CASE e.kind = "TooLate"
    <2>1. Event("Result", e.request) \notin Upward
      <3> SUFFICES ASSUME Event("Result", e.request) \in Upward PROVE FALSE
        OBVIOUS
      <3>1. Event("Result", e.request).kind = "Result"
        BY Zenon, EventForm
      <3>2. Event("Result", e.request) \notin Elems(toHost)
        BY Zenon, <1>1, <1>3, <3>1 DEF LineInv
      <3>3. Event("Result", e.request) \in Of(hostEvents, WorkerKinds \cup {"End"})
        BY Zenon, <3>2 DEF Upward, Of
      <3>4. Event("Result", e.request) = e
        BY Zenon, <1>1, <1>3, <3>3 DEF LineInv
      <3> QED BY <1>8, <3>1, <3>4
    <2>2. host.completed /\ host.cancelling
      BY Zenon, <1>0, <1>4, <1>8, <2>1 DEF HostInv
    <2> QED BY Zenon, <1>4, <1>5, <1>6, <1>8, <2>2 DEF ValidDisposition
  <1>9. CASE e.kind = "Acknowledged"
    <2>1. ~host.completed /\ host.cancelling
      BY Zenon, <1>0, <1>4, <1>9 DEF HostInv
    <2> QED BY Zenon, <1>4, <1>5, <1>6, <1>9, <2>1 DEF ValidDisposition
  <1> QED BY Zenon, <1>7, <1>8, <1>9 DEF WorkerKinds

(* A frame the coordinator takes is one it expects. *)
LEMMA HandleFrameCases ==
    ASSUME TypeInv, ProtocolInv, HandleFrame
    PROVE  LET e == Head(hostEvents) IN
           /\ host.up /\ hostEvents # << >> /\ hostEvents' = Tail(hostEvents)
           /\ e.kind \in WorkerKinds
           /\ e \in Upward /\ e.request = host.active /\ host.active \in Requests
           /\ host.active # None
           /\ UNCHANGED <<app, runtime, watchdog, toHost, toWorker, workerVars, late>>
           /\ \/ e.kind = "Result" /\ AcceptResult(e.request)
              \/ e.kind \in {"TooLate", "Acknowledged"} /\ AcceptDisposition(e.request, e.kind)
  <1> DEFINE e == Head(hostEvents)
  <1>1. /\ host.up /\ hostEvents # << >> /\ hostEvents' = Tail(hostEvents)
        /\ e.kind \in {"Result"} \cup Outcomes
        /\ UNCHANGED <<app, runtime, watchdog, toHost, toWorker, workerVars, late>>
    BY Zenon DEF HandleFrame, NextEvent
  <1>2. e.kind \in WorkerKinds
    <2>1. e \in HostEvents
      BY Zenon, <1>1, ElemsTail DEF TypeInv
    <2>2. e.kind \in CommandKinds \cup WorkerKinds \cup {"End"}
      BY Zenon, <2>1, EventForm DEF HostEvents
    <2> QED BY Zenon, <1>1, <2>2 DEF CommandKinds, Outcomes
  <1>3. /\ e \in Upward /\ e.request = host.active /\ host.active \in Requests
        /\ host.active # None
        /\ e.kind = "Result" => ValidResult(host.auth, e.request) /\ ~host.completed
        /\ e.kind # "Result" => host.cancelling /\ ValidDisposition(host.auth, e.request, e.kind)
    BY Zenon, <1>1, <1>2, FrameExpected
  <1>4. IF e.kind = "Result" THEN AcceptResult(e.request) ELSE AcceptDisposition(e.request, e.kind)
    BY Zenon, <1>3 DEF HandleFrame
  <1> QED BY Zenon, <1>1, <1>2, <1>3, <1>4 DEF WorkerKinds

(* Every step keeps the caller's invariant. *)
LEMMA CallerKept ==
    ASSUME TypeInv, ProtocolInv, CallerInv, [Next]_vars
    PROVE  CallerInv'
  (* Once the caller's command is taken, none is left. *)
  <1>NoCommandLeft.
      ASSUME TypeInv, ProtocolInv, CallerInv, host.up, hostEvents # << >>,
             hostEvents' = Tail(hostEvents)
      PROVE  /\ Elems(hostEvents') \subseteq Elems(hostEvents)
             /\ Head(hostEvents).kind \in {"Start", "Cancel", "Close"} =>
                   \A f \in Elems(hostEvents') : f.kind \notin CommandKinds
    <2> USE <1>NoCommandLeft
    <2> DEFINE e == Head(hostEvents)
    <2>0. hostEvents \in Seq(HostEvents) /\ Distinct(hostEvents)
      BY Zenon DEF TypeInv, ProtocolInv, QueueInv, LineInv
    <2>1. /\ Elems(hostEvents) = {e} \cup Elems(hostEvents') /\ e \notin Elems(hostEvents')
          /\ e \in HostEvents
      BY Zenon, <2>0, ElemsTail
    <2> HIDE DEF e
    <2>2. ASSUME e.kind \in {"Start", "Cancel", "Close"}, NEW f \in Elems(hostEvents'),
                 f.kind \in CommandKinds
          PROVE  FALSE
      <3>1. f \in HostEvents /\ f \in Elems(hostEvents) /\ e \in Elems(hostEvents) /\ f # e
        BY Zenon, <2>0, <2>1, ElemsType
      <3>2. e = Event(e.kind, e.request) /\ f = Event(f.kind, f.request)
        BY Zenon, <2>1, <3>1, EventForm DEF HostEvents
      <3>3. f.kind \in {"Start", "Cancel", "Close", "Abandon"}
        BY Zenon, <2>2 DEF CommandKinds
      <3>4. \A x \in {e, f} :
               /\ x.kind = "Start" => app.waits = "start" /\ x.request = app.binding
               /\ x.kind = "Cancel" => app.waits = "cancel" /\ x.request = app.binding
               /\ x.kind = "Close" => app.waits = "close" /\ x.request = None
               /\ x.kind = "Abandon" => app.phase = "dropped"
        BY Zenon, <3>1 DEF CallerInv, CommandsInv
      <3>5. app.waits # "none" => app.phase = "ready"
        BY Zenon DEF CallerInv, BindingInv
      <3>6. f.kind = e.kind /\ f.request = e.request
        BY <2>2, <3>3, <3>4, <3>5
      <3> QED BY Zenon, <3>1, <3>2, <3>6
    <2> QED BY Zenon, <2>1, <2>2 DEF e
  (* What breaking off tells the caller *)
  <1>BreakTells.
      ASSUME TypeInv, CallerInv, Break(FALSE)
      PROVE  /\ ~host'.up /\ host'.active = None
             /\ \A r \in Requests : delivered'[r] = delivered[r] \/ delivered'[r] = "error"
             /\ \A r \in Requests : r >= app.next => delivered'[r] = "none"
             /\ \A r \in Requests : r # host.active => delivered'[r] = delivered[r]
    <2> USE <1>BreakTells
    <2>1. ~host'.up /\ host'.active = None
      BY Zenon DEF Break, TypeInv, HostStates
    <2>2. \A r \in Requests : delivered'[r] = IF r = host.active THEN "error" ELSE delivered[r]
      BY Zenon DEF Break
    <2>3. /\ host.active \in Calls /\ app.next \in Nat
          /\ host.active # None => host.active < app.next
          /\ \A r \in Requests : r >= app.next => delivered[r] = "none"
      BY Zenon DEF TypeInv, HostStates, AppStates, CallerInv, ActiveInv, BindingInv
    <2>4. \A r \in Requests : r >= app.next => r # host.active
      BY <2>3 DEF Calls, Requests, None
    <2> QED BY Zenon, <2>1, <2>2, <2>3, <2>4
  (* fail_transport: the caller gives its call up. *)
  <1>GivesUp.
      ASSUME TypeInv, CallerInv, FailTransport, UNCHANGED <<runtime, late>>, app.phase = "ready",
             host'.up => /\ ~host'.closing
                         /\ \A e \in Elems(hostEvents') : e.kind \notin CommandKinds,
             host'.active # None =>
                host'.active = host.active /\ host'.up = host.up /\ app.supervised
                /\ delivered' = delivered,
             \A r \in Requests : /\ delivered'[r] = "Completed" => delivered[r] = "Completed"
                                 /\ r >= app.next => delivered'[r] = "none",
             ~app.supervised => app.binding = None \/ delivered[app.binding] # "Completed"
      PROVE  CallerInv'
    <2> USE <1>GivesUp
    <2>0. CommandsInv /\ BindingInv /\ WatchdogInv /\ ActiveInv /\ KeptInv
      BY Zenon DEF CallerInv
    <2>1. /\ app'.waits = "none" /\ app'.binding = None /\ app'.next = app.next
          /\ app'.supervised = app.supervised /\ app'.phase \in {"ready", "poisoned"}
          /\ app.supervised => app'.phase = "poisoned"
          /\ watchdog' = "idle"
      BY Zenon DEF FailTransport, TypeInv, AppStates
    <2>2. None \notin Requests
      BY DEF None, Requests
    <2>3. CommandsInv'
      BY Zenon, <2>1 DEF CommandsInv, CommandKinds
    <2>4. BindingInv'
      BY Zenon, <2>0, <2>1 DEF BindingInv
    <2>5. WatchdogInv'
      <3>1. app'.binding \notin late'
        BY Zenon, <2>1, <2>2 DEF TypeInv
      <3> QED BY Zenon, <2>0, <2>1, <3>1 DEF WatchdogInv
    <2>6. ActiveInv'
      BY Zenon, <2>0, <2>1 DEF ActiveInv
    <2>7. KeptInv'
      <3> SUFFICES ASSUME ~app.supervised, NEW r \in Requests, delivered'[r] = "Completed"
                   PROVE  runtime[r] = "completed" \/ r \in late
        BY Zenon, <2>1 DEF KeptInv, DeliveredResultKept
      <3>1. delivered[r] = "Completed" /\ app.binding # r /\ app.phase # "dropped"
        BY Zenon, <2>2
      <3> QED BY Zenon, <2>0, <3>1 DEF KeptInv, DeliveredResultKept
    <2> QED BY Zenon, <2>3, <2>4, <2>5, <2>6, <2>7 DEF CallerInv
  (* A bare binding whose cancellation was refused goes on. *)
  <1>GoesOn.
      ASSUME TypeInv, CallerInv, UNCHANGED <<runtime, late, watchdog>>, app.waits # "none",
             app.waits # "start", app' = [app EXCEPT !.waits = "none"],
             host'.up => /\ ~host'.closing
                         /\ \A e \in Elems(hostEvents') : e.kind \notin CommandKinds,
             host'.active # None =>
                host'.active = host.active /\ host'.up = host.up /\ delivered' = delivered,
             \A r \in Requests : /\ delivered'[r] = "Completed" => delivered[r] = "Completed"
                                 /\ r >= app.next => delivered'[r] = "none"
      PROVE  CallerInv'
    <2> USE <1>GoesOn
    <2>0. CommandsInv /\ BindingInv /\ WatchdogInv /\ ActiveInv /\ KeptInv
      BY Zenon DEF CallerInv
    <2>1. /\ app'.waits = "none" /\ app'.binding = app.binding /\ app'.next = app.next
          /\ app'.supervised = app.supervised /\ app'.phase = app.phase
      BY Zenon DEF TypeInv, AppStates
    <2>3. CommandsInv'
      BY Zenon, <2>1 DEF CommandsInv, CommandKinds
    <2>4. BindingInv'
      BY Zenon, <2>0, <2>1 DEF BindingInv
    <2>5. WatchdogInv'
      <3>1. app'.binding \in late' => app.binding \in late
        BY <2>1
      <3> QED BY Zenon, <2>0, <2>1, <3>1 DEF WatchdogInv
    <2>6. ActiveInv'
      BY Zenon, <2>0, <2>1 DEF ActiveInv
    <2>7. KeptInv'
      BY Zenon, <2>0, <2>1 DEF KeptInv, DeliveredResultKept
    <2> QED BY Zenon, <2>3, <2>4, <2>5, <2>6, <2>7 DEF CallerInv
  (* Steps the caller does not see *)
  <1>Unseen.
      ASSUME TypeInv, CallerInv, UNCHANGED <<app, runtime, watchdog, delivered, late>>,
             host'.up = host.up, host'.active = host.active, host'.closing = host.closing,
             \A e \in Elems(hostEvents') : e \in Elems(hostEvents) \/ e.kind \notin CommandKinds
      PROVE  CallerInv'
    <2> USE <1>Unseen
    <2>0. CommandsInv /\ BindingInv /\ WatchdogInv /\ ActiveInv /\ KeptInv
      BY Zenon DEF CallerInv
    <2>1. CommandsInv'
      BY Zenon, <2>0 DEF CommandsInv, CommandKinds
    <2>2. BindingInv' /\ WatchdogInv'
      BY Zenon, <2>0 DEF BindingInv, WatchdogInv
    <2>3. ActiveInv' /\ KeptInv'
      BY Zenon, <2>0 DEF ActiveInv, KeptInv, DeliveredResultKept
    <2> QED BY Zenon, <2>1, <2>2, <2>3 DEF CallerInv
  (* The coordinator breaks off, unasked. *)
  <1>BrokenOff.
      ASSUME TypeInv, CallerInv, Break(FALSE), UNCHANGED <<runtime, watchdog, late>>,
             app' = app \/ (app' = [app EXCEPT !.phase = "closed", !.waits = "none"]
                            /\ host.up /\ host.closing)
      PROVE  CallerInv'
    <2> USE <1>BrokenOff
    <2>0. CommandsInv /\ BindingInv /\ WatchdogInv /\ ActiveInv /\ KeptInv
      BY Zenon DEF CallerInv
    <2>1. /\ ~host'.up /\ host'.active = None
          /\ \A r \in Requests : delivered'[r] = delivered[r] \/ delivered'[r] = "error"
          /\ \A r \in Requests : r >= app.next => delivered'[r] = "none"
          /\ \A r \in Requests : r # host.active => delivered'[r] = delivered[r]
      BY Zenon, <1>BreakTells
    <2>2. /\ app'.binding = app.binding /\ app'.next = app.next /\ app'.supervised = app.supervised
          /\ app' = app \/ (app'.waits = "none" /\ app.phase = "ready" /\ app.binding = None)
      BY ZenonT(60), <2>0 DEF TypeInv, AppStates, CommandsInv, BindingInv
    <2>3. CommandsInv' /\ ActiveInv'
      BY Zenon, <2>1 DEF CommandsInv, ActiveInv
    <2>4. BindingInv'
      <3>1. app.waits = "start" => app.binding \in Requests /\ app.binding # host.active
        BY Zenon, <2>0 DEF BindingInv, ActiveInv, TypeInv, AppStates, Calls
      <3>2. app'.waits = "start" => delivered'[app.binding] = "none"
        BY Zenon, <2>0, <2>1, <2>2, <3>1 DEF BindingInv
      <3> QED BY Zenon, <2>0, <2>1, <2>2, <3>2 DEF BindingInv
    <2>5. WatchdogInv'
      BY Zenon, <2>0, <2>2 DEF WatchdogInv
    <2>6. KeptInv'
      <3> SUFFICES ASSUME ~app.supervised, NEW r \in Requests, delivered'[r] = "Completed"
                   PROVE  \/ app.binding = r \/ runtime[r] = "completed" \/ r \in late
                          \/ app'.phase = "dropped"
        BY Zenon, <2>2 DEF KeptInv, DeliveredResultKept
      <3>1. delivered[r] = "Completed"
        BY Zenon, <2>1
      <3>2. app.binding = r \/ runtime[r] = "completed" \/ r \in late \/ app.phase = "dropped"
        BY Zenon, <2>0, <3>1 DEF KeptInv, DeliveredResultKept
      <3> QED BY Zenon, <2>2, <3>2
    <2> QED BY Zenon, <2>3, <2>4, <2>5, <2>6 DEF CallerInv
  (* start_external_tool *)
  <1>StartKeepsCaller.
      ASSUME TypeInv, CallerInv, start_external_tool
      PROVE  CallerInv'
    <2> USE <1>StartKeepsCaller
    <2> DEFINE r == app.next
               x == Event("Start", r)
    <2>0. CommandsInv /\ BindingInv /\ WatchdogInv /\ ActiveInv /\ KeptInv
      BY Zenon DEF CallerInv
    <2>1. /\ app.phase = "ready" /\ app.waits = "none" /\ app.binding = None /\ r \in Requests
          /\ UNCHANGED <<host, delivered, late>>
          /\ runtime' = [runtime EXCEPT ![r] = "claimed"]
          /\ app' = [app EXCEPT !.waits = "start", !.binding = r, !.asked = FALSE, !.next = @ + 1]
          /\ watchdog' = IF app.supervised THEN "armed" ELSE "idle"
          /\ hostEvents' = Append(hostEvents, x)
      BY Zenon DEF start_external_tool, Post
    <2>2. /\ app'.phase = "ready" /\ app'.waits = "start" /\ app'.binding = r
          /\ app'.next = r + 1 /\ app'.supervised = app.supervised /\ r \in Nat
          /\ app.supervised \in BOOLEAN
      BY Zenon, <2>1 DEF TypeInv, AppStates
    <2>3. \A q \in Requests : runtime'[q] = IF q = r THEN "claimed" ELSE runtime[q]
      BY Zenon, <2>1 DEF TypeInv
    <2>4. /\ r # None /\ r >= r /\ r < r + 1 /\ r + 1 # 0
          /\ \A q \in Requests : q >= r + 1 => q >= r /\ q # r
      BY <2>1, <2>2 DEF Requests, None
    <2>5. Elems(hostEvents') = Elems(hostEvents) \cup {x} /\ x.kind = "Start" /\ x.request = r
      <3>1. x \in HostEvents /\ x.kind = "Start" /\ x.request = r
        <4>1. "Start" \in CommandKinds \cup WorkerKinds \cup {"End"} /\ r \in Calls
          BY Zenon, <2>1 DEF CommandKinds, Calls
        <4> QED BY Zenon, <4>1, EventForm DEF HostEvents
      <3>2. hostEvents \in Seq(HostEvents)
        BY Zenon DEF TypeInv
      <3> HIDE DEF x
      <3>3. Elems(hostEvents') = Elems(hostEvents) \cup {x}
        BY <2>1, <3>1, <3>2, ElemsAppend
      <3> QED BY Zenon, <3>1, <3>3
    <2> HIDE DEF x, r
    <2>6. host.active = None
      BY Zenon, <2>0, <2>1 DEF ActiveInv
    <2>7. delivered[r] = "none" /\ r \notin late /\ runtime[r] = "unclaimed"
      BY Zenon, <2>0, <2>1, <2>4 DEF BindingInv, r
    <2>8. CommandsInv'
      BY Zenon, <2>0, <2>1, <2>2, <2>5 DEF CommandsInv
    <2>9. BindingInv'
      <3>1. \A q \in Requests : q >= app'.next =>
               runtime'[q] = "unclaimed" /\ delivered'[q] = "none" /\ q \notin late'
        BY ZenonT(60), <2>0, <2>1, <2>2, <2>3, <2>4 DEF BindingInv, r
      <3>2. runtime'[app'.binding] \in {"claimed", "cancelRequested"} /\ app'.binding < app'.next
            /\ app'.next # 0
        BY Zenon, <2>1, <2>2, <2>3, <2>4
      <3> QED BY Zenon, <2>1, <2>2, <2>4, <2>7, <3>1, <3>2 DEF BindingInv
    <2>10. WatchdogInv'
      <3>1. \A q \in late : q \in Requests /\ runtime[q] \notin {"completed", "cancelled"}
        BY Zenon, <2>0 DEF WatchdogInv, TypeInv
      <3>2. \A q \in late' : runtime'[q] \notin {"completed", "cancelled"}
        BY Zenon, <2>1, <2>3, <2>7, <3>1
      <3>3. app'.binding \notin late'
        BY <2>1, <2>2, <2>7
      <3> QED BY Zenon, <2>1, <2>2, <2>4, <3>2, <3>3 DEF WatchdogInv
    <2>11. ActiveInv'
      BY Zenon, <2>1, <2>6 DEF ActiveInv
    <2>12. KeptInv'
      <3> SUFFICES ASSUME ~app.supervised, NEW q \in Requests, delivered[q] = "Completed"
                   PROVE  runtime'[q] = "completed" \/ q \in late
        BY Zenon, <2>1, <2>2 DEF KeptInv, DeliveredResultKept
      <3>1. q # r /\ q # None
        BY <2>7 DEF Requests, None
      <3> QED BY Zenon, <2>0, <2>1, <2>3, <3>1 DEF KeptInv, DeliveredResultKept
    <2> QED BY Zenon, <2>8, <2>9, <2>10, <2>11, <2>12 DEF CallerInv
  (* A command joins the queue. *)
  <1>CommandPosted.
      ASSUME TypeInv, NEW k \in CommandKinds, NEW r \in Calls, Post(Event(k, r))
      PROVE  /\ Elems(hostEvents') = Elems(hostEvents) \cup {Event(k, r)}
             /\ Event(k, r).kind = k /\ Event(k, r).request = r
    <2> USE <1>CommandPosted
    <2>1. Event(k, r) \in HostEvents /\ Event(k, r).kind = k /\ Event(k, r).request = r
      BY Zenon, EventForm DEF HostEvents
    <2>2. hostEvents \in Seq(HostEvents) /\ hostEvents' = Append(hostEvents, Event(k, r))
      BY Zenon DEF TypeInv, Post
    <2>3. Elems(hostEvents') = Elems(hostEvents) \cup {Event(k, r)}
      BY SMTT(30), <2>1, <2>2, ElemsAppend
    <2> QED BY Zenon, <2>1, <2>3
  (* request_external_tool_cancellation *)
  <1>CancelKeepsCaller.
      ASSUME TypeInv, CallerInv, request_external_tool_cancellation
      PROVE  CallerInv'
    <2> USE <1>CancelKeepsCaller
    <2> DEFINE r == app.binding
               x == Event("Cancel", r)
    <2>0. CommandsInv /\ BindingInv /\ WatchdogInv /\ ActiveInv /\ KeptInv
      BY Zenon DEF CallerInv
    <2>1. /\ app.phase = "ready" /\ app.waits = "none" /\ r # None
          /\ UNCHANGED <<watchdog, host, delivered, late>>
          /\ runtime' = [runtime EXCEPT ![r] = "cancelRequested"]
          /\ app' = [app EXCEPT !.waits = "cancel", !.asked = TRUE] /\ Post(x)
      BY Zenon DEF request_external_tool_cancellation
    <2>2. /\ app'.phase = "ready" /\ app'.waits = "cancel" /\ app'.binding = r
          /\ app'.next = app.next /\ app'.supervised = app.supervised /\ app.next \in Nat
          /\ r \in Calls /\ r \in Requests
      BY Zenon, <2>1 DEF TypeInv, AppStates, Calls
    <2>3. \A q \in Requests : runtime'[q] = IF q = r THEN "cancelRequested" ELSE runtime[q]
      BY Zenon, <2>1, <2>2 DEF TypeInv
    <2>5. Elems(hostEvents') = Elems(hostEvents) \cup {x} /\ x.kind = "Cancel" /\ x.request = r
      BY ZenonT(60), <2>1, <2>2, <1>CommandPosted DEF CommandKinds
    <2> HIDE DEF x, r
    <2>8. CommandsInv'
      BY Zenon, <2>0, <2>1, <2>2, <2>5 DEF CommandsInv
    <2>a. r < app.next /\ runtime[r] \in {"claimed", "cancelRequested"}
      BY Zenon, <2>0, <2>1 DEF BindingInv, r
    <2>9. BindingInv'
      <3>0. \A q \in Requests : q >= app.next => q # r
        BY <2>2, <2>a DEF Requests
      <3>1. \A q \in Requests : q >= app'.next =>
               runtime'[q] = "unclaimed" /\ delivered'[q] = "none" /\ q \notin late'
        BY ZenonT(60), <2>0, <2>1, <2>2, <2>3, <3>0 DEF BindingInv
      <3>2. runtime'[app'.binding] \in {"claimed", "cancelRequested"} /\ app'.binding < app'.next
            /\ app'.next # 0
        BY Zenon, <2>0, <2>2, <2>3, <2>a DEF BindingInv
      <3> QED BY Zenon, <2>1, <2>2, <3>1, <3>2 DEF BindingInv
    <2>10. WatchdogInv'
      <3>1. \A q \in late : q \in Requests /\ runtime[q] \notin {"completed", "cancelled"}
        BY Zenon, <2>0 DEF WatchdogInv, TypeInv
      <3>2. \A q \in late : runtime'[q] \notin {"completed", "cancelled"}
        BY Zenon, <2>3, <3>1
      <3>3. app'.binding = app.binding /\ (app'.binding \in late' => app.binding \in late)
        BY <2>1, <2>2 DEF r
      <3> QED BY Zenon, <2>0, <2>1, <2>2, <3>2, <3>3 DEF WatchdogInv
    <2>11. ActiveInv'
      <3>1. app'.binding = app.binding
        BY Zenon, <2>2 DEF r
      <3> QED BY Zenon, <2>0, <2>1, <2>2, <3>1 DEF ActiveInv
    <2>12. KeptInv'
      <3> SUFFICES ASSUME ~app.supervised, NEW q \in Requests, delivered[q] = "Completed"
                   PROVE  r = q \/ runtime'[q] = "completed" \/ q \in late
        BY Zenon, <2>1, <2>2 DEF KeptInv, DeliveredResultKept
      <3>1. r = q \/ runtime[q] = "completed" \/ q \in late
        BY Zenon, <2>0, <2>1 DEF KeptInv, DeliveredResultKept, r
      <3> QED BY Zenon, <2>3, <3>1
    <2> QED BY Zenon, <2>8, <2>9, <2>10, <2>11, <2>12 DEF CallerInv
  (* close and Drop *)
  <1>CloseKeepsCaller.
      ASSUME TypeInv, CallerInv, close \/ Drop
      PROVE  CallerInv'
    <2> USE <1>CloseKeepsCaller
    <2>0. /\ CommandsInv /\ BindingInv /\ WatchdogInv /\ ActiveInv /\ KeptInv
          /\ None \in Calls /\ None \notin Requests
      BY DEF CallerInv, Calls, None, Requests
    <2>1. CASE close
      <3> DEFINE x == Event("Close", None)
      <3>1. /\ app.phase = "ready" /\ app.waits = "none" /\ app.binding = None
            /\ UNCHANGED <<runtime, watchdog, host, delivered, late>>
            /\ app' = [app EXCEPT !.waits = "close"] /\ Post(x)
        BY Zenon, <2>1 DEF close
      <3>2. /\ app'.phase = "ready" /\ app'.waits = "close" /\ app'.binding = None
            /\ app'.next = app.next /\ app'.supervised = app.supervised
        BY Zenon, <3>1 DEF TypeInv, AppStates
      <3>3. Elems(hostEvents') = Elems(hostEvents) \cup {x} /\ x.kind = "Close" /\ x.request = None
        BY Zenon, <2>0, <3>1, <1>CommandPosted DEF CommandKinds
      <3> HIDE DEF x
      <3>4. CommandsInv'
        BY Zenon, <2>0, <3>1, <3>2, <3>3 DEF CommandsInv
      <3>5. BindingInv' /\ WatchdogInv'
        <4>1. app'.binding \notin late'
          BY <2>0, <3>1, <3>2 DEF TypeInv
        <4> QED BY Zenon, <2>0, <3>1, <3>2, <4>1 DEF BindingInv, WatchdogInv
      <3>6. ActiveInv' /\ KeptInv'
        BY Zenon, <2>0, <3>1, <3>2 DEF ActiveInv, KeptInv, DeliveredResultKept
      <3> QED BY Zenon, <3>4, <3>5, <3>6 DEF CallerInv
    <2>2. CASE Drop
      <3> DEFINE x == Event("Abandon", None)
      <3>1. /\ app.waits = "none" /\ UNCHANGED <<runtime, host, delivered, late>>
            /\ app' = [app EXCEPT !.phase = "dropped", !.binding = None] /\ watchdog' = "idle"
            /\ Post(x)
        BY Zenon, <2>2 DEF Drop
      <3>2. /\ app'.phase = "dropped" /\ app'.waits = "none" /\ app'.binding = None
            /\ app'.next = app.next /\ app'.supervised = app.supervised
        BY Zenon, <3>1 DEF TypeInv, AppStates
      <3>3. Elems(hostEvents') = Elems(hostEvents) \cup {x} /\ x.kind = "Abandon" /\ x.request = None
        BY Zenon, <2>0, <3>1, <1>CommandPosted DEF CommandKinds
      <3> HIDE DEF x
      <3>4. CommandsInv'
        BY Zenon, <2>0, <3>1, <3>2, <3>3 DEF CommandsInv
      <3>5. BindingInv' /\ WatchdogInv'
        <4>1. app'.binding \notin late'
          BY <2>0, <3>1, <3>2 DEF TypeInv
        <4> QED BY Zenon, <2>0, <3>1, <3>2, <4>1 DEF BindingInv, WatchdogInv
      <3>6. ActiveInv' /\ KeptInv'
        BY Zenon, <2>0, <3>1, <3>2 DEF ActiveInv, KeptInv, DeliveredResultKept
      <3> QED BY Zenon, <3>4, <3>5, <3>6 DEF CallerInv
    <2> QED BY Zenon, <2>1, <2>2
  (* poll_external_tool takes what was delivered. *)
  <1>PollKeepsCaller.
      ASSUME TypeInv, CallerInv, poll_external_tool
      PROVE  CallerInv'
    <2> USE <1>PollKeepsCaller
    <2> DEFINE r == app.binding
    <2>0. CommandsInv /\ BindingInv /\ WatchdogInv /\ ActiveInv /\ KeptInv
      BY Zenon DEF CallerInv
    <2>1. /\ app.phase = "ready" /\ app.waits = "none" /\ r # None /\ r \in Requests
          /\ delivered[r] # "none" /\ UNCHANGED <<host, hostEvents, delivered, late>>
          /\ None \notin Requests
      <3>1. app.phase = "ready" /\ app.waits = "none" /\ r # None
            /\ UNCHANGED <<host, hostEvents, delivered, late>>
        BY Zenon DEF poll_external_tool
      <3>2. delivered[r] # "none"
        BY Zenon DEF poll_external_tool
      <3>3. r \in Requests
        BY Zenon, <3>1 DEF TypeInv, AppStates, Calls
      <3> QED BY <3>1, <3>2, <3>3 DEF Requests, None
    <2>2. host.active = None
      BY Zenon, <2>0, <2>1 DEF ActiveInv
    <2>3. host.up =>
             ~host.closing /\ \A e \in Elems(hostEvents) : e.kind \notin CommandKinds
      BY Zenon, <2>0, <2>1 DEF CommandsInv, CommandKinds
    <2>4. CASE FailTransport /\ UNCHANGED runtime /\ delivered[r] = "error"
      <3>1. \A q \in Requests : q >= app.next => delivered'[q] = "none"
        BY Zenon, <2>0, <2>1 DEF BindingInv
      <3> QED BY Zenon, <2>1, <2>2, <2>3, <2>4, <3>1, <1>GivesUp
    <2>5. ASSUME NEW state \in {"completed", "cancelled"}, Finish(r, state), watchdog' = "idle",
                 delivered[r] = "Completed" => state = "completed"
          PROVE  CallerInv'
      <3>1. /\ app'.waits = "none" /\ app'.binding = None /\ app'.next = app.next
            /\ app'.supervised = app.supervised
            /\ \/ app'.phase = "poisoned" /\ app.supervised /\ UNCHANGED runtime
               \/ /\ app'.phase = "ready" /\ runtime' = [runtime EXCEPT ![r] = state]
                  /\ watchdog # "fired"
        BY ZenonT(60), <2>0, <2>1, <2>5 DEF Finish, TypeInv, AppStates, WatchdogInv
      <3>2. /\ \A q \in Requests : q # r => runtime'[q] = runtime[q]
            /\ runtime'[r] = runtime[r] \/ (runtime'[r] = state /\ r \notin late)
            /\ ~app.supervised => runtime'[r] = state
        BY Zenon, <2>0, <2>1, <3>1 DEF TypeInv, WatchdogInv
      <3>3. CommandsInv'
        BY Zenon, <2>1, <2>3 DEF CommandsInv, CommandKinds
      <3>4. BindingInv'
        <4>1. app.next \in Nat /\ r < app.next
          BY Zenon, <2>0, <2>1 DEF BindingInv, TypeInv, AppStates
        <4>2. \A q \in Requests : q >= app.next => q # r
          BY <4>1 DEF Requests
        <4>3. \A q \in Requests : q >= app'.next =>
                 runtime'[q] = "unclaimed" /\ delivered'[q] = "none" /\ q \notin late'
          BY Zenon, <2>0, <2>1, <3>1, <3>2, <4>2 DEF BindingInv
        <4> QED BY Zenon, <2>0, <3>1, <4>3 DEF BindingInv
      <3>5. WatchdogInv'
        <4>1. app'.binding \notin late'
          BY <2>1, <3>1 DEF TypeInv
        <4>2. \A q \in late : q \in Requests /\ runtime[q] \notin {"completed", "cancelled"}
          BY Zenon, <2>0 DEF WatchdogInv, TypeInv
        <4>3. \A q \in late' : runtime'[q] \notin {"completed", "cancelled"}
          BY Zenon, <2>1, <3>2, <4>2
        <4> QED BY Zenon, <2>5, <4>1, <4>3 DEF WatchdogInv
      <3>6. ActiveInv'
        BY Zenon, <2>1, <2>2 DEF ActiveInv
      <3>7. KeptInv'
        <4> SUFFICES ASSUME ~app.supervised, NEW q \in Requests, delivered[q] = "Completed"
                     PROVE  runtime'[q] = "completed" \/ q \in late
          BY Zenon, <2>1, <3>1 DEF KeptInv, DeliveredResultKept
        <4>1. CASE q = r
          BY Zenon, <2>5, <3>2, <4>1
        <4>2. CASE q # r
          BY Zenon, <2>0, <2>1, <3>2, <4>2 DEF KeptInv, DeliveredResultKept
        <4> QED BY Zenon, <4>1, <4>2
      <3> QED BY Zenon, <3>3, <3>4, <3>5, <3>6, <3>7 DEF CallerInv
    <2>6. \/ FailTransport /\ UNCHANGED runtime /\ delivered[r] = "error"
          \/ /\ watchdog' = "idle"
             /\ \/ delivered[r] = "Completed" /\ Finish(r, "completed")
                \/ delivered[r] = "Cancelled" /\ Finish(r, "cancelled")
      BY Zenon DEF poll_external_tool
    <2>7. CASE watchdog' = "idle" /\ delivered[r] = "Completed" /\ Finish(r, "completed")
      BY Zenon, <2>5, <2>7
    <2>8. CASE watchdog' = "idle" /\ delivered[r] = "Cancelled" /\ Finish(r, "cancelled")
      BY Zenon, <2>5, <2>8
    <2> QED BY Zenon, <2>4, <2>6, <2>7, <2>8
  (* The coordinator is gone. *)
  <1>UnavailableKeepsCaller.
      ASSUME TypeInv, CallerInv, Unavailable
      PROVE  CallerInv'
    <2> USE <1>UnavailableKeepsCaller
    <2>0. CommandsInv /\ BindingInv /\ WatchdogInv /\ ActiveInv /\ KeptInv
      BY Zenon DEF CallerInv
    <2>1. /\ app.waits # "none" /\ ~host.up
          /\ UNCHANGED <<runtime, host, hostEvents, delivered, late>>
      BY Zenon DEF Unavailable
    <2>2. host.active = None /\ app.phase = "ready"
          /\ (app.waits # "cancel" => app.binding = None \/ delivered[app.binding] = "none")
      BY Zenon, <2>0, <2>1 DEF ActiveInv, BindingInv, TypeInv, AppStates
    <2>3. \A q \in Requests : q >= app.next => delivered'[q] = "none"
      BY Zenon, <2>0, <2>1 DEF BindingInv
    <2>4. CASE app.waits = "cancel" /\ ~app.supervised
      <3>1. app' = [app EXCEPT !.waits = "none"] /\ UNCHANGED watchdog
        BY Zenon, <2>4 DEF Unavailable, CancelRefused
      <3> QED BY Zenon, <2>1, <2>2, <2>3, <2>4, <3>1, <1>GoesOn
    <2>5. CASE ~(app.waits = "cancel" /\ ~app.supervised)
      <3>1. FailTransport
        BY Zenon, <2>5 DEF Unavailable, CancelRefused
      <3>2. ~app.supervised => app.binding = None \/ delivered[app.binding] # "Completed"
        BY Zenon, <2>2, <2>5
      <3> QED BY Zenon, <2>1, <2>2, <2>3, <3>1, <3>2, <1>GivesUp
    <2> QED BY Zenon, <2>4, <2>5
  (* The coordinator refuses a command, or breaks off over it. *)
  <1>RefusedKeepsCaller.
      ASSUME TypeInv, ProtocolInv, CallerInv, host.up, hostEvents # << >>,
             hostEvents' = Tail(hostEvents), UNCHANGED <<runtime, late>>,
             NEW k, k = Head(hostEvents).kind, k \in {"Start", "Cancel", "Close"},
             IF k = "Cancel" THEN CancelRefused ELSE FailTransport,
             Break(FALSE) \/ UNCHANGED <<host, delivered>>,
             k = "Close" => host.active # None \/ host.closing \/ Break(FALSE)
      PROVE  CallerInv'
    <2> USE <1>RefusedKeepsCaller
    <2>0. CommandsInv /\ BindingInv /\ WatchdogInv /\ ActiveInv /\ KeptInv
      BY Zenon DEF CallerInv
    <2>1. /\ k = "Start" => app.waits = "start"
          /\ k = "Cancel" => app.waits = "cancel"
          /\ k = "Close" => app.waits = "close"
          /\ Head(hostEvents) \in Elems(hostEvents)
      BY Zenon, CommandWaits
    <2>2. app.phase = "ready" /\ app.waits # "none"
      BY Zenon, <2>0, <2>1 DEF BindingInv
    <2>3. \A f \in Elems(hostEvents') : f.kind \notin CommandKinds
      BY Zenon, <1>NoCommandLeft
    <2>4. ~host.closing
      BY Zenon, <2>0, <2>1 DEF CommandsInv
    <2>5. host'.up => ~host'.closing /\ \A f \in Elems(hostEvents') : f.kind \notin CommandKinds
      BY Zenon, <2>3, <2>4, <1>BreakTells
    <2>6. \A q \in Requests : /\ delivered'[q] = "Completed" => delivered[q] = "Completed"
                              /\ q >= app.next => delivered'[q] = "none"
      BY ZenonT(60), <2>0, <1>BreakTells DEF BindingInv
    <2>7. host'.active # None =>
             /\ host'.active = host.active /\ host'.up = host.up /\ delivered' = delivered
             /\ k = "Cancel"
      BY Zenon, <2>0, <2>1, <2>2, <1>BreakTells DEF ActiveInv, BindingInv
    <2>8. CASE k = "Cancel" /\ ~app.supervised
      <3>1. app' = [app EXCEPT !.waits = "none"] /\ UNCHANGED watchdog
        BY Zenon, <2>8 DEF CancelRefused
      <3> QED BY Zenon, <2>1, <2>2, <2>5, <2>6, <2>7, <2>8, <3>1, <1>GoesOn
    <2>9. CASE ~(k = "Cancel" /\ ~app.supervised)
      <3>1. FailTransport
        BY Zenon, <2>9 DEF CancelRefused
      <3>2. ~app.supervised => app.binding = None \/ delivered[app.binding] # "Completed"
        BY Zenon, <2>0, <2>1, <2>9 DEF BindingInv
      <3> QED BY Zenon, <2>2, <2>5, <2>6, <2>7, <2>9, <3>1, <3>2, <1>GivesUp
    <2> QED BY Zenon, <2>8, <2>9
  (* The coordinator accepts a command. *)
  <1>AcceptedKeepsCaller.
      ASSUME TypeInv, ProtocolInv, CallerInv, host.up, hostEvents # << >>,
             hostEvents' = Tail(hostEvents), UNCHANGED <<runtime, late, delivered, watchdog>>,
             NEW k, k = Head(hostEvents).kind, host'.up = host.up,
             \/ /\ k = "Start" /\ app' = [app EXCEPT !.waits = "none"]
                /\ host'.active = app.binding /\ host'.closing = host.closing
             \/ /\ k = "Cancel" /\ app' = [app EXCEPT !.waits = "none"]
                /\ host'.active = host.active /\ host'.closing = host.closing
             \/ k = "Close" /\ app' = app /\ host'.active = None
      PROVE  CallerInv'
    <2> USE <1>AcceptedKeepsCaller
    <2>0. CommandsInv /\ BindingInv /\ WatchdogInv /\ ActiveInv /\ KeptInv
      BY Zenon DEF CallerInv
    <2>1. /\ k = "Start" => app.waits = "start" /\ app.binding \in Requests
          /\ k = "Cancel" => app.waits = "cancel" /\ app.binding \in Requests
          /\ k = "Close" => app.waits = "close"
      BY Zenon, CommandWaits
    <2>2. /\ app'.binding = app.binding /\ app'.next = app.next /\ app'.supervised = app.supervised
          /\ app'.phase = app.phase /\ app.phase = "ready"
          /\ app'.waits = (IF k = "Close" THEN "close" ELSE "none")
      BY ZenonT(60), <2>0, <2>1 DEF TypeInv, AppStates, BindingInv
    <2>3. \A f \in Elems(hostEvents') : f.kind \notin CommandKinds
      BY Zenon, <1>NoCommandLeft
    <2>4. k # "Close" => ~host'.closing
      BY Zenon, <2>0, <2>1 DEF CommandsInv
    <2>5. CommandsInv'
      BY Zenon, <2>2, <2>3, <2>4 DEF CommandsInv, CommandKinds
    <2>6. BindingInv'
      BY Zenon, <2>0, <2>1, <2>2 DEF BindingInv
    <2>7. WatchdogInv'
      <3>1. app'.binding \in late' => app.binding \in late
        BY <2>2
      <3> QED BY Zenon, <2>0, <2>2, <3>1 DEF WatchdogInv
    <2>8. ActiveInv'
      <3>1. CASE k = "Start"
        BY Zenon, <2>0, <2>1, <2>2, <3>1 DEF ActiveInv, BindingInv
      <3>2. CASE k = "Cancel"
        BY Zenon, <2>0, <2>1, <2>2, <3>2 DEF ActiveInv
      <3>3. CASE k = "Close"
        BY Zenon, <3>3 DEF ActiveInv
      <3> QED BY Zenon, <3>1, <3>2, <3>3
    <2>9. KeptInv'
      BY Zenon, <2>0, <2>2 DEF KeptInv, DeliveredResultKept
    <2> QED BY Zenon, <2>5, <2>6, <2>7, <2>8, <2>9 DEF CallerInv
  (* An answer reaches the caller, or waits for the rest. *)
  <1>FrameKeepsCaller.
      ASSUME TypeInv, ProtocolInv, CallerInv, HandleFrame
      PROVE  CallerInv'
    <2> USE <1>FrameKeepsCaller
    <2> DEFINE r == host.active
    <2>0. CommandsInv /\ BindingInv /\ WatchdogInv /\ ActiveInv /\ KeptInv
      BY Zenon DEF CallerInv
    <2>1. /\ host.up /\ hostEvents # << >> /\ hostEvents' = Tail(hostEvents)
          /\ r \in Requests /\ r # None /\ UNCHANGED <<app, runtime, watchdog, late>>
          /\ \/ AcceptResult(r)
             \/ \E k \in {"TooLate", "Acknowledged"} : AcceptDisposition(r, k)
      BY Zenon, HandleFrameCases
    <2>2. /\ host'.up /\ host'.closing = host.closing
          /\ \/ host'.active = r /\ delivered' = delivered
             \/ host'.active = None /\ \A q \in Requests : q # r => delivered'[q] = delivered[q]
      <3>1. CASE AcceptResult(r)
        BY ZenonT(60), <2>1, <3>1 DEF AcceptResult, TypeInv, HostStates
      <3>2. ASSUME NEW k \in {"TooLate", "Acknowledged"}, AcceptDisposition(r, k)
            PROVE  /\ host'.up /\ host'.closing = host.closing /\ host'.active = None
                   /\ \A q \in Requests : q # r => delivered'[q] = delivered[q]
        <4>1. k # "Unsupported"
          BY Zenon
        <4>2. host'.up /\ host'.closing = host.closing /\ host'.active = None
          BY Zenon, <2>1, <3>2, <4>1 DEF AcceptDisposition, TypeInv, HostStates
        <4>3. \A q \in Requests : q # r => delivered'[q] = delivered[q]
          BY Zenon, <2>1, <3>2 DEF AcceptDisposition, TypeInv
        <4> QED BY Zenon, <4>2, <4>3
      <3> QED BY Zenon, <2>1, <3>1, <3>2
    <2>3. Elems(hostEvents') \subseteq Elems(hostEvents)
      BY Zenon, <2>1, <1>NoCommandLeft
    <2>4. /\ r < app.next /\ app.next \in Nat
          /\ \/ app.binding = r /\ app.waits # "start"
             \/ app.phase = "dropped"
             \/ app.supervised /\ app.phase = "poisoned"
      BY Zenon, <2>0, <2>1 DEF ActiveInv, TypeInv, AppStates
    <2>5. CASE host'.active = r /\ delivered' = delivered
      BY Zenon, <2>1, <2>2, <2>3, <2>5, <1>Unseen
    <2>6. CASE host'.active = None /\ \A q \in Requests : q # r => delivered'[q] = delivered[q]
      <3>1. CommandsInv'
        BY Zenon, <2>0, <2>1, <2>2, <2>3 DEF CommandsInv
      <3>2. BindingInv'
        <4>1. \A q \in Requests : q >= app.next => q # r
          BY <2>4 DEF Requests
        <4>2. app.waits = "start" => app.binding \in Requests /\ app.binding # r
          BY Zenon, <2>0, <2>4 DEF BindingInv, TypeInv, AppStates, Calls
        <4>3. \A q \in Requests : q >= app.next =>
                 runtime[q] = "unclaimed" /\ delivered'[q] = "none" /\ q \notin late
          BY Zenon, <2>0, <2>6, <4>1 DEF BindingInv
        <4>4. app.waits = "start" => delivered'[app.binding] = "none"
          BY Zenon, <2>0, <2>6, <4>2 DEF BindingInv
        <4> QED BY Zenon, <2>0, <2>1, <4>3, <4>4 DEF BindingInv
      <3>3. WatchdogInv'
        BY Zenon, <2>0, <2>1 DEF WatchdogInv
      <3>4. ActiveInv'
        BY Zenon, <2>6 DEF ActiveInv
      <3>5. KeptInv'
        <4> SUFFICES ASSUME ~app.supervised, NEW q \in Requests, delivered'[q] = "Completed"
                     PROVE  app.binding = q \/ runtime[q] = "completed" \/ q \in late
                            \/ app.phase = "dropped"
          BY Zenon, <2>1 DEF KeptInv, DeliveredResultKept
        <4>1. CASE q = r
          BY Zenon, <2>4, <4>1
        <4>2. CASE q # r
          BY Zenon, <2>0, <2>6, <4>2 DEF KeptInv, DeliveredResultKept
        <4> QED BY Zenon, <4>1, <4>2
      <3> QED BY Zenon, <3>1, <3>2, <3>3, <3>4, <3>5 DEF CallerInv
    <2> QED BY Zenon, <2>2, <2>5, <2>6
  (* The watchdog fires. *)
  <1>WatchdogKeepsCaller.
      ASSUME TypeInv, CallerInv, WatchdogFires
      PROVE  CallerInv'
    <2> USE <1>WatchdogKeepsCaller
    <2>0. CommandsInv /\ BindingInv /\ WatchdogInv /\ ActiveInv /\ KeptInv
      BY Zenon DEF CallerInv
    <2>1. /\ watchdog = "armed" /\ watchdog' = "fired" /\ late' = late \cup {app.binding}
          /\ UNCHANGED <<app, runtime, host, hostEvents, delivered>>
      BY Zenon DEF WatchdogFires, hostVars
    <2>2. app.binding # None /\ app.supervised /\ app.binding < app.next
          /\ runtime[app.binding] \notin {"completed", "cancelled"}
      BY Zenon, <2>0, <2>1 DEF WatchdogInv, BindingInv
    <2>3. app.next \in Nat /\ app.binding \in Calls
      BY Zenon DEF TypeInv, AppStates
    <2>4. \A q \in Requests : q >= app.next => q # app.binding
      BY <2>2, <2>3 DEF Requests, Calls
    <2>5. CommandsInv' /\ ActiveInv' /\ KeptInv'
      BY Zenon, <2>0, <2>1, <2>2 DEF CommandsInv, ActiveInv, KeptInv
    <2>6. BindingInv'
      BY Zenon, <2>0, <2>1, <2>4 DEF BindingInv
    <2>7. WatchdogInv'
      BY Zenon, <2>0, <2>1, <2>2 DEF WatchdogInv
    <2> QED BY Zenon, <2>5, <2>6, <2>7 DEF CallerInv
  <1> DEFINE e == Head(hostEvents)
  <1>1. CASE Driver \/ AdapterReturns \/ WorkerCrash \/ UNCHANGED vars
    <2>1. UNCHANGED <<app, runtime, watchdog, host, hostEvents, delivered, late>>
      BY Zenon, <1>1 DEF Driver, DriveInvoke, DriveCancel, DriveEnd, DriveFinished, DriveUnheard,
         WorkerReads, AdapterReturns, WorkerCrash, vars, hostVars
    <2> QED BY Zenon, <2>1, <1>Unseen
  <1>2. CASE HandleStart
    <2>1. /\ host.up /\ hostEvents # << >> /\ e.kind = "Start" /\ hostEvents' = Tail(hostEvents)
          /\ UNCHANGED <<runtime, late>>
      BY Zenon, <1>2 DEF HandleStart, NextEvent
    <2>2. e.request = app.binding
      BY Zenon, <2>1, CommandWaits
    <2>3. \/ /\ host' = [host EXCEPT !.auth = authorize(@, e.request), !.active = e.request,
                                     !.completed = FALSE, !.cancelling = FALSE]
             /\ app' = [app EXCEPT !.waits = "none"]
             /\ UNCHANGED <<delivered, watchdog>>
          \/ Break(FALSE) /\ FailTransport
          \/ FailTransport /\ UNCHANGED <<host, delivered>>
      BY Zenon, <1>2 DEF HandleStart
    <2>4. CASE /\ host' = [host EXCEPT !.auth = authorize(@, e.request), !.active = e.request,
                                       !.completed = FALSE, !.cancelling = FALSE]
               /\ app' = [app EXCEPT !.waits = "none"]
               /\ UNCHANGED <<delivered, watchdog>>
      <3>1. host'.up = host.up /\ host'.active = app.binding /\ host'.closing = host.closing
        BY Zenon, <2>2, <2>4 DEF TypeInv, HostStates
      <3> QED BY Zenon, <2>1, <2>4, <3>1, <1>AcceptedKeepsCaller
    <2> QED BY Zenon, <2>1, <2>3, <2>4, <1>RefusedKeepsCaller
  <1>3. CASE HandleCancel
    <2>1. /\ host.up /\ hostEvents # << >> /\ e.kind = "Cancel" /\ hostEvents' = Tail(hostEvents)
          /\ UNCHANGED <<runtime, late>>
      BY Zenon, <1>3 DEF HandleCancel, NextEvent
    <2>3. \/ /\ host' = [host EXCEPT !.auth = authorize_cancellation(@, e.request),
                                     !.cancelling = TRUE]
             /\ app' = [app EXCEPT !.waits = "none"]
             /\ UNCHANGED <<delivered, watchdog>>
          \/ Break(FALSE) /\ CancelRefused
          \/ CancelRefused /\ UNCHANGED <<host, delivered>>
      BY Zenon, <1>3 DEF HandleCancel
    <2>4. CASE /\ host' = [host EXCEPT !.auth = authorize_cancellation(@, e.request),
                                       !.cancelling = TRUE]
               /\ app' = [app EXCEPT !.waits = "none"]
               /\ UNCHANGED <<delivered, watchdog>>
      <3>1. host'.up = host.up /\ host'.active = host.active /\ host'.closing = host.closing
        BY Zenon, <2>4 DEF TypeInv, HostStates
      <3> QED BY Zenon, <2>1, <2>4, <3>1, <1>AcceptedKeepsCaller
    <2> QED BY Zenon, <2>1, <2>3, <2>4, <1>RefusedKeepsCaller
  <1>4. CASE HandleClose
    <2>1. /\ host.up /\ hostEvents # << >> /\ e.kind = "Close" /\ hostEvents' = Tail(hostEvents)
          /\ UNCHANGED <<runtime, late>>
      BY Zenon, <1>4 DEF HandleClose, NextEvent
    <2>3. \/ /\ host' = [host EXCEPT !.closing = TRUE] /\ host.active = None
             /\ UNCHANGED <<app, delivered, watchdog>>
          \/ Break(FALSE) /\ FailTransport
          \/ (host.active # None \/ host.closing) /\ FailTransport /\ UNCHANGED <<host, delivered>>
      BY Zenon, <1>4 DEF HandleClose
    <2>4. CASE /\ host' = [host EXCEPT !.closing = TRUE] /\ host.active = None
               /\ UNCHANGED <<app, delivered, watchdog>>
      <3>1. host'.up = host.up /\ host'.active = None
        BY Zenon, <2>4 DEF TypeInv, HostStates
      <3> QED BY Zenon, <2>1, <2>4, <3>1, <1>AcceptedKeepsCaller
    <2> QED BY Zenon, <2>1, <2>3, <2>4, <1>RefusedKeepsCaller
  <1>5. CASE HandleAbandon \/ HandleEnd
    <2>1. /\ Break(FALSE) /\ UNCHANGED <<runtime, watchdog, late>>
          /\ app' = app \/ (app' = [app EXCEPT !.phase = "closed", !.waits = "none"]
                            /\ host.up /\ host.closing)
      BY Zenon, <1>5 DEF HandleAbandon, HandleEnd, NextEvent
    <2> QED BY Zenon, <2>1, <1>BrokenOff
  <1>6. CASE HostReads
    <2>1. /\ host'.up = host.up /\ host'.active = host.active /\ host'.closing = host.closing
          /\ UNCHANGED <<app, runtime, watchdog, delivered, late>>
          /\ hostEvents \in Seq(HostEvents) /\ toHost \in Seq(Events(WorkerKinds)) /\ None \in Calls
      BY Zenon, <1>6 DEF HostReads, TypeInv, HostStates, Calls
    <2>2. PICK x \in HostEvents : x.kind \notin CommandKinds /\ hostEvents' = Append(hostEvents, x)
      <3>1. /\ \A x \in Events(WorkerKinds) : x \in HostEvents /\ x.kind \notin CommandKinds
            /\ Event("End", None) \in HostEvents /\ Event("End", None).kind \notin CommandKinds
        <4>1. \A k \in WorkerKinds \cup {"End"} :
                 k \in CommandKinds \cup WorkerKinds \cup {"End"} /\ k \notin CommandKinds
          BY Zenon DEF WorkerKinds, CommandKinds
        <4>2. \A x \in Events(WorkerKinds) :
                 x = Event(x.kind, x.request) /\ x.kind \in WorkerKinds /\ x.request \in Calls
          BY Zenon, EventForm
        <4>3. \A k \in WorkerKinds \cup {"End"} : \A r \in Calls : Event(k, r) \in HostEvents
          BY Zenon, <4>1, EventForm DEF HostEvents
        <4>4. Event("End", None) \in HostEvents /\ Event("End", None).kind = "End"
          BY Zenon, <2>1, <4>3, EventForm
        <4>5. ASSUME NEW x \in Events(WorkerKinds)
              PROVE  x \in HostEvents /\ x.kind \notin CommandKinds
          <5>1. x = Event(x.kind, x.request) /\ x.kind \in WorkerKinds /\ x.request \in Calls
            BY Zenon, <4>2
          <5>2. Event(x.kind, x.request) \in HostEvents
            BY Zenon, <4>3, <5>1
          <5> QED BY Zenon, <4>1, <5>1, <5>2
        <4> QED BY Zenon, <4>1, <4>4, <4>5
      <3>2. toHost # << >> => Head(toHost) \in Events(WorkerKinds)
        BY Zenon, <2>1, QueueType
      <3> QED BY Zenon, <1>6, <3>1, <3>2 DEF HostReads, Post
    <2>3. Elems(hostEvents') = Elems(hostEvents) \cup {x}
      BY <2>1, <2>2, ElemsAppend
    <2> QED BY Zenon, <2>1, <2>2, <2>3, <1>Unseen
  <1>7. CASE Caller
    BY Zenon, <1>7, <1>StartKeepsCaller, <1>CancelKeepsCaller, <1>CloseKeepsCaller, <1>PollKeepsCaller,
       <1>UnavailableKeepsCaller DEF Caller
  <1> QED BY Zenon, <1>1, <1>2, <1>3, <1>4, <1>5, <1>6, <1>7, <1>FrameKeepsCaller,
             <1>WatchdogKeepsCaller DEF Next, Coordinator

-----------------------------------------------------------------------------
(* Types. *)

(* What the adapter reports *)
ReturnKind(outcome) ==
    CASE outcome = "Completed" -> "AdapterCompleted"
      [] outcome = "Failed" -> "AdapterFailed"
      [] OTHER -> "AdapterAcknowledged"

(* Authorizing a call *)
LEMMA AuthorizeBooks ==
    ASSUME NEW a \in Authorizers, NEW r \in Calls
    PROVE  /\ authorize(a, r) \in Authorizers
           /\ authorize(a, r).seen = a.seen \cup {Invocation(r)}
           /\ authorize(a, r).calls = a.calls + 1
           /\ authorize(a, r).completed = a.completed
           /\ authorize(a, r).asked = a.asked
           /\ authorize(a, r).cancelled = a.cancelled
           /\ BooksInv(a) => BooksInv(authorize(a, r))
  <1> DEFINE b == authorize(a, r)
  <1>1. Invocation(r) \in {"invoke", "cancel"} \X Calls
    BY DEF Invocation
  <1>2. /\ b \in Authorizers
        /\ b.seen = a.seen \cup {Invocation(r)} /\ b.calls = a.calls + 1
        /\ b.completed = a.completed /\ b.asked = a.asked /\ b.cancelled = a.cancelled
    <2> DEFINE x == a.seen \cup {Invocation(r)}
               n == a.calls + 1
    <2>1. x \in SUBSET ({"invoke", "cancel"} \X Calls) /\ n \in Nat
      BY <1>1 DEF Authorizers
    <2>2. b = [a EXCEPT !.seen = x, !.calls = n]
      BY Zenon DEF authorize
    <2> HIDE DEF x, n, b
    <2>3. /\ b \in Authorizers /\ b.seen = x /\ b.calls = n
          /\ b.completed = a.completed /\ b.asked = a.asked /\ b.cancelled = a.cancelled
      BY Zenon, <2>1, <2>2 DEF Authorizers
    <2> QED BY Zenon, <2>3 DEF x, n
  <1> HIDE DEF b
  <1>3. \A q \in Calls : Cancellation(q) # Invocation(r)
    BY DEF Invocation, Cancellation
  <1>4. BooksInv(a) => BooksInv(b)
    BY Zenon, <1>2, <1>3 DEF BooksInv
  <1> QED BY Zenon, <1>2, <1>4 DEF b

(* Authorizing the cancellation of a call *)
LEMMA CancellationBooks ==
    ASSUME NEW a \in Authorizers, NEW r \in Calls
    PROVE  /\ authorize_cancellation(a, r) \in Authorizers
           /\ authorize_cancellation(a, r).seen = a.seen \cup {Cancellation(r)}
           /\ authorize_cancellation(a, r).calls = a.calls
           /\ authorize_cancellation(a, r).completed = a.completed
           /\ authorize_cancellation(a, r).asked = a.asked \cup {r}
           /\ authorize_cancellation(a, r).cancelled = a.cancelled
           /\ BooksInv(a) /\ Invocation(r) \in a.seen => BooksInv(authorize_cancellation(a, r))
  <1> DEFINE b == authorize_cancellation(a, r)
  <1>1. Cancellation(r) \in {"invoke", "cancel"} \X Calls
    BY DEF Cancellation
  <1>2. /\ b \in Authorizers
        /\ b.seen = a.seen \cup {Cancellation(r)} /\ b.calls = a.calls
        /\ b.completed = a.completed /\ b.asked = a.asked \cup {r} /\ b.cancelled = a.cancelled
    BY Zenon, <1>1 DEF authorize_cancellation, Authorizers
  <1> HIDE DEF b
  <1>3. \A q \in Calls : Cancellation(q) = Cancellation(r) => q = r
    BY DEF Cancellation
  <1>4. BooksInv(a) /\ Invocation(r) \in a.seen => BooksInv(b)
    BY Zenon, <1>2, <1>3 DEF BooksInv
  <1> QED BY Zenon, <1>2, <1>4 DEF b

(* Recording a result *)
LEMMA ResultBooks ==
    ASSUME NEW a \in Authorizers, NEW r \in Calls
    PROVE  /\ validate_result(a, r) \in Authorizers
           /\ validate_result(a, r).seen = a.seen
           /\ validate_result(a, r).calls = a.calls
           /\ validate_result(a, r).completed = a.completed \cup {Invocation(r)}
           /\ validate_result(a, r).asked = a.asked
           /\ validate_result(a, r).cancelled = a.cancelled
           /\ BooksInv(a) /\ Invocation(r) \in a.seen => BooksInv(validate_result(a, r))
  <1> DEFINE b == validate_result(a, r)
  <1>1. Invocation(r) \in {"invoke", "cancel"} \X Calls
    BY DEF Invocation
  <1>2. /\ b \in Authorizers
        /\ b.seen = a.seen /\ b.calls = a.calls
        /\ b.completed = a.completed \cup {Invocation(r)}
        /\ b.asked = a.asked /\ b.cancelled = a.cancelled
    BY <1>1 DEF validate_result, Authorizers
  <1> HIDE DEF b
  <1>4. BooksInv(a) /\ Invocation(r) \in a.seen => BooksInv(b)
    BY Zenon, <1>2 DEF BooksInv
  <1> QED BY Zenon, <1>2, <1>4 DEF b

(* Recording the disposition of a cancellation *)
LEMMA DispositionBooks ==
    ASSUME NEW a \in Authorizers, NEW r \in Calls, NEW o
    PROVE  /\ validate_cancellation_result(a, r, o) \in Authorizers
           /\ validate_cancellation_result(a, r, o).seen = a.seen
           /\ validate_cancellation_result(a, r, o).calls = a.calls
           /\ validate_cancellation_result(a, r, o).asked = a.asked
           /\ BooksInv(a) /\ r \in a.asked => BooksInv(validate_cancellation_result(a, r, o))
  <1> DEFINE b == validate_cancellation_result(a, r, o)
  <1>1. Cancellation(r) \in {"invoke", "cancel"} \X Calls
    BY DEF Cancellation
  <1>2. /\ b \in Authorizers
        /\ b.seen = a.seen /\ b.calls = a.calls
        /\ b.completed = a.completed \cup {Cancellation(r)}
        /\ b.asked = a.asked /\ b.cancelled \subseteq a.cancelled \cup {r}
    BY Zenon, <1>1 DEF validate_cancellation_result, Authorizers
  <1> HIDE DEF b
  <1>4. BooksInv(a) /\ r \in a.asked => BooksInv(b)
    BY Zenon, <1>2 DEF BooksInv
  <1> QED BY Zenon, <1>2, <1>4 DEF b

(* An invocation is always admitted. *)
LEMMA InvokeAdmitted ==
    ASSUME TypeInv, ProtocolInv, worker.phase = "up", workerEvents # << >>,
           Head(workerEvents).kind = "Invoke"
    PROVE  LET r == Head(workerEvents).request IN
           /\ r \in Requests /\ r # None /\ Head(workerEvents) = Event("Invoke", r)
           /\ Event("Invoke", r) \in Downward
           /\ worker.active = None /\ MayAuthorize(worker.auth, r)
  <1> DEFINE e == Head(workerEvents)
             r == Head(workerEvents).request
  <1>0. QueueInv /\ WorkerInv
    BY Zenon DEF ProtocolInv
  <1>1. workerEvents \in Seq(WorkerEvents)
    BY Zenon DEF TypeInv
  <1>2. e \in Elems(workerEvents) /\ e \in WorkerEvents
    BY Zenon, <1>1, HeadIn, ElemsTail
  <1>3. e = Event("Invoke", r) /\ r \in Calls
    BY Zenon, <1>2, EventForm DEF WorkerEvents
  <1>4. Event("Invoke", r) \in Downward
    BY Zenon, <1>2, <1>3 DEF Downward, Of, HostKinds
  <1> HIDE DEF r, e
  <1>5. r \in Requests /\ worker.active = None /\ MayAuthorize(worker.auth, r)
    BY Zenon, <1>0, <1>3, <1>4 DEF WorkerInv
  <1>6. r # None
    BY <1>5 DEF Requests, None
  <1> QED BY Zenon, <1>3, <1>4, <1>5, <1>6 DEF r, e

(* Every step keeps the types. *)
LEMMA TypeKept ==
    ASSUME TypeInv, ProtocolInv, CallerInv, [Next]_vars
    PROVE  TypeInv'
  (* What a command's failure, or a death, leaves of the worker *)
  <1>KilledType.
      ASSUME TypeInv, Killed
      PROVE  /\ worker' \in WorkerStates /\ adapter' \in [request : Calls, token : BOOLEAN]
             /\ effect' \in [Requests -> Effects]
    <2> USE <1>KilledType
    <2>1. worker' \in WorkerStates
      BY Zenon DEF TypeInv, Killed, WorkerStates
    <2>2. adapter' \in [request : Calls, token : BOOLEAN]
      BY DEF Killed, Calls
    <2>3. effect' \in [Requests -> Effects]
      BY Zenon DEF TypeInv, Killed, Effects
    <2> QED BY Zenon, <2>1, <2>2, <2>3
  (* What a failure leaves of the caller *)
  <1>FailureType.
      ASSUME TypeInv, FailTransport \/ CancelRefused
      PROVE  /\ app' \in AppStates /\ watchdog' \in {"idle", "armed", "fired"}
             /\ worker' \in WorkerStates /\ adapter' \in [request : Calls, token : BOOLEAN]
             /\ effect' \in [Requests -> Effects]
    <2> USE <1>FailureType
    <2>0. None \in Calls
      BY DEF Calls
    <2>1. CASE FailTransport
      <3>1. app' \in AppStates
        BY Zenon, <2>0, <2>1 DEF TypeInv, FailTransport, AppStates
      <3>2. watchdog' \in {"idle", "armed", "fired"}
        BY Zenon, <2>1 DEF FailTransport
      <3> QED BY Zenon, <2>1, <3>1, <3>2, <1>KilledType DEF FailTransport, TypeInv
    <2>2. CASE ~FailTransport
      <3>1. /\ app' = [app EXCEPT !.waits = "none"]
            /\ UNCHANGED <<watchdog, worker, adapter, effect>>
        BY Zenon, <2>2 DEF CancelRefused
      <3>2. app' \in AppStates
        BY Zenon, <3>1 DEF TypeInv, AppStates
      <3> QED BY Zenon, <3>1, <3>2 DEF TypeInv
    <2> QED BY Zenon, <2>1, <2>2
  (* What breaking off leaves of the coordinator *)
  <1>BreakType.
      ASSUME TypeInv, Break(FALSE)
      PROVE  host' \in HostStates /\ delivered' \in Delivered
    <2> USE <1>BreakType
    <2>1. host' \in HostStates
      BY Zenon DEF TypeInv, Break, HostStates, Calls
    <2>2. delivered' \in Delivered
      BY Zenon DEF TypeInv, Break, Delivered
    <2> QED BY Zenon, <2>1, <2>2
  (* The caller's steps keep the types. *)
  <1>CallerKeepsType.
      ASSUME TypeInv, CallerInv, Caller
      PROVE  TypeInv'
    <2> USE <1>CallerKeepsType
    <2>0. /\ app \in AppStates /\ app.binding \in Calls /\ app.next \in Nat
          /\ None \in Calls /\ hostEvents \in Seq(HostEvents)
      BY Zenon DEF TypeInv, AppStates, Calls
    <2>a. \A k \in CommandKinds : \A r \in Calls : Event(k, r) \in HostEvents
      BY Zenon, EventForm DEF HostEvents
    <2>b. {"Start", "Cancel", "Close", "Abandon"} = CommandKinds
      BY DEF CommandKinds
    <2>c. \A x \in HostEvents : Post(x) => hostEvents' \in Seq(HostEvents)
      BY Zenon, <2>0, QueueType DEF Post
    <2>1. CASE start_external_tool
      <3>1. app.next + 1 \in Nat /\ app.next \in Calls /\ app.next \in Requests
        BY <2>0, <2>1 DEF start_external_tool, Calls
      <3>2. app' \in AppStates
        BY Zenon, <2>0, <2>1, <3>1 DEF start_external_tool, AppStates
      <3>3. runtime' \in Runtime
        BY Zenon, <2>1, <3>1 DEF start_external_tool, TypeInv, Runtime
      <3>4. watchdog' \in {"idle", "armed", "fired"} /\ hostEvents' \in Seq(HostEvents)
        BY Zenon, <2>1, <2>a, <2>b, <2>c, <3>1 DEF start_external_tool
      <3> QED BY Zenon, <2>1, <3>2, <3>3, <3>4 DEF start_external_tool, workerVars, TypeInv, Runtime
    <2>2. CASE request_external_tool_cancellation
      <3>1. app.binding \in Requests
        BY Zenon, <2>0, <2>2 DEF request_external_tool_cancellation, Calls
      <3>2. app' \in AppStates
        BY Zenon, <2>0, <2>2 DEF request_external_tool_cancellation, AppStates
      <3>3. runtime' \in Runtime
        BY Zenon, <2>2, <3>1 DEF request_external_tool_cancellation, TypeInv, Runtime
      <3>4. hostEvents' \in Seq(HostEvents)
        BY Zenon, <2>0, <2>2, <2>a, <2>b, <2>c DEF request_external_tool_cancellation
      <3> QED BY Zenon, <2>2, <3>2, <3>3, <3>4
              DEF request_external_tool_cancellation, workerVars, TypeInv, Runtime
    <2>3. CASE close
      <3>2. app' \in AppStates
        BY Zenon, <2>0, <2>3 DEF close, AppStates
      <3>4. hostEvents' \in Seq(HostEvents)
        BY Zenon, <2>0, <2>3, <2>a, <2>b, <2>c DEF close
      <3> QED BY Zenon, <2>3, <3>2, <3>4 DEF close, workerVars, TypeInv
    <2>4. CASE Drop
      <3>2. app' \in AppStates /\ watchdog' \in {"idle", "armed", "fired"}
        BY Zenon, <2>0, <2>4 DEF Drop, AppStates
      <3>4. hostEvents' \in Seq(HostEvents)
        BY Zenon, <2>0, <2>4, <2>a, <2>b, <2>c DEF Drop
      <3> QED BY Zenon, <2>4, <3>2, <3>4 DEF Drop, workerVars, TypeInv
    <2>5. CASE Unavailable
      <3>1. FailTransport \/ CancelRefused
        BY Zenon, <2>5 DEF Unavailable
      <3> QED BY Zenon, <2>5, <3>1, <1>FailureType DEF Unavailable, TypeInv
    <2>6. CASE poll_external_tool
      <3>1. app.binding \in Requests
        BY Zenon, <2>0, <2>6 DEF poll_external_tool, Calls
      <3>2. CASE FailTransport /\ UNCHANGED runtime
        BY Zenon, <2>6, <3>2, <1>FailureType DEF poll_external_tool, TypeInv
      <3>3. CASE ~(FailTransport /\ UNCHANGED runtime)
        <4>1. /\ \E state \in {"completed", "cancelled"} : Finish(app.binding, state)
              /\ watchdog' = "idle" /\ UNCHANGED <<worker, adapter, effect>>
          BY Zenon, <2>6, <3>3 DEF poll_external_tool
        <4>2. app' \in AppStates
          BY Zenon, <2>0, <4>1 DEF Finish, AppStates
        <4>3. runtime' \in Runtime
          <5>1. PICK state \in {"completed", "cancelled"} : Finish(app.binding, state)
            BY Zenon, <4>1
          <5>2. runtime' = runtime \/ runtime' = [runtime EXCEPT ![app.binding] = state]
            BY Zenon, <5>1 DEF Finish
          <5> QED BY Zenon, <3>1, <5>2 DEF TypeInv, Runtime
        <4>4. watchdog' \in {"idle", "armed", "fired"}
          BY Zenon, <4>1
        <4> QED BY Zenon, <2>6, <4>1, <4>2, <4>3, <4>4 DEF poll_external_tool, TypeInv, Runtime
      <3> QED BY Zenon, <3>2, <3>3
    <2> QED BY Zenon, <2>1, <2>2, <2>3, <2>4, <2>5, <2>6 DEF Caller
  (* What the coordinator's answers to a frame leave of it *)
  <1>AcceptType.
      ASSUME TypeInv, NEW r \in Requests, host.up
      PROVE  /\ AcceptResult(r) => host' \in HostStates /\ delivered' \in Delivered
             /\ \A k : AcceptDisposition(r, k) => host' \in HostStates /\ delivered' \in Delivered
    <2> USE <1>AcceptType
    <2>0. /\ host \in HostStates /\ host.auth \in Authorizers /\ host.permits + 1 \in Nat
          /\ r \in Calls /\ None \in Calls /\ delivered \in Delivered
      <3>1. host \in HostStates /\ host.auth \in Authorizers /\ host.permits \in Nat
        BY Zenon DEF TypeInv, HostStates
      <3>2. host.permits + 1 \in Nat
        BY <3>1
      <3> QED BY Zenon, <3>1, <3>2 DEF TypeInv, Delivered, Calls
    <2>1. /\ validate_result(host.auth, r) \in Authorizers
          /\ \A k : validate_cancellation_result(host.auth, r, k) \in Authorizers
      BY <2>0, ResultBooks, DispositionBooks
    <2>2. AcceptResult(r) => host' \in HostStates
      BY Zenon, <2>0, <2>1 DEF AcceptResult, HostStates
    <2>3. AcceptResult(r) => delivered' \in Delivered
      BY Zenon, <2>0 DEF AcceptResult, Delivered
    <2>4. ASSUME NEW k, AcceptDisposition(r, k)
          PROVE  host' \in HostStates /\ delivered' \in Delivered
      <3>1. validate_cancellation_result(host.auth, r, k) \in Authorizers
        BY Zenon, <2>1
      <3>2. host' \in HostStates
        BY Zenon, <2>0, <2>4, <3>1 DEF AcceptDisposition, HostStates
      <3>3. delivered' \in Delivered
        BY <2>0, <2>4 DEF AcceptDisposition, Delivered
      <3> QED BY Zenon, <3>2, <3>3
    <2> QED BY Zenon, <2>2, <2>3, <2>4
  (* The coordinator's steps keep the types. *)
  <1>CoordinatorKeepsType.
      ASSUME TypeInv, ProtocolInv, CallerInv, Coordinator
      PROVE  TypeInv'
    <2> USE <1>CoordinatorKeepsType
    <2> DEFINE e == Head(hostEvents)
    <2>0. /\ host \in HostStates /\ host.auth \in Authorizers /\ host.permits \in Nat
          /\ hostEvents \in Seq(HostEvents) /\ toWorker \in Seq(Events(HostKinds))
          /\ toHost \in Seq(Events(WorkerKinds)) /\ None \in Calls
      BY Zenon DEF TypeInv, HostStates, Calls
    <2>a. hostEvents # << >> /\ hostEvents' = Tail(hostEvents) => hostEvents' \in Seq(HostEvents)
      BY Zenon, <2>0, QueueType
    <2>b. \A k \in HostKinds : \A r \in Calls :
             Send(Event(k, r)) => toWorker' \in Seq(Events(HostKinds))
      <3>1. \A k \in HostKinds : \A r \in Calls : Event(k, r) \in Events(HostKinds)
        BY Zenon, EventForm
      <3>2. \A x \in Events(HostKinds) : Append(toWorker, x) \in Seq(Events(HostKinds))
        BY Zenon, <2>0, QueueType
      <3> QED BY Zenon, <3>1, <3>2 DEF Send
    <2>c. {"Invoke", "CancelRequest", "CloseSession"} = HostKinds
      BY DEF HostKinds
    <2>d. [app EXCEPT !.waits = "none"] \in AppStates
      BY Zenon DEF TypeInv, AppStates
    <2>1. CASE HandleStart
      <3>1. /\ host.up /\ hostEvents # << >> /\ e.kind = "Start" /\ hostEvents' = Tail(hostEvents)
            /\ UNCHANGED <<runtime, toHost, workerEvents, late>>
        BY Zenon, <2>1 DEF HandleStart, NextEvent
      <3>2. e.request \in Requests /\ e.request \in Calls
        BY Zenon, <3>1, CommandWaits DEF Calls
      <3>3. \/ /\ Send(Event("Invoke", e.request))
               /\ host' = [host EXCEPT !.auth = authorize(@, e.request), !.active = e.request,
                                       !.completed = FALSE, !.cancelling = FALSE]
               /\ app' = [app EXCEPT !.waits = "none"]
               /\ UNCHANGED <<delivered, watchdog, worker, adapter, effect>>
            \/ Break(FALSE) /\ FailTransport /\ UNCHANGED toWorker
            \/ FailTransport /\ UNCHANGED <<host, delivered, toWorker>>
        BY Zenon, <2>1 DEF HandleStart
      <3>4. CASE /\ Send(Event("Invoke", e.request))
                 /\ host' = [host EXCEPT !.auth = authorize(@, e.request), !.active = e.request,
                                         !.completed = FALSE, !.cancelling = FALSE]
                 /\ app' = [app EXCEPT !.waits = "none"]
                 /\ UNCHANGED <<delivered, watchdog, worker, adapter, effect>>
        <4>1. authorize(host.auth, e.request) \in Authorizers
          BY <2>0, <3>2, AuthorizeBooks
        <4>2. host' \in HostStates
          BY Zenon, <2>0, <3>2, <3>4, <4>1 DEF HostStates
        <4>3. toWorker' \in Seq(Events(HostKinds))
          BY Zenon, <2>b, <2>c, <3>2, <3>4
        <4> QED BY Zenon, <2>a, <2>d, <3>1, <3>4, <4>2, <4>3 DEF TypeInv
      <3>5. CASE Break(FALSE) /\ FailTransport /\ UNCHANGED toWorker
        BY Zenon, <2>a, <3>1, <3>5, <1>BreakType, <1>FailureType DEF TypeInv, Delivered
      <3>6. CASE FailTransport /\ UNCHANGED <<host, delivered, toWorker>>
        BY Zenon, <2>a, <3>1, <3>6, <1>FailureType DEF TypeInv
      <3> QED BY Zenon, <3>3, <3>4, <3>5, <3>6
    <2>2. CASE HandleCancel
      <3>1. /\ host.up /\ hostEvents # << >> /\ e.kind = "Cancel" /\ hostEvents' = Tail(hostEvents)
            /\ UNCHANGED <<runtime, toHost, workerEvents, late>>
        BY Zenon, <2>2 DEF HandleCancel, NextEvent
      <3>2. e.request \in Requests /\ e.request \in Calls
        BY Zenon, <3>1, CommandWaits DEF Calls
      <3>3. \/ /\ Send(Event("CancelRequest", e.request))
               /\ host' = [host EXCEPT !.auth = authorize_cancellation(@, e.request),
                                       !.cancelling = TRUE]
               /\ app' = [app EXCEPT !.waits = "none"]
               /\ UNCHANGED <<delivered, watchdog, worker, adapter, effect>>
            \/ Break(FALSE) /\ CancelRefused /\ UNCHANGED toWorker
            \/ CancelRefused /\ UNCHANGED <<host, delivered, toWorker>>
        BY Zenon, <2>2 DEF HandleCancel
      <3>4. CASE /\ Send(Event("CancelRequest", e.request))
                 /\ host' = [host EXCEPT !.auth = authorize_cancellation(@, e.request),
                                         !.cancelling = TRUE]
                 /\ app' = [app EXCEPT !.waits = "none"]
                 /\ UNCHANGED <<delivered, watchdog, worker, adapter, effect>>
        <4>1. authorize_cancellation(host.auth, e.request) \in Authorizers
          BY <2>0, <3>2, CancellationBooks
        <4>2. host' \in HostStates
          BY Zenon, <2>0, <3>2, <3>4, <4>1 DEF HostStates
        <4>3. toWorker' \in Seq(Events(HostKinds))
          BY Zenon, <2>b, <2>c, <3>2, <3>4
        <4> QED BY Zenon, <2>a, <2>d, <3>1, <3>4, <4>2, <4>3 DEF TypeInv
      <3>5. CASE Break(FALSE) /\ CancelRefused /\ UNCHANGED toWorker
        BY Zenon, <2>a, <3>1, <3>5, <1>BreakType, <1>FailureType DEF TypeInv, Delivered
      <3>6. CASE CancelRefused /\ UNCHANGED <<host, delivered, toWorker>>
        BY Zenon, <2>a, <3>1, <3>6, <1>FailureType DEF TypeInv
      <3> QED BY Zenon, <3>3, <3>4, <3>5, <3>6
    <2>3. CASE HandleClose
      <3>1. /\ hostEvents # << >> /\ hostEvents' = Tail(hostEvents)
            /\ UNCHANGED <<runtime, toHost, workerEvents, late>>
        BY Zenon, <2>3 DEF HandleClose, NextEvent
      <3>3. \/ /\ Send(Event("CloseSession", None)) /\ host' = [host EXCEPT !.closing = TRUE]
               /\ UNCHANGED <<app, watchdog, delivered, worker, adapter, effect>>
            \/ Break(FALSE) /\ FailTransport /\ UNCHANGED toWorker
            \/ FailTransport /\ UNCHANGED <<host, delivered, toWorker>>
        BY Zenon, <2>3 DEF HandleClose
      <3>4. CASE /\ Send(Event("CloseSession", None)) /\ host' = [host EXCEPT !.closing = TRUE]
                 /\ UNCHANGED <<app, watchdog, delivered, worker, adapter, effect>>
        <4>2. host' \in HostStates
          BY Zenon, <2>0, <3>4 DEF HostStates
        <4>3. toWorker' \in Seq(Events(HostKinds))
          BY Zenon, <2>0, <2>b, <2>c, <3>4
        <4> QED BY Zenon, <2>a, <3>1, <3>4, <4>2, <4>3 DEF TypeInv
      <3>5. CASE Break(FALSE) /\ FailTransport /\ UNCHANGED toWorker
        BY Zenon, <2>a, <3>1, <3>5, <1>BreakType, <1>FailureType DEF TypeInv, Delivered
      <3>6. CASE FailTransport /\ UNCHANGED <<host, delivered, toWorker>>
        BY Zenon, <2>a, <3>1, <3>6, <1>FailureType DEF TypeInv
      <3> QED BY Zenon, <3>3, <3>4, <3>5, <3>6
    <2>4. CASE HandleAbandon
      BY Zenon, <2>4, <2>a, <1>BreakType DEF HandleAbandon, NextEvent, TypeInv, Delivered, workerVars
    <2>5. CASE HandleEnd
      <3>1. app' \in AppStates
        BY Zenon, <2>5 DEF HandleEnd, TypeInv, AppStates
      <3> QED BY Zenon, <2>5, <2>a, <3>1, <1>BreakType DEF HandleEnd, NextEvent, TypeInv, Delivered, workerVars
    <2>6. CASE HandleFrame
      <3>1. /\ host.up /\ hostEvents # << >> /\ hostEvents' = Tail(hostEvents)
            /\ e.request = host.active /\ host.active \in Requests
            /\ UNCHANGED <<app, runtime, watchdog, toHost, toWorker, workerVars, late>>
            /\ AcceptResult(e.request) \/ AcceptDisposition(e.request, e.kind)
        BY Zenon, <2>6, HandleFrameCases
      <3>2. host' \in HostStates /\ delivered' \in Delivered
        BY Zenon, <3>1, <1>AcceptType
      <3> QED BY Zenon, <2>a, <3>1, <3>2 DEF TypeInv, workerVars, Delivered
    <2>7. CASE HostReads
      <3>1. host.permits - 1 \in Nat
        BY <2>0, <2>7 DEF HostReads
      <3>2. host' \in HostStates
        BY Zenon, <2>0, <2>7, <3>1 DEF HostReads, HostStates
      <3>3. hostEvents' \in Seq(HostEvents) /\ toHost' \in Seq(Events(WorkerKinds))
        <4>1. \A x \in Events(WorkerKinds) : x \in HostEvents
          BY DEF HostEvents, Events
        <4>2. Event("End", None) \in HostEvents
          BY <2>0, EventForm DEF HostEvents
        <4> QED BY Zenon, <2>0, <2>7, <4>1, <4>2, QueueType DEF HostReads, Post
      <3> QED BY Zenon, <2>7, <3>2, <3>3 DEF HostReads, TypeInv, workerVars
    <2> QED BY Zenon, <2>1, <2>2, <2>3, <2>4, <2>5, <2>6, <2>7 DEF Coordinator
  (* What an answer leaves of the pipe *)
  <1>ReplyType.
      ASSUME TypeInv, NEW r \in Calls
      PROVE  /\ \A k \in WorkerKinds : Reply(<<Event(k, r)>>) => toHost' \in Seq(Events(WorkerKinds))
             /\ Reply(Answers(r)) => toHost' \in Seq(Events(WorkerKinds))
    <2> USE <1>ReplyType
    <2>0. toHost \in Seq(Events(WorkerKinds))
      BY Zenon DEF TypeInv
    <2>1. \A k \in WorkerKinds : Event(k, r) \in Events(WorkerKinds)
      BY Zenon, EventForm
    <2>2. \A x, y \in Events(WorkerKinds) :
             /\ toHost \o <<x>> \in Seq(Events(WorkerKinds))
             /\ toHost \o <<x, y>> \in Seq(Events(WorkerKinds))
      BY <2>0
    <2>3. "Result" \in WorkerKinds /\ "TooLate" \in WorkerKinds
      BY Zenon DEF WorkerKinds
    <2> QED BY Zenon, <2>1, <2>2, <2>3 DEF Reply, Answers
  (* What a return leaves of the driver *)
  <1>ReturnType.
      ASSUME TypeInv, NEW fault \in BOOLEAN, Return(fault)
      PROVE  worker' \in WorkerStates /\ adapter' \in [request : Calls, token : BOOLEAN]
    <2> USE <1>ReturnType
    <2>1. worker' \in WorkerStates
      BY Zenon DEF TypeInv, Return, WorkerStates
    <2>2. adapter' \in [request : Calls, token : BOOLEAN]
      BY Zenon DEF TypeInv, Return
    <2> QED BY Zenon, <2>1, <2>2
  (* The driver's steps keep the types. *)
  <1>DriverKeepsType.
      ASSUME TypeInv, ProtocolInv, Driver
      PROVE  TypeInv'
    <2> USE <1>DriverKeepsType
    <2> DEFINE e == Head(workerEvents)
               r == Head(workerEvents).request
    <2>0. /\ worker \in WorkerStates /\ worker.auth \in Authorizers /\ worker.permits \in Nat
          /\ workerEvents \in Seq(WorkerEvents) /\ toWorker \in Seq(Events(HostKinds)) /\ None \in Calls
          /\ adapter \in [request : Calls, token : BOOLEAN]
      BY Zenon DEF TypeInv, WorkerStates, Calls
    <2>a. workerEvents # << >> =>
             /\ workerEvents' = Tail(workerEvents) => workerEvents' \in Seq(WorkerEvents)
             /\ r \in Calls
      <3>1. workerEvents # << >> => Tail(workerEvents) \in Seq(WorkerEvents) /\ e \in WorkerEvents
        BY Zenon, <2>0, QueueType
      <3> QED BY Zenon, <3>1, EventForm DEF WorkerEvents
    <2>b. worker.permits + 1 \in Nat
      BY <2>0
    <2> HIDE DEF r, e
    <2>1. CASE DriveInvoke
      <3>1. /\ worker.phase = "up" /\ workerEvents # << >> /\ e.kind = "Invoke"
            /\ workerEvents' = Tail(workerEvents)
        BY Zenon, <2>1 DEF DriveInvoke, NextWork, e
      <3>2. r \in Requests /\ worker.active = None /\ MayAuthorize(worker.auth, r)
        BY Zenon, <3>1, InvokeAdmitted DEF e, r
      <3>3. /\ worker' = [worker EXCEPT !.auth = authorize(@, r), !.active = r,
                                        !.cancelling = FALSE, !.permits = @ + 1]
            /\ adapter' = [request |-> r, token |-> FALSE]
            /\ effect' = [effect EXCEPT ![r] = "running"]
        BY Zenon, <2>1, <3>2 DEF DriveInvoke, r
      <3>4. authorize(worker.auth, r) \in Authorizers
        BY <2>0, <2>a, <3>1, AuthorizeBooks
      <3>5. worker' \in WorkerStates
        BY Zenon, <2>0, <2>a, <2>b, <3>1, <3>3, <3>4 DEF WorkerStates
      <3>6. adapter' \in [request : Calls, token : BOOLEAN]
        BY Zenon, <2>a, <3>1, <3>3
      <3>7. effect' \in [Requests -> Effects]
        BY Zenon, <3>2, <3>3 DEF TypeInv, Effects
      <3> QED BY Zenon, <2>1, <2>a, <3>1, <3>5, <3>6, <3>7 DEF DriveInvoke, TypeInv, hostVars
    <2>2. CASE DriveCancel
      <3> DEFINE auth == authorize_cancellation(worker.auth, r)
      <3>1. /\ worker.phase = "up" /\ workerEvents # << >> /\ r \in Calls
            /\ workerEvents' = Tail(workerEvents)
        BY Zenon, <2>2, <2>a DEF DriveCancel, NextWork
      <3>2. auth \in Authorizers /\ validate_cancellation_result(auth, r, "TooLate") \in Authorizers
        <4>1. auth \in Authorizers
          BY <2>0, <3>1, CancellationBooks
        <4> HIDE DEF auth
        <4>2. validate_cancellation_result(auth, r, "TooLate") \in Authorizers
          BY <3>1, <4>1, DispositionBooks
        <4> QED BY Zenon, <4>1, <4>2
      <3>3. \/ /\ worker' = [worker EXCEPT !.auth = auth, !.cancelling = TRUE]
               /\ adapter' = [adapter EXCEPT !.token = adapter.request = r]
               /\ UNCHANGED toHost
            \/ /\ worker' = [worker EXCEPT !.permits = @ + 1,
                                !.auth = validate_cancellation_result(auth, r, "TooLate")]
               /\ Reply(<<Event("TooLate", r)>>)
               /\ UNCHANGED adapter
            \/ Return(TRUE) /\ UNCHANGED toHost
        BY Zenon, <2>2 DEF DriveCancel, r
      <3> HIDE DEF auth
      <3>4. worker' \in WorkerStates /\ adapter' \in [request : Calls, token : BOOLEAN]
        <4>1. CASE /\ worker' = [worker EXCEPT !.auth = auth, !.cancelling = TRUE]
                   /\ adapter' = [adapter EXCEPT !.token = adapter.request = r]
          BY Zenon, <2>0, <3>2, <4>1 DEF WorkerStates
        <4>2. CASE /\ worker' = [worker EXCEPT !.permits = @ + 1,
                                !.auth = validate_cancellation_result(auth, r, "TooLate")]
                   /\ UNCHANGED adapter
          BY Zenon, <2>0, <2>b, <3>2, <4>2 DEF WorkerStates
        <4> QED BY Zenon, <3>3, <4>1, <4>2, <1>ReturnType
      <3>5. toHost' \in Seq(Events(WorkerKinds))
        BY Zenon, <3>1, <3>3, <1>ReplyType DEF WorkerKinds, TypeInv
      <3> QED BY Zenon, <2>2, <2>a, <3>1, <3>4, <3>5 DEF DriveCancel, TypeInv, hostVars
    <2>3. CASE DriveEnd
      <3>1. workerEvents # << >> /\ workerEvents' = Tail(workerEvents)
        BY Zenon, <2>3 DEF DriveEnd, NextWork
      <3>2. worker' \in WorkerStates /\ adapter' \in [request : Calls, token : BOOLEAN]
        BY Zenon, <2>3, <1>ReturnType DEF DriveEnd
      <3> QED BY Zenon, <2>3, <2>a, <3>1, <3>2 DEF DriveEnd, TypeInv, hostVars
    <2>4. CASE DriveUnheard
      <3>1. workerEvents # << >> /\ workerEvents' = Tail(workerEvents)
        BY Zenon, <2>4 DEF DriveUnheard, NextWork
      <3>2. worker' \in WorkerStates /\ adapter' \in [request : Calls, token : BOOLEAN]
        BY Zenon, <2>4, <1>ReturnType DEF DriveUnheard
      <3> QED BY Zenon, <2>4, <2>a, <3>1, <3>2 DEF DriveUnheard, TypeInv, hostVars
    <2>5. CASE DriveFinished
      <3> DEFINE result == validate_result(worker.auth, r)
                 both == validate_cancellation_result(result, r, "TooLate")
                 stopped == validate_cancellation_result(worker.auth, r, "Acknowledged")
      <3>1. workerEvents # << >> /\ workerEvents' = Tail(workerEvents) /\ r \in Calls
        BY Zenon, <2>5, <2>a DEF DriveFinished, NextWork
      <3>2. \/ /\ worker' = [worker EXCEPT !.active = None, !.cancelling = FALSE, !.last = r,
                     !.auth = IF worker.cancelling THEN both ELSE result,
                     !.permits = IF worker.cancelling THEN @ + 1 ELSE @]
               /\ Reply(Answers(r)) /\ UNCHANGED adapter
            \/ /\ worker' = [worker EXCEPT !.active = None, !.cancelling = FALSE, !.last = None,
                     !.auth = stopped, !.permits = @ + 1]
               /\ Reply(<<Event("Acknowledged", r)>>) /\ UNCHANGED adapter
            \/ Return(FALSE) /\ UNCHANGED toHost
        BY Zenon, <2>5 DEF DriveFinished, r
      <3>3. result \in Authorizers /\ both \in Authorizers /\ stopped \in Authorizers
        <4>1. result \in Authorizers
          BY <2>0, <3>1, ResultBooks
        <4> HIDE DEF result
        <4>2. both \in Authorizers /\ stopped \in Authorizers
          BY <2>0, <3>1, <4>1, DispositionBooks
        <4> QED BY Zenon, <4>1, <4>2
      <3> HIDE DEF result, both, stopped
      <3>4. worker' \in WorkerStates /\ adapter' \in [request : Calls, token : BOOLEAN]
        <4>1. CASE /\ worker' = [worker EXCEPT !.active = None, !.cancelling = FALSE, !.last = r,
                          !.auth = IF worker.cancelling THEN both ELSE result,
                          !.permits = IF worker.cancelling THEN @ + 1 ELSE @]
                   /\ UNCHANGED adapter
          BY Zenon, <2>0, <2>b, <3>1, <3>3, <4>1 DEF WorkerStates
        <4>2. CASE /\ worker' = [worker EXCEPT !.active = None, !.cancelling = FALSE, !.last = None,
                          !.auth = stopped, !.permits = @ + 1]
                   /\ UNCHANGED adapter
          BY Zenon, <2>0, <2>b, <3>3, <4>2 DEF WorkerStates
        <4> QED BY Zenon, <3>2, <4>1, <4>2, <1>ReturnType
      <3>5. toHost' \in Seq(Events(WorkerKinds))
        BY Zenon, <3>1, <3>2, <1>ReplyType DEF WorkerKinds, TypeInv
      <3> QED BY Zenon, <2>5, <2>a, <3>1, <3>4, <3>5 DEF DriveFinished, TypeInv, hostVars
    <2>6. CASE WorkerReads
      <3>1. worker.permits - 1 \in Nat
        BY <2>0, <2>6 DEF WorkerReads
      <3>2. worker' \in WorkerStates
        BY Zenon, <2>0, <2>6, <3>1 DEF WorkerReads, WorkerStates
      <3>3. workerEvents' \in Seq(WorkerEvents) /\ toWorker' \in Seq(Events(HostKinds))
        <4>1. \A x \in Events(HostKinds) : x \in WorkerEvents
          BY DEF WorkerEvents, Events
        <4>2. Event("End", None) \in WorkerEvents
          BY <2>0, EventForm DEF WorkerEvents
        <4>3. /\ \A x \in WorkerEvents : Append(workerEvents, x) \in Seq(WorkerEvents)
              /\ toWorker # << >> => Tail(toWorker) \in Seq(Events(HostKinds))
                                     /\ Head(toWorker) \in Events(HostKinds)
          BY Zenon, <2>0, QueueType
        <4> QED BY Zenon, <2>0, <2>6, <4>1, <4>2, <4>3 DEF WorkerReads
      <3> QED BY Zenon, <2>6, <3>2, <3>3 DEF WorkerReads, TypeInv, hostVars
    <2> QED BY Zenon, <2>1, <2>2, <2>3, <2>4, <2>5, <2>6 DEF Driver
  <1>1. CASE AdapterReturns
    <2>0. adapter.request \in Requests
      BY Zenon, <1>1 DEF AdapterReturns, TypeInv, Calls
    <2>1. PICK o \in {"Completed", "Failed", "Acknowledged"} :
             /\ effect' = [effect EXCEPT ![adapter.request] = o]
             /\ \/ workerEvents' = Append(workerEvents, Event(ReturnKind(o), adapter.request))
                \/ workerEvents' = workerEvents
      BY Zenon, <1>1 DEF AdapterReturns, ReturnKind
    <2>2. effect' \in [Requests -> Effects]
      BY <2>0, <2>1 DEF TypeInv, Effects
    <2>3. Event(ReturnKind(o), adapter.request) \in WorkerEvents
      <3>1. ReturnKind(o) \in HostKinds \cup ReturnKinds \cup {"End"}
        BY DEF ReturnKinds, ReturnKind
      <3> QED BY Zenon, <2>0, <3>1, EventForm DEF WorkerEvents, Calls
    <2>4. workerEvents' \in Seq(WorkerEvents)
      <3>1. \A x \in WorkerEvents : Append(workerEvents, x) \in Seq(WorkerEvents)
        BY Zenon, QueueType DEF TypeInv
      <3>2. workerEvents \in Seq(WorkerEvents)
        BY Zenon DEF TypeInv
      <3> QED BY Zenon, <2>1, <2>3, <3>1, <3>2
    <2>5. worker' \in WorkerStates /\ adapter' \in [request : Calls, token : BOOLEAN]
      BY Zenon, <1>1 DEF AdapterReturns, TypeInv, WorkerStates, Calls
    <2> QED BY Zenon, <1>1, <2>2, <2>4, <2>5 DEF AdapterReturns, TypeInv, hostVars
  <1>2. CASE WatchdogFires
    <2>1. app.binding \in Requests
      BY Zenon, <1>2 DEF WatchdogFires, CallerInv, WatchdogInv, TypeInv, AppStates, Calls
    <2>2. watchdog' \in {"idle", "armed", "fired"} /\ late' \subseteq Requests
      BY ZenonT(60), <1>2, <2>1 DEF WatchdogFires, TypeInv
    <2> QED BY Zenon, <1>2, <2>2, <1>KilledType DEF WatchdogFires, TypeInv, hostVars
  <1>3. CASE WorkerCrash
    BY Zenon, <1>3, <1>KilledType DEF WorkerCrash, TypeInv, hostVars
  <1>4. CASE UNCHANGED vars
    BY Zenon, <1>4 DEF vars, TypeInv
  <1> QED BY Zenon, <1>1, <1>2, <1>3, <1>4, <1>CallerKeepsType, <1>CoordinatorKeepsType, <1>DriverKeepsType
          DEF Next

-----------------------------------------------------------------------------
(* Taking an event. *)

(* The worker is as it was, or its driver no longer runs. *)
WorkerStill == UNCHANGED <<worker, adapter, workerEvents, toWorker>>

WorkerLeaves ==
    /\ worker'.phase # "up" /\ worker'.auth = worker.auth /\ ~worker'.fault
    /\ worker'.phase = "down" => adapter'.request = None

(* The coordinator took an event that is no frame. *)
TakesCommand ==
    /\ hostEvents # << >> /\ Head(hostEvents).kind \in CommandKinds
    /\ hostEvents' = Tail(hostEvents)

(* It is as it was, took such an event, or ended. *)
HostStill == UNCHANGED host /\ (hostEvents' = hostEvents \/ TakesCommand)

HostEnds ==
    ~host'.up /\ host'.auth = host.auth /\ host'.active = None /\ ~host'.fault

(* The elements of some kinds, when the head is taken *)
LEMMA OfTail ==
    ASSUME NEW S, NEW s \in Seq(S), s # << >>, NEW K
    PROVE  /\ Of(s, K) = Of(Tail(s), K) \cup {e \in {Head(s)} : e.kind \in K}
           /\ Head(s).kind \notin K => Of(Tail(s), K) = Of(s, K)
           /\ Distinct(s) => Head(s) \notin Of(Tail(s), K)
           /\ Distinct(s) => Of(Tail(s), K) = Of(s, K) \ {Head(s)}
  <1>1. /\ Elems(s) = {Head(s)} \cup Elems(Tail(s))
        /\ Distinct(s) => Head(s) \notin Elems(Tail(s))
    BY Zenon, ElemsTail
  <1> QED BY Zenon, <1>1 DEF Of

(* An event is taken; a frame's permit may come back with it. *)
LEMMA LineTake ==
    ASSUME NEW P, NEW Q, NEW p \in Seq(P), NEW q \in Seq(Q), NEW K, NEW f, NEW n \in Nat,
           LineInv(p, q, K, f, n), q # << >>, NEW m \in Nat,
           \/ m = n
           \/ m = n + 1 /\ Head(q).kind \in K
           \/ m = 1 /\ Of(q, K \cup {"End"}) = {}
    PROVE  LineInv(p, Tail(q), K, f, m)
  <1>1. /\ Elems(q) = {Head(q)} \cup Elems(Tail(q))
        /\ Distinct(Tail(q)) /\ Head(q) \notin Elems(Tail(q))
    BY Zenon, ElemsTail DEF LineInv
  <1>2. /\ Of(Tail(q), K) \subseteq Of(q, K)
        /\ Of(Tail(q), K \cup {"End"}) \subseteq Of(q, K \cup {"End"})
    BY Zenon, <1>1 DEF Of
  <1>3. m > 0 => m = 1 /\ Of(Tail(q), K \cup {"End"}) = {}
    <2>1. CASE m = n
      BY Zenon, <1>2, <2>1 DEF LineInv
    <2>2. CASE m = n + 1 /\ Head(q).kind \in K
      <3>1. Head(q) \in Of(q, K \cup {"End"})
        BY Zenon, <1>1, <2>2 DEF Of
      <3>2. Of(Tail(q), K \cup {"End"}) = {}
        BY Zenon, <1>1, <1>2, <3>1 DEF LineInv, Of
      <3>3. ~(n > 0)
        BY Zenon, <3>1 DEF LineInv
      <3>4. m = 1
        BY <2>2, <3>3
      <3> QED BY Zenon, <3>2, <3>4
    <2>3. CASE m = 1 /\ Of(q, K \cup {"End"}) = {}
      BY Zenon, <1>2, <2>3
    <2> QED BY Zenon, <2>1, <2>2, <2>3
  <1> QED BY Zenon, <1>1, <1>2, <1>3 DEF LineInv

(* Taking a command leaves the frames before the coordinator alone. *)
LEMMA CommandTaken ==
    ASSUME TypeInv, QueueInv, TakesCommand, toHost' = toHost,
           host'.up => host.up, host'.permits = host.permits
    PROVE  /\ Upward' = Upward
           /\ host'.up => LineInv(toHost', hostEvents', WorkerKinds, "Result", host'.permits)
  <1>0. hostEvents \in Seq(HostEvents) /\ toHost \in Seq(Events(WorkerKinds)) /\ host.permits \in Nat
    BY Zenon DEF TypeInv, HostStates
  <1>1. Head(hostEvents).kind \notin WorkerKinds
    BY DEF TakesCommand, CommandKinds, WorkerKinds
  <1>2. Of(hostEvents', WorkerKinds) = Of(hostEvents, WorkerKinds)
    BY <1>0, <1>1, OfTail DEF TakesCommand
  <1>3. host.up => LineInv(toHost, Tail(hostEvents), WorkerKinds, "Result", host.permits)
    BY Zenon, <1>0, LineTake DEF QueueInv, TakesCommand
  <1> QED BY Zenon, <1>2, <1>3 DEF TakesCommand, Upward

(* A quiet coordinator has the same frames before it. *)
LEMMA HostStillFrames ==
    ASSUME TypeInv, QueueInv, HostStill, toHost' = toHost
    PROVE  /\ Upward' = Upward
           /\ host'.up => LineInv(toHost', hostEvents', WorkerKinds, "Result", host'.permits)
  <1>1. CASE hostEvents' = hostEvents
    BY Zenon, <1>1 DEF HostStill, QueueInv, Upward
  <1>2. CASE TakesCommand
    BY Zenon, <1>2, CommandTaken DEF HostStill
  <1> QED BY Zenon, <1>1, <1>2 DEF HostStill

(* Taking a frame: it was under way, and comes before all others. *)
LEMMA FrameTaken ==
    ASSUME TypeInv, QueueInv, host.up, hostEvents # << >>, Head(hostEvents).kind \in WorkerKinds,
           hostEvents' = Tail(hostEvents), toHost' = toHost,
           host'.permits = host.permits + 1
    PROVE  /\ Head(hostEvents) \in Upward /\ Upward' = Upward \ {Head(hostEvents)}
           /\ LineInv(toHost', hostEvents', WorkerKinds, "Result", host'.permits)
           /\ \A e \in Upward : e.kind = "Result" => e = Head(hostEvents)
  <1> DEFINE x == Head(hostEvents)
  <1>0. /\ hostEvents \in Seq(HostEvents) /\ toHost \in Seq(Events(WorkerKinds))
        /\ host.permits \in Nat /\ LineInv(toHost, hostEvents, WorkerKinds, "Result", host.permits)
    BY Zenon DEF TypeInv, HostStates, QueueInv
  <1>1. x \in Elems(hostEvents) /\ Distinct(hostEvents)
    BY Zenon, <1>0, HeadIn DEF LineInv
  <1>2. x \in Of(hostEvents, WorkerKinds) /\ x \in Of(hostEvents, WorkerKinds \cup {"End"})
    BY Zenon, <1>1 DEF Of
  <1>3. x \notin Elems(toHost)
    BY Zenon, <1>0, <1>1 DEF LineInv
  <1>4. Of(hostEvents', WorkerKinds) = Of(hostEvents, WorkerKinds) \ {x}
    BY <1>0, <1>1, OfTail
  <1>5. LineInv(toHost', hostEvents', WorkerKinds, "Result", host'.permits)
    <2>1. host.permits + 1 \in Nat
      BY <1>0
    <2> QED BY Zenon, <1>0, <2>1, LineTake
  <1>6. \A e \in Upward : e.kind = "Result" => e = x
    <2> SUFFICES ASSUME NEW e \in Upward, e.kind = "Result" PROVE e = x
      OBVIOUS
    <2>1. e \notin Elems(toHost)
      BY Zenon, <1>0, <1>2 DEF LineInv
    <2>2. e \in Of(hostEvents, WorkerKinds \cup {"End"})
      BY Zenon, <2>1 DEF Upward, Of
    <2> QED BY Zenon, <1>0, <1>2, <2>2 DEF LineInv
  <1> QED BY Zenon, <1>2, <1>3, <1>4, <1>5, <1>6 DEF Upward

(* Taking an event *)
LEMMA WorkTaken ==
    ASSUME TypeInv, QueueInv, worker.phase = "up", workerEvents # << >>,
           NEW e, e = Head(workerEvents), workerEvents' = Tail(workerEvents), toWorker' = toWorker
    PROVE  /\ e \in WorkerEvents /\ workerEvents' \in Seq(WorkerEvents)
           /\ e \in Elems(workerEvents) /\ Distinct(workerEvents)
           /\ Downward' = IF e.kind \in HostKinds THEN Downward \ {e} ELSE Downward
           /\ Returned' = IF e.kind \in ReturnKinds THEN Returned \ {e} ELSE Returned
           /\ e.kind \in HostKinds => e \in Downward /\ Of(workerEvents', HostKinds \cup {"End"}) = {}
           /\ e.kind \in ReturnKinds => e \in Returned
           /\ e.kind \in HostKinds => worker.permits = 0 /\ ~worker.cancelling
           /\ e.kind \in HostKinds /\ e.kind # "Invoke" =>
                 \A f \in Downward : f.kind # "Invoke"
           /\ \A n \in Nat :
                 \/ n = worker.permits
                 \/ n = worker.permits + 1 /\ e.kind \in HostKinds
                 \/ n = 1 /\ worker.cancelling
                 => LineInv(toWorker', workerEvents', HostKinds, "Invoke", n)
           /\ Of(workerEvents', HostKinds \cup {"End"}) \subseteq
                 Of(workerEvents, HostKinds \cup {"End"})
  <1>0. /\ workerEvents \in Seq(WorkerEvents) /\ toWorker \in Seq(Events(HostKinds))
        /\ worker.permits \in Nat
        /\ LineInv(toWorker, workerEvents, HostKinds, "Invoke", worker.permits)
        /\ worker.cancelling => worker.permits = 0 /\ Of(workerEvents, HostKinds \cup {"End"}) = {}
    BY Zenon DEF TypeInv, WorkerStates, QueueInv
  <1>1. /\ e \in WorkerEvents /\ workerEvents' \in Seq(WorkerEvents)
        /\ Elems(workerEvents) = {e} \cup Elems(workerEvents')
        /\ Distinct(workerEvents) => e \notin Elems(workerEvents')
    BY Zenon, <1>0, ElemsTail
  <1>2. /\ Distinct(workerEvents) /\ e \in Elems(workerEvents) /\ e \notin Elems(toWorker)
    BY Zenon, <1>0, <1>1 DEF LineInv
  <1>3. e \notin Elems(workerEvents')
    BY Zenon, <1>1, <1>2
  <1>4. \A K : Of(workerEvents', K) = Of(workerEvents, K) \ {e}
    BY Zenon, <1>1, <1>3 DEF Of
  <1>5. \A K : e.kind \in K => e \in Of(workerEvents, K)
    BY Zenon, <1>2 DEF Of
  <1>6. \A K : e.kind \notin K => e \notin Of(workerEvents, K)
    BY Zenon DEF Of
  <1>7. Downward' = IF e.kind \in HostKinds THEN Downward \ {e} ELSE Downward
    BY ZenonT(60), <1>2, <1>4, <1>6 DEF Downward
  <1>8. Returned' = IF e.kind \in ReturnKinds THEN Returned \ {e} ELSE Returned
    <2>1. Returned' = Of(workerEvents', ReturnKinds)
      BY Zenon DEF Returned
    <2>2. Of(workerEvents', ReturnKinds) = Of(workerEvents, ReturnKinds) \ {e}
      BY Zenon, <1>4
    <2>3. e.kind \notin ReturnKinds => e \notin Of(workerEvents, ReturnKinds)
      BY Zenon, <1>6
    <2> QED BY Zenon, <2>1, <2>2, <2>3 DEF Returned
  <1>9. ASSUME e.kind \in HostKinds
        PROVE  /\ e \in Downward /\ Of(workerEvents', HostKinds \cup {"End"}) = {}
               /\ worker.permits = 0 /\ ~worker.cancelling
               /\ e.kind # "Invoke" => \A f \in Downward : f.kind # "Invoke"
    <2>1. e \in Of(workerEvents, HostKinds) /\ e \in Of(workerEvents, HostKinds \cup {"End"})
      BY Zenon, <1>5, <1>9
    <2>2. \A f \in Of(workerEvents, HostKinds \cup {"End"}) : f = e
      BY Zenon, <1>0, <2>1 DEF LineInv
    <2>3. Of(workerEvents', HostKinds \cup {"End"}) = {}
      BY Zenon, <1>4, <2>2
    <2>4. worker.permits = 0 /\ ~worker.cancelling
      <3>1. ~(worker.permits > 0) /\ ~worker.cancelling
        BY Zenon, <1>0, <2>1 DEF LineInv
      <3> QED BY <1>0, <3>1
    <2>5. ASSUME e.kind # "Invoke", NEW f \in Downward PROVE f.kind # "Invoke"
      <3>1. CASE f \in Elems(toWorker)
        BY Zenon, <1>0, <2>1, <3>1 DEF LineInv
      <3>2. CASE f \in Of(workerEvents, HostKinds)
        <4>1. f \in Of(workerEvents, HostKinds \cup {"End"})
          BY Zenon, <3>2 DEF Of
        <4> QED BY Zenon, <2>2, <2>5, <4>1
      <3> QED BY Zenon, <3>1, <3>2 DEF Downward
    <2> QED BY Zenon, <2>1, <2>3, <2>4, <2>5 DEF Downward
  <1>10. ASSUME NEW n \in Nat,
                \/ n = worker.permits
                \/ n = worker.permits + 1 /\ e.kind \in HostKinds
                \/ n = 1 /\ worker.cancelling
         PROVE  LineInv(toWorker', workerEvents', HostKinds, "Invoke", n)
    BY Zenon, <1>0, <1>10, LineTake
  <1> QED BY Zenon, <1>1, <1>2, <1>4, <1>5, <1>7, <1>8, <1>9, <1>10 DEF Returned

(* A cancellation is always admitted, and finds its call active or answered. *)
LEMMA CancelAdmitted ==
    ASSUME TypeInv, ProtocolInv, worker.phase = "up", workerEvents # << >>,
           Head(workerEvents).kind = "CancelRequest"
    PROVE  LET r == Head(workerEvents).request IN
           /\ r \in Requests /\ r # None /\ Head(workerEvents) = Event("CancelRequest", r)
           /\ Downward = {Event("CancelRequest", r)}
           /\ MayAuthorizeCancellation(worker.auth, r)
           /\ worker.active = r \/ (worker.active = None /\ worker.last = r)
           /\ Invocation(r) \in worker.auth.seen
  <1> DEFINE e == Head(workerEvents)
             r == Head(workerEvents).request
  <1>0. QueueInv /\ WorkerInv
    BY Zenon DEF ProtocolInv
  <1>1. workerEvents \in Seq(WorkerEvents)
    BY Zenon DEF TypeInv
  <1>2. e \in Elems(workerEvents) /\ e \in WorkerEvents
    BY Zenon, <1>1, HeadIn, ElemsTail
  <1>3. e = Event("CancelRequest", r) /\ r \in Calls
    BY Zenon, <1>2, EventForm DEF WorkerEvents
  <1>4. Event("CancelRequest", r) \in Downward /\ e \in Of(workerEvents, HostKinds)
    BY Zenon, <1>2, <1>3 DEF Downward, Of, HostKinds
  <1>5. Event("Invoke", r) \notin Downward
    <2> SUFFICES ASSUME Event("Invoke", r) \in Downward PROVE FALSE
      OBVIOUS
    <2>1. Event("Invoke", r).kind = "Invoke"
      BY Zenon, EventForm
    <2>2. LineInv(toWorker, workerEvents, HostKinds, "Invoke", worker.permits)
      BY Zenon, <1>0 DEF QueueInv
    <2>3. Event("Invoke", r) \in Of(workerEvents, HostKinds)
      BY Zenon, <1>4, <2>1, <2>2 DEF LineInv, Downward
    <2>4. Event("Invoke", r) = e
      BY Zenon, <1>4, <2>2, <2>3 DEF LineInv, Of
    <2> QED BY Zenon, <2>1, <2>4
  <1> HIDE DEF r, e
  <1>6. /\ r \in Requests /\ Downward = {Event("CancelRequest", r)}
        /\ MayAuthorizeCancellation(worker.auth, r)
        /\ worker.active = r \/ (worker.active = None /\ worker.last = r)
    BY Zenon, <1>0, <1>3, <1>4, <1>5 DEF WorkerInv
  <1>7. r # None
    BY <1>6 DEF Requests, None
  <1>8. Invocation(r) \in worker.auth.seen
    BY Zenon, <1>0, <1>6, <1>7 DEF WorkerInv
  <1> QED BY Zenon, <1>3, <1>6, <1>7, <1>8 DEF r, e

(* The adapter's return ends the active call. *)
LEMMA ReturnTaken ==
    ASSUME TypeInv, ProtocolInv, worker.phase = "up", workerEvents # << >>,
           NEW e, e = Head(workerEvents), e.kind \in ReturnKinds,
           workerEvents' = Tail(workerEvents), UNCHANGED toWorker
    PROVE  /\ worker.active # None /\ e = Event(e.kind, worker.active)
           /\ e.request = worker.active /\ adapter.request = None
           /\ Returned' = {} /\ Downward' = Downward
           /\ worker.cancelling => worker.permits + 1 = 1 /\ worker.active \in worker.auth.asked
           /\ \A n \in Nat : n = worker.permits \/ (n = 1 /\ worker.cancelling)
                 => LineInv(toWorker', workerEvents', HostKinds, "Invoke", n)
           /\ Invocation(worker.active) \in worker.auth.seen
  <1>0. QueueInv /\ WorkerInv
    BY Zenon DEF ProtocolInv
  <1>1. e.kind \notin HostKinds
    BY DEF HostKinds, ReturnKinds
  <1>2. /\ Downward' = IF e.kind \in HostKinds THEN Downward \ {e} ELSE Downward
        /\ Returned' = IF e.kind \in ReturnKinds THEN Returned \ {e} ELSE Returned
        /\ e.kind \in ReturnKinds => e \in Returned
        /\ \A n \in Nat :
              \/ n = worker.permits
              \/ n = worker.permits + 1 /\ e.kind \in HostKinds
              \/ n = 1 /\ worker.cancelling
              => LineInv(toWorker', workerEvents', HostKinds, "Invoke", n)
    BY Zenon, <1>0, WorkTaken
  <1>3. worker.active # None
    BY Zenon, <1>0, <1>2 DEF WorkerInv
  <1>4. /\ adapter.request = None /\ Invocation(worker.active) \in worker.auth.seen
        /\ \E k \in ReturnKinds : Returned = {Event(k, worker.active)}
    BY Zenon, <1>0, <1>2, <1>3 DEF WorkerInv
  <1>5. PICK k \in ReturnKinds : Returned = {Event(k, worker.active)}
    BY Zenon, <1>4
  <1>6. e = Event(k, worker.active) /\ e.kind = k /\ e.request = worker.active
    <2>1. e = Event(k, worker.active)
      BY Zenon, <1>2, <1>5
    <2>2. Event(k, worker.active).kind = k /\ Event(k, worker.active).request = worker.active
      BY Zenon, EventForm
    <2> QED BY Zenon, <2>1, <2>2
  <1>7. Returned' = {} /\ Downward' = Downward
    BY Zenon, <1>1, <1>2, <1>5, <1>6
  <1>8. worker.cancelling => worker.permits + 1 = 1 /\ worker.active \in worker.auth.asked
    <2>1. worker.cancelling => worker.permits = 0 /\ worker.active \in worker.auth.asked
      BY Zenon, <1>0 DEF QueueInv, WorkerInv
    <2> QED BY <2>1
  <1> QED BY Zenon, <1>2, <1>3, <1>4, <1>6, <1>7, <1>8

(* Answers as appended frames *)
LEMMA Replies ==
    ASSUME NEW S, NEW s \in Seq(S), NEW x \in S, NEW y \in S
    PROVE  s \o <<x>> = Append(s, x) /\ s \o <<x, y>> = Append(Append(s, x), y)
  OBVIOUS

-----------------------------------------------------------------------------
(* What is reported is what happened. *)

(* An effect that has come to an end stays as it ended. *)
EffectStands ==
    /\ \A r \in Requests : effect[r] \in {"Completed", "Acknowledged"} => effect'[r] = effect[r]
    /\ \A r \in Requests : effect'[r] # "none" => Invocation(r) \in worker'.auth.seen
    /\ adapter'.request # None => effect'[adapter'.request] = "running"

(* What the worker holds, what is on its way to the host, and what the caller
   and the runtime know, is what was there before or what happened. *)
WorkStands ==
    /\ EffectStands
    /\ worker'.phase = "up" =>
          /\ worker.phase = "up"
          /\ \A e \in Returned' : e \in Returned \/ TrueFrame(e)'
          /\ worker'.last # None =>
                worker'.last = worker.last \/ effect'[worker'.last] = "Completed"

FramesStand ==
    host'.up => host.up /\ \A e \in Upward' : e \in Upward \/ TrueFrame(e)'

OutcomesStand ==
    \A r \in Requests :
       /\ delivered'[r] = "Completed" => delivered[r] = "Completed" \/ effect[r] = "Completed"
       /\ delivered'[r] = "Cancelled" => delivered[r] = "Cancelled" \/ effect[r] = "Acknowledged"
       /\ runtime'[r] = "completed" => runtime[r] = "completed" \/ delivered[r] = "Completed"
       /\ runtime'[r] = "cancelled" => runtime[r] = "cancelled" \/ delivered[r] = "Cancelled"

(* Every step keeps what is reported true. *)
LEMMA TruthKept ==
    ASSUME TypeInv, ProtocolInv, TruthInv, [Next]_vars
    PROVE  TruthInv'
  (* A step of that kind keeps the invariant. *)
  <1>TruthCarried.
      ASSUME TypeInv, ProtocolInv, TruthInv, WorkStands, FramesStand, OutcomesStand
      PROVE  TruthInv'
    <2> USE <1>TruthCarried
    <2>0. WorkerInv /\ HostInv /\ host.active \in Calls /\ worker.active \in Calls
          /\ worker.last \in Calls /\ EffectStands
      BY Zenon DEF ProtocolInv, TypeInv, HostStates, WorkerStates, WorkStands
    <2>1. host.up => \A e \in Upward : e.request \in Requests
      BY Zenon, <2>0 DEF HostInv, Calls
    <2>2. worker.phase = "up" => \A e \in Returned : e.request \in Requests
      <3> SUFFICES ASSUME worker.phase = "up", NEW e \in Returned
                   PROVE  e.request \in Requests
        BY Zenon
      <3>1. worker.active # None /\ \E k \in ReturnKinds : Returned = {Event(k, worker.active)}
        BY Zenon, <2>0 DEF WorkerInv
      <3>2. PICK k \in ReturnKinds : e = Event(k, worker.active)
        BY Zenon, <3>1
      <3>3. Event(k, worker.active).request = worker.active
        BY Zenon, EventForm
      <3> QED BY Zenon, <2>0, <3>1, <3>2, <3>3 DEF Calls
    <2>3. \A e : e.request \in Requests /\ TrueFrame(e) => TrueFrame(e)'
      <3> SUFFICES ASSUME NEW e, e.request \in Requests, TrueFrame(e)
                   PROVE  TrueFrame(e)'
        BY Zenon
      <3>1. effect[e.request] \in {"Completed", "Acknowledged"} =>
               effect'[e.request] = effect[e.request]
        BY Zenon, <2>0 DEF EffectStands
      <3> QED BY Zenon, <3>1 DEF TrueFrame
    <2>4. host'.up => \A e \in Upward' : TrueFrame(e)'
      BY Zenon, <2>1, <2>3 DEF FramesStand, TruthInv
    <2>5. worker'.phase = "up" => \A e \in Returned' : TrueFrame(e)'
      BY Zenon, <2>2, <2>3 DEF WorkStands, TruthInv
    <2>6. worker'.phase = "up" /\ worker'.last # None => effect'[worker'.last] = "Completed"
      <3> SUFFICES ASSUME worker'.phase = "up", worker'.last # None, worker'.last = worker.last
                   PROVE  effect'[worker'.last] = "Completed"
        BY Zenon DEF WorkStands
      <3>1. worker.last \in Requests /\ effect[worker.last] = "Completed"
        BY Zenon, <2>0 DEF WorkStands, TruthInv, Calls
      <3> QED BY Zenon, <2>0, <3>1 DEF EffectStands
    <2>7. adapter'.request # None => effect'[adapter'.request] = "running"
      BY Zenon, <2>0 DEF EffectStands
    <2>8. ASSUME NEW r \in Requests
          PROVE  /\ effect'[r] # "none" => Invocation(r) \in worker'.auth.seen
                 /\ delivered'[r] = "Completed" \/ runtime'[r] = "completed" =>
                       effect'[r] = "Completed"
                 /\ delivered'[r] = "Cancelled" \/ runtime'[r] = "cancelled" =>
                       effect'[r] = "Acknowledged"
      <3>1. /\ delivered[r] = "Completed" \/ runtime[r] = "completed" => effect[r] = "Completed"
            /\ delivered[r] = "Cancelled" \/ runtime[r] = "cancelled" => effect[r] = "Acknowledged"
        BY Zenon DEF TruthInv
      <3>2. /\ delivered'[r] = "Completed" \/ runtime'[r] = "completed" => effect[r] = "Completed"
            /\ delivered'[r] = "Cancelled" \/ runtime'[r] = "cancelled" =>
                  effect[r] = "Acknowledged"
        BY Zenon, <3>1 DEF OutcomesStand
      <3> QED BY Zenon, <2>0, <3>2 DEF EffectStands
    <2> QED BY Zenon, <2>4, <2>5, <2>6, <2>7, <2>8 DEF TruthInv
  (* A worker that is left alone, that returns or that is killed *)
  <1>WorkerStands.
      ASSUME TypeInv, TruthInv,
             \/ UNCHANGED <<worker, adapter, effect, workerEvents>>
             \/ Return(FALSE) /\ UNCHANGED effect
             \/ Killed
             \/ UNCHANGED workerEvents /\ (FailTransport \/ CancelRefused)
      PROVE  WorkStands
    <2> USE <1>WorkerStands
    <2>1. CASE UNCHANGED <<worker, adapter, effect, workerEvents>>
      <3>1. Returned' = Returned
        BY Zenon, <2>1 DEF Returned
      <3> QED BY Zenon, <2>1, <3>1 DEF TruthInv, WorkStands, EffectStands
    <2>2. CASE Return(FALSE) /\ UNCHANGED effect
      <3>1. /\ worker'.phase # "up" /\ worker'.auth = worker.auth
            /\ adapter'.request = adapter.request
        BY Zenon, <2>2 DEF Return, TypeInv, WorkerStates
      <3> QED BY Zenon, <2>2, <3>1 DEF TruthInv, WorkStands, EffectStands
    <2>3. CASE Killed
      <3>1. worker'.phase = "down" /\ worker'.auth = worker.auth /\ adapter'.request = None
        BY Zenon, <2>3 DEF Killed, TypeInv, WorkerStates
      <3>2. \A r \in Requests : /\ r = adapter.request => effect[r] = "running"
                                /\ r # adapter.request => effect'[r] = effect[r]
        <4>1. \A r \in Requests : r # None
          BY DEF Requests, None
        <4> QED BY Zenon, <2>3, <4>1 DEF TruthInv, Killed
      <3> QED BY Zenon, <3>1, <3>2 DEF TruthInv, WorkStands, EffectStands
    <2> QED BY Zenon, <2>1, <2>2, <2>3 DEF FailTransport, CancelRefused
  (* A coordinator that ends, or takes a command, or is told one *)
  <1>HostStands.
      ASSUME TypeInv, ProtocolInv,
             \/ ~host'.up
             \/ HostStill /\ toHost' = toHost
             \/ TakesCommand /\ host'.up = host.up /\ host'.permits = host.permits /\ toHost' = toHost
             \/ /\ \E x \in HostEvents : x.kind \in CommandKinds /\ Post(x)
                /\ UNCHANGED <<host, toHost>>
      PROVE  FramesStand
    <2> USE <1>HostStands
    <2>0. QueueInv
      BY Zenon DEF ProtocolInv
    <2>1. CASE ~host'.up
      BY Zenon, <2>1 DEF FramesStand
    <2>2. CASE HostStill /\ toHost' = toHost
      BY Zenon, <2>0, <2>2, HostStillFrames DEF FramesStand, HostStill
    <2>3. CASE TakesCommand /\ host'.up = host.up /\ host'.permits = host.permits /\ toHost' = toHost
      BY Zenon, <2>0, <2>3, CommandTaken DEF FramesStand
    <2>4. ASSUME NEW x \in HostEvents, x.kind \in CommandKinds, Post(x), UNCHANGED <<host, toHost>>
          PROVE  FramesStand
      <3>1. hostEvents \in Seq(HostEvents) /\ hostEvents' = Append(hostEvents, x)
        BY Zenon, <2>4 DEF TypeInv, Post
      <3>2. Elems(hostEvents') = Elems(hostEvents) \cup {x}
        BY <3>1, ElemsAppend
      <3>3. x.kind \notin WorkerKinds
        BY Zenon, <2>4 DEF CommandKinds, WorkerKinds
      <3>4. Upward' = Upward
        BY Zenon, <2>4, <3>2, <3>3 DEF Upward, Of
      <3> QED BY Zenon, <2>4, <3>4 DEF FramesStand
    <2> QED BY Zenon, <2>1, <2>2, <2>3, <2>4
  (* The caller's steps keep what is reported true. *)
  <1>CallerKeepsTruth.
      ASSUME TypeInv, ProtocolInv, TruthInv, Caller
      PROVE  TruthInv'
    <2> USE <1>CallerKeepsTruth
    <2>0. app.binding \in Calls /\ None \in Calls /\ runtime \in Runtime
      BY Zenon DEF TypeInv, AppStates, Calls, Runtime
    <2>1. \A k \in CommandKinds : \A r \in Calls : Event(k, r) \in HostEvents /\ Event(k, r).kind = k
      BY Zenon, EventForm DEF HostEvents
    <2>2. CASE start_external_tool \/ request_external_tool_cancellation \/ close \/ Drop
      <3>1. /\ UNCHANGED <<host, delivered, toHost, worker, workerEvents, adapter, effect>>
            /\ \E k \in CommandKinds : \E r \in Calls : Post(Event(k, r))
        <4>1. CASE start_external_tool
          BY Zenon, <4>1 DEF start_external_tool, workerVars, Calls, CommandKinds
        <4>2. CASE request_external_tool_cancellation
          BY Zenon, <2>0, <4>2 DEF request_external_tool_cancellation, workerVars, CommandKinds
        <4>3. CASE close
          BY Zenon, <2>0, <4>3 DEF close, workerVars, CommandKinds
        <4>4. CASE Drop
          BY Zenon, <2>0, <4>4 DEF Drop, workerVars, CommandKinds
        <4> QED BY Zenon, <2>2, <4>1, <4>2, <4>3, <4>4
      <3>2. \E x \in HostEvents : x.kind \in CommandKinds /\ Post(x)
        BY Zenon, <2>1, <3>1
      <3>3. FramesStand /\ WorkStands
        BY Zenon, <3>1, <3>2, <1>HostStands, <1>WorkerStands
      <3>4. \A r \in Requests : runtime'[r] \in {"claimed", "cancelRequested"} \/ runtime'[r] = runtime[r]
        <4>1. CASE start_external_tool
          BY Zenon, <2>0, <4>1 DEF start_external_tool, Runtime
        <4>2. CASE request_external_tool_cancellation
          BY Zenon, <2>0, <4>2 DEF request_external_tool_cancellation, Runtime
        <4> QED BY Zenon, <2>2, <4>1, <4>2 DEF close, Drop
      <3>5. OutcomesStand
        BY Zenon, <3>1, <3>4 DEF OutcomesStand
      <3> QED BY Zenon, <3>3, <3>5, <1>TruthCarried
    <2>3. CASE poll_external_tool \/ Unavailable
      <3>1. /\ UNCHANGED <<host, hostEvents, toHost, workerEvents, delivered>>
            /\ UNCHANGED <<worker, adapter, effect>> \/ FailTransport \/ CancelRefused
        BY Zenon, <2>3 DEF poll_external_tool, Unavailable
      <3>2. FramesStand /\ WorkStands
        <4>1. HostStill /\ toHost' = toHost
          BY Zenon, <3>1 DEF HostStill
        <4> QED BY Zenon, <3>1, <4>1, <1>HostStands, <1>WorkerStands
      <3>3. \/ UNCHANGED runtime
            \/ /\ delivered[app.binding] = "Completed" /\ app.binding # None
               /\ runtime' = [runtime EXCEPT ![app.binding] = "completed"]
            \/ /\ delivered[app.binding] = "Cancelled" /\ app.binding # None
               /\ runtime' = [runtime EXCEPT ![app.binding] = "cancelled"]
        BY Zenon, <2>3 DEF poll_external_tool, Unavailable, Finish
      <3>4. OutcomesStand
        <4> SUFFICES ASSUME NEW r \in Requests
                     PROVE  /\ runtime'[r] = "completed" =>
                                  runtime[r] = "completed" \/ delivered[r] = "Completed"
                            /\ runtime'[r] = "cancelled" =>
                                  runtime[r] = "cancelled" \/ delivered[r] = "Cancelled"
          BY Zenon, <3>1 DEF OutcomesStand
        <4> QED BY Zenon, <2>0, <3>3 DEF Runtime
      <3> QED BY Zenon, <3>2, <3>4, <1>TruthCarried
    <2> QED BY Zenon, <2>2, <2>3 DEF Caller
  (* The coordinator passes on what the frames say. *)
  <1>FrameKeepsTruth.
      ASSUME TypeInv, ProtocolInv, TruthInv, HandleFrame
      PROVE  TruthInv'
    <2> USE <1>FrameKeepsTruth
    <2> DEFINE e == Head(hostEvents)
               r == host.active
    <2>1. /\ host.up /\ hostEvents # << >> /\ hostEvents' = Tail(hostEvents) /\ e.kind \in WorkerKinds
          /\ e \in Upward /\ e.request = r /\ r \in Requests
          /\ UNCHANGED <<runtime, toHost, worker, workerEvents, adapter, effect>>
          /\ \/ e.kind = "Result" /\ AcceptResult(r)
             \/ e.kind \in {"TooLate", "Acknowledged"} /\ AcceptDisposition(r, e.kind)
      BY Zenon, HandleFrameCases DEF workerVars
    <2>2. TrueFrame(e) /\ QueueInv /\ delivered \in Delivered
      BY Zenon, <2>1 DEF TruthInv, ProtocolInv, TypeInv, Delivered
    <2>3. host'.up = host.up /\ host'.permits = host.permits + 1
      BY ZenonT(60), <2>1 DEF AcceptResult, AcceptDisposition, TypeInv, HostStates
    <2>4. FramesStand
      <3>1. Upward' = Upward \ {e}
        BY Zenon, <2>1, <2>2, <2>3, FrameTaken
      <3> QED BY Zenon, <2>3, <3>1 DEF FramesStand
    <2>5. WorkStands
      BY Zenon, <2>1, <1>WorkerStands
    <2>6. \A q \in Requests : q # r => delivered'[q] = delivered[q]
      BY Zenon, <2>1, <2>2 DEF AcceptResult, AcceptDisposition, Delivered
    <2>7. /\ delivered'[r] = "Completed" => delivered[r] = "Completed" \/ effect[r] = "Completed"
          /\ delivered'[r] = "Cancelled" => delivered[r] = "Cancelled" \/ effect[r] = "Acknowledged"
      <3>1. CASE e.kind = "Result" /\ AcceptResult(r)
        <4>1. effect[r] = "Completed"
          BY Zenon, <2>1, <2>2, <3>1 DEF TrueFrame
        <4>2. delivered'[r] \in {"Completed", delivered[r]}
          BY Zenon, <2>1, <2>2, <3>1 DEF AcceptResult, Delivered
        <4> QED BY Zenon, <4>1, <4>2
      <3>2. CASE e.kind = "TooLate" /\ AcceptDisposition(r, "TooLate")
        <4>1. effect[r] = "Completed"
          BY Zenon, <2>1, <2>2, <3>2 DEF TrueFrame
        <4>2. delivered'[r] = "Completed"
          BY Zenon, <2>1, <2>2, <3>2 DEF AcceptDisposition, Delivered
        <4> QED BY Zenon, <4>1, <4>2
      <3>3. CASE e.kind = "Acknowledged" /\ AcceptDisposition(r, "Acknowledged")
        <4>1. effect[r] = "Acknowledged"
          BY Zenon, <2>1, <2>2, <3>3 DEF TrueFrame
        <4>2. delivered'[r] = "Cancelled"
          BY Zenon, <2>1, <2>2, <3>3 DEF AcceptDisposition, Delivered
        <4> QED BY Zenon, <4>1, <4>2
      <3> QED BY Zenon, <2>1, <3>1, <3>2, <3>3
    <2>8. OutcomesStand
      BY Zenon, <2>1, <2>6, <2>7 DEF OutcomesStand
    <2> QED BY Zenon, <2>4, <2>5, <2>8, <1>TruthCarried
  (* The coordinator's steps keep what is reported true. *)
  <1>CoordinatorKeepsTruth.
      ASSUME TypeInv, ProtocolInv, TruthInv, Coordinator
      PROVE  TruthInv'
    <2> USE <1>CoordinatorKeepsTruth
    <2>1. CASE HandleStart \/ HandleCancel \/ HandleClose
      <3>1. /\ TakesCommand /\ UNCHANGED <<runtime, toHost, workerEvents>>
            /\ FailTransport \/ CancelRefused \/ UNCHANGED <<worker, adapter, effect>>
        BY Zenon, <2>1 DEF HandleStart, HandleCancel, HandleClose, NextEvent, TakesCommand,
           CommandKinds
      <3>2. /\ UNCHANGED delivered \/ Break(FALSE)
            /\ Break(FALSE) \/ (host'.up = host.up /\ host'.permits = host.permits)
        BY ZenonT(60), <2>1 DEF HandleStart, HandleCancel, HandleClose, TypeInv, HostStates
      <3>3. CASE Break(FALSE)
        <4>1. ~host'.up /\ \A r \in Requests : delivered'[r] \in {"error", delivered[r]}
          BY Zenon, <3>3 DEF Break, TypeInv, HostStates
        <4>2. OutcomesStand
          BY Zenon, <3>1, <4>1 DEF OutcomesStand
        <4> QED BY Zenon, <3>1, <4>1, <4>2, <1>HostStands, <1>WorkerStands, <1>TruthCarried
      <3>4. CASE ~Break(FALSE)
        <4>1. OutcomesStand
          BY Zenon, <3>1, <3>2, <3>4 DEF OutcomesStand
        <4> QED BY Zenon, <3>1, <3>2, <3>4, <4>1, <1>HostStands, <1>WorkerStands, <1>TruthCarried
      <3> QED BY Zenon, <3>3, <3>4
    <2>2. CASE HandleAbandon \/ HandleEnd
      <3>1. Break(FALSE) /\ UNCHANGED <<runtime, worker, workerEvents, adapter, effect>>
        BY Zenon, <2>2 DEF HandleAbandon, HandleEnd, workerVars
      <3>2. ~host'.up /\ \A r \in Requests : delivered'[r] \in {"error", delivered[r]}
        BY Zenon, <3>1 DEF Break, TypeInv, HostStates
      <3>3. OutcomesStand
        BY Zenon, <3>1, <3>2 DEF OutcomesStand
      <3> QED BY Zenon, <3>1, <3>2, <3>3, <1>HostStands, <1>WorkerStands, <1>TruthCarried
    <2>3. CASE HostReads
      <3>1. /\ host.up /\ host'.up = host.up
            /\ UNCHANGED <<runtime, delivered, worker, workerEvents, adapter, effect>>
            /\ hostEvents \in Seq(HostEvents) /\ toHost \in Seq(Events(WorkerKinds))
        BY Zenon, <2>3 DEF HostReads, TypeInv, HostStates, workerVars
      <3>2. Upward' \subseteq Upward
        <4>1. CASE toHost # << >> /\ hostEvents' = Append(hostEvents, Head(toHost))
                   /\ toHost' = Tail(toHost)
          <5>1. Head(toHost) \in Events(WorkerKinds) /\ Head(toHost) \in Elems(toHost)
            BY Zenon, <3>1, <4>1, HeadIn, ElemsTail
          <5>2. Head(toHost) \in HostEvents
            BY <5>1 DEF Events, HostEvents
          <5>3. Elems(hostEvents') = Elems(hostEvents) \cup {Head(toHost)}
            BY <3>1, <4>1, <5>2, ElemsAppend
          <5>4. Elems(toHost') \subseteq Elems(toHost)
            BY Zenon, <3>1, <4>1, ElemsTail
          <5> QED BY Zenon, <5>1, <5>3, <5>4 DEF Upward, Of
        <4>2. CASE toHost = << >> /\ hostEvents' = Append(hostEvents, Event("End", None))
                   /\ toHost' = toHost
          <5>1. Event("End", None) \in HostEvents /\ Event("End", None).kind = "End"
            BY EventForm DEF HostEvents, Calls
          <5>2. Elems(hostEvents') = Elems(hostEvents) \cup {Event("End", None)}
            BY <3>1, <4>2, <5>1, ElemsAppend
          <5>3. Event("End", None).kind \notin WorkerKinds
            BY Zenon, <5>1 DEF WorkerKinds
          <5> QED BY Zenon, <4>2, <5>2, <5>3 DEF Upward, Of
        <4> QED BY Zenon, <2>3, <4>1, <4>2 DEF HostReads, Post
      <3>3. FramesStand /\ OutcomesStand
        BY Zenon, <3>1, <3>2 DEF FramesStand, OutcomesStand
      <3> QED BY Zenon, <3>1, <3>3, <1>WorkerStands, <1>TruthCarried
    <2> QED BY Zenon, <2>1, <2>2, <2>3, <1>FrameKeepsTruth DEF Coordinator
  (* Answers about a call that say how it ended *)
  <1>RepliesStand.
      ASSUME TypeInv, NEW r \in Requests, NEW k \in WorkerKinds, NEW m \in WorkerKinds,
             Reply(<<Event(k, r)>>) \/ Reply(<<Event(k, r), Event(m, r)>>),
             UNCHANGED <<host, hostEvents, effect>>,
             \/ effect[r] = "Completed" /\ k # "Acknowledged" /\ m # "Acknowledged"
             \/ effect[r] = "Acknowledged" /\ k = "Acknowledged" /\ m = "Acknowledged"
      PROVE  FramesStand
    <2> USE <1>RepliesStand
    <2> DEFINE x == Event(k, r)
               y == Event(m, r)
    <2>1. /\ x \in Events(WorkerKinds) /\ y \in Events(WorkerKinds) /\ toHost \in Seq(Events(WorkerKinds))
          /\ x.kind = k /\ x.request = r /\ y.kind = m /\ y.request = r
      <3>1. r \in Calls /\ toHost \in Seq(Events(WorkerKinds))
        BY Zenon DEF TypeInv, Calls
      <3> QED BY Zenon, <3>1, EventForm
    <2>2. toHost' = toHost \o <<x>> \/ toHost' = toHost \o <<x, y>>
      BY Zenon DEF Reply
    <2>3. TrueFrame(x)' /\ TrueFrame(y)'
      <3>1. k \in {"Result", "TooLate", "Acknowledged"} /\ m \in {"Result", "TooLate", "Acknowledged"}
        BY Zenon DEF WorkerKinds
      <3> HIDE DEF x, y
      <3> QED BY Zenon, <2>1, <3>1 DEF TrueFrame
    <2> HIDE DEF x, y
    <2>4. toHost \o <<x>> = Append(toHost, x) /\ toHost \o <<x, y>> = Append(Append(toHost, x), y)
      BY <2>1, Replies
    <2>5. \A s \in Seq(Events(WorkerKinds)) : \A z \in Events(WorkerKinds) :
             Append(s, z) \in Seq(Events(WorkerKinds)) /\ Elems(Append(s, z)) = Elems(s) \cup {z}
      BY ElemsAppend
    <2>6. /\ Elems(Append(toHost, x)) = Elems(toHost) \cup {x}
          /\ Elems(Append(Append(toHost, x), y)) = Elems(Append(toHost, x)) \cup {y}
      BY Zenon, <2>1, <2>5
    <2>7. Elems(toHost') \subseteq Elems(toHost) \cup {x, y}
      BY Zenon, <2>2, <2>4, <2>6
    <2>8. Upward' \subseteq Upward \cup {x, y}
      BY Zenon, <2>7 DEF Upward
    <2> QED BY Zenon, <2>3, <2>8 DEF FramesStand
  (* A call begins: its effect is a new one. *)
  <1>InvokeKeepsTruth.
      ASSUME TypeInv, ProtocolInv, TruthInv, DriveInvoke
      PROVE  TruthInv'
    <2> USE <1>InvokeKeepsTruth
    <2> DEFINE r == Head(workerEvents).request
    <2>1. /\ worker.phase = "up" /\ workerEvents # << >> /\ Head(workerEvents).kind = "Invoke"
          /\ workerEvents' = Tail(workerEvents)
          /\ UNCHANGED <<host, hostEvents, toHost, toWorker, runtime, delivered>>
      BY Zenon DEF DriveInvoke, NextWork, hostVars
    <2>2. r \in Requests /\ worker.active = None /\ MayAuthorize(worker.auth, r)
      BY Zenon, <2>1, InvokeAdmitted
    <2>3. /\ worker' = [worker EXCEPT !.auth = authorize(@, r), !.active = r,
                                      !.cancelling = FALSE, !.permits = @ + 1]
          /\ adapter' = [request |-> r, token |-> FALSE]
          /\ effect' = [effect EXCEPT ![r] = "running"]
      BY Zenon, <2>2 DEF DriveInvoke
    <2>4. /\ worker'.phase = "up" /\ worker'.last = worker.last /\ adapter'.request = r
          /\ worker'.auth = authorize(worker.auth, r) /\ worker.auth \in Authorizers
      BY Zenon, <2>1, <2>3 DEF TypeInv, WorkerStates
    <2>5. worker'.auth.seen = worker.auth.seen \cup {Invocation(r)}
      BY Zenon, <2>4 DEF authorize, Authorizers
    <2>6. effect[r] = "none"
      BY Zenon, <2>2 DEF MayAuthorize, CanReserve, TruthInv
    <2>7. /\ effect'[r] = "running" /\ \A q \in Requests : q # r => effect'[q] = effect[q]
      BY Zenon, <2>2, <2>3 DEF TypeInv
    <2>8. Returned' = Returned
      <3>1. QueueInv /\ Head(workerEvents).kind \notin ReturnKinds
        BY Zenon, <2>1 DEF ProtocolInv, ReturnKinds
      <3>2. Returned' = IF Head(workerEvents).kind \in ReturnKinds THEN Returned \ {Head(workerEvents)}
                                                                   ELSE Returned
        BY Zenon, <2>1, <3>1, WorkTaken
      <3> QED BY Zenon, <3>1, <3>2
    <2>9. EffectStands
      BY Zenon, <2>4, <2>5, <2>6, <2>7 DEF EffectStands, TruthInv
    <2>10. WorkStands
      BY Zenon, <2>1, <2>4, <2>8, <2>9 DEF WorkStands
    <2>11. FramesStand /\ OutcomesStand
      <3>1. HostStill
        BY Zenon, <2>1 DEF HostStill
      <3> QED BY Zenon, <2>1, <3>1, <1>HostStands DEF OutcomesStand
    <2> QED BY Zenon, <2>10, <2>11, <1>TruthCarried
  (* A cancellation of the active call, or one that comes too late *)
  <1>CancelKeepsTruth.
      ASSUME TypeInv, ProtocolInv, TruthInv, DriveCancel
      PROVE  TruthInv'
    <2> USE <1>CancelKeepsTruth
    <2> DEFINE r == Head(workerEvents).request
               auth == authorize_cancellation(worker.auth, r)
    <2>1. /\ worker.phase = "up" /\ workerEvents # << >> /\ Head(workerEvents).kind = "CancelRequest"
          /\ workerEvents' = Tail(workerEvents)
          /\ UNCHANGED <<host, hostEvents, toWorker, runtime, delivered, effect>>
      BY Zenon DEF DriveCancel, NextWork, hostVars
    <2>2. /\ r \in Requests /\ r # None /\ MayAuthorizeCancellation(worker.auth, r)
          /\ worker.active = r \/ (worker.active = None /\ worker.last = r)
      BY Zenon, <2>1, CancelAdmitted
    <2>3. \/ /\ worker' = [worker EXCEPT !.auth = auth, !.cancelling = TRUE]
             /\ adapter' = [adapter EXCEPT !.token = adapter.request = r]
             /\ UNCHANGED toHost
          \/ /\ worker' = [worker EXCEPT !.permits = @ + 1,
                              !.auth = validate_cancellation_result(auth, r, "TooLate")]
             /\ Reply(<<Event("TooLate", r)>>) /\ UNCHANGED adapter /\ worker.last = r
      BY Zenon, <2>2 DEF DriveCancel
    <2>4. /\ worker'.phase = "up" /\ worker'.last = worker.last /\ adapter'.request = adapter.request
          /\ worker'.auth \in {auth, validate_cancellation_result(auth, r, "TooLate")}
          /\ worker.auth \in Authorizers
      BY ZenonT(60), <2>1, <2>3 DEF TypeInv, WorkerStates
    <2>5. worker.auth.seen \subseteq worker'.auth.seen
      <3>1. /\ worker.auth.seen \subseteq auth.seen
            /\ validate_cancellation_result(auth, r, "TooLate").seen = auth.seen
        BY <2>4 DEF authorize_cancellation, validate_cancellation_result, Authorizers
      <3> QED BY Zenon, <2>4, <3>1
    <2>6. Returned' = Returned
      <3>1. QueueInv /\ Head(workerEvents).kind \notin ReturnKinds
        BY Zenon, <2>1 DEF ProtocolInv, ReturnKinds
      <3>2. Returned' = IF Head(workerEvents).kind \in ReturnKinds THEN Returned \ {Head(workerEvents)}
                                                                   ELSE Returned
        BY Zenon, <2>1, <3>1, WorkTaken
      <3> QED BY Zenon, <3>1, <3>2
    <2>7. WorkStands
      BY Zenon, <2>1, <2>4, <2>5, <2>6 DEF WorkStands, EffectStands, TruthInv
    <2>8. FramesStand
      <3>1. CASE UNCHANGED toHost
        <4>1. HostStill
          BY Zenon, <2>1 DEF HostStill
        <4> QED BY Zenon, <3>1, <4>1, <1>HostStands
      <3>2. CASE Reply(<<Event("TooLate", r)>>) /\ worker.last = r
        <4>1. effect[r] = "Completed"
          BY Zenon, <2>1, <2>2, <3>2 DEF TruthInv
        <4>2. "TooLate" \in WorkerKinds /\ "TooLate" # "Acknowledged"
          BY DEF WorkerKinds
        <4> QED BY ZenonT(60), <2>1, <2>2, <3>2, <4>1, <4>2, <1>RepliesStand
      <3> QED BY Zenon, <2>3, <3>1, <3>2
    <2>9. OutcomesStand
      BY Zenon, <2>1 DEF OutcomesStand
    <2> QED BY Zenon, <2>7, <2>8, <2>9, <1>TruthCarried
  (* The driver tells how the call ended. *)
  <1>FinishedKeepsTruth.
      ASSUME TypeInv, ProtocolInv, TruthInv, DriveFinished
      PROVE  TruthInv'
    <2> USE <1>FinishedKeepsTruth
    <2> DEFINE e == Head(workerEvents)
               r == Head(workerEvents).request
               result == validate_result(worker.auth, r)
               both == validate_cancellation_result(result, r, "TooLate")
    <2>1. /\ worker.phase = "up" /\ workerEvents # << >> /\ e.kind \in ReturnKinds
          /\ workerEvents' = Tail(workerEvents)
          /\ UNCHANGED <<host, hostEvents, toWorker, runtime, delivered, effect>>
      BY Zenon DEF DriveFinished, NextWork, hostVars, ReturnKinds
    <2>2. /\ r = worker.active /\ worker.active # None /\ worker.active \in Calls
          /\ adapter.request = None /\ Returned' = {}
      BY Zenon, <2>1, ReturnTaken DEF TypeInv, WorkerStates
    <2>3. r \in Requests
      BY Zenon, <2>2 DEF Calls
    <2>4. TrueFrame(e)
      <3>1. QueueInv
        BY Zenon DEF ProtocolInv
      <3>2. e \in Returned
        BY Zenon, <2>1, <3>1, WorkTaken
      <3> QED BY Zenon, <2>1, <3>2 DEF TruthInv
    <2>5. OutcomesStand
      BY Zenon, <2>1 DEF OutcomesStand
    <2>6. worker.auth \in Authorizers
      BY Zenon DEF TypeInv, WorkerStates
    <2>7. CASE /\ e.kind = "AdapterCompleted"
               /\ worker' = [worker EXCEPT !.active = None, !.cancelling = FALSE, !.last = r,
                     !.auth = IF worker.cancelling THEN both ELSE result,
                     !.permits = IF worker.cancelling THEN @ + 1 ELSE @]
               /\ Reply(Answers(r)) /\ UNCHANGED adapter
      <3>1. effect[r] = "Completed"
        BY Zenon, <2>4, <2>7 DEF TrueFrame
      <3>2. worker'.phase = "up" /\ worker'.last = r /\ worker'.auth \in {both, result}
        BY Zenon, <2>1, <2>7 DEF TypeInv, WorkerStates
      <3>3. worker'.auth.seen = worker.auth.seen
        <4>1. both.seen = worker.auth.seen /\ result.seen = worker.auth.seen
          BY <2>6 DEF validate_result, validate_cancellation_result, Authorizers
        <4> QED BY Zenon, <3>2, <4>1
      <3>4. WorkStands
        BY Zenon, <2>1, <2>2, <2>7, <3>1, <3>2, <3>3 DEF WorkStands, EffectStands, TruthInv
      <3>5. FramesStand
        <4>1. \/ Reply(<<Event("Result", r)>>)
              \/ Reply(<<Event("Result", r), Event("TooLate", r)>>)
          BY Zenon, <2>7 DEF Answers
        <4>2. /\ "Result" \in WorkerKinds /\ "TooLate" \in WorkerKinds
              /\ "Result" # "Acknowledged" /\ "TooLate" # "Acknowledged"
          BY SMTT(30) DEF WorkerKinds
        <4> QED BY Zenon, <2>1, <2>3, <3>1, <4>1, <4>2, <1>RepliesStand
      <3> QED BY Zenon, <2>5, <3>4, <3>5, <1>TruthCarried
    <2>8. CASE /\ e.kind = "AdapterAcknowledged"
               /\ worker' = [worker EXCEPT !.active = None, !.cancelling = FALSE, !.last = None,
                     !.auth = validate_cancellation_result(@, r, "Acknowledged"),
                     !.permits = @ + 1]
               /\ Reply(<<Event("Acknowledged", r)>>) /\ UNCHANGED adapter
      <3>1. effect[r] = "Acknowledged"
        BY Zenon, <2>4, <2>8 DEF TrueFrame
      <3>2. /\ worker'.phase = "up" /\ worker'.last = None
            /\ worker'.auth = validate_cancellation_result(worker.auth, r, "Acknowledged")
        BY Zenon, <2>1, <2>8 DEF TypeInv, WorkerStates
      <3>3. worker'.auth.seen = worker.auth.seen
        BY Zenon, <2>6, <3>2 DEF validate_cancellation_result, Authorizers
      <3>4. WorkStands
        BY Zenon, <2>1, <2>2, <2>8, <3>2, <3>3 DEF WorkStands, EffectStands, TruthInv
      <3>5. FramesStand
        <4>1. "Acknowledged" \in WorkerKinds
          BY DEF WorkerKinds
        <4> QED BY Zenon, <2>1, <2>3, <2>8, <3>1, <4>1, <1>RepliesStand
      <3> QED BY Zenon, <2>5, <3>4, <3>5, <1>TruthCarried
    <2>9. CASE Return(FALSE) /\ UNCHANGED toHost
      <3>1. HostStill
        BY Zenon, <2>1 DEF HostStill
      <3> QED BY Zenon, <2>1, <2>5, <2>9, <3>1, <1>HostStands, <1>WorkerStands, <1>TruthCarried
    <2> QED BY Zenon, <2>7, <2>8, <2>9 DEF DriveFinished
  (* The adapter returns: its effect has come to an end. *)
  <1>AdapterKeepsTruth.
      ASSUME TypeInv, ProtocolInv, TruthInv, AdapterReturns
      PROVE  TruthInv'
    <2> USE <1>AdapterKeepsTruth
    <2>0. PICK r \in Calls : r = adapter.request
      BY Zenon DEF TypeInv
    <2>1. /\ r # None /\ adapter'.request = None
          /\ worker'.phase = IF worker.phase = "draining" THEN "down" ELSE worker.phase
          /\ worker'.auth = worker.auth /\ worker'.last = worker.last
          /\ UNCHANGED <<toHost, host, hostEvents, runtime, delivered>>
          /\ workerEvents \in Seq(WorkerEvents)
      BY Zenon, <2>0 DEF TypeInv, WorkerStates, AdapterReturns, hostVars
    <2>2. r \in Requests
      BY Zenon, <2>1 DEF Calls
    <2>3. PICK o \in {"Completed", "Failed", "Acknowledged"} :
             /\ effect' = [effect EXCEPT ![r] = o]
             /\ worker.phase = "up" => workerEvents' = Append(workerEvents, Event(ReturnKind(o), r))
      BY Zenon, <2>0 DEF AdapterReturns, ReturnKind
    <2>4. /\ effect'[r] = o /\ \A q \in Requests : q # r => effect'[q] = effect[q]
      BY Zenon, <2>2, <2>3 DEF TypeInv
    <2>5. effect[r] = "running"
      BY Zenon, <2>0, <2>1 DEF TruthInv
    <2>6. EffectStands
      BY Zenon, <2>1, <2>2, <2>4, <2>5 DEF EffectStands, TruthInv
    <2>7. worker.phase = "up" => \A e \in Returned' : e \in Returned \/ TrueFrame(e)'
      <3> SUFFICES ASSUME worker.phase = "up"
                   PROVE  \A e \in Returned' : e \in Returned \/ TrueFrame(e)'
        BY Zenon
      <3> DEFINE k == ReturnKind(o)
                 x == Event(k, r)
      <3>1. /\ k \in ReturnKinds
            /\ k \notin {"Result", "TooLate", "Acknowledged"}
            /\ k = "AdapterCompleted" => o = "Completed"
            /\ k = "AdapterAcknowledged" => o = "Acknowledged"
        BY DEF ReturnKinds, ReturnKind
      <3> HIDE DEF k
      <3>2. x \in WorkerEvents /\ x.kind = k /\ x.request = r
        <4>1. k \in HostKinds \cup ReturnKinds \cup {"End"}
          BY Zenon, <3>1
        <4> QED BY ZenonT(60), <2>1, <4>1, EventForm DEF WorkerEvents
      <3>3. workerEvents' = Append(workerEvents, x)
        BY Zenon, <2>3 DEF k
      <3> HIDE DEF x
      <3>4. Elems(workerEvents') = Elems(workerEvents) \cup {x}
        BY <2>1, <3>2, <3>3, ElemsAppend
      <3>5. Returned' \subseteq Returned \cup {x}
        BY Zenon, <3>4 DEF Returned, Of
      <3>6. TrueFrame(x)'
        BY Zenon, <2>4, <3>1, <3>2 DEF TrueFrame
      <3> QED BY Zenon, <3>5, <3>6
    <2>8. WorkStands
      BY Zenon, <2>1, <2>6, <2>7 DEF WorkStands
    <2>9. FramesStand /\ OutcomesStand
      <3>1. HostStill
        BY Zenon, <2>1 DEF HostStill
      <3> QED BY Zenon, <2>1, <3>1, <1>HostStands DEF OutcomesStand
    <2> QED BY Zenon, <2>8, <2>9, <1>TruthCarried
  (* The worker's reader *)
  <1>WorkerReadsKeepsTruth.
      ASSUME TypeInv, ProtocolInv, TruthInv, WorkerReads
      PROVE  TruthInv'
    <2> USE <1>WorkerReadsKeepsTruth
    <2>1. /\ worker.phase = "up" /\ worker'.phase = worker.phase
          /\ worker'.auth = worker.auth /\ worker'.last = worker.last
          /\ UNCHANGED <<toHost, host, hostEvents, runtime, delivered, adapter, effect>>
          /\ workerEvents \in Seq(WorkerEvents) /\ toWorker \in Seq(Events(HostKinds))
      BY Zenon DEF TypeInv, WorkerStates, WorkerReads, hostVars
    <2>2. PICK x \in WorkerEvents :
             x.kind \notin ReturnKinds /\ workerEvents' = Append(workerEvents, x)
      <3>1. CASE toWorker # << >> /\ workerEvents' = Append(workerEvents, Head(toWorker))
        <4>1. Head(toWorker) \in Events(HostKinds)
          BY Zenon, <2>1, <3>1, ElemsTail
        <4>2. Head(toWorker) \in WorkerEvents
          BY <4>1 DEF Events, WorkerEvents
        <4>3. Head(toWorker).kind \in HostKinds
          BY Zenon, <4>1, EventForm
        <4>4. Head(toWorker).kind \notin ReturnKinds
          BY Zenon, <4>3 DEF HostKinds, ReturnKinds
        <4> QED BY Zenon, <3>1, <4>2, <4>4
      <3>2. CASE workerEvents' = Append(workerEvents, Event("End", None))
        <4>1. Event("End", None) \in WorkerEvents /\ Event("End", None).kind = "End"
          BY EventForm DEF WorkerEvents, Calls
        <4>2. Event("End", None).kind \notin ReturnKinds
          BY Zenon, <4>1 DEF ReturnKinds
        <4> QED BY Zenon, <3>2, <4>1, <4>2
      <3> QED BY Zenon, <3>1, <3>2 DEF WorkerReads
    <2>3. Elems(workerEvents') = Elems(workerEvents) \cup {x}
      BY <2>1, <2>2, ElemsAppend
    <2>4. Returned' = Returned
      BY Zenon, <2>2, <2>3 DEF Returned, Of
    <2>5. WorkStands
      BY Zenon, <2>1, <2>4 DEF WorkStands, EffectStands, TruthInv
    <2>6. FramesStand /\ OutcomesStand
      <3>1. HostStill
        BY Zenon, <2>1 DEF HostStill
      <3> QED BY Zenon, <2>1, <3>1, <1>HostStands DEF OutcomesStand
    <2> QED BY Zenon, <2>5, <2>6, <1>TruthCarried
  <1>1. CASE WatchdogFires \/ WorkerCrash \/ DriveEnd \/ DriveUnheard \/ UNCHANGED vars
    <2>1. UNCHANGED <<host, hostEvents, toHost, runtime, delivered>>
      BY Zenon, <1>1 DEF WatchdogFires, WorkerCrash, DriveEnd, DriveUnheard, vars, hostVars
    <2>2. FramesStand /\ OutcomesStand
      <3>1. HostStill
        BY Zenon, <2>1 DEF HostStill
      <3> QED BY Zenon, <2>1, <3>1, <1>HostStands DEF OutcomesStand
    <2>3. CASE WatchdogFires \/ WorkerCrash
      BY Zenon, <2>2, <2>3, <1>WorkerStands, <1>TruthCarried DEF WatchdogFires, WorkerCrash
    <2>4. CASE DriveEnd \/ DriveUnheard
      <3>1. UNCHANGED effect /\ (Return(FALSE) \/ Return(TRUE))
        BY Zenon, <2>4 DEF DriveEnd, DriveUnheard
      <3>2. WorkStands
        <4>1. /\ worker'.phase # "up" /\ worker'.auth = worker.auth
              /\ adapter'.request = adapter.request
          BY ZenonT(60), <3>1 DEF Return, TypeInv, WorkerStates
        <4> QED BY Zenon, <3>1, <4>1 DEF TruthInv, WorkStands, EffectStands
      <3> QED BY Zenon, <2>2, <3>2, <1>TruthCarried
    <2>5. CASE UNCHANGED vars
      <3>1. UNCHANGED <<worker, adapter, effect, workerEvents>>
        BY Zenon, <2>5 DEF vars
      <3> QED BY Zenon, <2>2, <3>1, <1>WorkerStands, <1>TruthCarried
    <2> QED BY Zenon, <1>1, <2>3, <2>4, <2>5
  <1> QED BY Zenon, <1>1, <1>CallerKeepsTruth, <1>CoordinatorKeepsTruth, <1>InvokeKeepsTruth,
             <1>CancelKeepsTruth, <1>FinishedKeepsTruth, <1>WorkerReadsKeepsTruth, <1>AdapterKeepsTruth
             DEF Next, Driver
=============================================================================
