---------------------- MODULE MultiplexedWorkerProofs ----------------------
(***************************************************************************)
(* The safety properties of MultiplexedWorker, for any number of calls and *)
(* any budget of calls and identities: every step of the caller, of the    *)
(* coordinator and of the driver keeps the two sides of the pipe and the   *)
(* frames between them in agreement.                                       *)
(***************************************************************************)
EXTENDS MultiplexedWorkerInvariant

-----------------------------------------------------------------------------
(* The protocol: lines of frames, and what frames announce. *)

(* The elements of some kinds, when one is appended *)
LEMMA OfAppend ==
    ASSUME NEW S, NEW s \in Seq(S), NEW x \in S, NEW K
    PROVE  Of(Append(s, x), K) = Of(s, K) \cup {e \in {x} : e.kind \in K}
  <1>1. Elems(Append(s, x)) = Elems(s) \cup {x}
    BY ElemsAppend
  <1> QED BY Zenon, <1>1 DEF Of

(* A command, or an adapter's return, joins the queue. *)
LEMMA LinePost ==
    ASSUME NEW P, NEW Q, NEW p \in Seq(P), NEW q \in Seq(Q), NEW K, NEW f, NEW n,
           LineInv(p, q, K, f, n),
           NEW x \in Q, x.kind \notin K \cup {"End"}, x \notin Elems(p), x \notin Elems(q)
    PROVE  LineInv(p, Append(q, x), K, f, n)
  <1>1. Elems(Append(q, x)) = Elems(q) \cup {x} /\ Distinct(Append(q, x))
    BY ZenonT(60), ElemsAppend DEF LineInv
  <1>2. Of(Append(q, x), K) = Of(q, K) /\ Of(Append(q, x), K \cup {"End"}) = Of(q, K \cup {"End"})
    BY Zenon, <1>1 DEF Of
  <1> QED BY Zenon, <1>1, <1>2 DEF LineInv

(* A reader with a permit moves the next frame. *)
LEMMA LineRead ==
    ASSUME NEW P, NEW Q, NEW p \in Seq(P), NEW q \in Seq(Q), NEW K, NEW f, NEW n \in Nat,
           LineInv(p, q, K, f, n), n > 0, p # << >>,
           Head(p) \in Q, "End" \notin K, \A e \in P : e.kind \in K
    PROVE  /\ LineInv(Tail(p), Append(q, Head(p)), K, f, n - 1)
           /\ Elems(Tail(p)) \cup Of(Append(q, Head(p)), K) = Elems(p) \cup Of(q, K)
  <1> DEFINE x == Head(p)
  <1>0. Distinct(p) /\ Distinct(q) /\ \A e \in Elems(p) : e \notin Elems(q)
    BY Zenon DEF LineInv
  <1>a. /\ Elems(p) = {x} \cup Elems(Tail(p)) /\ Distinct(Tail(p)) /\ x \notin Elems(Tail(p))
        /\ x \in P /\ x \in Q
    BY Zenon, <1>0, ElemsTail
  <1> HIDE DEF x
  <1>1. /\ Elems(p) = {x} \cup Elems(Tail(p)) /\ Distinct(Tail(p)) /\ x \notin Elems(Tail(p))
        /\ x \in P /\ x.kind \in K /\ x \notin Elems(q)
    BY Zenon, <1>0, <1>a
  <1>2. Elems(Append(q, x)) = Elems(q) \cup {x} /\ Distinct(Append(q, x))
    BY <1>0, <1>a, <1>1, ElemsAppend
  <1>3. Of(q, K \cup {"End"}) = {} /\ Of(q, K) = {} /\ n = 1
    BY Zenon DEF LineInv, Of
  <1>4. Of(Append(q, x), K) = {x} /\ Of(Append(q, x), K \cup {"End"}) = {x}
    BY Zenon, <1>1, <1>2, <1>3 DEF Of
  <1>5. ~(n - 1 > 0)
    BY <1>3
  <1>6. \A e \in Elems(Tail(p)) : e.kind # f
    BY Zenon, <1>1 DEF LineInv, x
  <1>7. \A e \in Elems(Tail(p)) : e \notin Elems(Append(q, x))
    BY Zenon, <1>1, <1>2 DEF LineInv
  <1>8. LineInv(Tail(p), Append(q, x), K, f, n - 1)
    BY Zenon, <1>1, <1>2, <1>4, <1>5, <1>6, <1>7 DEF LineInv
  <1> QED BY Zenon, <1>1, <1>3, <1>4, <1>8 DEF x

(* A reader with a permit reports the end of an empty pipe. *)
LEMMA LineEnds ==
    ASSUME NEW Q, NEW q \in Seq(Q), NEW K, NEW f, NEW n \in Nat,
           LineInv(<< >>, q, K, f, n), n > 0,
           NEW x \in Q, x.kind = "End", "End" \notin K
    PROVE  LineInv(<< >>, Append(q, x), K, f, n - 1) /\ Of(Append(q, x), K) = Of(q, K)
  <1>1. Of(q, K \cup {"End"}) = {} /\ n = 1 /\ x \notin Elems(q)
    BY Zenon DEF LineInv, Of
  <1>2. Elems(Append(q, x)) = Elems(q) \cup {x} /\ Distinct(Append(q, x))
    BY ZenonT(60), <1>1, ElemsAppend DEF LineInv
  <1>3. Of(Append(q, x), K \cup {"End"}) = {x} /\ Of(Append(q, x), K) = Of(q, K)
    BY Zenon, <1>1, <1>2 DEF Of
  <1>4. ~(n - 1 > 0)
    BY <1>1
  <1> QED BY Zenon, <1>2, <1>3, <1>4, ElemsEmpty DEF LineInv

(* A frame is written; the first of a call into an empty line. *)
LEMMA LineSend ==
    ASSUME NEW P, NEW p \in Seq(P), NEW q, NEW K, NEW f, NEW n,
           LineInv(p, q, K, f, n),
           NEW x \in P, x \notin Elems(p), x \notin Elems(q),
           x.kind = f => p = << >> /\ Of(q, K) = {}
    PROVE  LineInv(Append(p, x), q, K, f, n)
  <1>1. /\ Elems(Append(p, x)) = Elems(p) \cup {x} /\ Distinct(Append(p, x))
        /\ Head(Append(p, x)) = IF p = << >> THEN x ELSE Head(p)
    BY Zenon, ElemsAppend DEF LineInv
  <1>2. p = << >> => Elems(p) = {}
    BY Zenon, ElemsEmpty
  <1>3. ASSUME NEW e \in Elems(Append(p, x)), e.kind = f
        PROVE  e = Head(Append(p, x)) /\ Of(q, K) = {}
    <2>1. CASE e = x
      BY Zenon, <1>1, <1>3, <2>1
    <2>2. CASE e \in Elems(p)
      <3>1. e = Head(p) /\ Of(q, K) = {}
        BY Zenon, <1>3, <2>2 DEF LineInv
      <3> QED BY Zenon, <1>1, <1>2, <2>2, <3>1
    <2> QED BY Zenon, <1>1, <2>1, <2>2
  <1> QED BY Zenon, <1>1, <1>3 DEF LineInv

(* Events are equal only if both agree. *)
LEMMA EventSame == \A k, m, p, q : Event(k, p) = Event(m, q) => k = m /\ p = q
  BY DEF Event

(* Identities have their form. *)
LEMMA IdentityForm ==
    /\ \A q : Invocation(q) \in {"invoke", "cancel"} \X Calls <=> q \in Calls
    /\ \A q : Cancellation(q) \in {"invoke", "cancel"} \X Calls <=> q \in Calls
  BY DEF Invocation, Cancellation

(* What an invocation adds *)
LEMMA AnnouncedInvoke ==
    ASSUME NEW D, NEW r \in Calls
    PROVE  /\ Announced(D \cup {Event("Invoke", r)}) = Announced(D) \cup {Invocation(r)}
           /\ Ordered(D \cup {Event("Invoke", r)}) = 1
  <1>1. Announced(D \cup {Event("Invoke", r)}) = Announced(D) \cup {Invocation(r)}
    BY IdentityForm, EventSame DEF Announced
  <1>2. Ordered(D \cup {Event("Invoke", r)}) = 1
    BY EventForm DEF Ordered
  <1> QED BY Zenon, <1>1, <1>2

(* What a cancellation adds *)
LEMMA AnnouncedCancel ==
    ASSUME NEW D, NEW r \in Calls
    PROVE  /\ Announced(D \cup {Event("CancelRequest", r)}) = Announced(D) \cup {Cancellation(r)}
           /\ Ordered(D \cup {Event("CancelRequest", r)}) = Ordered(D)
  <1>1. Announced(D \cup {Event("CancelRequest", r)}) = Announced(D) \cup {Cancellation(r)}
    BY IdentityForm, EventSame DEF Announced
  <1>2. Ordered(D \cup {Event("CancelRequest", r)}) = Ordered(D)
    BY EventForm DEF Ordered
  <1> QED BY Zenon, <1>1, <1>2

(* A close adds nothing. *)
LEMMA AnnouncedClose ==
    ASSUME NEW D, NEW r \in Calls
    PROVE  /\ Announced(D \cup {Event("CloseSession", r)}) = Announced(D)
           /\ Ordered(D \cup {Event("CloseSession", r)}) = Ordered(D)
  <1>1. Announced(D \cup {Event("CloseSession", r)}) = Announced(D)
    BY IdentityForm, EventSame DEF Announced
  <1>2. Ordered(D \cup {Event("CloseSession", r)}) = Ordered(D)
    BY EventForm DEF Ordered
  <1> QED BY Zenon, <1>1, <1>2

(* What is under way has the type of the pipes. *)
LEMMA UnderWayType ==
    ASSUME TypeInv
    PROVE  /\ Downward \subseteq Events(HostKinds) /\ Upward \subseteq Events(WorkerKinds)
           /\ Returned \subseteq Events(ReturnKinds)
  <1>1. /\ Elems(toWorker) \subseteq Events(HostKinds) /\ Elems(toHost) \subseteq Events(WorkerKinds)
        /\ Elems(workerEvents) \subseteq WorkerEvents /\ Elems(hostEvents) \subseteq HostEvents
    BY Zenon, ElemsType DEF TypeInv
  <1>2. \A K, L : \A e \in Events(K) : e.kind \in L => e \in Events(L)
    BY EventForm
  <1> QED BY Zenon, <1>1, <1>2 DEF Downward, Upward, Returned, Of, WorkerEvents, HostEvents

-----------------------------------------------------------------------------
(* Steps that send and receive no frame, and those of the caller. *)

(* A quiet step keeps the protocol. *)
LEMMA QuietStep ==
    ASSUME TypeInv, ProtocolInv, toHost' = toHost,
           HostStill \/ HostEnds, WorkerStill \/ WorkerLeaves
    PROVE  ProtocolInv'
  <1>0. QueueInv /\ WorkerInv /\ HostInv /\ BetweenInv /\ NoProtocolFault /\ NoDetachedEffect
    BY Zenon DEF ProtocolInv
  <1>1. CASE HostStill /\ WorkerStill
    <2>1. /\ Upward' = Upward /\ UNCHANGED <<host, worker, adapter, workerEvents, toWorker>>
          /\ host'.up => LineInv(toHost', hostEvents', WorkerKinds, "Result", host'.permits)
      BY Zenon, <1>0, <1>1, HostStillFrames DEF HostStill, WorkerStill
    <2>2. Downward' = Downward /\ Returned' = Returned
      BY Zenon, <2>1 DEF Downward, Returned
    <2>3. QueueInv'
      BY Zenon, <1>0, <2>1 DEF QueueInv
    <2>4. WorkerInv'
      BY Zenon, <1>0, <2>1, <2>2 DEF WorkerInv
    <2>5. HostInv'
      BY Zenon, <1>0, <2>1 DEF HostInv
    <2>6. BetweenInv'
      BY Zenon, <1>0, <2>1, <2>2 DEF BetweenInv
    <2>7. NoProtocolFault' /\ NoDetachedEffect'
      BY Zenon, <1>0, <2>1 DEF NoProtocolFault, NoDetachedEffect
    <2> QED BY Zenon, <2>3, <2>4, <2>5, <2>6, <2>7 DEF ProtocolInv
  <1>2. CASE HostStill /\ WorkerLeaves
    <2>1. /\ Upward' = Upward /\ UNCHANGED host
          /\ host'.up => LineInv(toHost', hostEvents', WorkerKinds, "Result", host'.permits)
      BY Zenon, <1>0, <1>2, HostStillFrames DEF HostStill
    <2>2. QueueInv' /\ BetweenInv' /\ NoProtocolFault' /\ NoDetachedEffect'
      BY Zenon, <1>0, <1>2, <2>1
         DEF WorkerLeaves, QueueInv, BetweenInv, NoProtocolFault, NoDetachedEffect
    <2>3. WorkerInv'
      BY Zenon, <1>0, <1>2 DEF WorkerLeaves, WorkerInv
    <2>4. HostInv'
      BY Zenon, <1>0, <2>1 DEF HostInv
    <2> QED BY Zenon, <2>2, <2>3, <2>4 DEF ProtocolInv
  <1>3. CASE HostEnds /\ WorkerStill
    <2>1. Downward' = Downward /\ Returned' = Returned /\ UNCHANGED <<worker, adapter>>
      BY Zenon, <1>3 DEF Downward, Returned, WorkerStill
    <2>2. QueueInv'
      BY Zenon, <1>0, <1>3 DEF WorkerStill, HostEnds, QueueInv
    <2>3. WorkerInv'
      BY Zenon, <1>0, <2>1 DEF WorkerInv
    <2>4. HostInv' /\ BetweenInv'
      BY Zenon, <1>0, <1>3 DEF HostEnds, HostInv, BetweenInv
    <2>5. NoProtocolFault' /\ NoDetachedEffect'
      BY Zenon, <1>0, <1>3, <2>1 DEF HostEnds, NoProtocolFault, NoDetachedEffect
    <2> QED BY Zenon, <2>2, <2>3, <2>4, <2>5 DEF ProtocolInv
  <1>4. CASE HostEnds /\ WorkerLeaves
    BY Zenon, <1>0, <1>4
       DEF HostEnds, WorkerLeaves, ProtocolInv, QueueInv, WorkerInv, HostInv, BetweenInv,
           NoProtocolFault, NoDetachedEffect
  <1> QED BY Zenon, <1>1, <1>2, <1>3, <1>4

(* A process that is killed no longer takes part. *)
LEMMA KilledLeaves ==
    ASSUME TypeInv, ProtocolInv, Killed
    PROVE  WorkerLeaves
  BY Zenon DEF Killed, WorkerLeaves, TypeInv, WorkerStates, ProtocolInv, NoProtocolFault

(* A failed transport leaves the worker alone or kills it. *)
LEMMA FailureLeaves ==
    ASSUME TypeInv, ProtocolInv, FailTransport \/ CancelRefused
    PROVE  UNCHANGED <<worker, adapter>> \/ WorkerLeaves
  BY Zenon, KilledLeaves DEF FailTransport, CancelRefused

(* What callers do keeps the protocol. *)
LEMMA CallerKeepsProtocol ==
    ASSUME TypeInv, ProtocolInv, CallerInv, Caller
    PROVE  ProtocolInv'
  (* A command that is not before the coordinator yet *)
  <1>PostKeeps.
      ASSUME TypeInv, ProtocolInv, NEW x \in HostEvents, x.kind \in CommandKinds,
             host.up => x \notin Elems(hostEvents), Post(x),
             UNCHANGED <<host, toHost, toWorker, worker, workerEvents, adapter>>
      PROVE  ProtocolInv'
    <2> USE <1>PostKeeps
    <2>0. QueueInv /\ WorkerInv /\ HostInv /\ BetweenInv /\ NoProtocolFault /\ NoDetachedEffect
      BY Zenon DEF ProtocolInv
    <2>1. hostEvents \in Seq(HostEvents) /\ toHost \in Seq(Events(WorkerKinds))
      BY Zenon DEF TypeInv
    <2>2. x.kind \notin WorkerKinds \cup {"End"} /\ x.kind \notin WorkerKinds
      BY DEF CommandKinds, WorkerKinds
    <2>3. x \notin Elems(toHost)
      <3>1. Elems(toHost) \subseteq Events(WorkerKinds)
        BY Zenon, <2>1, ElemsType
      <3> QED BY Zenon, <2>2, <3>1, EventForm
    <2>4. hostEvents' = Append(hostEvents, x)
      BY Zenon DEF Post
    <2>5. Elems(hostEvents') = Elems(hostEvents) \cup {x}
      BY <2>1, <2>4, ElemsAppend
    <2>6. Upward' = Upward /\ Downward' = Downward /\ Returned' = Returned
      BY Zenon, <2>2, <2>5 DEF Upward, Downward, Returned, Of
    <2>7. host'.up => LineInv(toHost', hostEvents', WorkerKinds, "Result", host'.permits)
      <3> SUFFICES ASSUME host.up
                   PROVE  LineInv(toHost', hostEvents', WorkerKinds, "Result", host'.permits)
        BY Zenon
      <3>1. LineInv(toHost, hostEvents, WorkerKinds, "Result", host.permits)
        BY Zenon, <2>0 DEF QueueInv
      <3>2. LineInv(toHost, Append(hostEvents, x), WorkerKinds, "Result", host.permits)
        BY SMTT(30), <2>1, <2>2, <2>3, <3>1, LinePost
      <3> QED BY Zenon, <2>4, <3>2
    <2>8. QueueInv' /\ NoProtocolFault' /\ NoDetachedEffect'
      BY Zenon, <2>0, <2>7 DEF QueueInv, NoProtocolFault, NoDetachedEffect
    <2>9. WorkerInv'
      BY Zenon, <2>0, <2>6 DEF WorkerInv
    <2>10. HostInv'
      BY Zenon, <2>0, <2>6 DEF HostInv
    <2>11. BetweenInv'
      BY Zenon, <2>0, <2>6 DEF BetweenInv
    <2> QED BY Zenon, <2>8, <2>9, <2>10, <2>11 DEF ProtocolInv
  <1>0. /\ app \in AppStates /\ app.binding \in Calls /\ app.next \in Nat
        /\ \A k \in CommandKinds : \A r \in Calls :
              Event(k, r) \in HostEvents /\ Event(k, r).kind = k /\ Event(k, r).request = r
        /\ None \in Calls
    <2>1. \A k \in CommandKinds : \A r \in Calls : Event(k, r) \in HostEvents
      BY Zenon, EventForm DEF HostEvents
    <2>2. app \in AppStates /\ app.binding \in Calls /\ app.next \in Nat /\ None \in Calls
      BY Zenon DEF TypeInv, AppStates, Calls
    <2> QED BY Zenon, <2>1, <2>2, EventForm
  <1>a. {"Start", "Cancel", "Close", "Abandon"} = CommandKinds
    BY DEF CommandKinds
  <1>1. CASE start_external_tool
    <2> DEFINE x == Event("Start", app.next)
    <2>1. /\ app.waits = "none" /\ app.next \in Calls /\ Post(x)
          /\ UNCHANGED <<host, toHost, toWorker, worker, workerEvents, adapter>>
      BY Zenon, <1>1 DEF start_external_tool, workerVars, Calls
    <2>2. x \in HostEvents /\ x.kind = "Start" /\ x.kind \in CommandKinds
      BY ZenonT(60), <1>0, <1>a, <2>1
    <2> HIDE DEF x
    <2>3. host.up => x \notin Elems(hostEvents)
      BY Zenon, <2>1, <2>2 DEF CallerInv, CommandsInv
    <2> QED BY Zenon, <2>1, <2>2, <2>3, <1>PostKeeps
  <1>2. CASE request_external_tool_cancellation
    <2> DEFINE x == Event("Cancel", app.binding)
    <2>1. /\ app.waits = "none" /\ Post(x)
          /\ UNCHANGED <<host, toHost, toWorker, worker, workerEvents, adapter>>
      BY Zenon, <1>2 DEF request_external_tool_cancellation, workerVars
    <2>2. x \in HostEvents /\ x.kind = "Cancel" /\ x.kind \in CommandKinds
      BY Zenon, <1>0, <1>a
    <2> HIDE DEF x
    <2>3. host.up => x \notin Elems(hostEvents)
      BY Zenon, <2>1, <2>2 DEF CallerInv, CommandsInv
    <2> QED BY Zenon, <2>1, <2>2, <2>3, <1>PostKeeps
  <1>3. CASE close
    <2> DEFINE x == Event("Close", None)
    <2>1. /\ app.waits = "none" /\ Post(x)
          /\ UNCHANGED <<host, toHost, toWorker, worker, workerEvents, adapter>>
      BY Zenon, <1>3 DEF close, workerVars
    <2>2. x \in HostEvents /\ x.kind = "Close" /\ x.kind \in CommandKinds
      BY Zenon, <1>0, <1>a
    <2> HIDE DEF x
    <2>3. host.up => x \notin Elems(hostEvents)
      BY Zenon, <2>1, <2>2 DEF CallerInv, CommandsInv
    <2> QED BY Zenon, <2>1, <2>2, <2>3, <1>PostKeeps
  <1>4. CASE Drop
    <2> DEFINE x == Event("Abandon", None)
    <2>1. /\ app.phase # "dropped" /\ Post(x)
          /\ UNCHANGED <<host, toHost, toWorker, worker, workerEvents, adapter>>
      BY Zenon, <1>4 DEF Drop, workerVars
    <2>2. x \in HostEvents /\ x.kind = "Abandon" /\ x.kind \in CommandKinds
      BY Zenon, <1>0, <1>a
    <2> HIDE DEF x
    <2>3. host.up => x \notin Elems(hostEvents)
      BY Zenon, <2>1, <2>2 DEF CallerInv, CommandsInv
    <2> QED BY Zenon, <2>1, <2>2, <2>3, <1>PostKeeps
  <1>5. CASE poll_external_tool \/ Unavailable
    <2>1. /\ UNCHANGED <<host, hostEvents, toHost, toWorker, workerEvents>>
          /\ FailTransport \/ CancelRefused \/ UNCHANGED <<worker, adapter>>
      BY Zenon, <1>5 DEF poll_external_tool, Unavailable
    <2>2. HostStill /\ (WorkerStill \/ WorkerLeaves)
      BY Zenon, <2>1, FailureLeaves DEF HostStill, WorkerStill
    <2> QED BY Zenon, <2>1, <2>2, QuietStep
  <1> QED BY Zenon, <1>1, <1>2, <1>3, <1>4, <1>5 DEF Caller

-----------------------------------------------------------------------------
(* The coordinator. *)

(* What the coordinator does keeps the protocol. *)
LEMMA CoordinatorKeepsProtocol ==
    ASSUME TypeInv, ProtocolInv, CallerInv, Coordinator
    PROVE  ProtocolInv'
  (* Between calls the line is empty and the books agree. *)
  <1>IdleLine.
      ASSUME TypeInv, ProtocolInv, host.up, worker.phase = "up", host.active = None, ~host.closing
      PROVE  /\ Downward = {} /\ Upward = {} /\ worker.active = None
             /\ host.auth.seen = worker.auth.seen /\ host.auth.calls = worker.auth.calls
    <2> USE <1>IdleLine
    <2>0. WorkerInv /\ HostInv /\ BetweenInv
      BY Zenon DEF ProtocolInv
    <2>1. Upward = {} /\ worker.active = None
      BY Zenon, <2>0 DEF HostInv, BetweenInv
    <2>2. Downward = {}
      <3> SUFFICES ASSUME NEW e \in Downward PROVE FALSE
        OBVIOUS
      <3>1. e = Event(e.kind, e.request) /\ e.kind \in HostKinds /\ e.request \in Calls
        BY Zenon, UnderWayType, EventForm
      <3>2. CASE e.kind = "Invoke"
        BY <2>0, <3>1, <3>2 DEF WorkerInv, BetweenInv, Requests, None
      <3>3. CASE e.kind = "CancelRequest"
        <4>1. CASE Event("Invoke", e.request) \in Downward
          BY <2>0, <3>1, <4>1 DEF WorkerInv, BetweenInv, Requests, None
        <4>2. CASE Event("Invoke", e.request) \notin Downward
          <5>1. Downward = {Event("CancelRequest", e.request)} /\ e.request \in Requests
            BY Zenon, <2>0, <3>1, <3>3, <4>2 DEF WorkerInv
          <5>2. host.active = e.request
            BY Zenon, <2>0, <2>1, <3>1, <5>1 DEF BetweenInv
          <5> QED BY <5>1, <5>2 DEF Requests, None
        <4> QED BY Zenon, <4>1, <4>2
      <3>4. CASE e.kind = "CloseSession"
        BY ZenonT(60), <2>0, <3>1, <3>4 DEF WorkerInv, BetweenInv
      <3> QED BY Zenon, <3>1, <3>2, <3>3, <3>4 DEF HostKinds
    <2>3. host.auth.seen = worker.auth.seen \cup {} /\ host.auth.calls = worker.auth.calls + 0
      BY Zenon, <2>0, <2>2, AnnouncedNone DEF BetweenInv
    <2>4. worker.auth.calls \in Nat
      BY DEF TypeInv, WorkerStates, Authorizers
    <2>5. host.auth.calls = worker.auth.calls
      BY <2>3, <2>4
    <2> QED BY Zenon, <2>1, <2>2, <2>3, <2>5
  (* Writing a frame that is not under way *)
  <1>FrameSent.
      ASSUME TypeInv, QueueInv, NEW x \in Events(HostKinds), x \notin Downward,
             x.kind = "Invoke" => Downward = {},
             toWorker' = Append(toWorker, x), UNCHANGED <<worker, workerEvents>>
      PROVE  /\ Downward' = Downward \cup {x} /\ Returned' = Returned
             /\ worker'.phase = "up" =>
                   /\ LineInv(toWorker', workerEvents', HostKinds, "Invoke", worker'.permits)
                   /\ worker'.cancelling =>
                         worker'.permits = 0 /\ Of(workerEvents', HostKinds \cup {"End"}) = {}
    <2> USE <1>FrameSent
    <2>0. toWorker \in Seq(Events(HostKinds)) /\ x.kind \in HostKinds
      BY Zenon, EventForm DEF TypeInv
    <2>1. Elems(toWorker') = Elems(toWorker) \cup {x}
      BY <2>0, ElemsAppend
    <2>2. x \notin Elems(toWorker) /\ x \notin Elems(workerEvents)
      BY Zenon, <2>0 DEF Downward, Of
    <2>3. x.kind = "Invoke" => toWorker = << >> /\ Of(workerEvents, HostKinds) = {}
      BY Zenon, <2>0, ElemsNone DEF Downward
    <2>4. LineInv(toWorker, workerEvents, HostKinds, "Invoke", worker.permits) =>
             LineInv(toWorker', workerEvents', HostKinds, "Invoke", worker'.permits)
      BY Zenon, <2>0, <2>2, <2>3, LineSend
    <2> QED BY Zenon, <2>1, <2>4 DEF Downward, Returned, QueueInv
  (* HandleStart sends: the worker will accept the call. *)
  <1>StartSent.
      ASSUME TypeInv, ProtocolInv, NEW r \in Requests, TakesCommand,
             host.up, host.active = None, ~host.closing, MayAuthorize(host.auth, r),
             toWorker' = Append(toWorker, Event("Invoke", r)),
             host' = [host EXCEPT !.auth = authorize(@, r), !.active = r,
                                  !.completed = FALSE, !.cancelling = FALSE],
             UNCHANGED <<toHost, worker, workerEvents, adapter>>
      PROVE  ProtocolInv'
    <2> USE <1>StartSent
    <2>0. QueueInv /\ WorkerInv /\ HostInv /\ BetweenInv /\ NoProtocolFault /\ NoDetachedEffect
      BY Zenon DEF ProtocolInv
    <2>1. /\ host'.up = host.up /\ host'.permits = host.permits /\ host'.fault = host.fault
          /\ host'.closing = host.closing /\ host'.auth = authorize(host.auth, r)
          /\ host'.active = r /\ host'.completed = FALSE /\ host'.cancelling = FALSE
          /\ host.auth \in Authorizers /\ worker.auth \in Authorizers /\ r \in Calls
      BY Zenon DEF TypeInv, HostStates, WorkerStates, Calls
    <2>a. r # None
      BY DEF Requests, None
    <2>2. /\ host'.auth.seen = host.auth.seen \cup {Invocation(r)}
          /\ host'.auth.calls = host.auth.calls + 1
          /\ host'.auth.completed = host.auth.completed
          /\ host'.auth.cancelled = host.auth.cancelled
          /\ BooksInv(host'.auth)
      BY SMTT(30), <2>0, <2>1, AuthorizeBooks DEF HostInv
    <2>3. Upward = {} /\ Upward' = {}
      BY Zenon, <2>0, <2>1, CommandTaken DEF HostInv
    <2>4. host'.up => LineInv(toHost', hostEvents', WorkerKinds, "Result", host'.permits)
      BY Zenon, <2>0, <2>1, CommandTaken
    <2>5. HostInv'
      <3>1. Invocation(r) \notin host.auth.seen
        BY Zenon DEF MayAuthorize, CanReserve
      <3>2. /\ Invocation(r) \notin host.auth.completed
            /\ Cancellation(r) \notin host.auth.completed /\ r \notin host.auth.cancelled
        BY Zenon, <2>0, <2>1, <3>1 DEF HostInv, BooksInv
      <3> QED BY Zenon, <2>1, <2>2, <2>3, <3>2 DEF HostInv
    <2>6. NoProtocolFault' /\ NoDetachedEffect'
      BY Zenon, <2>0, <2>1 DEF NoProtocolFault, NoDetachedEffect
    <2>7. CASE worker.phase # "up"
      BY ZenonT(60), <2>0, <2>1, <2>4, <2>5, <2>6, <2>7
         DEF ProtocolInv, QueueInv, WorkerInv, BetweenInv
    <2>8. CASE worker.phase = "up"
      <3>1. /\ Downward = {} /\ worker.active = None
            /\ host.auth.seen = worker.auth.seen /\ host.auth.calls = worker.auth.calls
        BY Zenon, <2>8, <1>IdleLine
      <3>2. Event("Invoke", r) \in Events(HostKinds)
        BY Zenon, <2>1, EventForm DEF HostKinds
      <3>3. /\ Downward' = {Event("Invoke", r)} /\ Returned' = Returned
            /\ LineInv(toWorker', workerEvents', HostKinds, "Invoke", worker'.permits)
            /\ worker'.cancelling =>
                  worker'.permits = 0 /\ Of(workerEvents', HostKinds \cup {"End"}) = {}
        BY Zenon, <2>0, <2>8, <3>1, <3>2, <1>FrameSent
      <3>4. QueueInv'
        BY Zenon, <2>4, <3>3 DEF QueueInv
      <3>5. MayAuthorize(worker.auth, r)
        BY Zenon, <3>1 DEF MayAuthorize, CanReserve
      <3>6. \A e \in Downward' : e.kind = "Invoke" /\ e.request = r
        BY <3>3, EventForm
      <3>7. /\ Downward' # {} /\ \A q : Event("Invoke", q) \in Downward' => q = r
            /\ \A q : Event("CancelRequest", q) \notin Downward'
            /\ \A q : Event("CloseSession", q) \notin Downward'
        BY SMTT(30), <3>3, <3>6, EventForm
      <3>8. WorkerInv'
        BY SMTT(30), <2>0, <2>1, <2>8, <3>1, <3>3, <3>5, <3>6, <3>7 DEF WorkerInv
      <3>9. /\ Announced(Downward') = {Invocation(r)} /\ Ordered(Downward') = 1
        <4>1. Downward' = {} \cup {Event("Invoke", r)}
          BY Zenon, <3>3
        <4>2. /\ Announced({} \cup {Event("Invoke", r)}) = Announced({}) \cup {Invocation(r)}
              /\ Ordered({} \cup {Event("Invoke", r)}) = 1 /\ Announced({}) = {}
          BY ZenonT(60), <2>1, AnnouncedInvoke, AnnouncedNone
        <4> QED BY Zenon, <4>1, <4>2
      <3>10. /\ host'.auth.calls = worker'.auth.calls + Ordered(Downward')
             /\ host'.auth.seen = worker'.auth.seen \cup Announced(Downward')
        BY Zenon, <2>2, <3>1, <3>9
      <3>11. BetweenInv'
        <4>1. worker'.active = None /\ \A q : Downward' # {Event("CancelRequest", q)}
          BY Zenon, <3>1, <3>7
        <4> QED BY Zenon, <2>1, <2>3, <3>7, <3>10, <4>1 DEF BetweenInv
      <3> QED BY Zenon, <2>5, <2>6, <3>4, <3>8, <3>11 DEF ProtocolInv
    <2> QED BY Zenon, <2>7, <2>8
  (* A call the host has not asked to cancel is announced, running or answered. *)
  <1>ActiveLine.
      ASSUME TypeInv, ProtocolInv, host.up, worker.phase = "up",
             NEW r \in Requests, host.active = r, ~host.cancelling
      PROVE  \/ Downward = {Event("Invoke", r)} /\ worker.active = None /\ Upward = {}
             \/ Downward = {} /\ worker.active = r /\ ~worker.cancelling /\ Upward = {}
             \/ /\ Downward = {} /\ worker.active = None
                /\ Upward = {Event("Result", r)} /\ worker.last = r
    <2> USE <1>ActiveLine
    <2>0. WorkerInv /\ HostInv /\ BetweenInv
      BY Zenon DEF ProtocolInv
    <2>1. r # None
      BY DEF Requests, None
    <2>2. ASSUME NEW e \in Downward
          PROVE  e = Event("Invoke", r) /\ Event("CancelRequest", r) \notin Downward
      <3>1. e = Event(e.kind, e.request) /\ e.kind \in HostKinds /\ e.request \in Calls
        BY Zenon, UnderWayType, EventForm
      <3>2. CASE e.kind = "Invoke"
        BY Zenon, <2>0, <3>1, <3>2 DEF BetweenInv
      <3>3. CASE e.kind = "CancelRequest"
        <4>1. CASE Event("Invoke", e.request) \in Downward
          BY Zenon, <2>0, <3>1, <3>3, <4>1 DEF BetweenInv
        <4>2. CASE Event("Invoke", e.request) \notin Downward
          <5>1. Downward = {Event("CancelRequest", e.request)}
            BY Zenon, <2>0, <3>1, <3>3, <4>2 DEF WorkerInv
          <5>2. worker.active # None
            BY Zenon, <2>0, <3>1, <5>1 DEF BetweenInv
          <5> QED BY Zenon, <2>0, <5>1, <5>2 DEF BetweenInv
        <4> QED BY Zenon, <4>1, <4>2
      <3>4. CASE e.kind = "CloseSession"
        <4>1. Event("CloseSession", None) \in Downward
          BY Zenon, <2>0, <3>4 DEF WorkerInv
        <4> QED BY Zenon, <2>0, <2>1, <4>1 DEF BetweenInv
      <3> QED BY Zenon, <3>1, <3>2, <3>3, <3>4 DEF HostKinds
    <2>3. CASE Downward # {}
      <3>1. Downward = {Event("Invoke", r)}
        BY Zenon, <2>2, <2>3
      <3>2. worker.active = None
        BY Zenon, <2>0, <3>1 DEF WorkerInv, Calls
      <3>3. Upward = {}
        BY Zenon, <2>0, <3>1 DEF BetweenInv, Calls
      <3> QED BY Zenon, <3>1, <3>2, <3>3
    <2>4. CASE Downward = {}
      BY Zenon, <2>0, <2>1, <2>4 DEF BetweenInv
    <2> QED BY Zenon, <2>3, <2>4
  (* HandleCancel sends: the worker will accept the cancellation. *)
  <1>CancelSent.
      ASSUME TypeInv, ProtocolInv, NEW r \in Requests, TakesCommand,
             host.up, host.active = r, ~host.cancelling, MayAuthorizeCancellation(host.auth, r),
             toWorker' = Append(toWorker, Event("CancelRequest", r)),
             host' = [host EXCEPT !.auth = authorize_cancellation(@, r), !.cancelling = TRUE],
             UNCHANGED <<toHost, worker, workerEvents, adapter>>
      PROVE  ProtocolInv'
    <2> USE <1>CancelSent
    <2> DEFINE x == Event("CancelRequest", r)
    <2>0. QueueInv /\ WorkerInv /\ HostInv /\ BetweenInv /\ NoProtocolFault /\ NoDetachedEffect
      BY Zenon DEF ProtocolInv
    <2>1. /\ host'.up = host.up /\ host'.permits = host.permits /\ host'.fault = host.fault
          /\ host'.closing = host.closing /\ host'.auth = authorize_cancellation(host.auth, r)
          /\ host'.active = r /\ host'.completed = host.completed /\ host'.cancelling = TRUE
          /\ host.auth \in Authorizers /\ worker.auth \in Authorizers /\ r \in Calls
      BY Zenon DEF TypeInv, HostStates, WorkerStates, Calls
    <2>a. r # None
      BY DEF Requests, None
    <2>2. /\ host'.auth.seen = host.auth.seen \cup {Cancellation(r)}
          /\ host'.auth.calls = host.auth.calls
          /\ host'.auth.completed = host.auth.completed
          /\ host'.auth.asked = host.auth.asked \cup {r}
          /\ host'.auth.cancelled = host.auth.cancelled
          /\ BooksInv(host'.auth)
      BY <2>0, <2>1, <2>a, CancellationBooks DEF HostInv
    <2>3. /\ Upward' = Upward
          /\ host'.up => LineInv(toHost', hostEvents', WorkerKinds, "Result", host'.permits)
      BY Zenon, <2>0, <2>1, CommandTaken
    <2>4. HostInv'
      BY Zenon, <2>0, <2>1, <2>2, <2>3, <2>a DEF HostInv
    <2>6. NoProtocolFault' /\ NoDetachedEffect'
      BY Zenon, <2>0, <2>1 DEF NoProtocolFault, NoDetachedEffect
    <2>7. CASE worker.phase # "up"
      BY ZenonT(60), <2>0, <2>1, <2>3, <2>4, <2>6, <2>7
         DEF ProtocolInv, QueueInv, WorkerInv, BetweenInv
    <2>8. CASE worker.phase = "up"
      <3>1. \/ Downward = {Event("Invoke", r)} /\ worker.active = None /\ Upward = {}
            \/ Downward = {} /\ worker.active = r /\ ~worker.cancelling /\ Upward = {}
            \/ /\ Downward = {} /\ worker.active = None
               /\ Upward = {Event("Result", r)} /\ worker.last = r
        BY Zenon, <2>8, <1>ActiveLine
      <3>2. /\ x \in Events(HostKinds) /\ x \notin Downward /\ x.kind = "CancelRequest"
            /\ x # Event("Invoke", r)
        BY <2>1, <3>1, EventForm, EventSame DEF HostKinds
      <3>3. /\ Downward' = Downward \cup {x} /\ Returned' = Returned
            /\ LineInv(toWorker', workerEvents', HostKinds, "Invoke", worker'.permits)
            /\ worker'.cancelling =>
                  worker'.permits = 0 /\ Of(workerEvents', HostKinds \cup {"End"}) = {}
        BY Zenon, <2>0, <2>8, <3>2, <1>FrameSent
      <3>4. QueueInv'
        BY Zenon, <2>3, <3>3 DEF QueueInv
      <3>5. /\ r \notin worker.auth.asked /\ r \notin worker.auth.cancelled
            /\ Cancellation(r) \notin host.auth.seen /\ Cardinality(host.auth.seen) < MaxIds
        BY Zenon, <2>0, <2>8 DEF MayAuthorizeCancellation, CanReserve, BetweenInv, WorkerInv, BooksInv
      <3>6. /\ Announced(Downward') = Announced(Downward) \cup {Cancellation(r)}
            /\ Ordered(Downward') = Ordered(Downward)
        BY ZenonT(60), <2>1, <3>3, AnnouncedCancel
      <3>7. /\ host'.auth.seen = worker'.auth.seen \cup Announced(Downward')
            /\ host'.auth.calls = worker'.auth.calls + Ordered(Downward')
        BY Zenon, <2>0, <2>2, <2>8, <3>6 DEF BetweenInv
      <3>8. /\ \A q : Event("Invoke", q) \in Downward' => q = r /\ Downward = {Event("Invoke", r)}
            /\ \A q : Event("CancelRequest", q) \in Downward' => q = r
            /\ \A q : Event("CloseSession", q) \notin Downward'
            /\ \A e \in Downward' : e.kind # "CloseSession"
            /\ x \in Downward'
        BY <3>1, <3>3, EventSame, EventForm
      <3>9. CASE Downward = {Event("Invoke", r)} /\ worker.active = None /\ Upward = {}
        <4>1. Announced(Downward) = {Invocation(r)}
          <5>1. /\ Announced({} \cup {Event("Invoke", r)}) = Announced({}) \cup {Invocation(r)}
                /\ Announced({}) = {}
            BY ZenonT(60), <2>1, AnnouncedInvoke, AnnouncedNone
          <5>2. Downward = {} \cup {Event("Invoke", r)}
            BY Zenon, <3>9
          <5> QED BY Zenon, <5>1, <5>2
        <4>2. /\ authorize(worker.auth, r).seen = host.auth.seen
              /\ authorize(worker.auth, r).asked = worker.auth.asked
              /\ authorize(worker.auth, r).cancelled = worker.auth.cancelled
          <5>1. host.auth.seen = worker.auth.seen \cup {Invocation(r)}
            BY Zenon, <2>0, <2>8, <4>1 DEF BetweenInv
          <5> QED BY ZenonT(60), <2>1, <5>1, AuthorizeBooks
        <4>3. MayAuthorizeCancellation(authorize(worker.auth, r), r)
          BY Zenon, <3>5, <4>2 DEF MayAuthorizeCancellation, CanReserve
        <4>4. MayAuthorize(worker.auth, r)
          BY Zenon, <2>0, <2>1, <2>8, <3>9 DEF WorkerInv
        <4>5. WorkerInv'
          BY ZenonT(60), <2>0, <2>8, <3>3, <3>8, <3>9, <4>3, <4>4 DEF WorkerInv
        <4>6. /\ ~host'.completed /\ \A q : Downward' # {Event("CancelRequest", q)}
              /\ worker'.active = None /\ Downward' # {} /\ Upward' = {}
          BY SMTT(30), <2>0, <2>1, <2>3, <2>a, <3>2, <3>3, <3>9, EventSame DEF HostInv
        <4>7. BetweenInv'
          BY ZenonT(60), <2>1, <3>7, <3>8, <4>6 DEF BetweenInv
        <4> QED BY Zenon, <2>4, <2>6, <3>4, <4>5, <4>7 DEF ProtocolInv
      <3>10. CASE \/ Downward = {} /\ worker.active = r /\ ~worker.cancelling /\ Upward = {}
                  \/ /\ Downward = {} /\ worker.active = None
                     /\ Upward = {Event("Result", r)} /\ worker.last = r
        <4>1. Announced(Downward) = {} /\ Downward' = {x} /\ host.auth.seen = worker.auth.seen
          BY Zenon, <2>0, <2>8, <3>3, <3>10, AnnouncedNone DEF BetweenInv
        <4>2. MayAuthorizeCancellation(worker.auth, r)
          BY Zenon, <3>5, <4>1 DEF MayAuthorizeCancellation, CanReserve
        <4>3. \A q : Event("Invoke", q) \notin Downward'
          BY SMTT(30), <3>8, <3>10
        <4>4. ~worker.cancelling
          BY Zenon, <2>0, <2>8, <3>10 DEF WorkerInv
        <4>5. WorkerInv'
          BY ZenonT(60), <2>0, <2>1, <2>8, <3>3, <3>8, <3>10, <4>1, <4>2, <4>3, <4>4 DEF WorkerInv
        <4>6. ~host'.completed
          BY Zenon, <2>0, <2>1, <2>a DEF HostInv
        <4>7. \A q : Downward' = {Event("CancelRequest", q)} => q = r
          BY Zenon, <3>8
        <4>8. BetweenInv'
          <5>1. Downward' # {} /\ \A q : Event("CloseSession", q) \notin Downward'
            BY Zenon, <3>8
          <5>2. CASE worker.active = r /\ Upward = {}
            BY ZenonT(60), <2>1, <2>3, <2>a, <3>7, <4>1, <4>3, <4>4, <4>6, <5>1, <5>2 DEF BetweenInv
          <5>3. CASE worker.active = None /\ Upward = {Event("Result", r)}
            BY Zenon, <2>1, <2>3, <3>7, <4>3, <4>6, <4>7, <5>1, <5>3 DEF BetweenInv
          <5> QED BY Zenon, <3>10, <5>2, <5>3
        <4> QED BY Zenon, <2>4, <2>6, <3>4, <4>5, <4>8 DEF ProtocolInv
      <3> QED BY Zenon, <3>1, <3>9, <3>10
    <2> QED BY Zenon, <2>7, <2>8
  (* HandleClose sends. *)
  <1>CloseSent.
      ASSUME TypeInv, ProtocolInv, TakesCommand, host.up, host.active = None, ~host.closing,
             toWorker' = Append(toWorker, Event("CloseSession", None)),
             host' = [host EXCEPT !.closing = TRUE],
             UNCHANGED <<toHost, worker, workerEvents, adapter>>
      PROVE  ProtocolInv'
    <2> USE <1>CloseSent
    <2> DEFINE x == Event("CloseSession", None)
    <2>0. QueueInv /\ WorkerInv /\ HostInv /\ BetweenInv /\ NoProtocolFault /\ NoDetachedEffect
      BY Zenon DEF ProtocolInv
    <2>1. /\ host'.up = host.up /\ host'.permits = host.permits /\ host'.fault = host.fault
          /\ host'.closing /\ host'.auth = host.auth /\ host'.active = None
      BY Zenon DEF TypeInv, HostStates
    <2>3. /\ Upward' = Upward
          /\ host'.up => LineInv(toHost', hostEvents', WorkerKinds, "Result", host'.permits)
      BY Zenon, <2>0, <2>1, CommandTaken
    <2>4. HostInv'
      BY Zenon, <2>0, <2>1, <2>3 DEF HostInv
    <2>6. NoProtocolFault' /\ NoDetachedEffect'
      BY Zenon, <2>0, <2>1 DEF NoProtocolFault, NoDetachedEffect
    <2>7. CASE worker.phase # "up"
      BY ZenonT(60), <2>0, <2>1, <2>3, <2>4, <2>6, <2>7
         DEF ProtocolInv, QueueInv, WorkerInv, BetweenInv
    <2>8. CASE worker.phase = "up"
      <3>1. /\ Downward = {} /\ Upward = {} /\ worker.active = None
            /\ host.auth.seen = worker.auth.seen /\ host.auth.calls = worker.auth.calls
        BY Zenon, <2>8, <1>IdleLine
      <3>2. x \in Events(HostKinds) /\ x.kind = "CloseSession"
        BY EventForm DEF HostKinds, Calls
      <3>3. /\ Downward' = {x} /\ Returned' = Returned
            /\ LineInv(toWorker', workerEvents', HostKinds, "Invoke", worker'.permits)
            /\ worker'.cancelling =>
                  worker'.permits = 0 /\ Of(workerEvents', HostKinds \cup {"End"}) = {}
        BY Zenon, <2>0, <2>8, <3>1, <3>2, <1>FrameSent
      <3>4. QueueInv'
        BY Zenon, <2>3, <3>3 DEF QueueInv
      <3>5. /\ \A q : Event("Invoke", q) \notin Downward'
            /\ \A q : Event("CancelRequest", q) \notin Downward' /\ Downward' # {}
        BY <3>3, EventSame
      <3>6. WorkerInv'
        BY Zenon, <2>0, <2>8, <3>1, <3>3, <3>5 DEF WorkerInv
      <3>7. Announced(Downward') = Announced({}) /\ Ordered(Downward') = Ordered({})
        <4>1. Downward' = {} \cup {x} /\ None \in Calls
          BY Zenon, <3>3 DEF Calls
        <4> QED BY Zenon, <4>1, AnnouncedClose
      <3>8. /\ host'.auth.seen = worker'.auth.seen \cup Announced(Downward')
            /\ host'.auth.calls = worker'.auth.calls + Ordered(Downward')
        BY Zenon, <2>0, <2>1, <2>8, <3>1, <3>7 DEF BetweenInv
      <3>9. \A q : Downward' # {Event("CancelRequest", q)}
        BY Zenon, <3>5
      <3>10. BetweenInv'
        BY Zenon, <2>1, <3>1, <3>5, <3>8, <3>9 DEF BetweenInv
      <3> QED BY Zenon, <2>4, <2>6, <3>4, <3>6, <3>10 DEF ProtocolInv
    <2> QED BY Zenon, <2>7, <2>8
  (* With a frame of the worker before the host, the worker is done with the call. *)
  <1>AnsweredLine.
      ASSUME TypeInv, ProtocolInv, host.up, worker.phase = "up", Upward # {}
      PROVE  /\ worker.active = None
             /\ \/ Downward = {}
                \/ /\ Downward = {Event("CancelRequest", host.active)}
                   /\ host.cancelling /\ Upward = {Event("Result", host.active)}
    <2> USE <1>AnsweredLine
    <2>0. WorkerInv /\ HostInv /\ BetweenInv
      BY Zenon DEF ProtocolInv
    <2>1. worker.active = None /\ host.active # None
      BY Zenon, <2>0 DEF BetweenInv, HostInv
    <2>2. ASSUME NEW e \in Downward
          PROVE  /\ Downward = {Event("CancelRequest", host.active)}
                 /\ host.cancelling /\ Upward = {Event("Result", host.active)}
      <3>1. e = Event(e.kind, e.request) /\ e.kind \in HostKinds /\ e.request \in Calls
        BY Zenon, UnderWayType, EventForm
      <3>2. \A q \in Calls : Event("Invoke", q) \notin Downward
        BY Zenon, <2>0 DEF BetweenInv
      <3>3. CASE e.kind = "CancelRequest"
        <4>1. Downward = {Event("CancelRequest", e.request)}
          BY Zenon, <2>0, <3>1, <3>2, <3>3 DEF WorkerInv
        <4>2. host.active = e.request /\ host.cancelling /\ Upward = {Event("Result", e.request)}
          BY Zenon, <2>0, <2>1, <3>1, <4>1 DEF BetweenInv
        <4> QED BY Zenon, <4>1, <4>2
      <3>4. e.kind # "CloseSession"
        <4> SUFFICES ASSUME e.kind = "CloseSession" PROVE FALSE
          OBVIOUS
        <4>1. Event("CloseSession", None) \in Downward
          BY Zenon, <2>0 DEF WorkerInv
        <4> QED BY Zenon, <2>0, <2>1, <4>1 DEF BetweenInv
      <3> QED BY Zenon, <3>1, <3>2, <3>3, <3>4 DEF HostKinds
    <2> QED BY Zenon, <2>1, <2>2
  (* The host side of a frame that ends its call: nothing else is under way. *)
  <1>CallEnds.
      ASSUME TypeInv, ProtocolInv, host.up, host'.up = host.up, host'.fault = host.fault,
             host'.active = None, BooksInv(host'.auth), host'.closing = host.closing,
             host'.auth.seen = host.auth.seen, host'.auth.calls = host.auth.calls,
             LineInv(toHost', hostEvents', WorkerKinds, "Result", host'.permits),
             Upward # {}, Upward' = {}, host.cancelling => \E e \in Upward : e.kind # "Result",
             UNCHANGED <<toWorker, worker, workerEvents, adapter>>
      PROVE  ProtocolInv'
    <2> USE <1>CallEnds
    <2>0. QueueInv /\ WorkerInv /\ HostInv /\ BetweenInv /\ NoProtocolFault /\ NoDetachedEffect
      BY Zenon DEF ProtocolInv
    <2>1. Downward' = Downward /\ Returned' = Returned
      BY Zenon DEF Downward, Returned
    <2>2. QueueInv'
      BY Zenon, <2>0 DEF QueueInv
    <2>3. WorkerInv'
      BY Zenon, <2>0, <2>1 DEF WorkerInv
    <2>4. HostInv'
      BY Zenon DEF HostInv
    <2>5. worker.phase = "up" => Downward = {} /\ worker.active = None
      BY <1>AnsweredLine, EventForm
    <2>6. \A q : Event("Invoke", q) \in Downward' \/ Event("CloseSession", q) \in Downward'
              \/ Downward' = {Event("CancelRequest", q)} => worker.phase # "up"
      BY Zenon, <2>1, <2>5
    <2>7. BetweenInv'
      BY Zenon, <2>0, <2>1, <2>5, <2>6 DEF BetweenInv
    <2>8. NoProtocolFault' /\ NoDetachedEffect'
      BY Zenon, <2>0 DEF NoProtocolFault, NoDetachedEffect
    <2> QED BY ZenonT(60), <2>2, <2>3, <2>4, <2>7, <2>8 DEF ProtocolInv
  (* A result is accepted: held back while a cancellation is pending, delivered
     otherwise. *)
  <1>ResultAccepted.
      ASSUME TypeInv, ProtocolInv, host.up, hostEvents # << >>, NEW e, e = Head(hostEvents),
             e.kind = "Result", hostEvents' = Tail(hostEvents), AcceptResult(e.request),
             UNCHANGED <<toHost, toWorker, worker, workerEvents, adapter>>
      PROVE  ProtocolInv'
    <2> USE <1>ResultAccepted
    <2> DEFINE r == e.request
    <2>0. QueueInv /\ WorkerInv /\ HostInv /\ BetweenInv /\ NoProtocolFault /\ NoDetachedEffect
      BY Zenon DEF ProtocolInv
    <2>1. /\ e \in Upward /\ r = host.active /\ r \in Requests /\ r \in Calls /\ r # None
          /\ ~host.completed /\ e.kind \in WorkerKinds
      BY Zenon, FrameExpected DEF WorkerKinds, Calls
    <2> HIDE DEF r
    <2>2. /\ host'.up = host.up /\ host'.permits = host.permits + 1 /\ host'.fault = host.fault
          /\ host'.closing = host.closing /\ host'.auth = validate_result(host.auth, r)
          /\ host'.cancelling = host.cancelling
          /\ host.cancelling => host'.active = host.active /\ host'.completed
          /\ ~host.cancelling => host'.active = None
          /\ host.auth \in Authorizers
      BY ZenonT(60) DEF AcceptResult, TypeInv, HostStates, r
    <2>3. /\ host'.auth.seen = host.auth.seen /\ host'.auth.calls = host.auth.calls
          /\ host'.auth.completed = host.auth.completed \cup {Invocation(r)}
          /\ host'.auth.asked = host.auth.asked /\ host'.auth.cancelled = host.auth.cancelled
          /\ BooksInv(host'.auth)
      BY <2>0, <2>1, <2>2, ResultBooks DEF HostInv
    <2>4. /\ Upward' = Upward \ {e}
          /\ LineInv(toHost', hostEvents', WorkerKinds, "Result", host'.permits)
          /\ \A f \in Upward : f.kind = "Result" => f = e
      BY Zenon, <2>0, <2>1, <2>2, FrameTaken
    <2>5. Downward' = Downward /\ Returned' = Returned
      BY Zenon DEF Downward, Returned
    <2>6. Upward \subseteq Events(WorkerKinds)
      BY Zenon, UnderWayType
    <2>7. CASE ~host.cancelling
      <3>1. \A f \in Upward : f.kind = "Result"
        <4>1. \A f \in Upward : f.kind \in WorkerKinds
          BY Zenon, <2>6, EventForm
        <4> QED BY Zenon, <2>0, <2>7, <4>1 DEF HostInv, WorkerKinds
      <3>2. Upward' = {}
        BY Zenon, <2>4, <3>1
      <3> QED BY Zenon, <2>1, <2>2, <2>3, <2>4, <2>7, <3>2, <1>CallEnds
    <2>8. CASE host.cancelling
      <3>1. \A f \in Upward' : f.kind = "TooLate" /\ f.request = host.active
        <4> SUFFICES ASSUME NEW f \in Upward' PROVE f.kind = "TooLate" /\ f.request = host.active
          OBVIOUS
        <4>1. f \in Upward /\ f # e /\ f.kind \in WorkerKinds
          BY Zenon, <2>4, <2>6, EventForm
        <4>2. f.kind # "Acknowledged"
          BY Zenon, <2>0, <2>1, <4>1 DEF HostInv
        <4> QED BY Zenon, <2>0, <2>4, <4>1, <4>2 DEF HostInv, WorkerKinds
      <3>2. HostInv'
        <4>1. Cancellation(r) # Invocation(r)
          BY DEF Cancellation, Invocation
        <4>2. /\ Invocation(r) \in host'.auth.seen /\ Cancellation(r) \notin host'.auth.completed
              /\ r \notin host'.auth.cancelled /\ Invocation(r) \in host'.auth.completed
              /\ r \in host'.auth.asked /\ ~host'.closing
          BY Zenon, <2>0, <2>1, <2>2, <2>3, <2>8, <4>1 DEF HostInv
        <4> QED BY Zenon, <2>1, <2>2, <2>3, <2>8, <3>1, <4>2 DEF HostInv
      <3>3. QueueInv' /\ NoProtocolFault' /\ NoDetachedEffect'
        BY Zenon, <2>0, <2>2, <2>4 DEF QueueInv, NoProtocolFault, NoDetachedEffect
      <3>4. WorkerInv'
        BY Zenon, <2>0, <2>5 DEF WorkerInv
      <3>5. CASE worker.phase # "up"
        BY Zenon, <3>2, <3>3, <3>4, <3>5 DEF ProtocolInv, BetweenInv
      <3>6. CASE worker.phase = "up"
        <4>1. /\ worker.active = None
              /\ \/ Downward = {}
                 \/ Downward = {Event("CancelRequest", r)} /\ Upward = {Event("Result", r)}
          BY Zenon, <2>1, <3>6, <1>AnsweredLine
        <4>2. /\ host'.auth.seen = worker'.auth.seen \cup Announced(Downward')
              /\ host'.auth.calls = worker'.auth.calls + Ordered(Downward')
          BY Zenon, <2>0, <2>3, <2>5, <3>6 DEF BetweenInv
        <4>3. CASE Downward = {}
          <5>1. \E f \in Upward : f.kind # "Result"
            BY Zenon, <2>0, <2>1, <2>8, <3>6, <4>1, <4>3 DEF BetweenInv
          <5>2. \E f \in Upward' : f.kind # "Result"
            BY Zenon, <2>4, <5>1
          <5>3. \A q : /\ Event("Invoke", q) \notin Downward'
                       /\ Event("CloseSession", q) \notin Downward'
                       /\ Downward' # {Event("CancelRequest", q)}
            BY Zenon, <2>5, <4>3
          <5>4. BetweenInv'
            BY ZenonT(60), <2>2, <2>8, <4>1, <4>2, <5>2, <5>3 DEF BetweenInv
          <5> QED BY Zenon, <3>2, <3>3, <3>4, <5>4 DEF ProtocolInv
        <4>4. CASE Downward = {Event("CancelRequest", r)} /\ Upward = {Event("Result", r)}
          <5>1. /\ \A q : Event("Invoke", q) \notin Downward'
                /\ \A q : Event("CloseSession", q) \notin Downward'
                /\ \A q : Downward' = {Event("CancelRequest", q)} => q = r
                /\ Downward' # {}
            BY SMTT(30), <2>5, <4>4, EventSame
          <5>2. Upward' = {}
            BY Zenon, <2>1, <2>4, <4>4
          <5>3. BetweenInv'
            BY Zenon, <2>1, <2>2, <2>8, <4>1, <4>2, <5>1, <5>2 DEF BetweenInv
          <5> QED BY Zenon, <3>2, <3>3, <3>4, <5>3 DEF ProtocolInv
        <4> QED BY Zenon, <4>1, <4>3, <4>4
      <3> QED BY Zenon, <3>5, <3>6
    <2> QED BY Zenon, <2>7, <2>8
  (* A disposition is accepted. *)
  <1>DispositionAccepted.
      ASSUME TypeInv, ProtocolInv, host.up, hostEvents # << >>, NEW e, e = Head(hostEvents),
             e.kind \in {"TooLate", "Acknowledged"}, hostEvents' = Tail(hostEvents),
             AcceptDisposition(e.request, e.kind),
             UNCHANGED <<toHost, toWorker, worker, workerEvents, adapter>>
      PROVE  ProtocolInv'
    <2> USE <1>DispositionAccepted
    <2> DEFINE r == e.request
    <2>0. QueueInv /\ WorkerInv /\ HostInv /\ BetweenInv /\ NoProtocolFault /\ NoDetachedEffect
      BY Zenon DEF ProtocolInv
    <2>1. /\ e \in Upward /\ r = host.active /\ r \in Requests /\ r \in Calls /\ r # None
          /\ host.cancelling /\ e.kind \in WorkerKinds
          /\ e.kind = "TooLate" => host.completed
      BY Zenon, FrameExpected DEF WorkerKinds, Calls
    <2> HIDE DEF r
    <2>2. /\ host'.up = host.up /\ host'.permits = host.permits + 1 /\ host'.fault = host.fault
          /\ host'.closing = host.closing /\ host'.active = None
          /\ host'.auth = validate_cancellation_result(host.auth, r, e.kind)
          /\ host.auth \in Authorizers
      BY Zenon DEF AcceptDisposition, TypeInv, HostStates, r
    <2>3. /\ host'.auth.seen = host.auth.seen /\ host'.auth.calls = host.auth.calls
          /\ BooksInv(host'.auth)
      BY <2>0, <2>1, <2>2, DispositionBooks DEF HostInv
    <2>4. /\ Upward' = Upward \ {e}
          /\ LineInv(toHost', hostEvents', WorkerKinds, "Result", host'.permits)
          /\ \A f \in Upward : f.kind = "Result" => f = e
      BY Zenon, <2>0, <2>1, <2>2, FrameTaken
    <2>5. \A f \in Upward : f = Event(f.kind, f.request) /\ f.kind \in WorkerKinds
      BY Zenon, UnderWayType, EventForm
    <2>6. Upward' = {}
      <3> SUFFICES ASSUME NEW f \in Upward, f # e PROVE FALSE
        BY Zenon, <2>4
      <3>1. f.request = e.request
        BY Zenon, <2>0, <2>1 DEF HostInv
      <3>2. f.kind # "Result"
        BY Zenon, <2>4
      <3>3. f.kind # "Acknowledged"
        <4>1. f.kind = "Acknowledged" => Upward = {f}
          BY Zenon, <2>0 DEF HostInv
        <4> QED BY Zenon, <2>1, <4>1
      <3>4. f.kind = "TooLate" /\ e = Event(e.kind, e.request) /\ f = Event(f.kind, f.request)
        BY Zenon, <2>1, <2>5, <3>2, <3>3 DEF WorkerKinds
      <3>5. CASE e.kind = "TooLate"
        BY Zenon, <3>1, <3>4, <3>5
      <3>6. CASE e.kind = "Acknowledged"
        <4>1. Upward = {e}
          BY Zenon, <2>0, <2>1, <3>6 DEF HostInv
        <4> QED BY Zenon, <4>1
      <3> QED BY Zenon, <3>5, <3>6
    <2> QED BY Zenon, <2>1, <2>2, <2>3, <2>4, <2>6, <1>CallEnds
  (* The host's reader moves a frame, or reports the end. *)
  <1>HostReadsKeeps.
      ASSUME TypeInv, ProtocolInv, HostReads
      PROVE  ProtocolInv'
    <2> USE <1>HostReadsKeeps
    <2>0. QueueInv /\ WorkerInv /\ HostInv /\ BetweenInv /\ NoProtocolFault /\ NoDetachedEffect
      BY Zenon DEF ProtocolInv
    <2>1. /\ host.up /\ host'.up = host.up /\ host'.permits = host.permits - 1
          /\ host'.fault = host.fault /\ host'.closing = host.closing /\ host'.auth = host.auth
          /\ host'.active = host.active /\ host'.completed = host.completed
          /\ host'.cancelling = host.cancelling /\ host.permits \in Nat /\ host.permits > 0
          /\ UNCHANGED <<toWorker, worker, workerEvents, adapter>>
          /\ hostEvents \in Seq(HostEvents) /\ toHost \in Seq(Events(WorkerKinds))
      BY Zenon DEF TypeInv, HostStates, HostReads, workerVars
    <2>2. LineInv(toHost, hostEvents, WorkerKinds, "Result", host.permits)
      BY Zenon, <2>0, <2>1 DEF QueueInv
    <2>3. "End" \notin WorkerKinds /\ \A e \in Events(WorkerKinds) : e.kind \in WorkerKinds
      BY Zenon, EventForm DEF WorkerKinds
    <2>4. /\ Upward' = Upward
          /\ LineInv(toHost', hostEvents', WorkerKinds, "Result", host'.permits)
      <3>1. CASE toHost # << >> /\ hostEvents' = Append(hostEvents, Head(toHost))
                 /\ toHost' = Tail(toHost)
        <4>1. Head(toHost) \in HostEvents
          <5>1. Head(toHost) \in Events(WorkerKinds)
            BY ZenonT(60), <2>1, <3>1, ElemsTail
          <5> QED BY <5>1 DEF Events, HostEvents
        <4>2. /\ LineInv(Tail(toHost), Append(hostEvents, Head(toHost)), WorkerKinds, "Result",
                          host.permits - 1)
              /\ Elems(Tail(toHost)) \cup Of(Append(hostEvents, Head(toHost)), WorkerKinds)
                    = Elems(toHost) \cup Of(hostEvents, WorkerKinds)
          BY SMTT(30), <2>1, <2>2, <2>3, <3>1, <4>1, LineRead
        <4> QED BY Zenon, <2>1, <3>1, <4>2 DEF Upward
      <3>2. CASE toHost = << >> /\ hostEvents' = Append(hostEvents, Event("End", None))
                 /\ toHost' = toHost
        <4>1. Event("End", None) \in HostEvents /\ Event("End", None).kind = "End"
          BY EventForm DEF HostEvents, Calls
        <4>2. /\ LineInv(<< >>, Append(hostEvents, Event("End", None)), WorkerKinds, "Result",
                          host.permits - 1)
              /\ Of(Append(hostEvents, Event("End", None)), WorkerKinds) = Of(hostEvents, WorkerKinds)
          BY SMTT(30), <2>1, <2>2, <2>3, <3>2, <4>1, LineEnds
        <4> QED BY Zenon, <2>1, <3>2, <4>2 DEF Upward
      <3> QED BY Zenon, <3>1, <3>2 DEF HostReads, Post
    <2>5. Downward' = Downward /\ Returned' = Returned
      BY Zenon, <2>1 DEF Downward, Returned
    <2>6. QueueInv' /\ NoProtocolFault' /\ NoDetachedEffect'
      BY Zenon, <2>0, <2>1, <2>4 DEF QueueInv, NoProtocolFault, NoDetachedEffect
    <2>7. WorkerInv'
      BY Zenon, <2>0, <2>1, <2>5 DEF WorkerInv
    <2>8. HostInv'
      BY Zenon, <2>0, <2>1, <2>4 DEF HostInv
    <2>9. BetweenInv'
      BY Zenon, <2>0, <2>1, <2>4, <2>5 DEF BetweenInv
    <2> QED BY Zenon, <2>6, <2>7, <2>8, <2>9 DEF ProtocolInv
  (* A coordinator that breaks off without a fault has ended. *)
  <1>BreakEnds.
      ASSUME TypeInv, ProtocolInv, Break(FALSE)
      PROVE  HostEnds /\ host'.closing = host.closing
    BY Zenon, <1>BreakEnds DEF Break, HostEnds, TypeInv, HostStates, ProtocolInv, NoProtocolFault
  <1> DEFINE e == Head(hostEvents)
  <1>1. CASE HandleStart
    <2>1. /\ host.up /\ hostEvents # << >> /\ e.kind = "Start" /\ hostEvents' = Tail(hostEvents)
          /\ UNCHANGED <<toHost, workerEvents>>
      BY Zenon, <1>1 DEF HandleStart, NextEvent
    <2>2. e.request \in Requests /\ TakesCommand
      BY Zenon, <2>1, CommandWaits DEF TakesCommand, CommandKinds
    <2>3. \/ /\ host.active = None /\ ~host.closing /\ MayAuthorize(host.auth, e.request)
             /\ Send(Event("Invoke", e.request))
             /\ host' = [host EXCEPT !.auth = authorize(@, e.request), !.active = e.request,
                                     !.completed = FALSE, !.cancelling = FALSE]
             /\ UNCHANGED <<worker, adapter>>
          \/ Break(FALSE) /\ FailTransport /\ UNCHANGED toWorker
          \/ FailTransport /\ UNCHANGED <<host, toWorker>>
      BY Zenon, <1>1 DEF HandleStart
    <2>4. CASE /\ host.active = None /\ ~host.closing /\ MayAuthorize(host.auth, e.request)
               /\ Send(Event("Invoke", e.request))
               /\ host' = [host EXCEPT !.auth = authorize(@, e.request), !.active = e.request,
                                       !.completed = FALSE, !.cancelling = FALSE]
               /\ UNCHANGED <<worker, adapter>>
      BY Zenon, <2>1, <2>2, <2>4, <1>StartSent DEF Send
    <2>5. CASE Break(FALSE) /\ FailTransport /\ UNCHANGED toWorker
      BY Zenon, <2>1, <2>5, <1>BreakEnds, FailureLeaves, QuietStep DEF WorkerStill
    <2>6. CASE FailTransport /\ UNCHANGED <<host, toWorker>>
      BY Zenon, <2>1, <2>2, <2>6, FailureLeaves, QuietStep DEF WorkerStill, HostStill
    <2> QED BY Zenon, <2>3, <2>4, <2>5, <2>6
  <1>2. CASE HandleCancel
    <2>1. /\ host.up /\ hostEvents # << >> /\ e.kind = "Cancel" /\ hostEvents' = Tail(hostEvents)
          /\ UNCHANGED <<toHost, workerEvents>>
      BY Zenon, <1>2 DEF HandleCancel, NextEvent
    <2>2. e.request \in Requests /\ TakesCommand
      BY Zenon, <2>1, CommandWaits DEF TakesCommand, CommandKinds
    <2>3. \/ /\ host.active = e.request /\ ~host.cancelling
             /\ MayAuthorizeCancellation(host.auth, e.request)
             /\ Send(Event("CancelRequest", e.request))
             /\ host' = [host EXCEPT !.auth = authorize_cancellation(@, e.request),
                                     !.cancelling = TRUE]
             /\ UNCHANGED <<worker, adapter>>
          \/ Break(FALSE) /\ CancelRefused /\ UNCHANGED toWorker
          \/ CancelRefused /\ UNCHANGED <<host, toWorker>>
      BY Zenon, <1>2 DEF HandleCancel
    <2>4. CASE /\ host.active = e.request /\ ~host.cancelling
               /\ MayAuthorizeCancellation(host.auth, e.request)
               /\ Send(Event("CancelRequest", e.request))
               /\ host' = [host EXCEPT !.auth = authorize_cancellation(@, e.request),
                                       !.cancelling = TRUE]
               /\ UNCHANGED <<worker, adapter>>
      BY Zenon, <2>1, <2>2, <2>4, <1>CancelSent DEF Send
    <2>5. CASE Break(FALSE) /\ CancelRefused /\ UNCHANGED toWorker
      BY Zenon, <2>1, <2>5, <1>BreakEnds, FailureLeaves, QuietStep DEF WorkerStill
    <2>6. CASE CancelRefused /\ UNCHANGED <<host, toWorker>>
      BY Zenon, <2>1, <2>2, <2>6, FailureLeaves, QuietStep DEF WorkerStill, HostStill
    <2> QED BY Zenon, <2>3, <2>4, <2>5, <2>6
  <1>3. CASE HandleClose
    <2>1. /\ host.up /\ hostEvents # << >> /\ e.kind = "Close" /\ hostEvents' = Tail(hostEvents)
          /\ UNCHANGED <<toHost, workerEvents>>
      BY Zenon, <1>3 DEF HandleClose, NextEvent
    <2>2. TakesCommand
      BY Zenon, <2>1 DEF TakesCommand, CommandKinds
    <2>3. \/ /\ host.active = None /\ ~host.closing
             /\ Send(Event("CloseSession", None)) /\ host' = [host EXCEPT !.closing = TRUE]
             /\ UNCHANGED <<worker, adapter>>
          \/ Break(FALSE) /\ FailTransport /\ UNCHANGED toWorker
          \/ FailTransport /\ UNCHANGED <<host, toWorker>>
      BY Zenon, <1>3 DEF HandleClose
    <2>4. CASE /\ host.active = None /\ ~host.closing
               /\ Send(Event("CloseSession", None)) /\ host' = [host EXCEPT !.closing = TRUE]
               /\ UNCHANGED <<worker, adapter>>
      BY Zenon, <2>1, <2>2, <2>4, <1>CloseSent DEF Send
    <2>5. CASE Break(FALSE) /\ FailTransport /\ UNCHANGED toWorker
      BY Zenon, <2>1, <2>5, <1>BreakEnds, FailureLeaves, QuietStep DEF WorkerStill
    <2>6. CASE FailTransport /\ UNCHANGED <<host, toWorker>>
      BY ZenonT(60), <2>1, <2>2, <2>6, FailureLeaves, QuietStep DEF WorkerStill, HostStill
    <2> QED BY Zenon, <2>3, <2>4, <2>5, <2>6
  <1>4. CASE HandleAbandon \/ HandleEnd
    <2>1. Break(FALSE) /\ UNCHANGED <<toHost, toWorker, worker, adapter, workerEvents>>
      BY Zenon, <1>4 DEF HandleAbandon, HandleEnd, workerVars
    <2> QED BY Zenon, <2>1, <1>BreakEnds, QuietStep DEF WorkerStill
  <1>5. CASE HandleFrame
    <2>1. /\ host.up /\ hostEvents # << >> /\ hostEvents' = Tail(hostEvents)
          /\ UNCHANGED <<toHost, toWorker, worker, workerEvents, adapter>>
          /\ \/ e.kind = "Result" /\ AcceptResult(e.request)
             \/ e.kind \in {"TooLate", "Acknowledged"} /\ AcceptDisposition(e.request, e.kind)
      BY Zenon, <1>5, HandleFrameCases DEF workerVars
    <2> QED BY Zenon, <2>1, <1>ResultAccepted, <1>DispositionAccepted
  <1>6. CASE HostReads
    BY Zenon, <1>6, <1>HostReadsKeeps
  <1> QED BY Zenon, <1>1, <1>2, <1>3, <1>4, <1>5, <1>6 DEF Coordinator

-----------------------------------------------------------------------------
(* The driver. *)

(* DriveInvoke starts the adapter. *)
LEMMA DriveInvokeKeeps ==
    ASSUME TypeInv, ProtocolInv, DriveInvoke
    PROVE  ProtocolInv'
  <1> DEFINE r == Head(workerEvents).request
             e == Head(workerEvents)
  <1>0. QueueInv /\ WorkerInv /\ HostInv /\ BetweenInv /\ NoProtocolFault /\ NoDetachedEffect
    BY Zenon DEF ProtocolInv
  <1>1. /\ worker.phase = "up" /\ workerEvents # << >> /\ e.kind = "Invoke"
        /\ workerEvents' = Tail(workerEvents) /\ UNCHANGED <<host, hostEvents, toHost, toWorker>>
    BY Zenon DEF DriveInvoke, NextWork, hostVars
  <1>2. /\ r \in Requests /\ r # None /\ e = Event("Invoke", r) /\ e \in Downward
        /\ worker.active = None /\ MayAuthorize(worker.auth, r)
    BY Zenon, <1>1, InvokeAdmitted
  <1>3. /\ worker' = [worker EXCEPT !.auth = authorize(@, r), !.active = r,
                                    !.cancelling = FALSE, !.permits = @ + 1]
        /\ adapter' = [request |-> r, token |-> FALSE]
    BY Zenon, <1>2 DEF DriveInvoke
  <1>4. /\ worker'.phase = "up" /\ worker'.auth = authorize(worker.auth, r) /\ worker'.active = r
        /\ ~worker'.cancelling /\ worker'.permits = worker.permits + 1 /\ worker'.last = worker.last
        /\ worker'.fault = worker.fault /\ adapter'.request = r
        /\ worker.auth \in Authorizers /\ worker.permits \in Nat /\ r \in Calls
    BY Zenon, <1>1, <1>2, <1>3 DEF TypeInv, WorkerStates, Calls
  <1>5. /\ Downward' = Downward \ {e} /\ Returned' = Returned
        /\ LineInv(toWorker', workerEvents', HostKinds, "Invoke", worker'.permits)
    <2>1. e.kind \in HostKinds /\ e.kind \notin ReturnKinds
      BY Zenon, <1>1 DEF HostKinds, ReturnKinds
    <2>2. worker.permits + 1 \in Nat
      BY <1>4
    <2> HIDE DEF e
    <2>3. /\ Downward' = IF e.kind \in HostKinds THEN Downward \ {e} ELSE Downward
          /\ Returned' = IF e.kind \in ReturnKinds THEN Returned \ {e} ELSE Returned
          /\ \A n \in Nat : n = worker.permits + 1 /\ e.kind \in HostKinds
                => LineInv(toWorker', workerEvents', HostKinds, "Invoke", n)
      BY Zenon, <1>0, <1>1, WorkTaken DEF e
    <2> QED BY Zenon, <1>4, <2>1, <2>2, <2>3
  <1> HIDE DEF r, e
  <1>6. Upward' = Upward
    BY Zenon, <1>1 DEF Upward
  <1>7. /\ worker'.auth.seen = worker.auth.seen \cup {Invocation(r)}
        /\ worker'.auth.calls = worker.auth.calls + 1 /\ worker.auth.calls \in Nat
        /\ BooksInv(worker'.auth)
    BY <1>0, <1>4, AuthorizeBooks DEF WorkerInv, Authorizers
  <1>8. /\ Downward \subseteq {e, Event("CancelRequest", r)}
        /\ Event("CancelRequest", r) \in Downward =>
              MayAuthorizeCancellation(authorize(worker.auth, r), r)
        /\ Returned = {}
    BY Zenon, <1>0, <1>1, <1>2, <1>4 DEF WorkerInv
  <1>9. /\ Downward' \subseteq {Event("CancelRequest", r)} /\ Downward = Downward' \cup {e}
        /\ Event("CancelRequest", r) \in Downward' <=> Event("CancelRequest", r) \in Downward
    <2>1. e # Event("CancelRequest", r)
      BY <1>2, EventSame
    <2> QED BY Zenon, <1>2, <1>5, <1>8, <2>1
  <1>10. /\ \A q : Event("Invoke", q) \notin Downward'
         /\ \A q : Event("CancelRequest", q) \in Downward' => q = r
         /\ \A q : Event("CloseSession", q) \notin Downward'
         /\ \A f \in Downward' : f.kind # "CloseSession" /\ f.kind # "Invoke"
    BY <1>9, EventSame, EventForm
  <1>11. QueueInv'
    BY Zenon, <1>0, <1>1, <1>4, <1>5 DEF QueueInv
  <1>12. WorkerInv'
    <2>1. /\ worker'.active # None /\ Invocation(worker'.active) \in worker'.auth.seen
          /\ adapter'.request = worker'.active /\ Returned' = {}
      BY Zenon, <1>2, <1>4, <1>5, <1>7, <1>8
    <2>2. worker'.last # None => Invocation(worker'.last) \in worker'.auth.seen
      BY Zenon, <1>0, <1>1, <1>4, <1>7 DEF WorkerInv
    <2>3. \A q \in Calls : Event("CancelRequest", q) \in Downward' =>
             /\ q = r /\ Downward' = {Event("CancelRequest", q)}
             /\ MayAuthorizeCancellation(worker'.auth, q)
      BY Zenon, <1>4, <1>8, <1>9, <1>10
    <2> QED BY Zenon, <1>2, <1>4, <1>7, <1>10, <2>1, <2>2, <2>3 DEF WorkerInv
  <1>13. HostInv'
    BY Zenon, <1>0, <1>1, <1>6 DEF HostInv
  <1>14. BetweenInv'
    <2> SUFFICES ASSUME host.up PROVE BetweenInv'
      BY Zenon, <1>1 DEF BetweenInv
    <2>1. /\ Announced(Downward) = Announced(Downward') \cup {Invocation(r)}
          /\ Ordered(Downward) = 1
      BY ZenonT(60), <1>2, <1>4, <1>9, AnnouncedInvoke
    <2>2. Ordered(Downward') = 0
      BY Zenon, <1>10 DEF Ordered
    <2>3. /\ host.auth.seen = worker.auth.seen \cup Announced(Downward)
          /\ host.auth.calls = worker.auth.calls + Ordered(Downward)
      BY Zenon, <1>0, <1>1 DEF BetweenInv
    <2>4. host.auth.seen = worker'.auth.seen \cup Announced(Downward')
      BY Zenon, <1>7, <2>1, <2>3
    <2>5. host.auth.calls = worker'.auth.calls + Ordered(Downward')
      BY <1>7, <2>1, <2>2, <2>3
    <2>6. /\ host.active = r /\ Upward = {} /\ ~host.completed
          /\ host.cancelling <=> Event("CancelRequest", r) \in Downward
      BY Zenon, <1>0, <1>1, <1>2, <1>4 DEF BetweenInv
    <2>7. /\ Downward' \subseteq {Event("CancelRequest", r)}
          /\ host.cancelling <=> Downward' # {}
      BY Zenon, <1>9, <2>6
    <2> QED BY Zenon, <1>1, <1>2, <1>4, <1>6, <1>10, <2>4, <2>5, <2>6, <2>7 DEF BetweenInv
  <1>15. NoProtocolFault' /\ NoDetachedEffect'
    BY Zenon, <1>0, <1>1, <1>4 DEF NoProtocolFault, NoDetachedEffect
  <1> QED BY Zenon, <1>11, <1>12, <1>13, <1>14, <1>15 DEF ProtocolInv

(* What the driver does with an event *)
LEMMA DriverKeeps ==
    ASSUME TypeInv, ProtocolInv,
           DriveCancel \/ DriveEnd \/ DriveFinished \/ DriveUnheard
    PROVE  ProtocolInv'
  (* An answer is written: the host's line and what the host may expect. *)
  <1>AnswerSent.
      ASSUME TypeInv, QueueInv, host.up, NEW x \in Events(WorkerKinds), x \notin Upward,
             x.kind = "Result" => Upward = {},
             toHost' = Append(toHost, x), UNCHANGED <<host, hostEvents>>
      PROVE  /\ Upward' = Upward \cup {x}
             /\ LineInv(toHost', hostEvents', WorkerKinds, "Result", host'.permits)
    <2> USE <1>AnswerSent
    <2>0. /\ toHost \in Seq(Events(WorkerKinds)) /\ x.kind \in WorkerKinds
          /\ LineInv(toHost, hostEvents, WorkerKinds, "Result", host.permits)
      BY Zenon, EventForm DEF TypeInv, QueueInv
    <2>1. Elems(toHost') = Elems(toHost) \cup {x}
      BY <2>0, ElemsAppend
    <2>2. x \notin Elems(toHost) /\ x \notin Elems(hostEvents)
      BY Zenon, <2>0 DEF Upward, Of
    <2>3. x.kind = "Result" => toHost = << >> /\ Of(hostEvents, WorkerKinds) = {}
      BY Zenon, <2>0, ElemsNone DEF Upward
    <2>4. LineInv(toHost', hostEvents', WorkerKinds, "Result", host'.permits)
      BY Zenon, <2>0, <2>2, <2>3, LineSend
    <2> QED BY Zenon, <2>1, <2>4 DEF Upward
  (* A cancellation of the active call sets its token. *)
  <1>CancelKeeps.
      ASSUME TypeInv, ProtocolInv, worker.phase = "up", workerEvents # << >>,
             Head(workerEvents).kind = "CancelRequest", workerEvents' = Tail(workerEvents),
             NEW r, r = Head(workerEvents).request, worker.active = r,
             worker' = [worker EXCEPT !.auth = authorize_cancellation(worker.auth, r),
                                      !.cancelling = TRUE],
             adapter' = [adapter EXCEPT !.token = adapter.request = r],
             UNCHANGED <<host, hostEvents, toHost, toWorker>>
      PROVE  ProtocolInv'
    <2> USE <1>CancelKeeps
    <2> DEFINE e == Head(workerEvents)
    <2>0. QueueInv /\ WorkerInv /\ HostInv /\ BetweenInv /\ NoProtocolFault /\ NoDetachedEffect
      BY Zenon DEF ProtocolInv
    <2>2. /\ r \in Requests /\ r # None /\ e = Event("CancelRequest", r)
          /\ Downward = {e} /\ Invocation(r) \in worker.auth.seen
      BY Zenon, CancelAdmitted
    <2>4. /\ worker'.phase = "up" /\ worker'.auth = authorize_cancellation(worker.auth, r)
          /\ worker'.active = r /\ worker'.cancelling /\ worker'.permits = worker.permits
          /\ worker'.last = worker.last /\ worker'.fault = worker.fault
          /\ adapter'.request = adapter.request
          /\ worker.auth \in Authorizers /\ worker.permits \in Nat /\ r \in Calls
      BY Zenon, <2>2 DEF TypeInv, WorkerStates, Calls
    <2>5. /\ Downward' = {} /\ Returned' = Returned
          /\ LineInv(toWorker', workerEvents', HostKinds, "Invoke", worker'.permits)
          /\ worker'.permits = 0 /\ Of(workerEvents', HostKinds \cup {"End"}) = {}
      <3>1. e.kind \in HostKinds /\ e.kind \notin ReturnKinds
        BY Zenon DEF HostKinds, ReturnKinds
      <3> HIDE DEF e
      <3>3. /\ Downward' = IF e.kind \in HostKinds THEN Downward \ {e} ELSE Downward
            /\ Returned' = IF e.kind \in ReturnKinds THEN Returned \ {e} ELSE Returned
            /\ \A n \in Nat : n = worker.permits
                  => LineInv(toWorker', workerEvents', HostKinds, "Invoke", n)
            /\ e.kind \in HostKinds => worker.permits = 0 /\ ~worker.cancelling
            /\ e.kind \in HostKinds => e \in Downward /\ Of(workerEvents', HostKinds \cup {"End"}) = {}
        BY Zenon, <2>0, WorkTaken DEF e
      <3> QED BY Zenon, <2>2, <2>4, <3>1, <3>3
    <2> HIDE DEF e
    <2>6. Upward' = Upward
      BY Zenon DEF Upward
    <2>7. /\ worker'.auth.seen = worker.auth.seen \cup {Cancellation(r)}
          /\ worker'.auth.calls = worker.auth.calls /\ r \in worker'.auth.asked
          /\ BooksInv(worker'.auth)
      BY SMTT(30), <2>0, <2>2, <2>4, CancellationBooks DEF WorkerInv
    <2>10. \A q : /\ Event("Invoke", q) \notin Downward' /\ Event("CancelRequest", q) \notin Downward'
                  /\ Event("CloseSession", q) \notin Downward'
                  /\ Downward' # {Event("CancelRequest", q)}
      BY Zenon, <2>5
    <2>11. QueueInv'
      BY Zenon, <2>0, <2>4, <2>5 DEF QueueInv
    <2>12. WorkerInv'
      <3>1. /\ worker'.active # None /\ Invocation(worker'.active) \in worker'.auth.seen
            /\ \/ adapter'.request = worker'.active /\ Returned' = {}
               \/ /\ adapter'.request = None
                  /\ \E k \in ReturnKinds : Returned' = {Event(k, worker'.active)}
        BY ZenonT(60), <2>0, <2>2, <2>4, <2>5, <2>7 DEF WorkerInv
      <3>2. worker'.last # None => Invocation(worker'.last) \in worker'.auth.seen
        BY Zenon, <2>0, <2>4, <2>7 DEF WorkerInv
      <3> QED BY Zenon, <2>4, <2>5, <2>7, <2>10, <3>1, <3>2 DEF WorkerInv
    <2>13. HostInv'
      BY Zenon, <2>0, <2>6 DEF HostInv
    <2>14. BetweenInv'
      <3> SUFFICES ASSUME host.up PROVE BetweenInv'
        BY Zenon DEF BetweenInv
      <3>1. Announced(Downward) = {Cancellation(r)} /\ Ordered(Downward) = Ordered({})
        <4>1. Downward = {} \cup {Event("CancelRequest", r)}
          BY Zenon, <2>2
        <4>2. /\ Announced({} \cup {Event("CancelRequest", r)}) = Announced({}) \cup {Cancellation(r)}
              /\ Ordered({} \cup {Event("CancelRequest", r)}) = Ordered({}) /\ Announced({}) = {}
          BY Zenon, <2>4, AnnouncedCancel, AnnouncedNone
        <4> QED BY Zenon, <4>1, <4>2
      <3>3. /\ host.auth.seen = worker.auth.seen \cup Announced(Downward)
            /\ host.auth.calls = worker.auth.calls + Ordered(Downward)
            /\ host.active = r /\ Upward = {} /\ ~host.completed /\ host.cancelling
        BY Zenon, <2>0, <2>2 DEF BetweenInv
      <3>4. /\ host.auth.seen = worker'.auth.seen \cup Announced(Downward')
            /\ host.auth.calls = worker'.auth.calls + Ordered(Downward')
        BY Zenon, <2>5, <2>7, <3>1, <3>3, AnnouncedNone
      <3> QED BY ZenonT(60), <2>2, <2>4, <2>5, <2>6, <2>10, <3>3, <3>4 DEF BetweenInv
    <2>15. NoProtocolFault' /\ NoDetachedEffect'
      BY Zenon, <2>0, <2>4 DEF NoProtocolFault, NoDetachedEffect
    <2> QED BY Zenon, <2>11, <2>12, <2>13, <2>14, <2>15 DEF ProtocolInv
  (* What a line holds that holds a cancellation at most *)
  <1>CancelOnly.
      ASSUME NEW D, NEW r, D \subseteq {Event("CancelRequest", r)}
      PROVE  /\ \A q : Event("Invoke", q) \notin D
             /\ \A q : Event("CancelRequest", q) \in D => q = r /\ D = {Event("CancelRequest", r)}
             /\ \A q : Event("CloseSession", q) \notin D
             /\ \A f \in D : f.kind # "CloseSession"
    BY <1>CancelOnly, EventSame, EventForm
  (* The driver has answered, in each way the host can tell apart. *)
  <1>CallAnswered.
      ASSUME TypeInv, ProtocolInv, worker.phase = "up", NEW r \in Requests,
             worker'.phase = "up", worker'.active = None, ~worker'.cancelling,
             worker'.fault = worker.fault, BooksInv(worker'.auth),
             Invocation(r) \in worker'.auth.seen, worker'.last \in {None, r},
             worker'.auth.seen \cup Announced(Downward') = worker.auth.seen \cup Announced(Downward),
             worker'.auth.calls + Ordered(Downward') = worker.auth.calls + Ordered(Downward),
             LineInv(toWorker', workerEvents', HostKinds, "Invoke", worker'.permits),
             adapter'.request = None, Returned' = {}, UNCHANGED host,
             \/ Downward' = {}
             \/ /\ Downward' = {Event("CancelRequest", r)} /\ worker'.last = r
                /\ MayAuthorizeCancellation(worker'.auth, r),
             host.up =>
                /\ LineInv(toHost', hostEvents', WorkerKinds, "Result", host'.permits)
                /\ host.active = r
                /\ \/ /\ ~host.cancelling /\ Downward' = {} /\ ~host.completed
                      /\ Upward' = {Event("Result", r)} /\ worker'.last = r
                   \/ /\ host.cancelling /\ Downward' = {Event("CancelRequest", r)}
                      /\ ~host.completed /\ Upward' = {Event("Result", r)}
                   \/ /\ host.cancelling /\ Downward' = {} /\ ~host.completed
                      /\ Upward' = {Event("Result", r), Event("TooLate", r)}
                   \/ /\ host.cancelling /\ Downward' = {} /\ host.completed
                      /\ Upward' = {Event("TooLate", r)}
                   \/ /\ host.cancelling /\ Downward' = {} /\ ~host.completed
                      /\ Upward' = {Event("Acknowledged", r)}
      PROVE  ProtocolInv'
    <2> USE <1>CallAnswered
    <2>0. QueueInv /\ WorkerInv /\ HostInv /\ BetweenInv /\ NoProtocolFault /\ NoDetachedEffect
      BY Zenon DEF ProtocolInv
    <2>1. r # None /\ r \in Calls
      BY DEF Requests, None, Calls
    <2>2. /\ \A q : Event("Invoke", q) \notin Downward'
          /\ \A q : Event("CancelRequest", q) \in Downward' => q = r /\ Downward' # {}
          /\ \A q : Event("CloseSession", q) \notin Downward'
          /\ \A f \in Downward' : f.kind # "CloseSession"
      <3>1. Downward' \subseteq {Event("CancelRequest", r)}
        BY Zenon
      <3> QED BY Zenon, <3>1, <1>CancelOnly
    <2>3. /\ Event("Result", r).kind = "Result" /\ Event("Result", r).request = r
          /\ Event("TooLate", r).kind = "TooLate" /\ Event("TooLate", r).request = r
          /\ Event("Acknowledged", r).kind = "Acknowledged"
          /\ Event("Acknowledged", r).request = r
      <3>1. \A k : Event(k, r).kind = k /\ Event(k, r).request = r
        BY ZenonT(60), EventForm
      <3> QED BY Zenon, <3>1
    <2>4. QueueInv' /\ NoProtocolFault' /\ NoDetachedEffect'
      BY Zenon, <2>0 DEF QueueInv, NoProtocolFault, NoDetachedEffect
    <2>5. WorkerInv'
      <3>1. \A q \in Calls : Event("CancelRequest", q) \in Downward' =>
               /\ q \in Requests /\ Downward' = {Event("CancelRequest", q)}
               /\ MayAuthorizeCancellation(worker'.auth, q)
               /\ worker'.last = q
        BY Zenon, <2>2
      <3> QED BY Zenon, <2>2, <3>1 DEF WorkerInv
    <2>6. HostInv'
      <3> SUFFICES ASSUME host.up PROVE HostInv'
        BY Zenon, <2>0 DEF HostInv
      <3>0. /\ host.active = r
            /\ \A e \in Upward' : \/ e = Event("Result", r) /\ ~host.completed
                                 \/ /\ e = Event("TooLate", r) /\ host.cancelling
                                    /\ host.completed \/ Event("Result", r) \in Upward'
                                 \/ /\ e = Event("Acknowledged", r) /\ host.cancelling
                                    /\ ~host.completed /\ Upward' = {e}
        OBVIOUS
      <3>1. \A e \in Upward' :
               /\ e.request = host.active
               /\ e.kind = "Result" => ~host.completed
               /\ e.kind = "TooLate" =>
                     host.cancelling /\ (host.completed \/ Event("Result", e.request) \in Upward')
               /\ e.kind = "Acknowledged" =>
                     host.cancelling /\ ~host.completed /\ Upward' = {e}
        BY ZenonT(60), <2>3, <3>0
      <3> QED BY Zenon, <2>0, <2>1, <3>1 DEF HostInv
    <2>7. BetweenInv'
      <3> SUFFICES ASSUME host.up PROVE BetweenInv'
        BY Zenon DEF BetweenInv
      <3>1. /\ host'.auth.seen = worker'.auth.seen \cup Announced(Downward')
            /\ host'.auth.calls = worker'.auth.calls + Ordered(Downward')
        BY Zenon, <2>0 DEF BetweenInv
      <3>2. Downward' = {} =>
               \/ host.cancelling /\ \E e \in Upward' : e.kind # "Result"
               \/ ~host.cancelling /\ Upward' = {Event("Result", host.active)}
                                   /\ worker'.last = host.active
        BY Zenon, <2>3
      <3>3. \A q \in Calls : Downward' = {Event("CancelRequest", q)} =>
               /\ host.active = q /\ host.cancelling
               /\ Upward' = {Event("Result", q)} /\ ~host.completed
        BY Zenon, <2>2
      <3> QED BY Zenon, <2>1, <2>2, <3>1, <3>2, <3>3 DEF BetweenInv
    <2> QED BY Zenon, <2>4, <2>5, <2>6, <2>7 DEF ProtocolInv
  (* A busy worker expects a cancellation of its call at most. *)
  <1>BusyLine.
      ASSUME TypeInv, ProtocolInv, worker.phase = "up", worker.active # None
      PROVE  /\ worker.active \in Requests
             /\ \/ Downward = {}
                \/ /\ Downward = {Event("CancelRequest", worker.active)} /\ ~worker.cancelling
                   /\ MayAuthorizeCancellation(worker.auth, worker.active)
             /\ host.up => /\ host.active = worker.active /\ Upward = {} /\ ~host.completed
                           /\ host.cancelling <=> worker.cancelling \/ Downward # {}
    <2> USE <1>BusyLine
    <2>0. WorkerInv /\ BetweenInv
      BY Zenon DEF ProtocolInv
    <2>1. worker.active \in Requests
      BY Zenon DEF TypeInv, WorkerStates, Calls
    <2>2. ASSUME NEW e \in Downward
          PROVE  /\ Downward = {Event("CancelRequest", worker.active)} /\ ~worker.cancelling
                 /\ MayAuthorizeCancellation(worker.auth, worker.active)
      <3>1. e = Event(e.kind, e.request) /\ e.kind \in HostKinds /\ e.request \in Calls
        BY Zenon, UnderWayType, EventForm
      <3>2. \A q \in Calls : Event("Invoke", q) \notin Downward
        BY Zenon, <2>0 DEF WorkerInv
      <3>3. e.kind = "CancelRequest"
        BY Zenon, <2>0, <3>1, <3>2 DEF HostKinds, WorkerInv
      <3>4. Event("CancelRequest", e.request) \in Downward
        BY Zenon, <3>1, <3>3
      <3> QED BY Zenon, <2>0, <3>1, <3>2, <3>4 DEF WorkerInv
    <2>3. host.up => /\ host.active = worker.active /\ Upward = {} /\ ~host.completed
                     /\ host.cancelling <=> worker.cancelling \/ Downward # {}
      BY Zenon, <2>0 DEF BetweenInv
    <2> QED BY Zenon, <2>1, <2>2, <2>3
  (* A frame appended to an empty line is the only one, and a second one follows. *)
  <1>AnswersSent.
      ASSUME TypeInv, QueueInv, host.up, NEW r \in Requests, UNCHANGED <<host, hostEvents>>
      PROVE  /\ \A k \in {"Result", "Acknowledged"} :
                   Upward = {} /\ Reply(<<Event(k, r)>>) =>
                      /\ Upward' = {Event(k, r)}
                      /\ LineInv(toHost', hostEvents', WorkerKinds, "Result", host'.permits)
             /\ Upward \subseteq {Event("Result", r)} /\ Reply(<<Event("TooLate", r)>>) =>
                   /\ Upward' = Upward \cup {Event("TooLate", r)}
                   /\ LineInv(toHost', hostEvents', WorkerKinds, "Result", host'.permits)
             /\ Upward = {} /\ Reply(<<Event("Result", r), Event("TooLate", r)>>) =>
                   /\ Upward' = {Event("Result", r), Event("TooLate", r)}
                   /\ LineInv(toHost', hostEvents', WorkerKinds, "Result", host'.permits)
    <2> USE <1>AnswersSent
    <2>0. /\ toHost \in Seq(Events(WorkerKinds)) /\ r \in Calls
          /\ LineInv(toHost, hostEvents, WorkerKinds, "Result", host.permits)
      BY Zenon DEF TypeInv, QueueInv, Calls
    <2>1. \A k \in WorkerKinds : Event(k, r) \in Events(WorkerKinds) /\ Event(k, r).kind = k
      BY Zenon, <2>0, EventForm
    <2>2. {"Result", "TooLate", "Acknowledged"} = WorkerKinds
      BY DEF WorkerKinds
    <2>3. \A x, y \in Events(WorkerKinds) :
             toHost \o <<x>> = Append(toHost, x) /\ toHost \o <<x, y>> = Append(Append(toHost, x), y)
      BY <2>0, Replies
    <2>4. Event("TooLate", r) # Event("Result", r)
      BY EventSame
    <2>5. ASSUME NEW k \in {"Result", "Acknowledged"}, Upward = {}, Reply(<<Event(k, r)>>)
          PROVE  /\ Upward' = {Event(k, r)}
                 /\ LineInv(toHost', hostEvents', WorkerKinds, "Result", host'.permits)
      <3>1. toHost' = Append(toHost, Event(k, r)) /\ Event(k, r) \in Events(WorkerKinds)
        BY Zenon, <2>1, <2>2, <2>3, <2>5 DEF Reply
      <3>2. /\ Upward' = Upward \cup {Event(k, r)}
            /\ LineInv(toHost', hostEvents', WorkerKinds, "Result", host'.permits)
        BY Zenon, <2>5, <3>1, <1>AnswerSent
      <3> QED BY Zenon, <2>5, <3>2
    <2>6. ASSUME Upward \subseteq {Event("Result", r)}, Reply(<<Event("TooLate", r)>>)
          PROVE  /\ Upward' = Upward \cup {Event("TooLate", r)}
                 /\ LineInv(toHost', hostEvents', WorkerKinds, "Result", host'.permits)
      <3>1. /\ toHost' = Append(toHost, Event("TooLate", r))
            /\ Event("TooLate", r) \in Events(WorkerKinds) /\ Event("TooLate", r).kind # "Result"
            /\ Event("TooLate", r) \notin Upward
        BY Zenon, <2>1, <2>2, <2>3, <2>4, <2>6 DEF Reply
      <3> QED BY Zenon, <3>1, <1>AnswerSent
    <2>7. ASSUME Upward = {}, Reply(<<Event("Result", r), Event("TooLate", r)>>)
          PROVE  /\ Upward' = {Event("Result", r), Event("TooLate", r)}
                 /\ LineInv(toHost', hostEvents', WorkerKinds, "Result", host'.permits)
      <3> DEFINE x == Event("Result", r)
                 y == Event("TooLate", r)
                 p == Append(toHost, x)
      <3>1. /\ toHost' = Append(p, y) /\ x \in Events(WorkerKinds) /\ y \in Events(WorkerKinds)
            /\ x.kind = "Result" /\ y.kind = "TooLate" /\ x.kind \in WorkerKinds /\ y.kind \in WorkerKinds
        BY Zenon, <2>1, <2>2, <2>3, <2>7 DEF Reply
      <3>2. /\ Elems(toHost) = {} /\ Of(hostEvents, WorkerKinds) = {} /\ toHost = << >>
        BY Zenon, <2>0, <2>7, ElemsNone DEF Upward
      <3> HIDE DEF x, y, p
      <3>3. x \notin Elems(hostEvents) /\ y \notin Elems(hostEvents) /\ y # x
        BY Zenon, <2>4, <3>1, <3>2 DEF Of, x, y
      <3>4. /\ p \in Seq(Events(WorkerKinds)) /\ Elems(p) = {x}
        <4>1. p \in Seq(Events(WorkerKinds)) /\ Elems(p) = Elems(toHost) \cup {x}
          BY <2>0, <3>1, ElemsAppend DEF p
        <4> QED BY Zenon, <3>2, <4>1
      <3>5. LineInv(p, hostEvents, WorkerKinds, "Result", host.permits)
        BY ZenonT(60), <2>0, <3>1, <3>2, <3>3, LineSend DEF p
      <3>6. y \notin Elems(p) /\ y.kind # "Result"
        BY Zenon, <3>1, <3>3, <3>4
      <3>7. LineInv(Append(p, y), hostEvents, WorkerKinds, "Result", host.permits)
        BY Zenon, <3>1, <3>3, <3>4, <3>5, <3>6, LineSend
      <3>8. Elems(toHost') = {x, y}
        <4>1. Elems(Append(p, y)) = Elems(p) \cup {y}
          BY SMTT(30), <3>1, <3>4, ElemsAppend
        <4> QED BY Zenon, <3>1, <3>4, <4>1
      <3> QED BY Zenon, <3>1, <3>2, <3>7, <3>8 DEF Upward, x, y
    <2> QED BY Zenon, <2>5, <2>6, <2>7
  (* A cancellation that comes after the answer is told so. *)
  <1>LateCancelKeeps.
      ASSUME TypeInv, ProtocolInv, worker.phase = "up", workerEvents # << >>,
             Head(workerEvents).kind = "CancelRequest", workerEvents' = Tail(workerEvents),
             NEW r, r = Head(workerEvents).request, worker.active = None, worker.last = r,
             worker' = [worker EXCEPT !.permits = @ + 1,
                !.auth = validate_cancellation_result(authorize_cancellation(worker.auth, r), r,
                                                      "TooLate")],
             Reply(<<Event("TooLate", r)>>),
             UNCHANGED <<adapter, host, hostEvents, toWorker>>
      PROVE  ProtocolInv'
    <2> USE <1>LateCancelKeeps
    <2> DEFINE e == Head(workerEvents)
               auth == authorize_cancellation(worker.auth, r)
    <2>0. QueueInv /\ WorkerInv /\ HostInv /\ BetweenInv /\ NoProtocolFault /\ NoDetachedEffect
      BY Zenon DEF ProtocolInv
    <2>2. /\ r \in Requests /\ r # None /\ e = Event("CancelRequest", r)
          /\ Downward = {e} /\ Invocation(r) \in worker.auth.seen
      BY Zenon, CancelAdmitted
    <2>4. /\ worker'.phase = "up" /\ worker'.auth = validate_cancellation_result(auth, r, "TooLate")
          /\ worker'.active = None /\ worker'.cancelling = worker.cancelling
          /\ worker'.permits = worker.permits + 1
          /\ worker'.last = r /\ worker'.fault = worker.fault
          /\ worker.auth \in Authorizers /\ worker.permits \in Nat /\ r \in Calls
      BY Zenon, <2>2 DEF TypeInv, WorkerStates, Calls
    <2>5. /\ Downward' = {} /\ Returned' = Returned
          /\ LineInv(toWorker', workerEvents', HostKinds, "Invoke", worker'.permits)
      <3>1. e.kind \in HostKinds /\ e.kind \notin ReturnKinds
        BY Zenon DEF HostKinds, ReturnKinds
      <3>2. worker.permits + 1 \in Nat
        BY <2>4
      <3> HIDE DEF e
      <3>3. /\ Downward' = IF e.kind \in HostKinds THEN Downward \ {e} ELSE Downward
            /\ Returned' = IF e.kind \in ReturnKinds THEN Returned \ {e} ELSE Returned
            /\ \A n \in Nat : n = worker.permits + 1 /\ e.kind \in HostKinds
                  => LineInv(toWorker', workerEvents', HostKinds, "Invoke", n)
        BY Zenon, <2>0, WorkTaken DEF e
      <3> QED BY Zenon, <2>2, <2>4, <3>1, <3>2, <3>3
    <2> HIDE DEF e, auth
    <2>6. /\ auth \in Authorizers /\ auth.seen = worker.auth.seen \cup {Cancellation(r)}
          /\ auth.calls = worker.auth.calls /\ r \in auth.asked /\ BooksInv(auth)
      BY SMTT(30), <2>0, <2>2, <2>4, CancellationBooks DEF WorkerInv, auth
    <2>7. /\ worker'.auth.seen = worker.auth.seen \cup {Cancellation(r)}
          /\ worker'.auth.calls = worker.auth.calls /\ BooksInv(worker'.auth)
      BY <2>4, <2>6, DispositionBooks
    <2>8. /\ Announced(Downward) = {Cancellation(r)} /\ Ordered(Downward) = Ordered({})
          /\ Announced({}) = {}
      <3>1. Downward = {} \cup {Event("CancelRequest", r)}
        BY Zenon, <2>2
      <3>2. /\ Announced({} \cup {Event("CancelRequest", r)}) = Announced({}) \cup {Cancellation(r)}
            /\ Ordered({} \cup {Event("CancelRequest", r)}) = Ordered({}) /\ Announced({}) = {}
        BY Zenon, <2>4, AnnouncedCancel, AnnouncedNone
      <3> QED BY Zenon, <3>1, <3>2
    <2>9. /\ worker'.auth.seen \cup Announced(Downward') = worker.auth.seen \cup Announced(Downward)
          /\ worker'.auth.calls + Ordered(Downward') = worker.auth.calls + Ordered(Downward)
          /\ Invocation(r) \in worker'.auth.seen
      BY Zenon, <2>2, <2>5, <2>7, <2>8
    <2>10. adapter'.request = None /\ Returned' = {} /\ ~worker'.cancelling
      BY Zenon, <2>0, <2>4, <2>5 DEF WorkerInv
    <2>11. host.up =>
              /\ LineInv(toHost', hostEvents', WorkerKinds, "Result", host'.permits)
              /\ host.active = r /\ host.cancelling
              /\ \/ ~host.completed /\ Upward' = {Event("Result", r), Event("TooLate", r)}
                 \/ host.completed /\ Upward' = {Event("TooLate", r)}
      <3> SUFFICES ASSUME host.up
                   PROVE  /\ LineInv(toHost', hostEvents', WorkerKinds, "Result", host'.permits)
                          /\ host.active = r /\ host.cancelling
                          /\ \/ ~host.completed /\ Upward' = {Event("Result", r), Event("TooLate", r)}
                             \/ host.completed /\ Upward' = {Event("TooLate", r)}
        OBVIOUS
      <3>1. /\ host.active = r /\ host.cancelling
            /\ \/ Upward = {Event("Result", r)} /\ ~host.completed
               \/ Upward = {} /\ host.completed
        BY Zenon, <2>0, <2>2, <2>4 DEF BetweenInv
      <3>2. /\ Upward' = Upward \cup {Event("TooLate", r)}
            /\ LineInv(toHost', hostEvents', WorkerKinds, "Result", host'.permits)
        BY Zenon, <2>0, <2>2, <3>1, <1>AnswersSent
      <3> QED BY Zenon, <3>1, <3>2
    <2> QED BY ZenonT(60), <2>2, <2>4, <2>5, <2>7, <2>9, <2>10, <2>11, <1>CallAnswered
  (* The driver returns: it asks an active adapter to stop and waits for it. *)
  <1>ReturnKeeps.
      ASSUME TypeInv, ProtocolInv, worker.phase = "up", Return(FALSE), UNCHANGED <<host, hostEvents, toHost>>
      PROVE  ProtocolInv'
    <2> USE <1>ReturnKeeps
    <2>1. /\ worker'.auth = worker.auth /\ worker'.fault = worker.fault
          /\ worker'.phase = IF adapter.request = None THEN "down" ELSE "draining"
          /\ adapter'.request = adapter.request
      BY Zenon DEF Return, TypeInv, WorkerStates
    <2>2. WorkerLeaves
      BY Zenon, <2>1 DEF WorkerLeaves, ProtocolInv, NoProtocolFault
    <2>3. HostStill
      BY Zenon DEF HostStill
    <2> QED BY Zenon, <2>2, <2>3, QuietStep
  (* DriveFinished with a result *)
  <1>CompletedKeeps.
      ASSUME TypeInv, ProtocolInv, worker.phase = "up", workerEvents # << >>,
             NEW e, e = Head(workerEvents), e.kind \in ReturnKinds,
             workerEvents' = Tail(workerEvents), NEW r, r = e.request,
             NEW result, result = validate_result(worker.auth, r),
             NEW both, both = validate_cancellation_result(result, r, "TooLate"),
             worker' = [worker EXCEPT !.active = None, !.cancelling = FALSE, !.last = r,
                     !.auth = IF worker.cancelling THEN both ELSE result,
                     !.permits = IF worker.cancelling THEN @ + 1 ELSE @],
             Reply(Answers(r)), UNCHANGED <<adapter, host, hostEvents, toWorker>>
      PROVE  ProtocolInv'
    <2> USE <1>CompletedKeeps
    <2>0. QueueInv /\ WorkerInv /\ HostInv /\ BetweenInv /\ NoProtocolFault /\ NoDetachedEffect
      BY Zenon DEF ProtocolInv
    <2>1. /\ worker.active # None /\ r = worker.active /\ adapter.request = None
          /\ Returned' = {} /\ Downward' = Downward
          /\ worker.cancelling => worker.permits + 1 = 1 /\ r \in worker.auth.asked
          /\ \A n \in Nat : n = worker.permits \/ (n = 1 /\ worker.cancelling)
                => LineInv(toWorker', workerEvents', HostKinds, "Invoke", n)
          /\ Invocation(r) \in worker.auth.seen
      BY Zenon, ReturnTaken
    <2>2. /\ r \in Requests
          /\ \/ Downward = {}
             \/ /\ Downward = {Event("CancelRequest", r)} /\ ~worker.cancelling
                /\ MayAuthorizeCancellation(worker.auth, r)
          /\ host.up => /\ host.active = r /\ Upward = {} /\ ~host.completed
                        /\ host.cancelling <=> worker.cancelling \/ Downward # {}
      BY Zenon, <2>1, <1>BusyLine
    <2>3. /\ worker'.phase = "up" /\ worker'.auth = IF worker.cancelling THEN both ELSE result
          /\ worker'.active = None /\ ~worker'.cancelling
          /\ worker'.permits = IF worker.cancelling THEN worker.permits + 1 ELSE worker.permits
          /\ worker'.last = r /\ worker'.fault = worker.fault
          /\ worker.auth \in Authorizers /\ worker.permits \in Nat /\ r \in Calls
          /\ adapter'.request = None
      BY Zenon, <2>1, <2>2 DEF TypeInv, WorkerStates, Calls
    <2>4. LineInv(toWorker', workerEvents', HostKinds, "Invoke", worker'.permits)
      <3>1. 1 \in Nat
        BY SMTT(30)
      <3> QED BY Zenon, <2>1, <2>3, <3>1
    <2>5. /\ result \in Authorizers /\ result.seen = worker.auth.seen
          /\ result.calls = worker.auth.calls /\ result.asked = worker.auth.asked
          /\ result.cancelled = worker.auth.cancelled /\ BooksInv(result)
      BY SMTT(30), <2>0, <2>1, <2>3, ResultBooks DEF WorkerInv
    <2>6. /\ both.seen = result.seen /\ both.calls = result.calls
          /\ worker.cancelling => BooksInv(both)
      BY SMTT(30), <2>1, <2>3, <2>5, DispositionBooks
    <2>7. /\ worker'.auth.seen = worker.auth.seen /\ worker'.auth.calls = worker.auth.calls
          /\ BooksInv(worker'.auth)
      <3>1. CASE worker.cancelling
        <4>1. worker'.auth = both
          BY Zenon, <2>3, <3>1
        <4> QED BY Zenon, <2>5, <2>6, <3>1, <4>1
      <3>2. CASE ~worker.cancelling
        <4>1. worker'.auth = result
          BY Zenon, <2>3, <3>2
        <4> QED BY Zenon, <2>5, <4>1
      <3> QED BY Zenon, <3>1, <3>2
    <2>8. \/ Downward' = {}
          \/ /\ Downward' = {Event("CancelRequest", r)} /\ MayAuthorizeCancellation(worker'.auth, r)
      BY ZenonT(60), <2>1, <2>2, <2>3, <2>5 DEF MayAuthorizeCancellation, CanReserve
    <2>9. /\ worker'.auth.seen \cup Announced(Downward') = worker.auth.seen \cup Announced(Downward)
          /\ worker'.auth.calls + Ordered(Downward') = worker.auth.calls + Ordered(Downward)
      BY Zenon, <2>1, <2>7
    <2>10. ASSUME host.up
           PROVE  /\ LineInv(toHost', hostEvents', WorkerKinds, "Result", host'.permits)
                  /\ Upward' = IF worker.cancelling THEN {Event("Result", r), Event("TooLate", r)}
                                                    ELSE {Event("Result", r)}
      <3>1. CASE worker.cancelling
        <4>1. Reply(<<Event("Result", r), Event("TooLate", r)>>)
          BY Zenon, <3>1 DEF Answers
        <4> QED BY ZenonT(60), <2>0, <2>2, <2>10, <3>1, <4>1, <1>AnswersSent
      <3>2. CASE ~worker.cancelling
        <4>1. Reply(<<Event("Result", r)>>)
          BY Zenon, <3>2 DEF Answers
        <4> QED BY ZenonT(60), <2>0, <2>2, <2>10, <3>2, <4>1, <1>AnswersSent
      <3> QED BY Zenon, <3>1, <3>2
    <2>11. host.up =>
                /\ LineInv(toHost', hostEvents', WorkerKinds, "Result", host'.permits)
                /\ host.active = r
                /\ \/ /\ ~host.cancelling /\ Downward' = {} /\ ~host.completed
                      /\ Upward' = {Event("Result", r)} /\ worker'.last = r
                   \/ /\ host.cancelling /\ Downward' = {Event("CancelRequest", r)}
                      /\ ~host.completed /\ Upward' = {Event("Result", r)}
                   \/ /\ host.cancelling /\ Downward' = {} /\ ~host.completed
                      /\ Upward' = {Event("Result", r), Event("TooLate", r)}
      BY ZenonT(60), <2>1, <2>2, <2>3, <2>10
    <2> QED BY ZenonT(60), <2>1, <2>2, <2>3, <2>4, <2>7, <2>8, <2>9, <2>11, <1>CallAnswered
  (* DriveFinished with the acknowledgement of a cancellation *)
  <1>AcknowledgedKeeps.
      ASSUME TypeInv, ProtocolInv, worker.phase = "up", workerEvents # << >>,
             NEW e, e = Head(workerEvents), e.kind \in ReturnKinds, worker.cancelling,
             workerEvents' = Tail(workerEvents), NEW r, r = e.request,
             worker' = [worker EXCEPT !.active = None, !.cancelling = FALSE, !.last = None,
                     !.auth = validate_cancellation_result(@, r, "Acknowledged"),
                     !.permits = @ + 1],
             Reply(<<Event("Acknowledged", r)>>), UNCHANGED <<adapter, host, hostEvents, toWorker>>
      PROVE  ProtocolInv'
    <2> USE <1>AcknowledgedKeeps
    <2>0. QueueInv /\ WorkerInv /\ HostInv /\ BetweenInv /\ NoProtocolFault /\ NoDetachedEffect
      BY Zenon DEF ProtocolInv
    <2>1. /\ worker.active # None /\ r = worker.active /\ adapter.request = None
          /\ Returned' = {} /\ Downward' = Downward
          /\ worker.permits + 1 = 1 /\ r \in worker.auth.asked
          /\ \A n \in Nat : n = 1 /\ worker.cancelling
                => LineInv(toWorker', workerEvents', HostKinds, "Invoke", n)
          /\ Invocation(r) \in worker.auth.seen
      BY Zenon, ReturnTaken
    <2>2. /\ r \in Requests /\ Downward = {}
          /\ host.up => host.active = r /\ Upward = {} /\ ~host.completed /\ host.cancelling
      BY Zenon, <2>1, <1>BusyLine
    <2>3. /\ worker'.phase = "up"
          /\ worker'.auth = validate_cancellation_result(worker.auth, r, "Acknowledged")
          /\ worker'.active = None /\ ~worker'.cancelling
          /\ worker'.permits = worker.permits + 1
          /\ worker'.last = None /\ worker'.fault = worker.fault
          /\ worker.auth \in Authorizers /\ r \in Calls /\ adapter'.request = None
      BY ZenonT(60), <2>1, <2>2 DEF TypeInv, WorkerStates, Calls
    <2>4. LineInv(toWorker', workerEvents', HostKinds, "Invoke", worker'.permits)
      <3>1. 1 \in Nat
        OBVIOUS
      <3> QED BY Zenon, <2>1, <2>3, <3>1
    <2>5. /\ worker'.auth.seen = worker.auth.seen /\ worker'.auth.calls = worker.auth.calls
          /\ BooksInv(worker'.auth)
      BY SMTT(30), <2>0, <2>1, <2>3, DispositionBooks DEF WorkerInv
    <2>6. /\ worker'.auth.seen \cup Announced(Downward') = worker.auth.seen \cup Announced(Downward)
          /\ worker'.auth.calls + Ordered(Downward') = worker.auth.calls + Ordered(Downward)
          /\ Downward' = {}
      BY Zenon, <2>1, <2>2, <2>5
    <2>7. host.up =>
                /\ LineInv(toHost', hostEvents', WorkerKinds, "Result", host'.permits)
                /\ Upward' = {Event("Acknowledged", r)}
      BY Zenon, <2>0, <2>2, <1>AnswersSent
    <2> QED BY ZenonT(60), <2>1, <2>2, <2>3, <2>4, <2>5, <2>6, <2>7, <1>CallAnswered
  <1> DEFINE e == Head(workerEvents)
             r == Head(workerEvents).request
  <1>0. WorkerInv /\ QueueInv
    BY Zenon DEF ProtocolInv
  <1>1. CASE DriveCancel
    <2>1. /\ worker.phase = "up" /\ workerEvents # << >> /\ e.kind = "CancelRequest"
          /\ workerEvents' = Tail(workerEvents) /\ UNCHANGED <<host, hostEvents, toWorker>>
      BY Zenon, <1>1 DEF DriveCancel, NextWork, hostVars
    <2>2. /\ MayAuthorizeCancellation(worker.auth, r)
          /\ worker.active = r \/ (worker.active = None /\ worker.last = r)
      BY Zenon, <2>1, CancelAdmitted
    <2>3. CASE worker.active = r
      <3>1. /\ worker' = [worker EXCEPT !.auth = authorize_cancellation(worker.auth, r),
                                        !.cancelling = TRUE]
            /\ adapter' = [adapter EXCEPT !.token = adapter.request = r]
            /\ UNCHANGED toHost
        BY Zenon, <1>1, <2>2, <2>3 DEF DriveCancel
      <3> QED BY Zenon, <2>1, <2>3, <3>1, <1>CancelKeeps
    <2>4. CASE worker.active # r
      <3>1. /\ worker' = [worker EXCEPT !.permits = @ + 1,
                  !.auth = validate_cancellation_result(authorize_cancellation(worker.auth, r), r,
                                                        "TooLate")]
            /\ Reply(<<Event("TooLate", r)>>) /\ UNCHANGED adapter
            /\ worker.active = None /\ worker.last = r
        BY Zenon, <1>1, <2>2, <2>4 DEF DriveCancel
      <3> QED BY Zenon, <2>1, <3>1, <1>LateCancelKeeps
    <2> QED BY Zenon, <2>3, <2>4
  <1>2. CASE DriveEnd
    <2>1. /\ worker.phase = "up" /\ workerEvents # << >> /\ UNCHANGED <<host, hostEvents, toHost>>
          /\ Return(e.kind = "CloseSession" /\ worker.active # None)
      BY Zenon, <1>2 DEF DriveEnd, NextWork, hostVars
    <2>2. (e.kind = "CloseSession" /\ worker.active # None) = FALSE
      <3>1. e \in Elems(workerEvents)
        BY Zenon, <2>1, HeadIn DEF TypeInv
      <3>2. e.kind = "CloseSession" => e \in Downward
        BY Zenon, <3>1 DEF Downward, Of, HostKinds
      <3>3. e.kind = "CloseSession" => worker.active = None
        BY Zenon, <1>0, <2>1, <3>2 DEF WorkerInv
      <3> QED BY Zenon, <3>3
    <2>3. Return(FALSE)
      BY Zenon, <2>1, <2>2
    <2> QED BY Zenon, <2>1, <2>3, <1>ReturnKeeps
  <1>3. CASE DriveFinished
    <2>1. /\ worker.phase = "up" /\ workerEvents # << >> /\ e.kind \in ReturnKinds
          /\ workerEvents' = Tail(workerEvents) /\ UNCHANGED <<host, hostEvents, toWorker>>
      BY Zenon, <1>3 DEF DriveFinished, NextWork, hostVars, ReturnKinds
    <2> DEFINE result == validate_result(worker.auth, r)
               both == validate_cancellation_result(result, r, "TooLate")
    <2>2. CASE /\ worker' = [worker EXCEPT !.active = None, !.cancelling = FALSE, !.last = r,
                     !.auth = IF worker.cancelling THEN both ELSE result,
                     !.permits = IF worker.cancelling THEN @ + 1 ELSE @]
               /\ Reply(Answers(r)) /\ UNCHANGED adapter
      BY Zenon, <2>1, <2>2, <1>CompletedKeeps
    <2>3. CASE /\ worker.cancelling
               /\ worker' = [worker EXCEPT !.active = None, !.cancelling = FALSE, !.last = None,
                     !.auth = validate_cancellation_result(@, r, "Acknowledged"),
                     !.permits = @ + 1]
               /\ Reply(<<Event("Acknowledged", r)>>) /\ UNCHANGED adapter
      BY Zenon, <2>1, <2>3, <1>AcknowledgedKeeps
    <2>4. CASE Return(FALSE) /\ UNCHANGED toHost
      BY Zenon, <2>1, <2>4, <1>ReturnKeeps
    <2> QED BY ZenonT(60), <1>3, <2>2, <2>3, <2>4 DEF DriveFinished
  <1>4. CASE DriveUnheard
    <2>1. /\ worker.phase = "up" /\ UNCHANGED <<host, hostEvents, toHost>> /\ Return(FALSE)
      BY Zenon, <1>4 DEF DriveUnheard, NextWork, hostVars
    <2> QED BY Zenon, <2>1, <1>ReturnKeeps
  <1> QED BY Zenon, <1>1, <1>2, <1>3, <1>4

(* The worker's reader moves a frame, or reports the end. *)
LEMMA WorkerReadsKeeps ==
    ASSUME TypeInv, ProtocolInv, WorkerReads
    PROVE  ProtocolInv'
  <1>0. QueueInv /\ WorkerInv /\ HostInv /\ BetweenInv /\ NoProtocolFault /\ NoDetachedEffect
    BY Zenon DEF ProtocolInv
  <1>1. /\ worker.phase = "up" /\ worker'.phase = worker.phase
        /\ worker'.permits = worker.permits - 1 /\ worker'.fault = worker.fault
        /\ worker'.auth = worker.auth /\ worker'.active = worker.active
        /\ worker'.last = worker.last /\ worker'.cancelling = worker.cancelling
        /\ worker.permits \in Nat /\ worker.permits > 0
        /\ UNCHANGED <<toHost, host, hostEvents, adapter>>
        /\ workerEvents \in Seq(WorkerEvents) /\ toWorker \in Seq(Events(HostKinds))
    BY Zenon DEF TypeInv, WorkerStates, WorkerReads, hostVars
  <1>2. LineInv(toWorker, workerEvents, HostKinds, "Invoke", worker.permits)
    BY Zenon, <1>0, <1>1 DEF QueueInv
  <1>a. ~worker.cancelling
    <2>1. worker.cancelling => worker.permits = 0
      BY Zenon, <1>0, <1>1 DEF QueueInv
    <2> QED BY <1>1, <2>1
  <1>3. /\ "End" \notin HostKinds /\ "End" \notin ReturnKinds
        /\ \A e \in Events(HostKinds) : e.kind \in HostKinds /\ e.kind \notin ReturnKinds
    <2>1. \A e \in Events(HostKinds) : e.kind \in HostKinds
      BY Zenon, EventForm
    <2> QED BY Zenon, <2>1 DEF HostKinds, ReturnKinds
  <1>4. /\ Downward' = Downward /\ Returned' = Returned
        /\ LineInv(toWorker', workerEvents', HostKinds, "Invoke", worker'.permits)
    <2>a. Returned' = Of(workerEvents', ReturnKinds)
      BY Zenon DEF Returned
    <2>1. CASE toWorker # << >> /\ workerEvents' = Append(workerEvents, Head(toWorker))
               /\ toWorker' = Tail(toWorker)
      <3>0. Head(toWorker) \in Events(HostKinds)
        BY Zenon, <1>1, <2>1, ElemsTail
      <3>1. Head(toWorker) \in WorkerEvents
        BY SMTT(30), <3>0 DEF Events, WorkerEvents
      <3>2. /\ LineInv(Tail(toWorker), Append(workerEvents, Head(toWorker)), HostKinds, "Invoke",
                        worker.permits - 1)
            /\ Elems(Tail(toWorker)) \cup Of(Append(workerEvents, Head(toWorker)), HostKinds)
                  = Elems(toWorker) \cup Of(workerEvents, HostKinds)
        <4>1. "End" \notin HostKinds /\ \A e \in Events(HostKinds) : e.kind \in HostKinds
          BY Zenon, <1>3
        <4> QED BY SMTT(30), <1>1, <1>2, <2>1, <3>1, <4>1, LineRead
      <3>3. Of(Append(workerEvents, Head(toWorker)), ReturnKinds)
               = Of(workerEvents, ReturnKinds)
                    \cup {e \in {Head(toWorker)} : e.kind \in ReturnKinds}
        BY SMTT(30), <1>1, <3>1, OfAppend
      <3>4. Returned' = Returned
        BY ZenonT(60), <1>3, <2>1, <2>a, <3>0, <3>3 DEF Returned
      <3> QED BY Zenon, <1>1, <2>1, <3>2, <3>4 DEF Downward
    <2>2. CASE toWorker = << >> /\ workerEvents' = Append(workerEvents, Event("End", None))
               /\ toWorker' = toWorker
      <3>1. Event("End", None) \in WorkerEvents /\ Event("End", None).kind = "End"
        BY SMTT(30), EventForm DEF WorkerEvents, Calls
      <3>2. /\ LineInv(<< >>, Append(workerEvents, Event("End", None)), HostKinds, "Invoke",
                        worker.permits - 1)
            /\ Of(Append(workerEvents, Event("End", None)), HostKinds) = Of(workerEvents, HostKinds)
        BY SMTT(30), <1>1, <1>2, <1>3, <2>2, <3>1, LineEnds
      <3>3. Of(Append(workerEvents, Event("End", None)), ReturnKinds)
               = Of(workerEvents, ReturnKinds)
                    \cup {e \in {Event("End", None)} : e.kind \in ReturnKinds}
        BY SMTT(30), <1>1, <3>1, OfAppend
      <3>4. Returned' = Returned
        BY ZenonT(60), <1>3, <2>2, <2>a, <3>1, <3>3 DEF Returned
      <3> QED BY Zenon, <1>1, <2>2, <3>2, <3>4 DEF Downward
    <2> QED BY Zenon, <2>1, <2>2 DEF WorkerReads
  <1>5. Upward' = Upward
    BY Zenon, <1>1 DEF Upward
  <1>6. QueueInv' /\ NoProtocolFault' /\ NoDetachedEffect'
    BY Zenon, <1>0, <1>1, <1>a, <1>4 DEF QueueInv, NoProtocolFault, NoDetachedEffect
  <1>7. WorkerInv'
    BY Zenon, <1>0, <1>1, <1>4 DEF WorkerInv
  <1>8. HostInv'
    BY Zenon, <1>0, <1>1, <1>5 DEF HostInv
  <1>9. BetweenInv'
    BY Zenon, <1>0, <1>1, <1>4, <1>5 DEF BetweenInv
  <1> QED BY Zenon, <1>6, <1>7, <1>8, <1>9 DEF ProtocolInv

(* The adapter returns. *)
LEMMA AdapterReturnsKeeps ==
    ASSUME TypeInv, ProtocolInv, AdapterReturns
    PROVE  ProtocolInv'
  <1>0. QueueInv /\ WorkerInv /\ HostInv /\ BetweenInv /\ NoProtocolFault /\ NoDetachedEffect
    BY Zenon DEF ProtocolInv
  <1>1. /\ adapter.request # None /\ adapter'.request = None
        /\ worker'.phase = IF worker.phase = "draining" THEN "down" ELSE worker.phase
        /\ worker'.permits = worker.permits /\ worker'.fault = worker.fault
        /\ worker'.auth = worker.auth /\ worker'.active = worker.active
        /\ worker'.last = worker.last /\ worker'.cancelling = worker.cancelling
        /\ UNCHANGED <<toHost, toWorker, host, hostEvents>>
        /\ workerEvents \in Seq(WorkerEvents) /\ toWorker \in Seq(Events(HostKinds))
        /\ worker.phase \in {"up", "draining", "down"} /\ worker.active \in Calls
    BY Zenon DEF TypeInv, WorkerStates, AdapterReturns, hostVars
  <1>2. worker.phase # "down"
    BY Zenon, <1>0, <1>1 DEF NoDetachedEffect
  <1>3. CASE worker.phase = "draining"
    <2>1. WorkerLeaves
      BY Zenon, <1>0, <1>1, <1>3 DEF WorkerLeaves, NoProtocolFault
    <2>2. HostStill
      BY Zenon, <1>1 DEF HostStill
    <2> QED BY Zenon, <1>1, <2>1, <2>2, QuietStep
  <1>4. CASE worker.phase = "up"
    <2>1. adapter.request = worker.active /\ worker.active # None /\ Returned = {}
      BY Zenon, <1>0, <1>1, <1>4 DEF WorkerInv
    <2>2. PICK o \in {"Completed", "Failed", "Acknowledged"} :
             workerEvents' = Append(workerEvents, Event(ReturnKind(o), adapter.request))
      BY Zenon, <1>4 DEF AdapterReturns, ReturnKind
    <2> DEFINE k == ReturnKind(o)
               x == Event(k, worker.active)
    <2>3. k \in ReturnKinds
      BY DEF ReturnKinds, ReturnKind
    <2> HIDE DEF k
    <2>4. /\ x \in WorkerEvents /\ x.kind = k /\ k \notin HostKinds \cup {"End"}
          /\ k \notin HostKinds
      <3>1. k \in HostKinds \cup ReturnKinds \cup {"End"}
        BY Zenon, <2>3
      <3>2. x \in WorkerEvents /\ x.kind = k
        BY Zenon, <1>1, <3>1, EventForm DEF WorkerEvents
      <3>3. k \notin HostKinds \cup {"End"}
        BY Zenon, <2>3 DEF ReturnKinds, HostKinds
      <3> QED BY Zenon, <3>2, <3>3
    <2> HIDE DEF x
    <2>5. x \notin Elems(workerEvents)
      BY Zenon, <2>1, <2>3, <2>4 DEF Returned, Of
    <2>6. x \notin Elems(toWorker)
      <3>1. Elems(toWorker) \subseteq Events(HostKinds)
        BY Zenon, <1>1, ElemsType
      <3> QED BY Zenon, <2>4, <3>1, EventForm
    <2>7. workerEvents' = Append(workerEvents, x)
      BY Zenon, <2>1, <2>2 DEF x, k
    <2>8. LineInv(toWorker, workerEvents, HostKinds, "Invoke", worker.permits)
      BY Zenon, <1>0, <1>4 DEF QueueInv
    <2>9. LineInv(toWorker', workerEvents', HostKinds, "Invoke", worker'.permits)
      <3>1. LineInv(toWorker, Append(workerEvents, x), HostKinds, "Invoke", worker.permits)
        BY SMTT(30), <1>1, <2>4, <2>5, <2>6, <2>8, LinePost
      <3> QED BY ZenonT(60), <1>1, <2>7, <3>1
    <2>10. Elems(workerEvents') = Elems(workerEvents) \cup {x}
      BY SMTT(30), <1>1, <2>4, <2>7, ElemsAppend
    <2>11. Downward' = Downward /\ Returned' = {x} /\ Upward' = Upward
      BY ZenonT(60), <1>1, <2>1, <2>3, <2>4, <2>10 DEF Downward, Returned, Upward, Of
    <2>12. Of(workerEvents', HostKinds \cup {"End"}) = Of(workerEvents, HostKinds \cup {"End"})
      BY Zenon, <2>4, <2>10 DEF Of
    <2>13. QueueInv' /\ NoProtocolFault' /\ NoDetachedEffect'
      BY ZenonT(60), <1>0, <1>1, <1>4, <2>9, <2>12 DEF QueueInv, NoProtocolFault, NoDetachedEffect
    <2>14. WorkerInv'
      <3>1. \E j \in ReturnKinds : Returned' = {Event(j, worker'.active)}
        BY Zenon, <1>1, <2>3, <2>11 DEF x
      <3> QED BY Zenon, <1>0, <1>1, <1>4, <2>1, <2>11, <3>1 DEF WorkerInv
    <2>15. HostInv'
      BY Zenon, <1>0, <1>1, <2>11 DEF HostInv
    <2>16. BetweenInv'
      BY ZenonT(60), <1>0, <1>1, <1>4, <2>11 DEF BetweenInv
    <2> QED BY Zenon, <2>13, <2>14, <2>15, <2>16 DEF ProtocolInv
  <1> QED BY Zenon, <1>1, <1>2, <1>3, <1>4

(* Every step keeps the protocol. *)
LEMMA ProtocolKept ==
    ASSUME TypeInv, ProtocolInv, CallerInv, [Next]_vars
    PROVE  ProtocolInv'
  <1>1. CASE WatchdogFires \/ WorkerCrash
    <2>1. UNCHANGED <<host, hostEvents, toHost>> /\ Killed
      BY Zenon, <1>1 DEF WatchdogFires, WorkerCrash, hostVars
    <2> QED BY Zenon, <2>1, KilledLeaves, QuietStep DEF HostStill
  <1>2. CASE UNCHANGED vars
    <2>1. UNCHANGED <<host, hostEvents, toHost, worker, adapter, workerEvents, toWorker>>
      BY Zenon, <1>2 DEF vars
    <2> QED BY Zenon, <2>1, QuietStep DEF HostStill, WorkerStill
  <1>3. CASE Driver
    BY Zenon, <1>3, DriveInvokeKeeps, DriverKeeps, WorkerReadsKeeps DEF Driver
  <1> QED BY ZenonT(60), <1>1, <1>2, <1>3, CallerKeepsProtocol, CoordinatorKeepsProtocol,
             AdapterReturnsKeeps DEF Next

-----------------------------------------------------------------------------
(* The theorems. *)

(* The invariant is inductive. *)
LEMMA MultiplexedKept == MultiplexedInv /\ [Next]_vars => MultiplexedInv'
  BY Zenon, TypeKept, ProtocolKept, CallerKept, TruthKept DEF MultiplexedInv

(* Every reachable state satisfies it. *)
THEOREM MultiplexedInvariant == Spec => []MultiplexedInv
  BY MultiplexedStarts, MultiplexedKept, PTL DEF Spec

(* However a cancellation, a result, the next call and a close cross on the
   pipes, and whenever the worker dies or the watchdog fires, neither driver
   ever gets a frame that its authorizer or its state machine rejects. *)
THEOREM DriversAgree == Spec => []NoProtocolFault
  <1>1. MultiplexedInv => NoProtocolFault
    BY Zenon DEF MultiplexedInv, ProtocolInv
  <1> QED BY <1>1, MultiplexedInvariant, PTL

(* The runtime sees a call completed only if its effect was, and cancelled only
   if the adapter acknowledged; a call the watchdog ended stays pending; and a
   result delivered to a bare binding is not lost to it. *)
THEOREM OutcomesAreTrue == Spec => []OutcomeIsTruthful
  <1>1. MultiplexedInv => OutcomeIsTruthful
    BY Zenon DEF MultiplexedInv, CallerInv, WatchdogInv, KeptInv, TruthInv, OutcomeIsTruthful
  <1> QED BY <1>1, MultiplexedInvariant, PTL

(* When the driver has returned, no adapter runs. *)
THEOREM EffectsAreAttended == Spec => []NoDetachedEffect
  <1>1. MultiplexedInv => NoDetachedEffect
    BY Zenon DEF MultiplexedInv, ProtocolInv
  <1> QED BY <1>1, MultiplexedInvariant, PTL
=============================================================================
