----------------------- MODULE SupervisedWorkerProofs -----------------------
(***************************************************************************)
(* For any sessions, messages and width of the sequence numbers, and       *)
(* whatever the transport does: an endpoint receives a prefix of what its  *)
(* peer sent, and no number is used twice.                                 *)
(*                                                                         *)
(* For any number of calls, failing system calls and stops of the control  *)
(* handle: a worker that is reported stopped is gone, and no call that was *)
(* stopped or late returns its result.                                     *)
(***************************************************************************)
EXTENDS SupervisedWorker, SequenceTheorems, TLAPS

-----------------------------------------------------------------------------
(* Frames *)

(* Every frame is as its sender sealed it: its tag names a message the sender
   has sent, at the place its number gives. *)
Genuine(f) ==
    /\ f.tag.sequence \in 1..Len(sent[f.tag.sender])
    /\ f.tag.message = sent[f.tag.sender][f.tag.sequence]
    /\ f.sequence = f.tag.sequence
    /\ f.message = f.tag.message

(* The counters count the histories. *)
Counted ==
    \A e \in Endpoints :
        /\ outgoing[e] = Len(sent[e]) + 1
        /\ incoming[e] = Len(received[e]) + 1

FrameInv == TypeOK /\ Counted /\ (\A f \in wire : Genuine(f)) /\ DeliversInOrder

-----------------------------------------------------------------------------

(* Every endpoint's peer is an endpoint (SessionRole::peer). *)
LEMMA PeerType == \A e \in Endpoints : Peer(e) \in Endpoints
  BY Zenon DEF Peer, peer, Endpoints, Roles

(* A sealer or opener that has a number left moves to the next one, which is
   still a number (saturating_add). *)
LEMMA NumberType ==
    ASSUME NEW n \in 1..MaxSequence, NumberLeft(n)
    PROVE  saturating_add(n) = n + 1 /\ n + 1 \in 1..MaxSequence
  BY SessionFramesAssumption DEF saturating_add, NumberLeft

(* The transport can change what a frame carries and not its tag: a frame that
   arrives has the tag of one that was sealed. *)
LEMMA ArrivalTag ==
    ASSUME TypeOK, NEW f \in Arrivals
    PROVE  \E g \in wire : f.tag = g.tag
  <1>1. ASSUME NEW g \in wire, NEW n
        PROVE  [g EXCEPT !.sequence = n].tag = g.tag /\ [g EXCEPT !.message = n].tag = g.tag
    <2>1. g \in Frames
      BY Zenon DEF TypeOK
    <2> QED
      BY Zenon, <2>1 DEF Frames
  <1>2. CASE f \in wire
    BY Zenon, <1>2
  <1>3. CASE f \in {[g EXCEPT !.sequence = n] : g \in wire, n \in Sequences}
    <2>1. PICK g \in wire, n \in Sequences : f = [g EXCEPT !.sequence = n]
      BY <1>3, SMTT(30)
    <2> QED
      BY <2>1, <1>1, Zenon
  <1>4. CASE f \in {[g EXCEPT !.message = n] : g \in wire, n \in Messages}
    <2>1. PICK g \in wire, n \in Messages : f = [g EXCEPT !.message = n]
      BY <1>4, SMTT(30)
    <2> QED
      BY <2>1, <1>1, Zenon
  <1> QED
    BY <1>2, <1>3, <1>4, SMTT(30) DEF Arrivals

(* Sealing keeps every message that was sent at its place. *)
LEMMA SealKeeps ==
    ASSUME TypeOK, NEW e \in Endpoints, NEW m \in Messages, seal(e, m), NEW d \in Endpoints
    PROVE  /\ Len(sent[d]) <= Len(sent'[d])
           /\ \A i \in 1..Len(sent[d]) : sent'[d][i] = sent[d][i]
  <1>1. sent[d] \in Seq(Messages) /\ sent' = [sent EXCEPT ![e] = Append(@, m)]
    BY Zenon DEF TypeOK, seal
  <1>2. CASE d = e
    <2>1. sent'[d] = Append(sent[d], m)
      BY Zenon, <1>1, <1>2 DEF TypeOK
    <2> QED
      BY <2>1, <1>1
  <1>3. CASE d # e
    <2>1. sent'[d] = sent[d]
      BY Zenon, <1>1, <1>3 DEF TypeOK
    <2> QED
      BY <2>1, <1>1
  <1> QED
    BY Zenon, <1>2, <1>3

(* seal preserves the invariant: the frame it makes is genuine, and no frame
   sealed earlier loses its message. *)
LEMMA SealStep ==
    ASSUME FrameInv, NEW e \in Endpoints, NEW m \in Messages, seal(e, m)
    PROVE  FrameInv'
  <1> DEFINE n == outgoing[e]
             frame == [sequence |-> n, message |-> m, tag |-> Tag(e, n, m)]
  <1>1. TypeOK /\ n \in 1..MaxSequence /\ n = Len(sent[e]) + 1 /\ sent[e] \in Seq(Messages)
    BY Zenon DEF FrameInv, TypeOK, Counted
  <1>2. saturating_add(n) = n + 1 /\ n + 1 \in 1..MaxSequence
    BY Zenon, <1>1, NumberType DEF seal
  <1>3. /\ wire' = wire \cup {frame}
        /\ outgoing' = [outgoing EXCEPT ![e] = n + 1]
        /\ sent' = [sent EXCEPT ![e] = Append(@, m)]
        /\ incoming' = incoming /\ received' = received
    BY Zenon, <1>2 DEF seal
  <1>4. sent'[e] = Append(sent[e], m) /\ Len(sent'[e]) = n /\ sent'[e][n] = m
    <2>1. sent'[e] = Append(sent[e], m)
      BY Zenon, <1>1, <1>3 DEF TypeOK
    <2> QED
      BY <2>1, <1>1
  <1>5. frame \in Frames
    BY <1>1, SessionFramesAssumption DEF Frames, Tag, Sequences
  <1>6. TypeOK'
    <2>1. outgoing' \in [Endpoints -> 1..MaxSequence]
      BY Zenon, <1>1, <1>2, <1>3 DEF TypeOK
    <2>2. sent' \in [Endpoints -> Seq(Messages)]
      BY <1>1, <1>3 DEF TypeOK
    <2> QED
      BY Zenon, <2>1, <2>2, <1>1, <1>3, <1>5 DEF TypeOK
  <1>7. Counted'
    <2> SUFFICES ASSUME NEW d \in Endpoints
                 PROVE  outgoing'[d] = Len(sent'[d]) + 1 /\ incoming'[d] = Len(received'[d]) + 1
      BY Zenon DEF Counted
    <2>1. outgoing[d] = Len(sent[d]) + 1 /\ incoming[d] = Len(received[d]) + 1
      BY Zenon DEF FrameInv, Counted
    <2>2. CASE d = e
      BY Zenon, <2>1, <2>2, <1>1, <1>3, <1>4 DEF TypeOK
    <2>3. CASE d # e
      BY Zenon, <2>1, <2>3, <1>1, <1>3 DEF TypeOK
    <2> QED
      BY Zenon, <2>2, <2>3
  <1>10. ASSUME NEW d \in Endpoints
         PROVE  /\ Len(sent[d]) \in Nat /\ Len(sent'[d]) \in Nat
                /\ Len(received[d]) \in Nat
    <2>1. sent[d] \in Seq(Messages) /\ received[d] \in Seq(Messages)
      BY Zenon, <1>1 DEF TypeOK
    <2>2. sent'[d] \in Seq(Messages)
      BY Zenon, <1>6 DEF TypeOK
    <2> QED
      BY <2>1, <2>2
  <1>8. ASSUME NEW f \in wire' PROVE Genuine(f)'
    <2>1. CASE f = frame
      <3>1. f.tag = [sender |-> e, sequence |-> n, message |-> m] /\ f.sequence = n /\ f.message = m
        BY Zenon, <2>1 DEF Tag
      <3> QED
        BY <3>1, <1>1, <1>4 DEF Genuine
    <2>2. CASE f \in wire
      <3>1. Genuine(f) /\ f.tag.sender \in Endpoints
        BY Zenon, <2>2 DEF FrameInv, TypeOK, Frames
      <3>2. /\ Len(sent[f.tag.sender]) <= Len(sent'[f.tag.sender])
            /\ \A i \in 1..Len(sent[f.tag.sender]) : sent'[f.tag.sender][i] = sent[f.tag.sender][i]
        BY Zenon, <3>1, <1>1, SealKeeps
      <3>3. Len(sent[f.tag.sender]) \in Nat /\ Len(sent'[f.tag.sender]) \in Nat
        BY Zenon, <3>1, <1>10
      <3> QED
        BY SMTT(30), <3>1, <3>2, <3>3 DEF Genuine
    <2> QED
      BY Zenon, <2>1, <2>2, <1>3
  <1>9. DeliversInOrder'
    <2> SUFFICES ASSUME NEW d \in Endpoints
                 PROVE  /\ Len(received[d]) <= Len(sent'[Peer(d)])
                        /\ \A i \in 1..Len(received[d]) : received[d][i] = sent'[Peer(d)][i]
      BY Zenon, <1>3 DEF DeliversInOrder
    <2>1. /\ Len(received[d]) <= Len(sent[Peer(d)])
          /\ \A i \in 1..Len(received[d]) : received[d][i] = sent[Peer(d)][i]
      BY Zenon DEF FrameInv, DeliversInOrder
    <2>2. /\ Len(sent[Peer(d)]) <= Len(sent'[Peer(d)])
          /\ \A i \in 1..Len(sent[Peer(d)]) : sent'[Peer(d)][i] = sent[Peer(d)][i]
      BY Zenon, <1>1, PeerType, SealKeeps
    <2>3. /\ Len(received[d]) \in Nat /\ Len(sent[Peer(d)]) \in Nat
          /\ Len(sent'[Peer(d)]) \in Nat
      BY Zenon, <1>10, PeerType
    <2> QED
      BY <2>1, <2>2, <2>3
  <1> QED
    BY Zenon, <1>6, <1>7, <1>8, <1>9 DEF FrameInv

(* open preserves the invariant: what it accepts is the next message its peer
   has sent. *)
LEMMA OpenStep ==
    ASSUME FrameInv, NEW e \in Endpoints, NEW f \in Arrivals, open(e, f)
    PROVE  FrameInv'
  <1> DEFINE n == incoming[e]
  <1>1. TypeOK /\ n \in 1..MaxSequence /\ n = Len(received[e]) + 1
        /\ received[e] \in Seq(Messages) /\ Peer(e) \in Endpoints
    BY Zenon, PeerType DEF FrameInv, TypeOK, Counted
  <1>2. saturating_add(n) = n + 1 /\ n + 1 \in 1..MaxSequence
    BY Zenon, <1>1, NumberType DEF open, Accepts
  <1>3. /\ incoming' = [incoming EXCEPT ![e] = n + 1]
        /\ received' = [received EXCEPT ![e] = Append(@, f.message)]
        /\ outgoing' = outgoing /\ wire' = wire /\ sent' = sent
    BY Zenon, <1>2 DEF open
  <1>4. n \in 1..Len(sent[Peer(e)]) /\ f.message = sent[Peer(e)][n]
    <2>1. PICK g \in wire : f.tag = g.tag
      BY Zenon, <1>1, ArrivalTag
    <2>2. f.tag = [sender |-> Peer(e), sequence |-> n, message |-> f.message]
      BY Zenon DEF open, Accepts, Tag
    <2>3. g.tag.sender = Peer(e) /\ g.tag.sequence = n /\ g.tag.message = f.message
      BY <2>1, <2>2
    <2> QED
      BY Zenon, <2>3 DEF FrameInv, Genuine
  <1>5. f.message \in Messages
    BY <1>1, <1>4 DEF TypeOK
  <1>6. received'[e] = Append(received[e], f.message)
    BY Zenon, <1>1, <1>3 DEF TypeOK
  <1>7. TypeOK'
    <2>1. incoming' \in [Endpoints -> 1..MaxSequence]
      BY Zenon, <1>1, <1>2, <1>3 DEF TypeOK
    <2>2. received' \in [Endpoints -> Seq(Messages)]
      BY <1>1, <1>3, <1>5 DEF TypeOK
    <2> QED
      BY Zenon, <2>1, <2>2, <1>1, <1>3 DEF TypeOK
  <1>8. Counted'
    <2> SUFFICES ASSUME NEW d \in Endpoints
                 PROVE  outgoing'[d] = Len(sent'[d]) + 1 /\ incoming'[d] = Len(received'[d]) + 1
      BY Zenon DEF Counted
    <2>1. outgoing[d] = Len(sent[d]) + 1 /\ incoming[d] = Len(received[d]) + 1
      BY Zenon DEF FrameInv, Counted
    <2>2. CASE d = e
      BY <2>1, <2>2, <1>1, <1>3, <1>5, <1>6 DEF TypeOK
    <2>3. CASE d # e
      BY Zenon, <2>1, <2>3, <1>1, <1>3 DEF TypeOK
    <2> QED
      BY Zenon, <2>2, <2>3
  <1>9. ASSUME NEW g \in wire' PROVE Genuine(g)'
    BY Zenon, <1>3, <1>9 DEF FrameInv, Genuine
  <1>10. DeliversInOrder'
    <2> SUFFICES ASSUME NEW d \in Endpoints
                 PROVE  /\ Len(received'[d]) <= Len(sent[Peer(d)])
                        /\ \A i \in 1..Len(received'[d]) : received'[d][i] = sent[Peer(d)][i]
      BY <1>3 DEF DeliversInOrder
    <2>1. /\ Len(received[d]) <= Len(sent[Peer(d)])
          /\ \A i \in 1..Len(received[d]) : received[d][i] = sent[Peer(d)][i]
      BY Zenon DEF FrameInv, DeliversInOrder
    <2>2. Len(received[d]) \in Nat /\ Len(sent[Peer(d)]) \in Nat
      BY SMTT(30), <1>1, PeerType DEF TypeOK
    <2>3. CASE d = e
      <3>1. Len(received'[d]) = n /\ received'[d][n] = f.message
            /\ \A i \in 1..Len(received[d]) : received'[d][i] = received[d][i]
        BY <2>3, <1>1, <1>5, <1>6
      <3> QED
        BY SMTT(30), <3>1, <2>1, <2>2, <2>3, <1>1, <1>4
    <2>4. CASE d # e
      <3>1. received'[d] = received[d]
        BY Zenon, <2>4, <1>1, <1>3 DEF TypeOK
      <3> QED
        BY Zenon, <3>1, <2>1
    <2> QED
      BY Zenon, <2>3, <2>4
  <1> QED
    BY Zenon, <1>7, <1>8, <1>9, <1>10 DEF FrameInv

(* The invariant holds in every reachable state. *)
THEOREM FramesGenuine == Spec => []FrameInv
  <1>1. Init => FrameInv
    <2> SUFFICES ASSUME Init PROVE FrameInv
      BY Zenon
    <2>1. TypeOK
      BY SessionFramesAssumption DEF Init, TypeOK
    <2>2. Counted /\ DeliversInOrder
      BY PeerType DEF Init, Counted, DeliversInOrder
    <2> QED
      BY Zenon, <2>1, <2>2 DEF Init, FrameInv
  <1>2. FrameInv /\ [Next]_vars => FrameInv'
    <2> SUFFICES ASSUME FrameInv, [Next]_vars PROVE FrameInv'
      BY Zenon
    <2>1. CASE Next
      BY Zenon, <2>1, SealStep, OpenStep DEF Next
    <2>2. CASE UNCHANGED vars
      BY Zenon, <2>2 DEF vars, FrameInv, TypeOK, Counted, Genuine, DeliversInOrder
    <2> QED
      BY Zenon, <2>1, <2>2
  <1> QED
    BY <1>1, <1>2, PTL DEF Spec

(* Whatever the transport loses, repeats, reorders, reflects, misroutes or
   damages, SessionFrameOpener::open hands out a prefix of what the peer's
   sealer was given. *)
THEOREM PrefixDelivered == Spec => []DeliversInOrder
  <1>1. FrameInv => DeliversInOrder
    BY Zenon DEF FrameInv
  <1> QED
    BY <1>1, FramesGenuine, PTL

(* SessionFrameSealer::seal never puts two messages under one number. *)
THEOREM NumbersFresh == Spec => []NumbersUsedOnce
  <1>1. FrameInv => NumbersUsedOnce
    <2> SUFFICES ASSUME FrameInv, NEW f \in wire, NEW g \in wire,
                        f.tag.sender = g.tag.sender, f.tag.sequence = g.tag.sequence
                 PROVE  f = g
      BY Zenon DEF NumbersUsedOnce
    <2>1. f \in Frames /\ g \in Frames /\ Genuine(f) /\ Genuine(g)
      BY Zenon DEF FrameInv, TypeOK
    <2>2. f.tag.message = g.tag.message /\ f.sequence = g.sequence /\ f.message = g.message
      BY Zenon, <2>1 DEF Genuine
    <2>3. f.tag = g.tag
      BY <2>1, <2>2 DEF Frames
    <2> QED
      BY <2>1, <2>2, <2>3 DEF Frames
  <1> QED
    BY <1>1, FramesGenuine, PTL

-----------------------------------------------------------------------------
(* The supervised worker *)

Commands ==
    [from : {"client", "control"}, kind : {"Arm", "Disarm", "Terminate", "Shutdown"}, call : Nat]
Workers == [child : {"running", "exited", "reaped"}, tree : BOOLEAN, cgroup : BOOLEAN]
Dogs == [state : {"idle", "active", "terminated", "failed", "leaving", "gone"}, call : Nat, next : Nat]
Replies == [kind : {"none", "armed", "completed", "stopped", "ok", "error"}, call : Nat]
Phases == {"ready", "arming", "sending", "receiving", "finishing", "stopping",
           "discarding", "closing", "closed"}
Hosts == [pc : Phases, call : Nat, result : {"none", "ok", "error"}, poisoned : BOOLEAN,
          transport : BOOLEAN, channel : BOOLEAN]

(* The cgroup of a worker is forgotten only when nothing is left in it. *)
WorkerInv ==
    /\ worker \in Workers
    /\ profile \in [cgroup : BOOLEAN, bounded : BOOLEAN]
    /\ profile.cgroup /\ ~worker.cgroup => ~worker.tree

(* A watchdog that says terminated has a worker that is gone; its thread only ends
   when the host closes it. *)
DogInv ==
    /\ dog \in Dogs
    /\ elapsed \subseteq {"call", "session"}
    /\ dog.state = "terminated" => Gone
    /\ dog.state \in {"leaving", "gone"} => host.pc \in {"closing", "closed"}

(* The client has at most one command in the queue, the one its phase waits for,
   and none once it is answered. *)
QueueInv ==
    /\ inbox \in Seq(Commands)
    /\ \A i \in 1..Len(inbox) :
        /\ inbox[i].from = "control" => inbox[i].kind = "Terminate"
        /\ inbox[i].from = "client" =>
            /\ reply = NoReply
            /\ inbox[i].kind = "Arm" => host.pc = "arming"
            /\ inbox[i].kind = "Disarm" => host.pc = "finishing" /\ inbox[i].call = host.call
            /\ inbox[i].kind = "Terminate" => host.pc \in {"stopping", "discarding"}
            /\ inbox[i].kind = "Shutdown" => host.pc = "closing"
            /\ \A j \in 1..Len(inbox) : inbox[j].from = "client" => i = j

(* What the host has been told is true. *)
HostInv ==
    /\ host \in Hosts
    /\ reply \in Replies
    /\ reaped \in BOOLEAN
    /\ host.pc \in {"arming", "sending", "receiving", "finishing"} => ~host.poisoned
    /\ host.pc \in {"sending", "receiving"} => reply = NoReply
    /\ host.pc = "discarding" /\ reply # NoReply => dog.state \in {"terminated", "failed"}
    /\ host.pc = "ready" /\ host.poisoned => dog.state \in {"terminated", "failed"}
    /\ host.pc = "closing" /\ reply.kind = "ok" => Gone
    /\ reaped => Gone

(* Calls are numbered in order; an armed call that is late is known to be, and a
   call answered as completed was neither late nor stopped. *)
CallInv ==
    /\ accepted \subseteq {n \in Nat : n < dog.next}
    /\ overtaken \subseteq {n \in Nat : n < dog.next}
    /\ dog.state = "active" =>
        /\ dog.call < dog.next
        /\ dog.call \notin accepted
        /\ dog.call \in overtaken => Expired
    /\ host.pc = "finishing" /\ reply.kind = "completed" =>
        /\ dog.state # "active"
        /\ host.call \notin overtaken
        /\ host.call < dog.next
    /\ StoppedCallRefused

SupervisedInv == WorkerInv /\ DogInv /\ QueueInv /\ HostInv /\ CallInv
-----------------------------------------------------------------------------

(* terminate_and_reap never revives what has ended, forgets a cgroup only when it
   is empty, and reports success only for a reaped child and a cgroup that is
   gone. *)
LEMMA TerminationEnds ==
    ASSUME NEW w \in Workers, NEW fault \in Faults, NEW alone \in BOOLEAN
    PROVE  LET after == terminate_and_reap(w, fault, alone)
           IN  /\ after \in Workers
               /\ w.child = "reaped" => after.child = "reaped"
               /\ ~w.tree => ~after.tree
               /\ ~w.cgroup => ~after.cgroup
               /\ w.cgroup /\ ~after.cgroup => ~after.tree
               /\ Terminated(w, fault, alone) => after.child = "reaped" /\ ~after.cgroup
  <1> DEFINE killed == KillCgroup(w, fault)
             ended == IF w.child = "running" THEN KillChild(killed, fault, alone)
                      ELSE [killed EXCEPT !.child = "reaped"]
             clean == CleanupCgroup(ended, fault, alone)
  <1>1. /\ killed \in Workers /\ killed.cgroup = w.cgroup
        /\ ~w.tree => ~killed.tree
    BY Zenon DEF KillCgroup, Workers
  <1>2. \A k \in Workers : [k EXCEPT !.child = "reaped"] \in Workers
                           /\ [k EXCEPT !.child = "reaped"].child = "reaped"
                           /\ [k EXCEPT !.child = "reaped"].tree = k.tree
                           /\ [k EXCEPT !.child = "reaped"].cgroup = k.cgroup
    BY Zenon DEF Workers
  <1>3. \A k \in Workers : KillChild(k, fault, alone) \in Workers
                           /\ KillChild(k, fault, alone).tree = k.tree
                           /\ KillChild(k, fault, alone).cgroup = k.cgroup
    BY Zenon DEF Workers, KillChild
  <1>4. /\ ended \in Workers /\ ended.cgroup = w.cgroup
        /\ ~w.tree => ~ended.tree
        /\ w.child = "reaped" => ended.child = "reaped"
    <2> HIDE DEF killed
    <2> QED
      BY Zenon, <1>1, <1>2, <1>3
  <1>5. /\ clean \in Workers /\ clean.child = ended.child
        /\ ~ended.tree => ~clean.tree
        /\ ~ended.cgroup => ~clean.cgroup
        /\ ended.cgroup /\ ~clean.cgroup => ~clean.tree
    <2> HIDE DEF ended
    <2> QED
      BY Zenon, <1>4 DEF CleanupCgroup, Workers
  <1>6. terminate_and_reap(w, fault, alone) = IF fault = "inspect" THEN w ELSE clean
    BY Zenon DEF terminate_and_reap
  <1>7. Terminated(w, fault, alone) =>
            /\ terminate_and_reap(w, fault, alone).child = "reaped"
            /\ ~terminate_and_reap(w, fault, alone).cgroup
    BY Zenon DEF Terminated
  <1> HIDE DEF clean, ended
  <1> QED
    BY Zenon, <1>4, <1>5, <1>6, <1>7

(* A worker that is gone stays gone, and a termination that succeeds makes it so. *)
LEMMA GoneLasts ==
    ASSUME WorkerInv, NEW fault \in Faults, NEW alone \in BOOLEAN, UNCHANGED profile,
           worker' = terminate_and_reap(worker, fault, alone)
    PROVE  /\ WorkerInv'
           /\ Gone => Gone'
           /\ Terminated(worker, fault, alone) => Gone'
  <1>1. worker \in Workers
    BY Zenon DEF WorkerInv
  <1>2. /\ worker' \in Workers
        /\ worker.child = "reaped" => worker'.child = "reaped"
        /\ ~worker.tree => ~worker'.tree
        /\ ~worker.cgroup => ~worker'.cgroup
        /\ worker.cgroup /\ ~worker'.cgroup => ~worker'.tree
        /\ Terminated(worker, fault, alone) => worker'.child = "reaped" /\ ~worker'.cgroup
    BY Zenon, <1>1, TerminationEnds
  <1> QED
    BY Zenon, <1>2 DEF WorkerInv, Gone
-----------------------------------------------------------------------------
(* The queue of commands. *)

NoClient == \A i \in 1..Len(inbox) : inbox[i].from # "client"

(* The first command and the rest of a queue (mpsc::Receiver::recv). *)
LEMMA QueueSplit ==
    ASSUME QueueInv, inbox # << >>
    PROVE  /\ 1 \in 1..Len(inbox) /\ Head(inbox) = inbox[1] /\ Head(inbox) \in Commands
           /\ Tail(inbox) \in Seq(Commands)
           /\ \A i \in 1..Len(Tail(inbox)) : i + 1 \in 1..Len(inbox) /\ Tail(inbox)[i] = inbox[i + 1]
  <1>1. inbox \in Seq(Commands)
    BY Zenon DEF QueueInv
  <1>2. /\ Head(inbox) \in Commands /\ Tail(inbox) \in Seq(Commands)
        /\ Len(Tail(inbox)) = Len(inbox) - 1
        /\ \A i \in 1..Len(Tail(inbox)) : Tail(inbox)[i] = inbox[i + 1]
    BY Zenon, <1>1, HeadTailProperties
  <1>3. Head(inbox) = inbox[1] /\ Len(inbox) \in Nat \ {0}
    BY <1>1, EmptySeq
  <1> QED
    BY <1>2, <1>3

(* A client that waits for nothing, or has its answer, has no command queued. *)
LEMMA QueueFree ==
    ASSUME QueueInv, reply # NoReply \/ host.pc \in {"ready", "sending", "receiving", "closed"}
    PROVE  NoClient
  <1> SUFFICES ASSUME NEW i \in 1..Len(inbox), inbox[i].from = "client"
               PROVE  FALSE
    BY Zenon DEF NoClient
  <1>1. inbox[i] \in Commands
    BY DEF QueueInv
  <1>2. inbox[i].kind \in {"Arm", "Disarm", "Terminate", "Shutdown"}
    BY Zenon, <1>1 DEF Commands
  <1> QED
    BY Zenon, <1>2 DEF QueueInv

(* Without a command of the client, its own steps leave the queue as it should be. *)
LEMMA QueueStays ==
    ASSUME QueueInv, NoClient, UNCHANGED inbox
    PROVE  QueueInv'
  BY Zenon DEF QueueInv, NoClient

(* The client adds the command its new phase waits for (request). *)
LEMMA QueueAsked ==
    ASSUME QueueInv, NoClient, NEW kind \in {"Arm", "Disarm", "Terminate", "Shutdown"}, NEW call \in Nat,
           Request(kind, call), reply' = NoReply,
           kind = "Arm" => host'.pc = "arming",
           kind = "Disarm" => host'.pc = "finishing" /\ call = host'.call,
           kind = "Terminate" => host'.pc \in {"stopping", "discarding"},
           kind = "Shutdown" => host'.pc = "closing"
    PROVE  QueueInv'
  <1> DEFINE command == [from |-> "client", kind |-> kind, call |-> call]
  <1>1. command \in Commands /\ command.from = "client" /\ command.kind = kind /\ command.call = call
    BY Zenon DEF Commands
  <1>2. inbox' = Append(inbox, command) /\ inbox \in Seq(Commands)
    BY Zenon DEF Request, QueueInv
  <1> HIDE DEF command
  <1>3. /\ inbox' \in Seq(Commands) /\ Len(inbox') = Len(inbox) + 1 /\ Len(inbox) \in Nat
        /\ \A i \in 1..Len(inbox) : inbox'[i] = inbox[i]
        /\ inbox'[Len(inbox) + 1] = command
    BY <1>1, <1>2
  <1>4. \A i \in 1..Len(inbox') : i \in 1..Len(inbox) \/ i = Len(inbox) + 1
    BY <1>3
  <1>5. ASSUME NEW i \in 1..Len(inbox'), inbox'[i].from = "client"
        PROVE  i = Len(inbox) + 1 /\ inbox'[i] = command
    BY Zenon, <1>3, <1>4, <1>5 DEF NoClient
  <1>6. ASSUME NEW i \in 1..Len(inbox'), inbox'[i].from = "control"
        PROVE  inbox'[i].kind = "Terminate"
    BY SMTT(30), <1>1, <1>3, <1>4, <1>6 DEF QueueInv
  <1> QED
    BY <1>1, <1>3, <1>5, <1>6 DEF QueueInv

(* The control handle adds a command of its own (request_termination). *)
LEMMA QueueStopped ==
    ASSUME QueueInv, UNCHANGED <<host, reply>>,
           inbox' = Append(inbox, [from |-> "control", kind |-> "Terminate", call |-> 0])
    PROVE  QueueInv'
  <1> DEFINE command == [from |-> "control", kind |-> "Terminate", call |-> 0]
  <1>1. command \in Commands /\ command.from = "control" /\ command.kind = "Terminate"
    BY Zenon DEF Commands
  <1>2. inbox' = Append(inbox, command) /\ inbox \in Seq(Commands)
    BY Zenon DEF QueueInv
  <1> HIDE DEF command
  <1>3. /\ inbox' \in Seq(Commands) /\ Len(inbox') = Len(inbox) + 1 /\ Len(inbox) \in Nat
        /\ \A i \in 1..Len(inbox) : inbox'[i] = inbox[i]
        /\ inbox'[Len(inbox) + 1] = command
    BY <1>1, <1>2
  <1>4. \A i \in 1..Len(inbox') : i \in 1..Len(inbox) \/ i = Len(inbox) + 1
    BY <1>3
  <1>5. ASSUME NEW i \in 1..Len(inbox'), inbox'[i].from = "client"
        PROVE  i \in 1..Len(inbox) /\ inbox'[i] = inbox[i]
    BY Zenon, <1>1, <1>3, <1>4, <1>5
  <1>6. ASSUME NEW i \in 1..Len(inbox'), inbox'[i].from = "control"
        PROVE  inbox'[i].kind = "Terminate"
    BY <1>1, <1>3, <1>4, <1>6 DEF QueueInv
  <1> QED
    BY <1>3, <1>5, <1>6 DEF QueueInv

(* The watchdog takes a command and answers it, or takes one of the control handle. *)
LEMMA QueueTaken ==
    ASSUME QueueInv, inbox # << >>, inbox' = Tail(inbox), UNCHANGED host,
           Head(inbox).from = "client" \/ UNCHANGED reply
    PROVE  QueueInv'
  <1>1. /\ 1 \in 1..Len(inbox) /\ Head(inbox) = inbox[1]
        /\ inbox' \in Seq(Commands)
        /\ \A i \in 1..Len(inbox') : i + 1 \in 1..Len(inbox) /\ inbox'[i] = inbox[i + 1]
    BY Zenon, QueueSplit
  <1>2. CASE Head(inbox).from = "client"
    <2>1. \A i \in 1..Len(inbox') : inbox'[i].from # "client"
      BY <1>1, <1>2 DEF QueueInv
    <2> QED
      BY <1>1, <2>1 DEF QueueInv
  <1>3. CASE UNCHANGED reply
    BY <1>1, <1>3 DEF QueueInv
  <1> QED
    BY Zenon, <1>2, <1>3
-----------------------------------------------------------------------------
(* The watchdog. *)

(* terminate_watchdog_worker: afterwards the watchdog says terminated or failed,
   and a call that was armed counts as overtaken. *)
LEMMA TerminateKeeps ==
    ASSUME SupervisedInv, NEW fault \in Faults, NEW alone \in BOOLEAN,
           terminate_watchdog_worker(fault, alone), dog.state \notin {"leaving", "gone"},
           UNCHANGED <<profile, elapsed, host, accepted>>,
           UNCHANGED reply \/ reply'.kind # "completed"
    PROVE  /\ WorkerInv' /\ DogInv' /\ CallInv'
           /\ Gone => Gone'
           /\ dog'.state \in {"terminated", "failed"}
  <1>1. dog \in Dogs
    BY Zenon DEF SupervisedInv, DogInv
  <1>2. CASE dog.state = "terminated"
    <2>1. UNCHANGED <<worker, dog, overtaken>>
      BY Zenon, <1>2 DEF terminate_watchdog_worker
    <2>2. WorkerInv' /\ (Gone => Gone')
      BY Zenon, <2>1 DEF SupervisedInv, WorkerInv, Gone
    <2>3. DogInv'
      BY Zenon, <2>1, <2>2 DEF SupervisedInv, DogInv
    <2>4. CallInv'
      BY Zenon, <2>1, <1>2 DEF SupervisedInv, CallInv, StoppedCallRefused
    <2> QED
      BY Zenon, <2>1, <2>2, <2>3, <2>4, <1>2
  <1>3. CASE dog.state # "terminated"
    <2>1. /\ worker' = terminate_and_reap(worker, fault, alone)
          /\ dog' = [dog EXCEPT !.call = 0,
                  !.state = IF Terminated(worker, fault, alone) THEN "terminated" ELSE "failed"]
          /\ overtaken' = overtaken \cup (IF dog.state = "active" THEN {dog.call} ELSE {})
      BY Zenon, <1>3 DEF terminate_watchdog_worker
    <2>2. /\ dog' \in Dogs /\ dog'.next = dog.next
          /\ dog'.state = IF Terminated(worker, fault, alone) THEN "terminated" ELSE "failed"
      BY Zenon, <1>1, <2>1 DEF Dogs
    <2>3. /\ WorkerInv' /\ (Gone => Gone')
          /\ Terminated(worker, fault, alone) => Gone'
      BY Zenon, <2>1, GoneLasts DEF SupervisedInv
    <2>4. DogInv'
      BY Zenon, <2>2, <2>3 DEF SupervisedInv, DogInv
    <2>5. accepted' \cap overtaken' = {}
      BY Zenon, <2>1 DEF SupervisedInv, CallInv, StoppedCallRefused
    <2>6. overtaken' \subseteq {n \in Nat : n < dog'.next}
      BY Zenon, <1>1, <2>1, <2>2 DEF SupervisedInv, CallInv, Dogs
    <2>7. CallInv'
      BY <2>1, <2>2, <2>5, <2>6 DEF SupervisedInv, CallInv, StoppedCallRefused
    <2> QED
      BY Zenon, <2>2, <2>3, <2>4, <2>7
  <1> QED
    BY Zenon, <1>2, <1>3

(* A deadline that has passed (run_watchdog_loop). *)
LEMMA ExpireKeeps ==
    ASSUME SupervisedInv, Expire
    PROVE  SupervisedInv'
  <1>1. PICK fault \in Faults, alone \in BOOLEAN : terminate_watchdog_worker(fault, alone)
    BY Zenon DEF Expire
  <1>2. dog.state \in {"idle", "active"} /\ UNCHANGED <<profile, elapsed, inbox, reply, host, accepted, reaped>>
    BY Zenon DEF Expire, Expired
  <1>3. /\ WorkerInv' /\ DogInv' /\ CallInv' /\ (Gone => Gone')
        /\ dog'.state \in {"terminated", "failed"}
    BY Zenon, <1>1, <1>2, TerminateKeeps
  <1>4. QueueInv'
    BY Zenon, <1>2 DEF SupervisedInv, QueueInv
  <1>5. HostInv'
    BY Zenon, <1>2, <1>3 DEF SupervisedInv, HostInv
  <1> QED
    BY Zenon, <1>3, <1>4, <1>5 DEF SupervisedInv

(* Taking a command of a kind only the client sends (handle_watchdog_command). *)
LEMMA HandleClient ==
    ASSUME SupervisedInv, NEW kind \in {"Arm", "Disarm", "Shutdown"}, NEW rest, Handle(kind, rest)
    PROVE  /\ inbox # << >> /\ Head(inbox).from = "client" /\ reply = NoReply
           /\ dog.state \notin {"leaving", "gone"} /\ ~Expired /\ inbox' = rest
           /\ kind = "Arm" => host.pc = "arming"
           /\ kind = "Disarm" => host.pc = "finishing" /\ Head(inbox).call = host.call
           /\ kind = "Shutdown" => host.pc = "closing"
           /\ UNCHANGED <<profile, host, reaped, accepted>>
  <1>1. /\ inbox # << >> /\ Head(inbox).kind = kind /\ dog.state \notin {"leaving", "gone"}
        /\ ~Expired /\ inbox' = rest /\ UNCHANGED <<profile, host, reaped, accepted>>
    BY Zenon DEF Handle
  <1>2. QueueInv
    BY Zenon DEF SupervisedInv
  <1>3. 1 \in 1..Len(inbox) /\ Head(inbox) = inbox[1] /\ Head(inbox) \in Commands
    BY Zenon, <1>1, <1>2, QueueSplit
  <1>4. Head(inbox).from \in {"client", "control"}
    BY Zenon, <1>3 DEF Commands
  <1>5. Head(inbox).from = "client"
    BY Zenon, <1>1, <1>2, <1>3, <1>4 DEF QueueInv
  <1> QED
    BY Zenon, <1>1, <1>2, <1>3, <1>5 DEF QueueInv

(* arm_watchdog_call. *)
LEMMA ArmKeeps ==
    ASSUME SupervisedInv, arm_watchdog_call
    PROVE  SupervisedInv'
  <1>1. Handle("Arm", Tail(inbox))
    BY Zenon DEF arm_watchdog_call
  <1>2. /\ inbox # << >> /\ Head(inbox).from = "client" /\ ~Expired /\ inbox' = Tail(inbox)
        /\ host.pc = "arming" /\ UNCHANGED <<profile, host, reaped, accepted>>
    BY Zenon, <1>1, HandleClient
  <1>3. QueueInv'
    BY Zenon, <1>2, QueueTaken DEF SupervisedInv
  <1>4. dog \in Dogs /\ worker \in Workers
    BY Zenon DEF SupervisedInv, DogInv, WorkerInv
  <1>5. CASE ArmFindsExit
    <2>1. PICK fault \in Faults, alone \in BOOLEAN :
            /\ worker' = terminate_and_reap(worker, fault, alone)
            /\ dog' = IF Terminated(worker, fault, alone) THEN [dog EXCEPT !.state = "terminated"] ELSE dog
      BY Zenon, <1>5 DEF ArmFindsExit
    <2>2. dog.state = "idle" /\ reply' = [kind |-> "error", call |-> 0] /\ UNCHANGED <<elapsed, overtaken>>
      BY Zenon, <1>5 DEF ArmFindsExit, Answer
    <2>3. /\ dog' \in Dogs /\ dog'.next = dog.next
          /\ dog'.state = IF Terminated(worker, fault, alone) THEN "terminated" ELSE "idle"
      BY Zenon, <1>4, <2>1, <2>2 DEF Dogs
    <2>4. /\ WorkerInv' /\ (Gone => Gone')
          /\ Terminated(worker, fault, alone) => Gone'
      BY Zenon, <1>2, <2>1, GoneLasts DEF SupervisedInv
    <2>5. DogInv'
      BY Zenon, <2>2, <2>3, <2>4 DEF SupervisedInv, DogInv
    <2>6. HostInv'
      BY Zenon, <1>2, <2>2, <2>4 DEF SupervisedInv, HostInv, Replies
    <2>7. CallInv'
      BY Zenon, <1>2, <2>2, <2>3 DEF SupervisedInv, CallInv, StoppedCallRefused
    <2> QED
      BY Zenon, <1>3, <2>4, <2>5, <2>6, <2>7 DEF SupervisedInv
  <1>6. CASE ArmStarts
    <2>1. /\ dog.state = "idle" /\ NumberLeft(dog.next)
          /\ dog' = [state |-> "active", call |-> dog.next, next |-> saturating_add(dog.next)]
          /\ elapsed' = elapsed \ {"call"} /\ reply' = [kind |-> "armed", call |-> dog.next]
          /\ UNCHANGED <<worker, overtaken>>
      BY Zenon, <1>6 DEF ArmStarts, Answer
    <2>2. dog.next \in Nat /\ saturating_add(dog.next) = dog.next + 1
      BY Zenon, <1>4, <2>1 DEF Dogs, saturating_add, NumberLeft
    <2>3. dog' \in Dogs /\ dog'.state = "active" /\ dog'.call = dog.next /\ dog'.next = dog.next + 1
      BY <2>1, <2>2 DEF Dogs
    <2>4. WorkerInv' /\ (Gone => Gone')
      BY Zenon, <1>2, <2>1 DEF SupervisedInv, WorkerInv, Gone
    <2>5. DogInv'
      BY Zenon, <2>1, <2>3 DEF SupervisedInv, DogInv
    <2>6. reply' \in Replies /\ reply'.kind = "armed"
      BY Zenon, <2>1, <2>2 DEF Replies
    <2>7. HostInv'
      BY Zenon, <1>2, <2>4, <2>6 DEF SupervisedInv, HostInv
    <2>8. CallInv'
      BY <1>2, <2>1, <2>2, <2>3, <2>6 DEF SupervisedInv, CallInv, StoppedCallRefused
    <2> QED
      BY Zenon, <1>3, <2>4, <2>5, <2>7, <2>8 DEF SupervisedInv
  <1>7. CASE ArmRefused
    <2>1. reply' = [kind |-> "error", call |-> 0] /\ UNCHANGED <<worker, dog, elapsed, overtaken>>
      BY Zenon, <1>7 DEF ArmRefused, Answer
    <2>2. WorkerInv' /\ DogInv' /\ (Gone => Gone')
      BY Zenon, <1>2, <2>1 DEF SupervisedInv, WorkerInv, DogInv, Gone
    <2>3. HostInv'
      BY Zenon, <1>2, <2>1, <2>2 DEF SupervisedInv, HostInv, Replies
    <2>4. CallInv'
      BY Zenon, <1>2, <2>1 DEF SupervisedInv, CallInv, StoppedCallRefused, Expired
    <2> QED
      BY Zenon, <1>3, <2>2, <2>3, <2>4 DEF SupervisedInv
  <1> QED
    BY Zenon, <1>5, <1>6, <1>7 DEF arm_watchdog_call

(* finish_watchdog_call: only a call that is still armed, and on time, is answered
   as completed. *)
LEMMA FinishKeeps ==
    ASSUME SupervisedInv, finish_watchdog_call
    PROVE  SupervisedInv'
  <1> DEFINE outcome == FinishOutcome(Head(inbox).call)
  <1>1. /\ Handle("Disarm", Tail(inbox)) /\ reply' = [kind |-> outcome, call |-> 0]
        /\ dog' = IF outcome = "completed" THEN [dog EXCEPT !.state = "idle", !.call = 0] ELSE dog
        /\ UNCHANGED <<worker, elapsed, overtaken>>
    BY Zenon DEF finish_watchdog_call, Answer
  <1>2. /\ inbox # << >> /\ Head(inbox).from = "client" /\ ~Expired /\ inbox' = Tail(inbox)
        /\ host.pc = "finishing" /\ Head(inbox).call = host.call
        /\ dog.state \notin {"leaving", "gone"} /\ UNCHANGED <<profile, host, reaped, accepted>>
    BY Zenon, <1>1, HandleClient
  <1>3. QueueInv'
    BY Zenon, <1>2, QueueTaken DEF SupervisedInv
  <1>4. dog \in Dogs
    BY Zenon DEF SupervisedInv, DogInv
  <1>5. outcome \in {"completed", "stopped", "error"}
        /\ (outcome = "completed" => dog.state = "active" /\ dog.call = host.call)
    BY Zenon, <1>2 DEF FinishOutcome
  <1> HIDE DEF outcome
  <1>6. /\ dog' \in Dogs /\ dog'.next = dog.next
        /\ outcome = "completed" => dog'.state = "idle"
        /\ outcome # "completed" => dog' = dog
    BY Zenon, <1>1, <1>4 DEF Dogs
  <1>7. reply' \in Replies /\ reply'.kind = outcome
    BY Zenon, <1>1, <1>5 DEF Replies
  <1>8. WorkerInv' /\ (Gone => Gone')
    BY Zenon, <1>1, <1>2 DEF SupervisedInv, WorkerInv, Gone
  <1>9. DogInv'
    BY Zenon, <1>1, <1>2, <1>6, <1>8 DEF SupervisedInv, DogInv
  <1>10. HostInv'
    BY Zenon, <1>2, <1>7, <1>8 DEF SupervisedInv, HostInv
  <1>11. CallInv'
    <2>1. CASE outcome = "completed"
      BY Zenon, <1>1, <1>2, <1>5, <1>6, <1>7, <2>1 DEF SupervisedInv, CallInv, StoppedCallRefused
    <2>2. CASE outcome # "completed"
      BY Zenon, <1>1, <1>2, <1>6, <1>7, <2>2 DEF SupervisedInv, CallInv, StoppedCallRefused, Expired
    <2> QED
      BY Zenon, <2>1, <2>2
  <1> QED
    BY <1>3, <1>8, <1>9, <1>10, <1>11 DEF SupervisedInv

(* Terminate, whoever asked. *)
LEMMA TerminateHandled ==
    ASSUME SupervisedInv, HandleTerminate
    PROVE  SupervisedInv'
  <1>1. /\ inbox # << >> /\ Head(inbox).kind = "Terminate" /\ dog.state \notin {"leaving", "gone"}
        /\ inbox' = Tail(inbox) /\ UNCHANGED <<profile, elapsed, host, reaped, accepted>>
    BY Zenon DEF HandleTerminate, Handle
  <1>2. PICK fault \in Faults, alone \in BOOLEAN : terminate_watchdog_worker(fault, alone)
    BY Zenon DEF HandleTerminate
  <1>3. \/ /\ Head(inbox).from = "client"
           /\ reply' = [kind |-> IF dog'.state = "terminated" THEN "ok" ELSE "error", call |-> 0]
        \/ Head(inbox).from # "client" /\ UNCHANGED reply
    BY Zenon DEF HandleTerminate, Answer
  <1>4. \/ UNCHANGED reply
        \/ Head(inbox).from = "client" /\ reply' \in Replies /\ reply'.kind \in {"ok", "error"}
    BY <1>3 DEF Replies
  <1>5. /\ WorkerInv' /\ DogInv' /\ CallInv' /\ (Gone => Gone')
        /\ dog'.state \in {"terminated", "failed"}
    BY Zenon, <1>1, <1>2, <1>4, TerminateKeeps
  <1>6. QueueInv'
    BY Zenon, <1>1, <1>4, QueueTaken DEF SupervisedInv
  <1>7. Head(inbox).from = "client" => host.pc \in {"stopping", "discarding"}
    BY Zenon, <1>1, QueueSplit DEF SupervisedInv, QueueInv
  <1>8. HostInv'
    BY Zenon, <1>1, <1>4, <1>5, <1>7 DEF SupervisedInv, HostInv
  <1> QED
    BY <1>5, <1>6, <1>8 DEF SupervisedInv

(* Shutdown, which the client only asks for to close the session. *)
LEMMA ShutdownHandled ==
    ASSUME SupervisedInv, HandleShutdown
    PROVE  SupervisedInv'
  <1>1. PICK fault \in Faults, alone \in BOOLEAN :
          /\ worker' = IF dog.state = "terminated" THEN worker ELSE terminate_and_reap(worker, fault, alone)
          /\ reply' = [kind |-> IF dog.state = "terminated" \/ Terminated(worker, fault, alone)
                                THEN "ok" ELSE "error", call |-> 0]
    BY Zenon DEF HandleShutdown, Answer
  <1>2. /\ Handle("Shutdown", << >>) /\ UNCHANGED <<elapsed, overtaken>>
        /\ dog' = [dog EXCEPT !.state = "leaving", !.call = 0]
    BY Zenon DEF HandleShutdown
  <1>3. host.pc = "closing" /\ inbox' = << >> /\ UNCHANGED <<profile, host, reaped, accepted>>
    BY Zenon, <1>2, HandleClient
  <1>4. dog \in Dogs
    BY Zenon DEF SupervisedInv, DogInv
  <1>5. dog' \in Dogs /\ dog'.next = dog.next /\ dog'.state = "leaving"
    BY Zenon, <1>2, <1>4 DEF Dogs
  <1>6. reply' \in Replies /\ reply'.kind \in {"ok", "error"}
        /\ (reply'.kind = "ok" => dog.state = "terminated" \/ Terminated(worker, fault, alone))
    BY Zenon, <1>1 DEF Replies
  <1>7. WorkerInv' /\ (Gone => Gone') /\ (reply'.kind = "ok" => Gone')
    <2>1. CASE dog.state = "terminated"
      BY Zenon, <1>1, <1>3, <2>1 DEF SupervisedInv, WorkerInv, DogInv, Gone
    <2>2. CASE dog.state # "terminated"
      BY Zenon, <1>1, <1>3, <1>6, <2>2, GoneLasts DEF SupervisedInv
    <2> QED
      BY Zenon, <2>1, <2>2
  <1>8. DogInv'
    BY Zenon, <1>2, <1>3, <1>5 DEF SupervisedInv, DogInv
  <1>9. QueueInv'
    BY <1>3 DEF QueueInv
  <1>10. HostInv'
    BY Zenon, <1>3, <1>6, <1>7 DEF SupervisedInv, HostInv
  <1>11. CallInv'
    BY Zenon, <1>2, <1>3, <1>5 DEF SupervisedInv, CallInv, StoppedCallRefused
  <1> QED
    BY Zenon, <1>7, <1>8, <1>9, <1>10, <1>11 DEF SupervisedInv

(* run_watchdog_thread after its loop. *)
LEMMA ThreadEndKeeps ==
    ASSUME SupervisedInv, ThreadEnds
    PROVE  SupervisedInv'
  <1>1. PICK fault \in Faults, alone \in BOOLEAN : worker' = terminate_and_reap(worker, fault, alone)
    BY Zenon DEF ThreadEnds
  <1>2. /\ dog.state = "leaving" /\ dog' = [dog EXCEPT !.state = "gone"]
        /\ UNCHANGED <<profile, elapsed, inbox, reply, overtaken, host, reaped, accepted>>
    BY Zenon DEF ThreadEnds
  <1>3. dog \in Dogs /\ host.pc \in {"closing", "closed"}
    BY Zenon, <1>2 DEF SupervisedInv, DogInv
  <1>4. dog' \in Dogs /\ dog'.next = dog.next /\ dog'.state = "gone"
    BY Zenon, <1>2, <1>3 DEF Dogs
  <1>5. WorkerInv' /\ (Gone => Gone')
    BY Zenon, <1>1, <1>2, GoneLasts DEF SupervisedInv
  <1>6. DogInv' /\ QueueInv'
    BY <1>2, <1>3, <1>4 DEF SupervisedInv, DogInv, QueueInv
  <1>7. HostInv'
    BY Zenon, <1>2, <1>3, <1>5 DEF SupervisedInv, HostInv
  <1>8. CallInv'
    BY Zenon, <1>2, <1>4 DEF SupervisedInv, CallInv, StoppedCallRefused
  <1> QED
    BY Zenon, <1>5, <1>6, <1>7, <1>8 DEF SupervisedInv
-----------------------------------------------------------------------------
(* The clock and the process. *)

(* A deadline passes: the armed call counts as overtaken from that moment. *)
LEMMA TimeKeeps ==
    ASSUME SupervisedInv, CallTimeElapses \/ SessionTimeElapses
    PROVE  SupervisedInv'
  <1>1. /\ UNCHANGED <<profile, worker, dog, inbox, reply, host, reaped, accepted>>
        /\ elapsed \subseteq elapsed' /\ elapsed' \subseteq elapsed \cup {"call", "session"}
        /\ dog.state = "active" => Expired'
        /\ overtaken' = overtaken \cup (IF dog.state = "active" THEN {dog.call} ELSE {})
    BY Zenon DEF CallTimeElapses, SessionTimeElapses, Expired
  <1>2. dog \in Dogs
    BY Zenon DEF SupervisedInv, DogInv
  <1>3. WorkerInv' /\ (Gone => Gone')
    BY Zenon, <1>1 DEF SupervisedInv, WorkerInv, Gone
  <1>4. DogInv' /\ QueueInv'
    BY <1>1, <1>3 DEF SupervisedInv, DogInv, QueueInv
  <1>5. HostInv'
    BY Zenon, <1>1, <1>3 DEF SupervisedInv, HostInv
  <1>6. overtaken' \subseteq {n \in Nat : n < dog'.next} /\ accepted' \cap overtaken' = {}
    BY Zenon, <1>1, <1>2 DEF SupervisedInv, CallInv, StoppedCallRefused, Dogs
  <1>7. CallInv'
    BY Zenon, <1>1, <1>6 DEF SupervisedInv, CallInv, StoppedCallRefused
  <1> QED
    BY Zenon, <1>3, <1>4, <1>5, <1>7 DEF SupervisedInv

(* Processes end by themselves. *)
LEMMA ProcessKeeps ==
    ASSUME SupervisedInv, ChildExits \/ TreeEnds
    PROVE  SupervisedInv'
  <1>1. /\ UNCHANGED <<profile, dog, elapsed, inbox, reply, overtaken, host, reaped, accepted>>
        /\ \/ worker.child = "running" /\ worker' = [worker EXCEPT !.child = "exited"]
           \/ worker' = [worker EXCEPT !.tree = FALSE]
    BY Zenon DEF ChildExits, TreeEnds
  <1>2. worker \in Workers
    BY Zenon DEF SupervisedInv, WorkerInv
  <1>3. /\ worker' \in Workers /\ worker'.cgroup = worker.cgroup
        /\ worker.child = "reaped" => worker'.child = "reaped"
        /\ ~worker.tree => ~worker'.tree
    BY Zenon, <1>1, <1>2 DEF Workers
  <1>4. WorkerInv' /\ (Gone => Gone')
    BY Zenon, <1>1, <1>3 DEF SupervisedInv, WorkerInv, Gone
  <1>5. DogInv' /\ QueueInv'
    BY <1>1, <1>4 DEF SupervisedInv, DogInv, QueueInv
  <1>6. HostInv'
    BY Zenon, <1>1, <1>4 DEF SupervisedInv, HostInv
  <1>7. CallInv'
    BY Zenon, <1>1 DEF SupervisedInv, CallInv, StoppedCallRefused, Expired
  <1> QED
    BY <1>4, <1>5, <1>6, <1>7 DEF SupervisedInv

(* A step that touches only frames or the number of stops asked for. *)
LEMMA FrameKeeps ==
    ASSUME SupervisedInv, UNCHANGED <<profile, dogVars, host, reaped, accepted>>
    PROVE  SupervisedInv'
  <1>1. WorkerInv' /\ DogInv' /\ QueueInv'
    BY DEF SupervisedInv, WorkerInv, DogInv, QueueInv, Gone, dogVars
  <1>2. HostInv' /\ CallInv'
    BY Zenon DEF SupervisedInv, HostInv, CallInv, StoppedCallRefused, Expired, Gone, dogVars
  <1> QED
    BY Zenon, <1>1, <1>2 DEF SupervisedInv

(* BubblewrapWorkerControl::terminate. *)
LEMMA ControlKeeps ==
    ASSUME SupervisedInv, request_termination
    PROVE  SupervisedInv'
  <1>1. /\ inbox' = Append(inbox, [from |-> "control", kind |-> "Terminate", call |-> 0])
        /\ UNCHANGED <<profile, worker, dog, elapsed, reply, overtaken, host, reaped, accepted>>
    BY Zenon DEF request_termination
  <1>2. QueueInv'
    BY Zenon, <1>1, QueueStopped DEF SupervisedInv
  <1>3. WorkerInv' /\ DogInv'
    BY Zenon, <1>1 DEF SupervisedInv, WorkerInv, DogInv, Gone
  <1>4. HostInv' /\ CallInv'
    BY ZenonT(60), <1>1 DEF SupervisedInv, HostInv, CallInv, StoppedCallRefused, Expired, Gone
  <1> QED
    BY Zenon, <1>2, <1>3, <1>4 DEF SupervisedInv
-----------------------------------------------------------------------------
(* The client. *)

(* What every step of the client leaves alone. *)
LEMMA ClientLeaves ==
    ASSUME SupervisedInv, UNCHANGED <<profile, worker, dog, elapsed, overtaken>>
    PROVE  /\ WorkerInv' /\ (Gone <=> Gone') /\ (Expired <=> Expired')
           /\ host.pc \notin {"closing", "closed"} \/ host'.pc \in {"closing", "closed"} => DogInv'
  <1>1. WorkerInv' /\ (Gone <=> Gone') /\ (Expired <=> Expired')
    BY Zenon DEF SupervisedInv, WorkerInv, Gone, Expired
  <1>2. host.pc \notin {"closing", "closed"} \/ host'.pc \in {"closing", "closed"} => DogInv'
    BY Zenon, <1>1 DEF SupervisedInv, DogInv
  <1> QED
    BY Zenon, <1>1, <1>2

(* A step to a phase that knows of no completed call. *)
LEMMA ClientCalls ==
    ASSUME SupervisedInv, UNCHANGED <<dog, overtaken, accepted>>, Expired <=> Expired',
           reply'.kind # "completed" \/ host'.pc # "finishing"
    PROVE  CallInv'
  BY Zenon DEF SupervisedInv, CallInv, StoppedCallRefused

(* BoundedWorkerTransport::discard, from any phase of a call. *)
LEMMA DiscardKeeps ==
    ASSUME SupervisedInv, NoClient, NEW pc \in {"stopping", "discarding"}, discard(pc),
           host.pc \notin {"closing", "closed"}, reply' = NoReply,
           UNCHANGED <<profile, worker, dog, elapsed, overtaken, reaped, accepted>>
    PROVE  SupervisedInv'
  <1>1. host \in Hosts
    BY Zenon DEF SupervisedInv, HostInv
  <1>2. /\ host' = [host EXCEPT !.pc = pc, !.call = 0, !.result = "none",
                     !.poisoned = TRUE, !.transport = TRUE]
        /\ Request("Terminate", 0)
    BY Zenon DEF discard
  <1>3. host' \in Hosts /\ host'.pc = pc
    BY Zenon, <1>1, <1>2 DEF Hosts, Phases
  <1>4. WorkerInv' /\ DogInv' /\ (Gone <=> Gone') /\ (Expired <=> Expired')
    BY Zenon, ClientLeaves
  <1>5. QueueInv'
    BY Zenon, <1>2, <1>3, QueueAsked DEF SupervisedInv
  <1>6. reply' \in Replies /\ reply'.kind = "none"
    BY Zenon DEF NoReply, Replies
  <1>7. HostInv'
    BY Zenon, <1>3, <1>4, <1>6 DEF SupervisedInv, HostInv
  <1>8. CallInv'
    BY Zenon, <1>4, <1>6, ClientCalls
  <1> QED
    BY Zenon, <1>4, <1>5, <1>7, <1>8 DEF SupervisedInv

(* dispatch up to begin_invocation. *)
LEMMA DispatchKeeps ==
    ASSUME SupervisedInv, dispatch
    PROVE  SupervisedInv'
  <1>1. /\ host.pc = "ready" /\ reply' = NoReply
        /\ UNCHANGED <<profile, worker, dog, elapsed, overtaken, reaped, accepted>>
    BY Zenon DEF dispatch, ClientStep
  <1>2. NoClient
    BY Zenon, <1>1, QueueFree DEF SupervisedInv
  <1>3. CASE host.poisoned
    BY Zenon, <1>1, <1>2, <1>3, DiscardKeeps DEF dispatch
  <1>4. CASE ~host.poisoned
    <2>1. host' = [host EXCEPT !.pc = "arming"] /\ Request("Arm", 0)
      BY Zenon, <1>4 DEF dispatch
    <2>2. host \in Hosts
      BY Zenon DEF SupervisedInv, HostInv
    <2>3. host' \in Hosts /\ host'.pc = "arming" /\ host'.poisoned = host.poisoned
      BY Zenon, <2>1, <2>2 DEF Hosts, Phases
    <2>4. WorkerInv' /\ DogInv' /\ (Gone <=> Gone') /\ (Expired <=> Expired')
      BY Zenon, <1>1, ClientLeaves
    <2>5. QueueInv'
      BY Zenon, <1>1, <1>2, <2>1, <2>3, QueueAsked DEF SupervisedInv
    <2>6. reply' \in Replies /\ reply'.kind = "none"
      BY Zenon, <1>1 DEF NoReply, Replies
    <2>7. HostInv'
      BY Zenon, <1>1, <1>4, <2>3, <2>4, <2>6 DEF SupervisedInv, HostInv
    <2>8. CallInv'
      BY Zenon, <1>1, <2>4, <2>6, ClientCalls
    <2> QED
      BY Zenon, <2>4, <2>5, <2>7, <2>8 DEF SupervisedInv
  <1> QED
    BY Zenon, <1>3, <1>4

(* The answer of begin_invocation. *)
LEMMA ArmedKeeps ==
    ASSUME SupervisedInv, Armed
    PROVE  SupervisedInv'
  <1>1. /\ host.pc = "arming" /\ reply # NoReply /\ reply' = NoReply
        /\ UNCHANGED <<profile, worker, dog, elapsed, overtaken, reaped, accepted>>
    BY Zenon DEF Armed, ClientStep
  <1>2. NoClient
    BY Zenon, <1>1, QueueFree DEF SupervisedInv
  <1>3. CASE reply.kind # "armed"
    BY Zenon, <1>1, <1>2, <1>3, DiscardKeeps DEF Armed
  <1>4. CASE reply.kind = "armed"
    <2>1. host' = [host EXCEPT !.pc = "sending", !.call = reply.call] /\ UNCHANGED inbox
      BY Zenon, <1>4 DEF Armed
    <2>2. host \in Hosts /\ reply.call \in Nat /\ ~host.poisoned
      BY Zenon, <1>1 DEF SupervisedInv, HostInv, Replies
    <2>3. host' \in Hosts /\ host'.pc = "sending" /\ host'.poisoned = host.poisoned
      BY Zenon, <2>1, <2>2 DEF Hosts, Phases
    <2>4. WorkerInv' /\ DogInv' /\ (Gone <=> Gone') /\ (Expired <=> Expired')
      BY Zenon, <1>1, ClientLeaves
    <2>5. QueueInv'
      BY Zenon, <1>2, <2>1, QueueStays DEF SupervisedInv
    <2>6. reply' \in Replies /\ reply'.kind = "none"
      BY Zenon, <1>1 DEF NoReply, Replies
    <2>7. HostInv'
      BY Zenon, <1>1, <2>2, <2>3, <2>4, <2>6 DEF SupervisedInv, HostInv
    <2>8. CallInv'
      BY Zenon, <1>1, <2>4, <2>6, ClientCalls
    <2> QED
      BY <2>4, <2>5, <2>7, <2>8 DEF SupervisedInv
  <1> QED
    BY Zenon, <1>3, <1>4

(* The request is written; the client waits for the answer. *)
LEMMA SendKeeps ==
    ASSUME SupervisedInv, SendRequest
    PROVE  SupervisedInv'
  <1>1. /\ host.pc = "sending" /\ host' = [host EXCEPT !.pc = "receiving"]
        /\ UNCHANGED <<profile, worker, dog, elapsed, inbox, reply, overtaken, reaped, accepted>>
    BY Zenon DEF SendRequest, dogVars
  <1>2. host \in Hosts /\ ~host.poisoned /\ reply = NoReply
    BY Zenon, <1>1 DEF SupervisedInv, HostInv
  <1>3. host' \in Hosts /\ host'.pc = "receiving" /\ host'.poisoned = host.poisoned
    BY Zenon, <1>1, <1>2 DEF Hosts, Phases
  <1>4. WorkerInv' /\ DogInv' /\ (Gone <=> Gone') /\ (Expired <=> Expired')
    BY Zenon, <1>1, ClientLeaves
  <1>5. NoClient
    BY Zenon, <1>1, QueueFree DEF SupervisedInv
  <1>6. QueueInv'
    BY Zenon, <1>1, <1>5, QueueStays DEF SupervisedInv
  <1>7. HostInv'
    BY Zenon, <1>1, <1>2, <1>3, <1>4 DEF SupervisedInv, HostInv
  <1>8. CallInv'
    BY Zenon, <1>1, <1>3, <1>4, ClientCalls
  <1> QED
    BY <1>4, <1>6, <1>7, <1>8 DEF SupervisedInv

(* The inner dispatch has its result, or failed. *)
LEMMA FinishingKeeps ==
    ASSUME SupervisedInv, host.pc \in {"sending", "receiving"}, NEW result \in {"ok", "error"},
           NEW transport \in BOOLEAN, NEW channel \in BOOLEAN, Finishing(result, transport, channel)
    PROVE  SupervisedInv'
  <1>1. /\ host' = [host EXCEPT !.pc = "finishing", !.result = result,
                     !.transport = @ \/ transport, !.channel = @ \/ channel]
        /\ Request("Disarm", host.call)
        /\ UNCHANGED <<profile, worker, dog, elapsed, overtaken, reply, reaped, accepted>>
    BY Zenon DEF Finishing
  <1>2. host \in Hosts /\ ~host.poisoned /\ reply = NoReply
    BY Zenon DEF SupervisedInv, HostInv
  <1>3. /\ host.call \in Nat /\ host.transport \in BOOLEAN /\ host.channel \in BOOLEAN
    BY Zenon, <1>2 DEF Hosts
  <1>4. (host.transport \/ transport) \in BOOLEAN /\ (host.channel \/ channel) \in BOOLEAN
    BY Zenon
  <1>5. /\ host' \in Hosts /\ host'.pc = "finishing" /\ host'.poisoned = host.poisoned
        /\ host'.call = host.call
    BY Zenon, <1>1, <1>2, <1>4 DEF Hosts, Phases
  <1>6. WorkerInv' /\ DogInv' /\ (Gone <=> Gone') /\ (Expired <=> Expired')
    BY Zenon, <1>1, ClientLeaves
  <1>7. NoClient
    BY Zenon, QueueFree DEF SupervisedInv
  <1>8. QueueInv'
    BY Zenon, <1>1, <1>2, <1>3, <1>5, <1>7, QueueAsked DEF SupervisedInv
  <1>9. HostInv'
    BY Zenon, <1>1, <1>2, <1>5, <1>6 DEF SupervisedInv, HostInv
  <1>10. reply'.kind # "completed"
    BY Zenon, <1>1, <1>2 DEF NoReply
  <1>11. CallInv'
    BY Zenon, <1>1, <1>6, <1>10, ClientCalls
  <1> QED
    BY Zenon, <1>6, <1>8, <1>9, <1>11 DEF SupervisedInv

(* The answer of finish_invocation: a result is accepted only for a call answered
   as completed, which was neither late nor stopped. *)
LEMMA FinishedKeeps ==
    ASSUME SupervisedInv, Finished
    PROVE  SupervisedInv'
  <1>1. /\ host.pc = "finishing" /\ reply # NoReply /\ reply' = NoReply
        /\ UNCHANGED <<profile, worker, dog, elapsed, overtaken, reaped>>
    BY Zenon DEF Finished, ClientStep
  <1>2. NoClient
    BY Zenon, <1>1, QueueFree DEF SupervisedInv
  <1>3. CASE UNCHANGED accepted /\ (discard("discarding") \/ discard("stopping"))
    BY Zenon, <1>1, <1>2, <1>3, DiscardKeeps
  <1>4. CASE /\ MayAccept /\ UNCHANGED inbox
             /\ host' = [host EXCEPT !.pc = "ready", !.call = 0, !.result = "none"]
             /\ accepted' = accepted \cup {host.call}
    <2>1. host \in Hosts /\ ~host.poisoned
      BY Zenon, <1>1 DEF SupervisedInv, HostInv
    <2>2. host' \in Hosts /\ host'.pc = "ready" /\ host'.poisoned = host.poisoned /\ host.call \in Nat
      BY Zenon, <1>4, <2>1 DEF Hosts, Phases
    <2>3. WorkerInv' /\ DogInv' /\ (Gone <=> Gone') /\ (Expired <=> Expired')
      BY Zenon, <1>1, ClientLeaves
    <2>4. QueueInv'
      BY Zenon, <1>2, <1>4, QueueStays DEF SupervisedInv
    <2>5. reply' \in Replies /\ reply'.kind = "none"
      BY Zenon, <1>1 DEF NoReply, Replies
    <2>6. HostInv'
      BY Zenon, <1>1, <2>1, <2>2, <2>3, <2>5 DEF SupervisedInv, HostInv
    <2>7. dog.state # "active" /\ host.call \notin overtaken /\ host.call < dog.next
      BY Zenon, <1>1, <1>4 DEF SupervisedInv, CallInv, MayAccept
    <2>8. CallInv'
      BY Zenon, <1>1, <1>4, <2>2, <2>5, <2>7 DEF SupervisedInv, CallInv, StoppedCallRefused
    <2> QED
      BY <2>3, <2>4, <2>6, <2>8 DEF SupervisedInv
  <1> QED
    BY Zenon, <1>3, <1>4 DEF Finished

(* A transport that was discarded returns to its caller. *)
LEMMA StoppedKeeps ==
    ASSUME SupervisedInv, Stopped \/ Discarded
    PROVE  SupervisedInv'
  <1>1. /\ host.pc \in {"stopping", "discarding"} /\ reply # NoReply /\ reply' = NoReply
        /\ UNCHANGED <<profile, worker, dog, elapsed, overtaken, reaped, accepted>>
    BY Zenon DEF Stopped, Discarded, ClientStep
  <1>2. NoClient
    BY Zenon, <1>1, QueueFree DEF SupervisedInv
  <1>3. CASE Stopped
    BY Zenon, <1>1, <1>2, <1>3, DiscardKeeps DEF Stopped
  <1>4. CASE Discarded
    <2>1. host.pc = "discarding" /\ host' = [host EXCEPT !.pc = "ready"] /\ UNCHANGED inbox
      BY Zenon, <1>4 DEF Discarded
    <2>2. host \in Hosts /\ dog.state \in {"terminated", "failed"}
      BY Zenon, <1>1, <2>1 DEF SupervisedInv, HostInv
    <2>3. host' \in Hosts /\ host'.pc = "ready"
      BY Zenon, <2>1, <2>2 DEF Hosts, Phases
    <2>4. WorkerInv' /\ DogInv' /\ (Gone <=> Gone') /\ (Expired <=> Expired')
      BY Zenon, <1>1, ClientLeaves
    <2>5. QueueInv'
      BY Zenon, <1>2, <2>1, QueueStays DEF SupervisedInv
    <2>6. reply' \in Replies /\ reply'.kind = "none"
      BY Zenon, <1>1 DEF NoReply, Replies
    <2>7. HostInv'
      BY Zenon, <1>1, <2>2, <2>3, <2>4, <2>6 DEF SupervisedInv, HostInv
    <2>8. CallInv'
      BY Zenon, <1>1, <2>4, <2>6, ClientCalls
    <2> QED
      BY Zenon, <2>4, <2>5, <2>7, <2>8 DEF SupervisedInv
  <1> QED
    BY Zenon, <1>3, <1>4

(* close and close_reaped. *)
LEMMA CloseKeeps ==
    ASSUME SupervisedInv, shutdown \/ close_reaped
    PROVE  SupervisedInv'
  <1>1. host \in Hosts
    BY Zenon DEF SupervisedInv, HostInv
  <1>2. CASE shutdown
    <2>1. /\ host.pc = "ready" /\ host' = [host EXCEPT !.pc = "closing"] /\ Request("Shutdown", 0)
          /\ reply' = NoReply
          /\ UNCHANGED <<profile, worker, dog, elapsed, overtaken, reaped, accepted>>
      BY Zenon, <1>2 DEF shutdown, ClientStep
    <2>2. host' \in Hosts /\ host'.pc = "closing"
      BY Zenon, <1>1, <2>1 DEF Hosts, Phases
    <2>3. WorkerInv' /\ DogInv' /\ (Gone <=> Gone') /\ (Expired <=> Expired')
      BY Zenon, <2>1, <2>2, ClientLeaves
    <2>4. NoClient
      BY Zenon, <2>1, QueueFree DEF SupervisedInv
    <2>5. QueueInv'
      BY Zenon, <2>1, <2>2, <2>4, QueueAsked DEF SupervisedInv
    <2>6. reply' \in Replies /\ reply'.kind = "none"
      BY Zenon, <2>1 DEF NoReply, Replies
    <2>7. HostInv'
      BY Zenon, <2>1, <2>2, <2>3, <2>6 DEF SupervisedInv, HostInv
    <2>8. CallInv'
      BY ZenonT(60), <2>1, <2>3, <2>6, ClientCalls
    <2> QED
      BY <2>3, <2>5, <2>7, <2>8 DEF SupervisedInv
  <1>3. CASE close_reaped
    <2>1. /\ host.pc = "closing" /\ reply # NoReply /\ host' = [host EXCEPT !.pc = "closed"]
          /\ reaped' = (reply.kind = "ok")
          /\ UNCHANGED <<profile, worker, dog, elapsed, inbox, reply, overtaken, accepted>>
      BY Zenon, <1>3 DEF close_reaped, ClientStep
    <2>2. host' \in Hosts /\ host'.pc = "closed"
      BY Zenon, <1>1, <2>1 DEF Hosts, Phases
    <2>3. WorkerInv' /\ DogInv' /\ (Gone <=> Gone') /\ (Expired <=> Expired')
      BY Zenon, <2>1, <2>2, ClientLeaves
    <2>4. NoClient
      BY Zenon, <2>1, QueueFree DEF SupervisedInv
    <2>5. QueueInv'
      BY Zenon, <2>1, <2>4, QueueStays DEF SupervisedInv
    <2>6. reaped' \in BOOLEAN /\ (reaped' => Gone')
      BY Zenon, <2>1, <2>3 DEF SupervisedInv, HostInv
    <2>7. HostInv'
      BY Zenon, <2>1, <2>2, <2>3, <2>6 DEF SupervisedInv, HostInv
    <2>8. CallInv'
      BY Zenon, <2>1, <2>2, <2>3, ClientCalls
    <2> QED
      BY <2>3, <2>5, <2>7, <2>8 DEF SupervisedInv
  <1> QED
    BY <1>2, <1>3
-----------------------------------------------------------------------------
(* The whole. *)

(* The inductive invariant holds of a worker that has just been started, and no
   step of the host, its watchdog, the process or the clock breaks it. *)
THEOREM Supervised == SupervisedSpec => []SupervisedInv
  <1>1. SupervisedInit => SupervisedInv
    <2> SUFFICES ASSUME SupervisedInit PROVE SupervisedInv
      OBVIOUS
    <2>1. WorkerInv /\ DogInv
      BY Zenon DEF SupervisedInit, WorkerInv, DogInv, Workers, Dogs
    <2>2. QueueInv
      BY DEF SupervisedInit, QueueInv
    <2>3. HostInv
      BY Zenon DEF SupervisedInit, HostInv, Hosts, Phases, Replies, NoReply
    <2>4. CallInv
      BY Zenon DEF SupervisedInit, CallInv, StoppedCallRefused, NoReply
    <2> QED
      BY Zenon, <2>1, <2>2, <2>3, <2>4 DEF SupervisedInv
  <1>2. SupervisedInv /\ [SupervisedNext]_supervisedVars => SupervisedInv'
    <2> SUFFICES ASSUME SupervisedInv, [SupervisedNext]_supervisedVars PROVE SupervisedInv'
      OBVIOUS
    <2>1. CASE ChildExits \/ TreeEnds
      BY Zenon, <2>1, ProcessKeeps
    <2>2. CASE CallTimeElapses \/ SessionTimeElapses
      BY <2>2, TimeKeeps
    <2>3. CASE Expire
      BY Zenon, <2>3, ExpireKeeps
    <2>4. CASE arm_watchdog_call
      BY <2>4, ArmKeeps
    <2>5. CASE finish_watchdog_call
      BY SMTT(30), <2>5, FinishKeeps
    <2>6. CASE HandleTerminate
      BY <2>6, TerminateHandled
    <2>7. CASE HandleShutdown
      BY <2>7, ShutdownHandled
    <2>8. CASE ThreadEnds
      BY <2>8, ThreadEndKeeps
    <2>9. CASE dispatch
      BY <2>9, DispatchKeeps
    <2>10. CASE SendRequest
      BY <2>10, SendKeeps
    <2>11. CASE SendFails \/ SealRefused \/ ReceiveRefused \/ ReceiveFails
      BY Zenon, <2>11, FinishingKeeps DEF SendFails, SealRefused, ReceiveRefused, ReceiveFails
    <2>12. CASE ReceiveFrame
      <3>1. /\ host.pc = "receiving"
            /\ Finishing("ok", FALSE, FALSE) \/ Finishing("error", TRUE, FALSE)
        BY ZenonT(60), <2>12 DEF ReceiveFrame
      <3> QED
        BY Zenon, <3>1, FinishingKeeps
    <2>13. CASE Armed
      BY <2>13, ArmedKeeps
    <2>14. CASE Finished
      BY <2>14, FinishedKeeps
    <2>15. CASE Stopped \/ Discarded
      BY <2>15, StoppedKeeps
    <2>16. CASE shutdown \/ close_reaped
      BY <2>16, CloseKeeps
    <2>17. CASE request_termination
      BY <2>17, ControlKeeps
    <2>18. CASE WorkerReads \/ WorkerAnswers
      BY Zenon, <2>18, FrameKeeps DEF WorkerReads, WorkerAnswers
    <2>19. CASE UNCHANGED supervisedVars
      BY Zenon, <2>19, FrameKeeps DEF supervisedVars
    <2> QED
      BY ZenonT(60), <2>1, <2>2, <2>3, <2>4, <2>5, <2>6, <2>7, <2>8, <2>9, <2>10, <2>11, <2>12, <2>13,
         <2>14, <2>15, <2>16, <2>17, <2>18, <2>19 DEF SupervisedNext
  <1> QED
    BY <1>1, <1>2, PTL DEF SupervisedSpec

(* close_reaped hands out its proof, and a poisoned transport returns under a
   watchdog that has not failed, only when the worker's child has been reaped and
   its cgroup is empty. *)
THEOREM StoppedIsGone == SupervisedSpec => []StoppedMeansGone
  <1>1. SupervisedInv => StoppedMeansGone
    BY Zenon DEF SupervisedInv, HostInv, DogInv, StoppedMeansGone
  <1> QED
    BY <1>1, Supervised, PTL

(* No call that was late, or was stopped while armed, returns its result, whatever
   the order in which the deadline, the stop and the answer arrive
   (finish_watchdog_call). *)
THEOREM StoppedNeverAccepted == SupervisedSpec => []StoppedCallRefused
  <1>1. SupervisedInv => StoppedCallRefused
    BY Zenon DEF SupervisedInv, CallInv
  <1> QED
    BY <1>1, Supervised, PTL

(* The supervised session uses its frames as SessionFrames allows: every step
   seals one message, opens one frame, or touches none. *)
LEMMA FrameSteps == SupervisedNext => [Next]_vars
  <1> SUFFICES ASSUME SupervisedNext PROVE [Next]_vars
    BY Zenon
  <1>1. HostEnd \in Endpoints /\ WorkerEnd \in Endpoints
    BY Zenon, SupervisedWorkerAssumption, PeerType DEF HostEnd, WorkerEnd, Endpoints, Roles
  <1>2. \A body \in Bodies : Message(body) \in Messages
    BY Zenon, SupervisedWorkerAssumption DEF Message, Messages
  <1>3. CASE SendRequest \/ SendFails
    BY Zenon, <1>1, <1>2, <1>3, SupervisedWorkerAssumption DEF SendRequest, SendFails, Next
  <1>4. CASE ReceiveFrame \/ WorkerReads
    BY Zenon, <1>1, <1>4 DEF ReceiveFrame, WorkerReads, Next
  <1>5. CASE WorkerAnswers
    BY Zenon, <1>1, <1>2, <1>5 DEF WorkerAnswers, Next
  <1>6. CASE ~(SendRequest \/ SendFails \/ ReceiveFrame \/ WorkerReads \/ WorkerAnswers)
    <2>1. UNCHANGED frameVars
      BY Zenon, <1>6 DEF SupervisedNext, ChildExits, TreeEnds, CallTimeElapses, SessionTimeElapses, Expire,
         arm_watchdog_call, finish_watchdog_call, HandleTerminate, HandleShutdown, Handle, ThreadEnds,
         dispatch, SealRefused, ReceiveRefused, ReceiveFails, Armed, Finished, Stopped, Discarded,
         shutdown, close_reaped, ClientStep, request_termination
    <2> QED
      BY Zenon, <2>1 DEF frameVars, vars
  <1> QED
    BY Zenon, <1>3, <1>4, <1>5, <1>6

(* The first frames of the sessions are as their senders sealed them. *)
LEMMA FirstFrames == SupervisedInit => FrameInv
  <1> SUFFICES ASSUME SupervisedInit PROVE FrameInv
    OBVIOUS
  <1>1. \A e \in Endpoints : FirstMessage(e) \in Messages
    BY Zenon, SupervisedWorkerAssumption DEF FirstMessage, Messages, Endpoints
  <1>2. \A e \in Endpoints : Peer(e) \in Endpoints /\ (e.role # "Host" => Peer(e).role = "Host")
    BY Zenon DEF Peer, peer, Endpoints, Roles
  <1>3. WorkerEnd \in Endpoints /\ WorkerEnd.role = "Worker"
    BY Zenon, SupervisedWorkerAssumption DEF WorkerEnd, HostEnd, Peer, peer, Endpoints, Roles
  <1>4. 1 \in 1..MaxSequence /\ 2 \in 1..MaxSequence
    BY SMTT(30), SupervisedWorkerAssumption, SessionFramesAssumption
  <1>5. \A e \in Endpoints : FirstFrame(e) \in Frames
    BY <1>1, <1>4 DEF FirstFrame, Frames, Tag, Sequences
  <1>6. wire \subseteq Frames
    BY Zenon, <1>5 DEF SupervisedInit
  <1>7. \A m \in Messages : <<m>> \in Seq(Messages) /\ Len(<<m>>) = 1 /\ <<m>>[1] = m
    BY SMTT(30)
  <1>8. /\ sent \in [Endpoints -> Seq(Messages)]
        /\ \A e \in Endpoints : sent[e] = IF e = WorkerEnd THEN << >> ELSE <<FirstMessage(e)>>
    BY SMTT(30), <1>1, <1>7 DEF SupervisedInit
  <1>9. /\ received \in [Endpoints -> Seq(Messages)]
        /\ \A e \in Endpoints :
             received[e] = IF e.role = "Host" THEN << >> ELSE <<FirstMessage(Peer(e))>>
    BY <1>1, <1>2, <1>7 DEF SupervisedInit
  <1>10. TypeOK
    BY ZenonT(60), <1>4, <1>6, <1>8, <1>9 DEF SupervisedInit, TypeOK
  <1>11. Counted
    BY SMTT(30), <1>1, <1>2, <1>7, <1>8, <1>9 DEF SupervisedInit, Counted
  <1>12. ASSUME NEW f \in wire PROVE Genuine(f)
    <2>1. PICK e \in Endpoints \ {WorkerEnd} : f = FirstFrame(e)
      BY Zenon DEF SupervisedInit
    <2>2. /\ f.sequence = 1 /\ f.message = FirstMessage(e)
          /\ f.tag.sender = e /\ f.tag.sequence = 1 /\ f.tag.message = FirstMessage(e)
      BY Zenon, <2>1 DEF FirstFrame, Tag
    <2>3. sent[e] = <<FirstMessage(e)>>
      BY Zenon, <1>8
    <2> QED
      BY <1>1, <1>7, <2>2, <2>3 DEF Genuine
  <1>13. ASSUME NEW e \in Endpoints
         PROVE  /\ Len(received[e]) <= Len(sent[Peer(e)])
                /\ \A i \in 1..Len(received[e]) : received[e][i] = sent[Peer(e)][i]
    <2>1. CASE e.role = "Host"
      <3>1. received[e] = << >> /\ sent[Peer(e)] \in Seq(Messages)
        BY Zenon, <1>2, <1>8, <1>9, <2>1
      <3> QED
        BY <3>1
    <2>2. CASE e.role # "Host"
      <3>1. Peer(e) \in Endpoints /\ Peer(e) # WorkerEnd
        BY Zenon, <1>2, <1>3, <2>2
      <3>2. received[e] = <<FirstMessage(Peer(e))>> /\ sent[Peer(e)] = <<FirstMessage(Peer(e))>>
        BY Zenon, <1>8, <1>9, <2>2, <3>1
      <3> QED
        BY SMTT(30), <1>1, <1>7, <3>1, <3>2
    <2> QED
      BY Zenon, <2>1, <2>2
  <1> QED
    BY Zenon, <1>10, <1>11, <1>12, <1>13 DEF FrameInv, DeliversInOrder

(* Under supervision too, with frames lost at a stop and answers that come too
   late, host and worker receive what the other sent, once and in order. *)
THEOREM SupervisedDelivery == SupervisedSpec => []DeliversInOrder
  <1>1. SupervisedInit => FrameInv
    BY Zenon, FirstFrames
  <1>2. FrameInv /\ [SupervisedNext]_supervisedVars => FrameInv'
    <2> SUFFICES ASSUME FrameInv, [SupervisedNext]_supervisedVars PROVE FrameInv'
      OBVIOUS
    <2>1. CASE Next
      BY Zenon, <2>1, SealStep, OpenStep DEF Next
    <2>2. CASE UNCHANGED vars
      BY Zenon, <2>2 DEF vars, FrameInv, TypeOK, Counted, Genuine, DeliversInOrder
    <2> QED
      BY Zenon, <2>1, <2>2, FrameSteps DEF supervisedVars, frameVars, vars
  <1>3. FrameInv => DeliversInOrder
    BY DEF FrameInv
  <1> QED
    BY <1>1, <1>2, <1>3, PTL DEF SupervisedSpec
=============================================================================
