--------------------------- MODULE SessionFrames ---------------------------
(***************************************************************************)
(* The authenticated frames of octoscript-protocol: SessionAuthenticator   *)
(* and its directional halves SessionFrameSealer and SessionFrameOpener.   *)
(* Host and worker of every session seal messages with a keyed tag over    *)
(* sender, sequence number and message, and open what arrives.  The        *)
(* transport is an arbitrary one: it may lose, repeat, reorder, reflect,   *)
(* misroute and damage frames.  The keyed hash is taken to be collision    *)
(* free, so a tag is the tuple it authenticates.                           *)
(***************************************************************************)
EXTENDS Naturals, Sequences

CONSTANTS
    Sessions,       \* sessions, each with a key of its own
    Bodies,         \* what messages say
    MaxSequence     \* u64::MAX

ASSUME SessionFramesAssumption == MaxSequence \in Nat \ {0}

VARIABLES
    outgoing,   \* next_outgoing_sequence of each endpoint
    incoming,   \* next_incoming_sequence of each endpoint
    wire,       \* every frame that was ever sealed
    sent,       \* history: the messages each endpoint sealed
    received    \* history: the messages each endpoint opened

vars == <<outgoing, incoming, wire, sent, received>>

Roles == {"Host", "Worker"}
Endpoints == [session : Sessions, role : Roles]
Messages == [session : Sessions, body : Bodies]
Sequences == 0..MaxSequence
Frames == [sequence : Sequences, message : Messages,
           tag : [sender : Endpoints, sequence : Sequences, message : Messages]]

peer(role) == IF role = "Host" THEN "Worker" ELSE "Host"

Peer(e) == [e EXCEPT !.role = peer(@)]

(* Number 0 is invalid. *)
Init ==
    /\ outgoing = [e \in Endpoints |-> 1]
    /\ incoming = [e \in Endpoints |-> 1]
    /\ wire = {}
    /\ sent = [e \in Endpoints |-> << >>]
    /\ received = [e \in Endpoints |-> << >>]

(* authentication_tag: the session's key, the sender's role, the sequence number
   and the message. *)
Tag(e, n, m) == [sender |-> e, sequence |-> n, message |-> m]

(* Numbers saturate, and the last one is never used. *)
NumberLeft(n) == n # MaxSequence

saturating_add(n) == IF n = MaxSequence THEN n ELSE n + 1

seal(e, m) ==
    /\ m.session = e.session
    /\ NumberLeft(outgoing[e])
    /\ wire' = wire \cup {[sequence |-> outgoing[e], message |-> m, tag |-> Tag(e, outgoing[e], m)]}
    /\ outgoing' = [outgoing EXCEPT ![e] = saturating_add(@)]
    /\ sent' = [sent EXCEPT ![e] = Append(@, m)]
    /\ UNCHANGED <<incoming, received>>

(* What may arrive at any endpoint, at any time: a frame somebody sealed, as it
   was or with another number or message. *)
Arrivals ==
    wire \cup {[f EXCEPT !.sequence = n] : f \in wire, n \in Sequences}
         \cup {[f EXCEPT !.message = m] : f \in wire, m \in Messages}

(* open's checks; the variant accepts numbers that were skipped to. *)
AcceptsGaps(e, f) ==
    /\ f.sequence # 0
    /\ f.tag = Tag(Peer(e), f.sequence, f.message)
    /\ f.message.session = e.session
    /\ f.sequence >= incoming[e]
    /\ NumberLeft(incoming[e])

Accepts(e, f) ==
    /\ f.sequence # 0
    /\ f.tag = Tag(Peer(e), f.sequence, f.message)
    /\ f.message.session = e.session
    /\ f.sequence = incoming[e]
    /\ NumberLeft(incoming[e])

(* open: a frame that is not accepted changes nothing. *)
open(e, f) ==
    /\ Accepts(e, f)
    /\ incoming' = [incoming EXCEPT ![e] = saturating_add(@)]
    /\ received' = [received EXCEPT ![e] = Append(@, f.message)]
    /\ UNCHANGED <<outgoing, wire, sent>>

Next ==
    \E e \in Endpoints :
        \/ \E m \in Messages : seal(e, m)
        \/ \E f \in Arrivals : open(e, f)

Spec == Init /\ [][Next]_vars

-----------------------------------------------------------------------------
(* Properties. *)

(* Every variable keeps its type: in particular sequence numbers start at 1 and
   never pass the last one (SessionAuthenticator::new, saturating_add). *)
TypeOK ==
    /\ outgoing \in [Endpoints -> 1..MaxSequence]
    /\ incoming \in [Endpoints -> 1..MaxSequence]
    /\ wire \subseteq Frames
    /\ sent \in [Endpoints -> Seq(Messages)]
    /\ received \in [Endpoints -> Seq(Messages)]

(* "open rejects tampering, a wrong key, reflected host frames, replayed frames,
   and any non-next sequence number": whatever the transport does, what an
   endpoint has received is what its peer has sent it so far, from the first
   message on, each once, in order, and of no other session. *)
DeliversInOrder ==
    \A e \in Endpoints :
        /\ Len(received[e]) <= Len(sent[Peer(e)])
        /\ \A i \in 1..Len(received[e]) : received[e][i] = sent[Peer(e)][i]

(* No two messages of a direction are ever sealed under one number, not even
   when the numbers run out. *)
NumbersUsedOnce ==
    \A f, g \in wire :
        f.tag.sender = g.tag.sender /\ f.tag.sequence = g.tag.sequence => f = g
=============================================================================
