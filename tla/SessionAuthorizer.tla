------------------------- MODULE SessionAuthorizer -------------------------
(***************************************************************************)
(* SessionAuthorizer of octoscript-protocol for ordinary invocations and   *)
(* their cooperative cancellation.  Host and worker each hold one, made    *)
(* from the same manifest, and consult it before they send and after they  *)
(* receive.                                                                *)
(***************************************************************************)
EXTENDS Naturals, FiniteSets

CONSTANTS
    MaxCalls,   \* CapabilityGrant::max_calls
    MaxIds      \* MAX_SESSION_REQUEST_IDS

ASSUME SessionAuthorizerAssumption == MaxCalls \in Nat /\ MaxIds \in Nat

(* Invocations and cancellations share one namespace of request identities. *)
Invocation(r) == <<"invoke", r>>
Cancellation(r) == <<"cancel", r>>

Outcomes == {"Acknowledged", "TooLate", "Unsupported"}

NewAuthorizer ==
    [seen |-> {}, calls |-> 0, completed |-> {}, asked |-> {}, cancelled |-> {}]

(* reserve_request_id *)
CanReserve(a, id) == id \notin a.seen /\ Cardinality(a.seen) < MaxIds

(* authorize: the budget is spent before the call is dispatched. *)
MayAuthorize(a, r) == a.calls < MaxCalls /\ CanReserve(a, Invocation(r))

authorize(a, r) ==
    [a EXCEPT !.seen = @ \cup {Invocation(r)}, !.calls = @ + 1]

(* authorize_cancellation: once for each invocation. *)
MayAuthorizeCancellation(a, r) ==
    /\ r \notin a.cancelled \cup a.asked
    /\ CanReserve(a, Cancellation(r))

authorize_cancellation(a, r) ==
    [a EXCEPT !.seen = @ \cup {Cancellation(r)}, !.asked = @ \cup {r}]

(* validate_result *)
ValidResult(a, r) == r \notin a.cancelled /\ Invocation(r) \notin a.completed

validate_result(a, r) == [a EXCEPT !.completed = @ \cup {Invocation(r)}]

(* validate_cancellation_result: `too_late` comes after the result, the other
   dispositions only without one. *)
ValidDisposition(a, r, outcome) ==
    /\ Cancellation(r) \notin a.completed
    /\ outcome = "TooLate" <=> Invocation(r) \in a.completed

validate_cancellation_result(a, r, outcome) ==
    [a EXCEPT !.completed = @ \cup {Cancellation(r)},
              !.cancelled = IF outcome = "Acknowledged" THEN @ \cup {r} ELSE @]
=============================================================================
