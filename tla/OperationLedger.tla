--------------------------- MODULE OperationLedger ---------------------------
(***************************************************************************)
(* The host's durable record of external effects, WorkflowOperationLedger  *)
(* of octoscript-workflow (src/lib.rs): which operations of a plan may     *)
(* have been dispatched, what a worker last reported of each, and whether  *)
(* an inverse effect was decided on.  A ledger is data: every operator     *)
(* returns the ledger that the method leaves behind, and is used only      *)
(* where the method's refusal, given beside it, does not apply.            *)
(*                                                                         *)
(* An operation key stands for the derived key: the digest of the step,    *)
(* the tool, the canonical input and the host's nonce.  Two operations     *)
(* with the same key therefore have the same binding and the same input.   *)
(***************************************************************************)
EXTENDS Naturals, FiniteSets

CONSTANT MaxOperations      \* MAX_WORKFLOW_OPERATIONS

Terminal == {"succeeded", "failed", "cancelled"}
OperationStates == {"pending", "running"} \cup Terminal

is_terminal(s) == s \in Terminal

(* WorkflowOperationState::accepts *)
accepts(current, observed) ==
    IF is_terminal(current) THEN observed = current
    ELSE observed \in OperationStates \ {"pending"}

for_plan == [revision |-> 0, operations |-> << >>]

Recorded(l, k) == k \in DOMAIN l.operations
State(l, k) == l.operations[k].state
Compensation(l, k) == l.operations[k].compensation
Settled(l, k) == Recorded(l, k) /\ is_terminal(State(l, k))

(* A change of the ledger moves its revision; no other call does. *)
Revise(l, k, operation) ==
    [revision |-> l.revision + 1,
     operations |-> [x \in DOMAIN l.operations \cup {k} |->
                        IF x = k THEN operation ELSE l.operations[x]]]

RecordRefused(l, k) ==
    Recorded(l, k) \/ Cardinality(DOMAIN l.operations) >= MaxOperations

record(l, k) == Revise(l, k, [state |-> "pending", compensation |-> "none"])

CompensationRefused(l, k) ==
    ~Recorded(l, k) \/ State(l, k) # "succeeded" \/ Compensation(l, k) # "none"

record_compensation(l, k) ==
    Revise(l, k, [l.operations[k] EXCEPT !.compensation = "pending"])

ObservationRefused(l, k, observed) ==
    ~Recorded(l, k) \/ ~accepts(State(l, k), observed)

(* The variant reads a cancelled operation as one that succeeded. *)
apply_cancelled_as_succeeded(l, k, observed) ==
    LET state == IF observed = "cancelled" THEN "succeeded" ELSE observed
    IN  IF State(l, k) = state THEN l
        ELSE Revise(l, k, [l.operations[k] EXCEPT !.state = state])

apply_verified_reconciliation(l, k, observed) ==
    IF State(l, k) = observed THEN l
    ELSE Revise(l, k, [l.operations[k] EXCEPT !.state = observed])

CompensationObservationRefused(l, k, observed) ==
    \/ ~Recorded(l, k)
    \/ Compensation(l, k) = "none"
    \/ ~accepts(Compensation(l, k), observed)

apply_verified_compensation(l, k, observed) ==
    IF Compensation(l, k) = observed THEN l
    ELSE Revise(l, k, [l.operations[k] EXCEPT !.compensation = observed])

=============================================================================
