-------------------------- MODULE MCDurableWorkflow --------------------------
(* A plan of two steps under one shared lease; a script paused by its soft time
   budget is left to WorkflowEngine.  A host alone, with a compensation and two
   executions or two calls; a host that executes once, with two recoveries or with
   one and a compensation; a host that executes twice, and one recovery. *)
EXTENDS DurableWorkflow

CONSTANTS r1, r2

MCModes == {"plain"}
MCLeasings == {"shared"}
MCOutcomes == {"succeeded", "cancelled"}
FirstCall == {<<1, 1>>}
MCRecoverers == {r1, r2}

MCScopes ==
    {[approvals |-> 2, calls |-> 1, compensable |-> FirstCall, recoverers |-> {}],
     [approvals |-> 1, calls |-> 2, compensable |-> FirstCall, recoverers |-> {}],
     [approvals |-> 1, calls |-> 1, compensable |-> FirstCall, recoverers |-> {r1}],
     [approvals |-> 1, calls |-> 1, compensable |-> {}, recoverers |-> {r1, r2}],
     [approvals |-> 2, calls |-> 1, compensable |-> {}, recoverers |-> {r1}]}
=============================================================================
