-------------------------- MODULE MCWorkflowEngine --------------------------
(* A plan of three steps, executed plainly and as a dataflow, under shared and
   per-step leases. *)
EXTENDS WorkflowEngine

MCModes == {"plain", "dataflow"}
MCLeasings == {"shared", "per_step"}

=============================================================================
