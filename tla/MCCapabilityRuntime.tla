------------------------ MODULE MCCapabilityRuntime ------------------------
(* One local and one external tool, and a lease for part of the catalog, which
   allows one call of a tool that may be called twice.  Two promises with a
   retry each; three that compete for two places; one with a retry and a chunk
   of output; and one under a soft time budget. *)
EXTENDS CapabilityRuntime

ToolNames == {"local", "remote"}
ExternalTools == {"remote"}
LeaseNames == {"lease"}
LeaseGrants == [l \in LeaseNames |-> [t \in ToolNames |-> IF t = "remote" THEN 1 ELSE 0]]

Configurations ==
    {[promises |-> 2, attempts |-> 2, chunks |-> 0, soft |-> FALSE],
     [promises |-> 3, attempts |-> 1, chunks |-> 0, soft |-> FALSE],
     [promises |-> 1, attempts |-> 2, chunks |-> 1, soft |-> FALSE],
     [promises |-> 1, attempts |-> 1, chunks |-> 1, soft |-> TRUE]}

SoftConfiguration == {[promises |-> 2, attempts |-> 2, chunks |-> 1, soft |-> TRUE]}
=============================================================================
