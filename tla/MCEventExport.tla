--------------------------- MODULE MCEventExport ---------------------------
EXTENDS EventExport

CONSTANTS e1, e2, s1, s2

MCExporters == {e1, e2}

MCRuntimes == {s1, s2}

MCKinds == {"workflow", "audit", "cross", "memory"}

(* A view runs out of numbers after three events, the aggregator after three of
   the events of both sources. *)
MCEvents == [workflow |-> 4, audit |-> 3, cross |-> 2, memory |-> 2]
=============================================================================
