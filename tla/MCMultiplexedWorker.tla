------------------------ MODULE MCMultiplexedWorker ------------------------
(* All constants are numbers and come from the configurations. *)
EXTENDS MultiplexedWorker
=============================================================================
