------------------------- MODULE MCSupervisedWorker -------------------------
(* A session whose first frame leaves one number for a call, so that a second
   call finds none; a control handle that asks once, and two failing system
   calls. *)
EXTENDS SupervisedWorker

CONSTANTS s1, s2

MCSessions == {s1, s2}
MCBodies == {"Request", "Result"}
=============================================================================
