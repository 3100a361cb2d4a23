---------------------------- MODULE FencedStore ----------------------------
(***************************************************************************)
(* What a rollback-protected, fenced record promises its callers: the      *)
(* atomic semantics that VolatileMemoryStore demonstrates and that every   *)
(* FencedRollbackProtectedStore backend must provide for one record key.   *)
(*                                                                         *)
(* A record is absent (floor 0) or holds the payload of revision `floor`.  *)
(* A write names the revision it replaces and the fencing token it writes  *)
(* under (0: the plain, unfenced compare_and_swap).                        *)
(***************************************************************************)
EXTENDS Naturals

CONSTANTS
    Payloads,       \* what a record may hold
    NoPayload,      \* the record is absent
    MaxRevision,    \* largest revision (u64::MAX in the code)
    MaxFence        \* largest fencing token (u64::MAX in the code)

VARIABLES
    payload,        \* records: the payload at the floor, or NoPayload
    floor,          \* revision_floors
    fence           \* fencing_tokens

storeVars == <<payload, floor, fence>>

Init ==
    /\ payload = NoPayload
    /\ floor = 0
    /\ fence = 0

(* compare_and_swap (token = 0) and compare_and_swap_fenced: the write takes
   effect only at the expected revision and under exactly the current fence;
   in every other case the store answers with a conflict or an error and is
   unchanged. *)
compare_and_swap(expected, new, token) ==
    /\ token = fence
    /\ expected = floor
    /\ expected < MaxRevision
    /\ payload' = new
    /\ floor' = expected + 1
    /\ UNCHANGED fence

(* reserve_fence: persists and hands out the next token. *)
reserve_fence ==
    /\ fence < MaxFence
    /\ fence' = fence + 1
    /\ UNCHANGED <<payload, floor>>

(* establish_fence: a higher token becomes current, a lower one is rejected. *)
establish_fence(token) ==
    /\ token > fence
    /\ fence' = token
    /\ UNCHANGED <<payload, floor>>
=============================================================================
