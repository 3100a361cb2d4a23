--------------------------- MODULE FencedHistory ---------------------------
(***************************************************************************)
(* The fenced record of FencedStore with the history of its writes: the    *)
(* payload written at each revision and the token it was written under.    *)
(* Without the history a write under an old token could pass for one under *)
(* the current token.                                                      *)
(***************************************************************************)
EXTENDS FencedStore, Sequences

VARIABLE log    \* the writes that took effect, by revision

historyVars == <<storeVars, log>>

HistoryInit == Init /\ log = << >>

Write(expected, new, token) ==
    /\ compare_and_swap(expected, new, token)
    /\ log' = Append(log, [payload |-> new, token |-> token])

HistoryNext ==
    \/ \E e \in 0..MaxRevision, v \in Payloads, t \in 0..MaxFence : Write(e, v, t)
    \/ /\ reserve_fence \/ \E t \in 1..MaxFence : establish_fence(t)
       /\ UNCHANGED log

HistorySpec == HistoryInit /\ [][HistoryNext]_historyVars
=============================================================================
