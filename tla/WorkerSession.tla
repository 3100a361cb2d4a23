--------------------------- MODULE WorkerSession ---------------------------
(***************************************************************************)
(* Durable operations of contained workers: WorkerSession over one         *)
(* WorkerOperationJournal, kept in a fenced, rollback-protected record.    *)
(*                                                                         *)
(* Several worker processes may hold a session for the same journal scope: *)
(* a restarted or superseding worker opens a new one while the old one may *)
(* still be running.  An operation and its compensation go through the     *)
(* same steps and are two slots of one journal record.  Requests that end  *)
(* in an error before anything changes (an identity mismatch, a pending    *)
(* operation, an exhausted budget, a full journal) leave the state alone   *)
(* and are not written out as steps.                                       *)
(***************************************************************************)
EXTENDS Naturals, FiniteSets

CONSTANTS
    Workers,            \* processes that may hold a session
    Keys,               \* operation keys
    Identities,         \* tool and input fingerprint, or compensation key
    NoIdentity,
    NoJournal,          \* the record is absent from the store
    MaxRevision,        \* bound on the journal revision
    MaxFence,           \* bound on the fencing tokens
    MaxRecords,         \* MAX_WORKER_OPERATION_RECORDS
    MaxReconciliations  \* the session's reconciliation budget

ASSUME WorkerSessionAssumption ==
    /\ NoIdentity \notin Identities
    /\ MaxRevision \in Nat \ {0}
    /\ MaxFence \in Nat \ {0}
    /\ MaxRecords \in Nat \ {0}
    /\ MaxReconciliations \in Nat \ {0}

VARIABLES
    durable,        \* the stored journal, or NoJournal
    floor,          \* its revision
    fence,          \* the current fencing token of its record
    external,       \* leases come from an authority outside the store
    issued,         \* the last token issued by an outside authority
    mode,           \* closed, loaded, open, poisoned
    pc,             \* where the session is in handle()
    journal,        \* WorkerSession.journal
    revision,       \* WorkerSession.journal_revision
    lease,          \* WorkerSession.journal_lease
    before,         \* journal_before_admission / journal_before_observation
    request,        \* the request being handled
    reconciliations,\* reconciliations_total
    provider,       \* the external effect: none, running, done, refused
    calls,          \* history: adapter calls made for each effect
    reported        \* history: statuses sent to the host

storeVars == <<durable, floor, fence>>
authority == <<external, issued>>
sessionVars == <<mode, pc, journal, revision, lease, before, request, reconciliations>>
worldVars == <<provider, calls, reported>>
vars == <<storeVars, authority, sessionVars, worldVars>>

-----------------------------------------------------------------------------
(* WorkerOperationState and the journal. *)

Slots == {"operation", "compensation"}

Terminal == {"Succeeded", "Failed", "Cancelled"}

States == {"Absent", "Pending", "Running"} \cup Terminal

Record == [Slots -> [state : States, identity : Identities \cup {NoIdentity}]]

Journals == [Keys -> Record]

EmptyJournal ==
    [k \in Keys |-> [s \in Slots |-> [state |-> "Absent", identity |-> NoIdentity]]]

(* WorkerOperationState::accepts; the variant lets a terminal state change. *)
acceptsAnything(current, observed) == observed # "Pending"

accepts(current, observed) ==
    IF current \in Terminal THEN observed = current ELSE observed # "Pending"

Records(j) == {k \in Keys : j[k]["operation"].state # "Absent"}

(* The record with an observed state; the variant gives the state of a
   compensation to its operation. *)
WithOperationState(j, k, s, state) == [j EXCEPT ![k]["operation"].state = state]

WithState(j, k, s, state) == [j EXCEPT ![k][s].state = state]

Store == INSTANCE FencedStore WITH
    Payloads <- Journals, NoPayload <- NoJournal, payload <- durable

NoRequest == [slot |-> "operation", key |-> CHOOSE k \in Keys : TRUE,
              after |-> "none"]

Init ==
    /\ Store!Init
    /\ external \in BOOLEAN
    /\ issued = 0
    /\ mode = [w \in Workers |-> "closed"]
    /\ pc = [w \in Workers |-> "idle"]
    /\ journal = [w \in Workers |-> EmptyJournal]
    /\ revision = [w \in Workers |-> 0]
    /\ lease = [w \in Workers |-> 0]
    /\ before = [w \in Workers |-> EmptyJournal]
    /\ request = [w \in Workers |-> NoRequest]
    /\ reconciliations = [w \in Workers |-> 0]
    /\ provider = [k \in Keys |-> [s \in Slots |-> "none"]]
    /\ calls = [k \in Keys |-> [s \in Slots |-> 0]]
    /\ reported = [k \in Keys |-> [s \in Slots |-> {}]]

-----------------------------------------------------------------------------
(* Opening a session. *)

(* AuthenticatedWorkerJournalStore::load *)
load(w) ==
    /\ mode[w] = "closed"
    /\ mode' = [mode EXCEPT ![w] = "loaded"]
    /\ journal' = [journal EXCEPT ![w] = IF floor = 0 THEN EmptyJournal ELSE durable]
    /\ revision' = [revision EXCEPT ![w] = floor]
    /\ UNCHANGED <<storeVars, authority, pc, lease, before, request,
                   reconciliations, worldVars>>

(* The admission policy's token: reserve_fence, or an outside authority. *)
Admit(w) ==
    \/ /\ ~external
       /\ Store!reserve_fence
       /\ lease' = [lease EXCEPT ![w] = fence + 1]
       /\ UNCHANGED authority
    \/ /\ external
       /\ issued < MaxFence
       /\ issued' = issued + 1
       /\ lease' = [lease EXCEPT ![w] = issued + 1]
       /\ UNCHANGED <<storeVars, external>>

(* WorkerSession::open: the lease comes after the journal was loaded. *)
open(w) ==
    /\ mode[w] = "loaded"
    /\ Admit(w)
    /\ mode' = [mode EXCEPT ![w] = "open"]
    /\ UNCHANGED <<pc, journal, revision, before, request, reconciliations,
                   worldVars>>

(* The process dies, or its host discards the session. *)
Crash(w) ==
    /\ mode[w] # "closed"
    /\ mode' = [mode EXCEPT ![w] = "closed"]
    /\ pc' = [pc EXCEPT ![w] = "idle"]
    /\ journal' = [journal EXCEPT ![w] = EmptyJournal]
    /\ revision' = [revision EXCEPT ![w] = 0]
    /\ lease' = [lease EXCEPT ![w] = 0]
    /\ before' = [before EXCEPT ![w] = EmptyJournal]
    /\ request' = [request EXCEPT ![w] = NoRequest]
    /\ reconciliations' = [reconciliations EXCEPT ![w] = 0]
    /\ UNCHANGED <<storeVars, authority, worldVars>>

-----------------------------------------------------------------------------
(* Persisting the journal.  A request is at its admission until the adapter
   answered (`after` is "none") and then at its observation of `after`. *)

Slot(w) == request[w].slot
Key(w) == request[w].key
Observing(w) == request[w].after # "none"

(* persist_journal keeps the previous journal until the store answered. *)
BeginPersist(w, j) ==
    /\ journal' = [journal EXCEPT ![w] = j]
    /\ before' = [before EXCEPT ![w] = journal[w]]
    /\ pc' = [pc EXCEPT ![w] = "establish"]

(* The request ends without an answer to the host. *)
EndRequest(w) ==
    /\ pc' = [pc EXCEPT ![w] = "idle"]
    /\ request' = [request EXCEPT ![w] = NoRequest]

(* The request is answered with a status (seal_response). *)
Report(k, s, status) == reported' = [reported EXCEPT ![k][s] = @ \cup {status}]

(* persist_journal on any error: restore the journal and poison the session;
   the variant calls the adapter although its intent was not stored. *)
CallAnyway(w) ==
    /\ IF Observing(w)
       THEN EndRequest(w)
       ELSE pc' = [pc EXCEPT ![w] = "call"] /\ UNCHANGED request
    /\ journal' = [journal EXCEPT ![w] = before[w]]
    /\ mode' = [mode EXCEPT ![w] = "poisoned"]
    /\ UNCHANGED <<revision, lease, before, reconciliations>>

Poison(w) ==
    /\ EndRequest(w)
    /\ journal' = [journal EXCEPT ![w] = before[w]]
    /\ mode' = [mode EXCEPT ![w] = "poisoned"]
    /\ UNCHANGED <<revision, lease, before, reconciliations>>

(* The fenced compare-and-swap of the journal; one variant forgets the
   revision the session loaded, the other the lease it holds. *)
CommitAnyRevision(w) == Store!compare_and_swap(floor, journal[w], lease[w])

CommitAnyLease(w) == Store!compare_and_swap(revision[w], journal[w], fence)

Commit(w) == Store!compare_and_swap(revision[w], journal[w], lease[w])

(* compare_and_swap_fenced, first half: establish_fence. *)
EstablishFence(w) ==
    /\ pc[w] = "establish"
    /\ \/ /\ lease[w] < fence
          /\ Poison(w)
          /\ UNCHANGED storeVars
       \/ /\ \/ lease[w] = fence /\ UNCHANGED storeVars
             \/ Store!establish_fence(lease[w])
          /\ pc' = [pc EXCEPT ![w] = "write"]
          /\ UNCHANGED <<mode, journal, revision, lease, before, request,
                         reconciliations>>
    /\ UNCHANGED <<authority, worldVars>>

(* The write was refused: another session moved the revision or the fence. *)
PersistRefused(w) ==
    /\ pc[w] = "write"
    /\ lease[w] # fence \/ revision[w] # floor
    /\ Poison(w)
    /\ UNCHANGED <<storeVars, authority, worldVars>>

(* The write is durable: on to the adapter call, or to the answer. *)
PersistAccepted(w) ==
    /\ pc[w] = "write"
    /\ Commit(w)
    /\ revision' = [revision EXCEPT ![w] = floor']
    /\ \/ /\ ~Observing(w)
          /\ pc' = [pc EXCEPT ![w] = "call"]
          /\ UNCHANGED <<request, reported>>
       \/ /\ Observing(w)
          /\ EndRequest(w)
          /\ Report(Key(w), Slot(w), request[w].after)
    /\ UNCHANGED <<authority, mode, journal, lease, before, reconciliations,
                   provider, calls>>

(* The store fails, before or after the write took effect. *)
PersistFailed(w) ==
    /\ pc[w] \in {"establish", "write"}
    /\ \/ UNCHANGED storeVars
       \/ /\ pc[w] = "write"
          /\ Commit(w)
    /\ Poison(w)
    /\ UNCHANGED <<authority, worldVars>>

-----------------------------------------------------------------------------
(* Requests. *)

(* WorkerOperationJournal::admit and ::admit_compensation for a slot that has
   no record: a compensation needs a succeeded operation. *)
Admissible(j, k, s) ==
    /\ j[k][s].state = "Absent"
    /\ s = "operation" => Cardinality(Records(j)) < MaxRecords
    /\ s = "compensation" => j[k]["operation"].state = "Succeeded"

(* handle_operation_dispatch and handle_compensation: an exact duplicate is
   answered from the journal, a new request is recorded as pending. *)
handle_dispatch(w, s, k, id) ==
    /\ mode[w] = "open"
    /\ pc[w] = "idle"
    /\ \/ /\ journal[w][k][s].identity = id
          /\ journal[w][k][s].state \notin {"Absent", "Pending"}
          /\ Report(k, s, journal[w][k][s].state)
          /\ UNCHANGED <<pc, journal, before, request>>
       \/ /\ Admissible(journal[w], k, s)
          /\ BeginPersist(w, [journal[w] EXCEPT ![k][s] =
                                 [state |-> "Pending", identity |-> id]])
          /\ request' = [request EXCEPT ![w] =
                            [slot |-> s, key |-> k, after |-> "none"]]
          /\ UNCHANGED reported
    /\ UNCHANGED <<storeVars, authority, mode, revision, lease, reconciliations,
                   provider, calls>>

(* The status an adapter gives for the state of its effect: it says Failed or
   Cancelled only when it knows the effect did not and will not happen. *)
Statuses(effect) ==
    CASE effect = "done" -> {"Succeeded"}
      [] effect = "refused" -> {"Failed", "Cancelled"}
      [] effect = "running" -> {"Running"}
      [] OTHER -> {}

(* observe / observe_compensation / observe_reconciliation: the status becomes
   the state of the record, or is refused and leaves the journal alone (a
   terminal state does not change; the journal or the payload is too large). *)
Observe(w, k, s, status) ==
    \/ /\ accepts(journal[w][k][s].state, status)
       /\ BeginPersist(w, WithState(journal[w], k, s, status))
       /\ request' = [request EXCEPT ![w] =
                         [slot |-> s, key |-> k, after |-> status]]
    \/ /\ EndRequest(w)
       /\ UNCHANGED <<journal, before>>

(* dispatch_operation / compensate_operation: the adapter acts on a provider
   that has not settled the key, and answers with a status or an error. *)
CallAdapter(w) ==
    /\ pc[w] = "call"
    /\ calls' = [calls EXCEPT ![Key(w)][Slot(w)] = @ + 1]
    /\ \E effect \in {"none", "running", "done", "refused"} :
          /\ provider[Key(w)][Slot(w)] # "none" => effect = provider[Key(w)][Slot(w)]
          /\ provider' = [provider EXCEPT ![Key(w)][Slot(w)] = effect]
          /\ \/ \E status \in Statuses(effect) : Observe(w, Key(w), Slot(w), status)
             \/ /\ EndRequest(w)
                /\ UNCHANGED <<journal, before>>
    /\ UNCHANGED <<storeVars, authority, mode, revision, lease, reconciliations,
                   reported>>

(* reserve_reconciliation: spent before the adapter is asked. *)
reserve_reconciliation(w) ==
    /\ reconciliations[w] < MaxReconciliations
    /\ reconciliations' = [reconciliations EXCEPT ![w] = @ + 1]

(* handle_reconciliation: the adapter reports the state of an admitted
   operation.  A provider that has not seen the key is asked to refuse it from
   now on, or the adapter answers with an error. *)
handle_reconciliation(w, k) ==
    /\ mode[w] = "open"
    /\ pc[w] = "idle"
    /\ journal[w][k]["operation"].state # "Absent"
    /\ reserve_reconciliation(w)
    /\ \/ \E effect \in {"running", "done", "refused"} :
             /\ \/ effect = provider[k]["operation"]
                \/ effect = "refused" /\ provider[k]["operation"] = "none"
             /\ provider' = [provider EXCEPT ![k]["operation"] = effect]
             /\ \E status \in Statuses(effect) : Observe(w, k, "operation", status)
       \/ UNCHANGED <<provider, pc, journal, before, request>>
    /\ UNCHANGED <<storeVars, authority, mode, revision, lease, calls, reported>>

(* A started effect settles at its provider. *)
ProviderSettles(k, s) ==
    /\ provider[k][s] = "running"
    /\ provider' \in {[provider EXCEPT ![k][s] = e] : e \in {"done", "refused"}}
    /\ UNCHANGED <<storeVars, authority, sessionVars, calls, reported>>

-----------------------------------------------------------------------------

Next ==
    \/ \E w \in Workers :
          \/ load(w) \/ open(w) \/ Crash(w)
          \/ EstablishFence(w) \/ PersistRefused(w) \/ PersistAccepted(w)
          \/ PersistFailed(w) \/ CallAdapter(w)
          \/ \E k \in Keys :
                \/ handle_reconciliation(w, k)
                \/ \E s \in Slots, id \in Identities : handle_dispatch(w, s, k, id)
    \/ \E k \in Keys, s \in Slots : ProviderSettles(k, s)

Spec == Init /\ [][Next]_vars

-----------------------------------------------------------------------------
(* Properties. *)

Stored(k, s) == IF floor = 0 THEN "Absent" ELSE durable[k][s].state

(* An effect is asked for at most once, whatever the host resends, wherever a
   worker dies, and however many sessions hold the journal: a worker acts only
   after its own pending record was accepted by the store. *)
EffectAtMostOnce == \A k \in Keys, s \in Slots : calls[k][s] <= 1

(* "Effectful paths persist journal intent before an adapter call": no effect
   exists for which the durable journal has no record. *)
IntentBeforeEffect ==
    \A k \in Keys, s \in Slots :
        calls[k][s] > 0 \/ provider[k][s] # "none" => Stored(k, s) # "Absent"

(* "... and persist the observed state before a response": what a host was told
   is what the store says from then on, also if the session that answered had
   been superseded. *)
ResponsesAreDurable ==
    \A k \in Keys, s \in Slots : \A status \in reported[k][s] :
        \/ Stored(k, s) = status
        \/ status = "Running" /\ Stored(k, s) \in Terminal

(* The journal tells the truth about the outside world, as far as adapters do:
   a recorded success happened, a recorded failure never will, and nothing is
   compensated that did not happen. *)
JournalIsTruthful ==
    /\ \A k \in Keys, s \in Slots :
          /\ Stored(k, s) = "Succeeded" => provider[k][s] = "done"
          /\ Stored(k, s) \in {"Failed", "Cancelled"} => provider[k][s] = "refused"
    /\ \A k \in Keys : calls[k]["compensation"] > 0 =>
          provider[k]["operation"] = "done" /\ Stored(k, "operation") = "Succeeded"

(* A superseded session neither acts nor takes anything back.  An adapter is
   called only under a lease that is still current when the intent becomes
   durable (where the store issues the leases, no later session has been opened
   by then), and whichever session writes, a durable record never disappears,
   never changes its identity, never goes back to pending, and never leaves a
   terminal state. *)
StaleSessionsAreHarmless ==
    [][/\ \A w \in Workers : pc[w] = "write" /\ pc'[w] = "call" =>
             /\ lease[w] = fence
             /\ ~external => \A v \in Workers : lease[v] <= lease[w]
       /\ \A k \in Keys, s \in Slots :
             /\ Stored(k, s) # "Absent" => durable'[k][s].identity = durable[k][s].identity
             /\ Stored(k, s) # "Absent" => Stored(k, s)' # "Absent"
             /\ Stored(k, s) \in Terminal => Stored(k, s)' = Stored(k, s)
             /\ Stored(k, s) = "Running" => Stored(k, s)' # "Pending"]_vars
=============================================================================
