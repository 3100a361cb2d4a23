--------------------------- MODULE AnchoredStore ---------------------------
(***************************************************************************)
(* AnchoredSqliteStore under AuthenticatedStore, for one record key.       *)
(*                                                                         *)
(* Payload bytes live in a local SQLite file (`rows`); the current         *)
(* revision, the commitment of its payload and the fencing token live in a *)
(* linearizable rollback anchor (`anchor`).  A call is a sequence of       *)
(* separate accesses to the two: another process may act between any two   *)
(* of them, the caller may crash there, an access may fail, and the answer *)
(* of an anchor compare-and-swap may be lost after it took effect.         *)
(*                                                                         *)
(* A sealed record is a deterministic function of key, revision and        *)
(* payload, so a commitment is modelled by the payload it commits to and a *)
(* row by its revision and payload.                                        *)
(***************************************************************************)
EXTENDS Naturals, FiniteSets, Sequences

CONSTANTS
    Procs,          \* processes holding a store handle on the same SQLite file
    Payloads,
    NoPayload,
    MaxRevision,    \* largest revision (u64::MAX in the code)
    MaxFence,       \* largest fencing token (u64::MAX in the code)
    MaxPending,     \* MAX_PENDING_SQLITE_CANDIDATES
    MaxRetries,     \* MAX_ANCHOR_CAS_RETRIES
    MaxRestores,    \* how often the host restores an older SQLite file
    ExternalLeases, \* leases come from a lease authority outside the store
    Recovery        \* the host runs candidate recovery

ASSUME AnchoredStoreAssumption ==
    /\ NoPayload \notin Payloads
    /\ MaxRevision \in Nat \ {0}
    /\ MaxFence \in Nat \ {0}
    /\ MaxPending \in Nat \ {0}
    /\ MaxRetries \in Nat \ {0}
    /\ MaxRestores \in Nat
    /\ ExternalLeases \in BOOLEAN
    /\ Recovery \in BOOLEAN

VARIABLES
    anchor,     \* RollbackAnchorState: [rev, com, fence]
    rows,       \* octoscript_storage_versions: set of [rev, com]
    pc,         \* where each process is in its call
    call,       \* the arguments of the call: [op, expected, payload, token]
    seen,       \* `current` / `actual`: the anchor state last read by the call
    tries,      \* iterations of the bounded retry loop
    lease,      \* the fencing token the process was admitted with, 0 if none
    result,     \* the answer of the process's last call
    committed,  \* history: the anchor accepted a write of the process's call
    log,        \* history: the committed writes, [payload, token] by revision
    issued,     \* the last token issued by the external lease authority
    backup,     \* an older copy of the SQLite file
    restores    \* how often an older copy was restored

vars == <<anchor, rows, pc, call, seen, tries, lease, result, committed,
          log, issued, backup, restores>>

-----------------------------------------------------------------------------
(* States and answers. *)

AnchorStates ==
    [rev : 0..MaxRevision, com : Payloads \cup {NoPayload}, fence : 0..MaxFence]

(* RollbackAnchorState::initial *)
InitialAnchor == [rev |-> 0, com |-> NoPayload, fence |-> 0]

Rows == [rev : 1..MaxRevision, com : Payloads]

(* The row the anchor state commits to. *)
RowAt(state) == [rev |-> state.rev, com |-> state.com]

NoCall == [op |-> "none", expected |-> 0, payload |-> NoPayload, token |-> 0]

Calls ==
    [op : {"none", "load", "cas", "reserve", "recover"},
     expected : 0..MaxRevision,
     payload : Payloads \cup {NoPayload},
     token : 0..MaxFence]

(* Phases that are about to read the anchor, and the phase that then looks the
   committed row up: the two halves of `load` and `checked_anchor_state`. *)
RowPhaseOf == [loadAnchor |-> "loadRow", estAnchor |-> "estRow",
               prepAnchor |-> "prepRow", casAnchor |-> "casRow",
               resAnchor |-> "resRow", recAnchor |-> "recRow"]

AnchorPhases == DOMAIN RowPhaseOf

(* Phases in which record_at_anchor is called on `seen`. *)
RowPhases ==
    {"loadRow", "estRow", "prepRow", "casRow", "resRow", "recRow",
     "estActual", "persistActual", "promoteActual"}

ReservePhases == {"resAnchor", "resRow", "resCas"}

RecoveryPhases == {"recAnchor", "recRow", "recDelete"}

Phases ==
    AnchorPhases \cup RowPhases \cup
    {"idle", "estCas", "persist", "promote", "resCas", "recDelete"}

NoResult == [kind |-> "none", rev |-> 0, com |-> NoPayload]

(* Answers that say for certain whether the call's write took effect. *)
Refusals ==
    {"WriteConflict", "FencingTokenRejected", "FencingRequired",
     "RevisionExhausted", "FencingTokenExhausted", "AnchorContention",
     "PendingCandidateLimit", "AnchorRecordMissing"}

Results ==
    [kind : {"none", "loaded", "stored", "reserved", "discarded", "unknown"} \cup Refusals,
     rev : 0..MaxRevision, com : Payloads \cup {NoPayload}]

Init ==
    /\ anchor = InitialAnchor
    /\ rows = {}
    /\ pc = [p \in Procs |-> "idle"]
    /\ call = [p \in Procs |-> NoCall]
    /\ seen = [p \in Procs |-> InitialAnchor]
    /\ tries = [p \in Procs |-> 0]
    /\ lease = [p \in Procs |-> 0]
    /\ result = [p \in Procs |-> NoResult]
    /\ committed = [p \in Procs |-> FALSE]
    /\ log = <<>>
    /\ issued = 0
    /\ backup = {}
    /\ restores = 0

-----------------------------------------------------------------------------
(* Steps shared by the calls. *)

Goto(p, phase) == pc' = [pc EXCEPT ![p] = phase]

(* The call of p returns: its locals die with it. *)
Answer(p, kind, rev, com) ==
    /\ Goto(p, "idle")
    /\ call' = [call EXCEPT ![p] = NoCall]
    /\ seen' = [seen EXCEPT ![p] = InitialAnchor]
    /\ tries' = [tries EXCEPT ![p] = 0]
    /\ result' = [result EXCEPT ![p] = [kind |-> kind, rev |-> rev, com |-> com]]

Refuse(p, kind) ==
    /\ Answer(p, kind, 0, NoPayload)
    /\ UNCHANGED <<anchor, rows, lease, committed, log, issued, backup,
                   restores>>

(* The call of p goes on with its next access. *)
Continue(p, phase) ==
    /\ Goto(p, phase)
    /\ UNCHANGED <<anchor, rows, call, seen, tries, lease, result, committed,
                   log, issued, backup, restores>>

(* The anchor's compare_and_swap refused p's transition and returned the state
   it found. *)
AnchorConflict(p, phase) ==
    /\ anchor # seen[p]
    /\ seen' = [seen EXCEPT ![p] = anchor]
    /\ Goto(p, phase)
    /\ UNCHANGED <<anchor, rows, call, tries, lease, result, committed, log, issued, backup, restores>>

(* One more iteration of a retry loop, unless the bound is reached. *)
Retry(p, phase) ==
    IF tries[p] + 1 < MaxRetries
    THEN /\ tries' = [tries EXCEPT ![p] = @ + 1]
         /\ Goto(p, phase)
         /\ UNCHANGED <<anchor, rows, call, seen, lease, result, committed,
                        log, issued, backup, restores>>
    ELSE Refuse(p, "AnchorContention")

(* The SQLite lookup by revision and commitment; the variant looks the revision
   up alone. *)
FoundRowsByRevision(state) == {r \in rows : r.rev = state.rev}

FoundRows(state) == {r \in rows : r.rev = state.rev /\ r.com = state.com}

(* record_at_anchor finds the committed row (or there is nothing committed). *)
RecordAtAnchor(p) == seen[p].rev = 0 \/ FoundRows(seen[p]) # {}

Recovering(p) == call[p].op = "recover"

-----------------------------------------------------------------------------
(* A process calls the store. *)

Begin(p, arguments, phase) ==
    /\ pc[p] = "idle"
    /\ Goto(p, phase)
    /\ call' = [call EXCEPT ![p] = arguments]
    /\ result' = [result EXCEPT ![p] = NoResult]
    /\ committed' = [committed EXCEPT ![p] = FALSE]
    /\ UNCHANGED <<anchor, rows, seen, tries, lease, log, issued, backup,
                   restores>>

load(p) == Begin(p, [NoCall EXCEPT !.op = "load"], "loadAnchor")

(* AuthenticatedStore::compare_and_swap: no fencing token. *)
compare_and_swap(p, expected, payload) ==
    Begin(p, [op |-> "cas", expected |-> expected, payload |-> payload,
              token |-> 0], "prepAnchor")

(* AuthenticatedStore::compare_and_swap_fenced under the caller's lease:
   establish_fence comes first. *)
compare_and_swap_fenced(p, expected, payload) ==
    /\ lease[p] # 0
    /\ Begin(p, [op |-> "cas", expected |-> expected, payload |-> payload,
                 token |-> lease[p]], "estAnchor")

(* An admission takes a fresh lease with reserve_fence.  Hosts stop new
   admissions while a recovery runs. *)
reserve_fence(p) ==
    /\ ~ExternalLeases
    /\ \A q \in Procs : ~Recovering(q)
    /\ Begin(p, [NoCall EXCEPT !.op = "reserve"], "resAnchor")

(* An admission takes a fresh lease from an authority outside the store. *)
IssueLease(p) ==
    /\ ExternalLeases
    /\ \A q \in Procs : ~Recovering(q)
    /\ pc[p] = "idle"
    /\ issued' \in 1..MaxFence
    /\ issued' = 1 + IF issued > anchor.fence THEN issued ELSE anchor.fence
    /\ lease' = [lease EXCEPT ![p] = issued']
    /\ UNCHANGED <<anchor, rows, pc, call, seen, tries, result, committed,
                   log, backup, restores>>

(* reserve_recovery_fence followed by discard_unanchored_candidates, with new
   admissions stopped. *)
RecoverCandidates(p) ==
    /\ Recovery
    /\ \A q \in Procs : ~Recovering(q) /\ call[q].op # "reserve"
    /\ Begin(p, [NoCall EXCEPT !.op = "recover"], "resAnchor")

-----------------------------------------------------------------------------
(* The accesses of a call. *)

(* load_anchor_state *)
LoadAnchorState(p) ==
    /\ pc[p] \in AnchorPhases
    /\ seen' = [seen EXCEPT ![p] = anchor]
    /\ Goto(p, RowPhaseOf[pc[p]])
    /\ UNCHANGED <<anchor, rows, call, tries, lease, result, committed, log, issued, backup, restores>>

(* record_at_anchor fails: no row has the revision and commitment read. *)
RecordMissing(p) ==
    /\ pc[p] \in RowPhases
    /\ ~RecordAtAnchor(p)
    /\ Refuse(p, "AnchorRecordMissing")

(* load returns the record (or its absence) with the floor it was read at. *)
LoadRow(p) ==
    /\ pc[p] = "loadRow"
    /\ \/ /\ seen[p].rev = 0
          /\ Answer(p, "loaded", 0, NoPayload)
       \/ /\ seen[p].rev # 0
          /\ \E r \in FoundRows(seen[p]) : Answer(p, "loaded", r.rev, r.com)
    /\ UNCHANGED <<anchor, rows, lease, committed, log, issued, backup,
                   restores>>

(* establish_fence compares its token with the fence it read, in the loop head
   and again on the state a lost race returned. *)
CompareFence(p, higher) ==
    /\ RecordAtAnchor(p)
    /\ \/ /\ call[p].token < seen[p].fence
          /\ Refuse(p, "FencingTokenRejected")
       \/ /\ call[p].token = seen[p].fence
          /\ Continue(p, "prepAnchor")
       \/ /\ call[p].token > seen[p].fence
          /\ higher

EstablishRow(p) ==
    /\ pc[p] = "estRow"
    /\ CompareFence(p, Continue(p, "estCas"))

EstablishActual(p) ==
    /\ pc[p] = "estActual"
    /\ CompareFence(p, Retry(p, "estAnchor"))

(* The anchor accepts the caller's token as the current fence; the variant
   writes it without comparing the state it was computed from. *)
RaiseFenceUncompared(p, token) ==
    anchor' = [anchor EXCEPT !.fence = token]

RaiseFence(p, token) ==
    /\ anchor = seen[p]
    /\ anchor' = [anchor EXCEPT !.fence = token]

EstablishCas(p) ==
    /\ pc[p] = "estCas"
    /\ \/ /\ RaiseFence(p, call[p].token)
          /\ Goto(p, "prepAnchor")
          /\ UNCHANGED <<rows, call, seen, tries, lease, result, committed,
                         log, issued, backup, restores>>
       \/ AnchorConflict(p, "estActual")

(* prepare_compare_and_swap: the verified snapshot must be the expected one. *)
PrepareRow(p) ==
    /\ pc[p] = "prepRow"
    /\ RecordAtAnchor(p)
    /\ \/ /\ call[p].expected # seen[p].rev
          /\ Refuse(p, "WriteConflict")
       \/ /\ call[p].expected = seen[p].rev
          /\ call[p].expected = MaxRevision
          /\ Refuse(p, "RevisionExhausted")
       \/ /\ call[p].expected = seen[p].rev
          /\ call[p].expected < MaxRevision
          /\ Continue(p, "casAnchor")

(* What compare_and_swap_under_fence says of a fence other than its own. *)
FenceMismatch(p) == call[p].token # seen[p].fence

FenceRefusal(p) ==
    IF call[p].token = 0 THEN "FencingRequired" ELSE "FencingTokenRejected"

(* compare_and_swap_under_fence up to persist_candidate. *)
CheckFenceAndRevision(p) ==
    /\ pc[p] = "casRow"
    /\ RecordAtAnchor(p)
    /\ \/ /\ FenceMismatch(p)
          /\ Refuse(p, FenceRefusal(p))
       \/ /\ ~FenceMismatch(p)
          /\ call[p].expected # seen[p].rev
          /\ Refuse(p, "WriteConflict")
       \/ /\ ~FenceMismatch(p)
          /\ call[p].expected = seen[p].rev
          /\ Continue(p, "persist")

(* prune_history: drop what is older than the committed row, and the losing
   candidates of its revision; the variant drops the committed row too. *)
PrunedInclusive(state) ==
    IF state.rev = 0 THEN rows ELSE {r \in rows : r.rev > state.rev}

Pruned(state) ==
    IF state.rev = 0 THEN rows
    ELSE {r \in rows : ~(\/ r.rev < state.rev
                         \/ r.rev = state.rev /\ r.com # state.com)}

Candidate(p) == [rev |-> seen[p].rev + 1, com |-> call[p].payload]

(* Rows above the committed revision, in a set of rows. *)
PendingRows(rs, state) == {r \in rs : r.rev > state.rev}

(* persist_candidate: one IMMEDIATE transaction; the anchor is read again while
   the SQLite write lock is held.  The variant does not count the candidates. *)
PersistCandidateUnbounded(p) ==
    /\ pc[p] = "persist"
    /\ \/ AnchorConflict(p, "persistActual")
       \/ /\ anchor = seen[p]
          /\ rows' = Pruned(seen[p]) \cup {Candidate(p)}
          /\ Goto(p, "promote")
          /\ UNCHANGED <<anchor, call, seen, tries, lease, result, committed,
                         log, issued, backup, restores>>

PersistCandidate(p) ==
    /\ pc[p] = "persist"
    /\ \/ AnchorConflict(p, "persistActual")
       \/ /\ anchor = seen[p]
          /\ Candidate(p) \notin Pruned(seen[p])
          /\ Cardinality(PendingRows(Pruned(seen[p]), seen[p])) >= MaxPending
          /\ Refuse(p, "PendingCandidateLimit")
       \/ /\ anchor = seen[p]
          /\ \/ Candidate(p) \in Pruned(seen[p])
             \/ Cardinality(PendingRows(Pruned(seen[p]), seen[p])) < MaxPending
          /\ rows' = Pruned(seen[p]) \cup {Candidate(p)}
          /\ Goto(p, "promote")
          /\ UNCHANGED <<anchor, call, seen, tries, lease, result, committed,
                         log, issued, backup, restores>>

PersistActual(p) ==
    /\ pc[p] = "persistActual"
    /\ RecordAtAnchor(p)
    /\ Refuse(p, IF FenceMismatch(p) THEN FenceRefusal(p) ELSE "WriteConflict")

(* The anchor moves to the candidate's revision and commitment; the variant
   compares the revision alone and misses a fence taken meanwhile. *)
AdvanceByRevision(p) ==
    /\ anchor.rev = seen[p].rev
    /\ anchor' = [anchor EXCEPT !.rev = seen[p].rev + 1,
                                !.com = call[p].payload]
    /\ log' = Append(log, [payload |-> call[p].payload, token |-> call[p].token])
    /\ committed' = [committed EXCEPT ![p] = TRUE]

Advance(p) ==
    /\ anchor = seen[p]
    /\ anchor' = [anchor EXCEPT !.rev = seen[p].rev + 1,
                                !.com = call[p].payload]
    /\ log' = Append(log, [payload |-> call[p].payload, token |-> call[p].token])
    /\ committed' = [committed EXCEPT ![p] = TRUE]

Promote(p) ==
    /\ pc[p] = "promote"
    /\ \/ /\ Advance(p)
          /\ Answer(p, "stored", seen[p].rev + 1, call[p].payload)
          /\ UNCHANGED <<rows, lease, issued, backup, restores>>
       \/ AnchorConflict(p, "promoteActual")

(* After a lost race only a fenced caller is told of a fence; a plain caller
   gets a conflict even when only the fence moved.  The variant takes a record
   at the revision it wanted to write for its own. *)
PromoteActualOptimistic(p) ==
    /\ pc[p] = "promoteActual"
    /\ RecordAtAnchor(p)
    /\ IF seen[p].rev = call[p].expected + 1
       THEN /\ Answer(p, "stored", seen[p].rev, seen[p].com)
            /\ UNCHANGED <<anchor, rows, lease, committed, log, issued, backup,
                           restores>>
       ELSE Refuse(p, "WriteConflict")

PromoteActual(p) ==
    /\ pc[p] = "promoteActual"
    /\ RecordAtAnchor(p)
    /\ Refuse(p, IF call[p].token # 0 /\ FenceMismatch(p)
                 THEN "FencingTokenRejected" ELSE "WriteConflict")

(* reserve_fence computes the next token unless the token space has ended. *)
ReserveRow(p) ==
    /\ pc[p] = "resRow"
    /\ RecordAtAnchor(p)
    /\ IF seen[p].fence = MaxFence THEN Refuse(p, "FencingTokenExhausted")
                                   ELSE Continue(p, "resCas")

(* reserve_fence's compare-and-swap; a lost race goes back to the loop head
   without looking at the state found.  reserve_recovery_fence keeps the token
   for the discard that follows. *)
ReserveCas(p) ==
    /\ pc[p] = "resCas"
    /\ \/ /\ call[p].op = "reserve"
          /\ RaiseFence(p, seen[p].fence + 1)
          /\ lease' = [lease EXCEPT ![p] = seen[p].fence + 1]
          /\ Answer(p, "reserved", 0, NoPayload)
          /\ UNCHANGED <<rows, committed, log, issued, backup, restores>>
       \/ /\ Recovering(p)
          /\ RaiseFence(p, seen[p].fence + 1)
          /\ call' = [call EXCEPT ![p].token = seen[p].fence + 1]
          /\ Goto(p, "recAnchor")
          /\ UNCHANGED <<rows, seen, tries, lease, result, committed, log, issued, backup, restores>>
       \/ /\ anchor # seen[p]
          /\ Retry(p, "resAnchor")

(* discard_unanchored_candidates checks its fence against the state it read *)
RecoverRow(p) ==
    /\ pc[p] = "recRow"
    /\ RecordAtAnchor(p)
    /\ IF FenceMismatch(p) THEN Refuse(p, "FencingTokenRejected")
                           ELSE Continue(p, "recDelete")

(* and deletes every other row in a transaction, without reading the anchor
   again; the variant deletes every row. *)
DiscardAll(p) ==
    /\ pc[p] = "recDelete"
    /\ rows' = {}
    /\ Answer(p, "discarded", 0, NoPayload)
    /\ UNCHANGED <<anchor, lease, committed, log, issued, backup, restores>>

DiscardCandidates(p) ==
    /\ pc[p] = "recDelete"
    /\ rows' = {r \in rows : seen[p].rev # 0 /\ r = RowAt(seen[p])}
    /\ Answer(p, "discarded", 0, NoPayload)
    /\ UNCHANGED <<anchor, lease, committed, log, issued, backup,
                   restores>>

-----------------------------------------------------------------------------
(* Failures. *)

(* An access to SQLite or to the anchor fails without effect. *)
BackendError(p) ==
    /\ pc[p] # "idle"
    /\ Refuse(p, "unknown")

(* The anchor performs a transition but its answer is lost: the call returns
   an anchor error. *)
LostReply(p) ==
    /\ \/ /\ pc[p] = "promote"
          /\ Advance(p)
       \/ /\ pc[p] = "estCas"
          /\ RaiseFence(p, call[p].token)
          /\ UNCHANGED <<log, committed>>
       \/ /\ pc[p] = "resCas"
          /\ RaiseFence(p, seen[p].fence + 1)
          /\ UNCHANGED <<log, committed>>
    /\ Answer(p, "unknown", 0, NoPayload)
    /\ UNCHANGED <<rows, lease, issued, backup, restores>>

(* The process dies; its lease dies with it, its rows stay. *)
Crash(p) ==
    /\ pc[p] # "idle"
    /\ Answer(p, "unknown", 0, NoPayload)
    /\ lease' = [lease EXCEPT ![p] = 0]
    /\ UNCHANGED <<anchor, rows, committed, log, issued, backup,
                   restores>>

(* The host copies the SQLite file, and later puts the copy back. *)
Backup ==
    /\ restores < MaxRestores
    /\ backup # rows
    /\ backup' = rows
    /\ UNCHANGED <<anchor, rows, pc, call, seen, tries, lease, result,
                   committed, log, issued, restores>>

Restore ==
    /\ restores < MaxRestores
    /\ rows' = backup
    /\ restores' = restores + 1
    /\ UNCHANGED <<anchor, pc, call, seen, tries, lease, result, committed,
                   log, issued, backup>>

-----------------------------------------------------------------------------

Step(p) ==
    \/ LoadAnchorState(p) \/ RecordMissing(p) \/ LoadRow(p)
    \/ EstablishRow(p) \/ EstablishCas(p) \/ EstablishActual(p)
    \/ PrepareRow(p) \/ CheckFenceAndRevision(p)
    \/ PersistCandidate(p) \/ PersistActual(p)
    \/ Promote(p) \/ PromoteActual(p)
    \/ ReserveRow(p) \/ ReserveCas(p)
    \/ RecoverRow(p) \/ DiscardCandidates(p)

Start(p) ==
    \/ load(p) \/ reserve_fence(p) \/ IssueLease(p) \/ RecoverCandidates(p)
    \/ \E e \in 0..MaxRevision, v \in Payloads :
           compare_and_swap(p, e, v) \/ compare_and_swap_fenced(p, e, v)

Next ==
    \/ \E p \in Procs :
           Start(p) \/ Step(p) \/ BackendError(p) \/ LostReply(p) \/ Crash(p)
    \/ Backup
    \/ Restore

Spec == Init /\ [][Next]_vars

-----------------------------------------------------------------------------
(* Properties. *)

(* Every variable keeps its type through all interleavings: in particular revisions
   and fencing tokens stop at their last value (RevisionExhausted,
   FencingTokenExhausted) instead of passing it. *)
TypeOK ==
    /\ anchor \in AnchorStates
    /\ rows \in SUBSET Rows
    /\ pc \in [Procs -> Phases]
    /\ call \in [Procs -> Calls]
    /\ seen \in [Procs -> AnchorStates]
    /\ tries \in [Procs -> 0..MaxRetries]
    /\ lease \in [Procs -> 0..MaxFence]
    /\ result \in [Procs -> Results]
    /\ committed \in [Procs -> BOOLEAN]
    /\ log \in Seq([payload : Payloads, token : 0..MaxFence])
    /\ issued \in 0..MaxFence
    /\ backup \in SUBSET Rows
    /\ restores \in 0..MaxRestores

(* The payload the anchor commits to is in the SQLite file, whatever other
   writers prune, whatever a recovery discards, wherever a writer crashes, as
   long as nobody put an older file back.  (persist_candidate, prune_history,
   discard_unanchored_candidates: "The method retains exactly the payload
   committed by the current anchor".) *)
CommittedRowPresent ==
    restores = 0 /\ anchor.rev # 0 => RowAt(anchor) \in rows

(* The rows kept for one record are bounded: the pending candidates that
   MAX_PENDING_SQLITE_CANDIDATES admits plus the committed row they replace. *)
RowsBounded == Cardinality(rows) <= MaxPending + 1

(* A load that succeeds returns what was committed at the revision it reports,
   also after the SQLite file was replaced by an older copy. *)
LoadsReturnCommitted ==
    \A p \in Procs : result[p].kind = "loaded" =>
        /\ result[p].rev <= Len(log)
        /\ result[p].com = IF result[p].rev = 0 THEN NoPayload
                           ELSE log[result[p].rev].payload

(* A refusal is final: the refused write is not the one the anchor holds, and
   never was; a write is reported stored only if the anchor accepted it.  Only
   a backend error or a crash leaves the outcome open.  (What
   WorkerJournalStore::persist asks of a store: "An error must leave the
   supplied candidate uncommitted".) *)
AnswersAreDefinite ==
    \A p \in Procs :
        /\ result[p].kind \in Refusals => ~committed[p]
        /\ result[p].kind = "stored" =>
               /\ committed[p]
               /\ log[result[p].rev].payload = result[p].com

(* record_at_anchor reports a payload missing or rolled back only when an older
   file was put back, or when the record has moved on since the anchor was read,
   so that the row was pruned between the two reads of one call. *)
MissingMeansMoved ==
    \A p \in Procs : pc[p] \in RowPhases /\ ~RecordAtAnchor(p) =>
        restores > 0 \/ anchor.rev > seen[p].rev

(* The tokens that admissions and recoveries hold are distinct, however their
   reserve_fence calls interleave, fail or lose their answers. *)
Held(p) == {lease[p], call[p].token} \ {0}

LeasesUnique == \A p, q \in Procs : p # q => Held(p) \cap Held(q) = {}

(* Once a write was committed under a fencing token, no later write is
   committed under an older one, and none without a token. *)
CommitTokensMonotone ==
    \A i, j \in DOMAIN log : i < j => log[i].token <= log[j].token

(* No writer commits under a token other than the newest one the anchor knows:
   a reserved or established token shuts out every older writer from then on,
   including writers that were past their checks when it was taken. *)
NoStaleCommit ==
    [][log' # log => log'[Len(log')].token = anchor.fence]_vars

(* The anchor's revision and fence never go back, and the committed payload
   changes only with the revision. *)
AnchorMonotonic ==
    [][/\ anchor'.rev >= anchor.rev
       /\ anchor'.fence >= anchor.fence
       /\ anchor'.com # anchor.com => anchor'.rev = anchor.rev + 1]_vars

(* The anchored SQLite store implements the atomic fenced store: every step
   changes the record as one atomic operation of it, or not at all, and each
   write it commits is one the atomic store accepts under the writer's own
   token. *)
Atomic == INSTANCE FencedHistory WITH
    payload <- anchor.com, floor <- anchor.rev, fence <- anchor.fence

ImplementsFencedStore == Atomic!HistorySpec
=============================================================================
