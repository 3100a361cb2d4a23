------------------------ MODULE AnchoredStoreProofs -------------------------
(***************************************************************************)
(* Proofs about AnchoredStore for every set of processes and payloads and  *)
(* every bound: types and the shape of each phase of a call; then what a   *)
(* step does to the anchor, the refinement of FencedStore, what the anchor *)
(* states read by a call say about the committed history, and what callers *)
(* are told; then who holds which fencing token, and which rows are in the *)
(* SQLite file.                                                            *)
(***************************************************************************)
EXTENDS AnchoredStore, TLAPS

USE AnchoredStoreAssumption

-----------------------------------------------------------------------------
(* Facts about the sets the states are built from. *)

PhaseNames ==
    {"idle", "loadAnchor", "estAnchor", "prepAnchor", "casAnchor", "resAnchor",
     "recAnchor", "loadRow", "estRow", "prepRow", "casRow", "resRow", "recRow",
     "estActual", "persistActual", "promoteActual", "estCas", "persist",
     "promote", "resCas", "recDelete"}

(* The arithmetic of tokens: the next one is above, and one above both of two
   is above the first. *)
LEMMA TokenOrder ==
  ASSUME NEW m \in Nat, NEW n \in Nat
  PROVE  /\ n <= n /\ n + 1 \in Nat /\ n < n + 1 /\ n <= n + 1 /\ n + 1 <= n + 1
         /\ m > n => n <= m
         /\ m < n => m <= n
         /\ m < 1 + (IF m > n THEN m ELSE n)
  OBVIOUS

(* The phases are the ones a call of the store goes through. *)
LEMMA PhasesListed == Phases = PhaseNames
  BY Zenon DEF Phases, PhaseNames, AnchorPhases, RowPhases, RowPhaseOf

(* Each read of the anchor is followed by the lookup of the row it names. *)
LEMMA NextPhase ==
  ASSUME NEW a \in AnchorPhases
  PROVE \/ a = "loadAnchor" /\ RowPhaseOf[a] = "loadRow"
        \/ a = "estAnchor" /\ RowPhaseOf[a] = "estRow"
        \/ a = "prepAnchor" /\ RowPhaseOf[a] = "prepRow"
        \/ a = "casAnchor" /\ RowPhaseOf[a] = "casRow"
        \/ a = "resAnchor" /\ RowPhaseOf[a] = "resRow"
        \/ a = "recAnchor" /\ RowPhaseOf[a] = "recRow"
<1>1. a \in {"loadAnchor", "estAnchor", "prepAnchor", "casAnchor", "resAnchor",
             "recAnchor"}
  BY Zenon DEF AnchorPhases, RowPhaseOf
<1> QED BY <1>1 DEF RowPhaseOf

(* The locals of a fresh or finished call have their types. *)
LEMMA Initials ==
  /\ NoCall \in Calls
  /\ NoResult \in Results
  /\ InitialAnchor \in AnchorStates
  BY DEF NoCall, Calls, NoResult, Results, AnchorStates, InitialAnchor

(* A call without arguments is a call. *)
LEMMA OpCall ==
  \A o \in {"load", "reserve", "recover"} :
      /\ [NoCall EXCEPT !.op = o] \in Calls
      /\ [NoCall EXCEPT !.op = o].op = o
      /\ [NoCall EXCEPT !.op = o].token = 0
  BY DEF NoCall, Calls

Kinds ==
    {"none", "loaded", "stored", "reserved", "discarded", "unknown"} \cup Refusals

(* Every answer the store gives is a result. *)
LEMMA MakeResult ==
  ASSUME NEW k \in Kinds, NEW r \in 0..MaxRevision,
         NEW v \in Payloads \cup {NoPayload}
  PROVE  [kind |-> k, rev |-> r, com |-> v] \in Results
  BY Zenon DEF Results, Kinds

-----------------------------------------------------------------------------
(* First layer: types, and the shape of each phase. *)

WritePhases ==
    {"estAnchor", "estRow", "estCas", "estActual", "prepAnchor", "prepRow",
     "casAnchor", "casRow", "persist", "persistActual", "promote",
     "promoteActual"}

(* What the phase of a call says about its arguments and the state it read. *)
PhaseInv(p) ==
    /\ pc[p] \in WritePhases => call[p].payload \in Payloads /\ call[p].op = "cas"
    /\ pc[p] \in {"casAnchor", "casRow", "persist", "promote"} =>
           call[p].expected < MaxRevision
    /\ pc[p] \in {"persist", "promote"} =>
           seen[p].rev = call[p].expected /\ seen[p].fence = call[p].token
    /\ pc[p] = "resCas" => seen[p].fence < MaxFence
    /\ pc[p] = "estCas" => seen[p].fence < call[p].token
    /\ pc[p] \in ReservePhases => call[p].op \in {"reserve", "recover"}
    /\ pc[p] \in RecoveryPhases => call[p].op = "recover"
    /\ call[p].op = "recover" => Recovery /\ pc[p] \in ReservePhases \cup RecoveryPhases
    /\ call[p].op = "reserve" => ~ExternalLeases /\ pc[p] \in ReservePhases
    /\ pc[p] = "idle" => call[p] = NoCall
    /\ pc[p] # "idle" => ~committed[p]

ShapeInv == TypeOK /\ \A p \in Procs : PhaseInv(p)

(* What a process's step leaves alone: everything local to the others. *)
OthersUntouched(p) ==
    \A q \in Procs \ {p} :
        /\ pc'[q] = pc[q] /\ call'[q] = call[q] /\ seen'[q] = seen[q]
        /\ lease'[q] = lease[q] /\ committed'[q] = committed[q]
        /\ result'[q] = result[q]

ProcessStep(p) ==
    Start(p) \/ Step(p) \/ BackendError(p) \/ LostReply(p) \/ Crash(p)

(* Steps of a call change only the entries of the calling process. *)
LEMMA StepLocal ==
  ASSUME TypeOK, NEW p \in Procs, ProcessStep(p)
  PROVE  OthersUntouched(p)
<1> USE DEF TypeOK, OthersUntouched, Goto, Answer, Refuse, Continue, Begin, Retry,
            AnchorConflict
<1>1. CASE Start(p)
  BY SMTT(30), <1>1 DEF Start, load, reserve_fence, IssueLease, RecoverCandidates,
              compare_and_swap, compare_and_swap_fenced
<1>2. CASE Step(p)
  <2>1. CASE LoadAnchorState(p) \/ RecordMissing(p) \/ LoadRow(p)
    BY SMTT(30), <2>1 DEF LoadAnchorState, RecordMissing, LoadRow
  <2>2. CASE EstablishRow(p) \/ EstablishCas(p) \/ EstablishActual(p)
    BY SMTT(30), <2>2 DEF EstablishRow, EstablishCas, EstablishActual, CompareFence
  <2>3. CASE PrepareRow(p) \/ CheckFenceAndRevision(p)
    BY SMTT(30), <2>3 DEF PrepareRow, CheckFenceAndRevision
  <2>4. CASE PersistCandidate(p) \/ PersistActual(p)
    BY SMTT(30), <2>4 DEF PersistCandidate, PersistActual
  <2>5. CASE Promote(p) \/ PromoteActual(p)
    BY SMTT(30), <2>5 DEF Promote, PromoteActual, Advance
  <2>6. CASE ReserveRow(p) \/ ReserveCas(p)
    BY SMTT(30), <2>6 DEF ReserveRow, ReserveCas
  <2>7. CASE RecoverRow(p) \/ DiscardCandidates(p)
    BY <2>7 DEF RecoverRow, DiscardCandidates
  <2> QED BY Zenon, <1>2, <2>1, <2>2, <2>3, <2>4, <2>5, <2>6, <2>7 DEF Step
<1>3. CASE BackendError(p) \/ Crash(p)
  BY <1>3 DEF BackendError, Crash
<1>4. CASE LostReply(p)
  BY Zenon, <1>4 DEF LostReply, Advance
<1> QED BY Zenon, <1>1, <1>2, <1>3, <1>4 DEF ProcessStep

(* An answer leaves well-typed locals behind. *)
LEMMA AnswerType ==
  ASSUME TypeOK, NEW p \in Procs, NEW k \in Kinds, NEW r \in 0..MaxRevision,
         NEW v \in Payloads \cup {NoPayload}, Answer(p, k, r, v)
  PROVE  /\ pc' \in [Procs -> Phases]
         /\ call' \in [Procs -> Calls]
         /\ seen' \in [Procs -> AnchorStates]
         /\ tries' \in [Procs -> 0..MaxRetries]
         /\ result' \in [Procs -> Results]
<1>1. [kind |-> k, rev |-> r, com |-> v] \in Results
  BY Zenon, MakeResult
<1>2. "idle" \in Phases
  BY Zenon, PhasesListed DEF PhaseNames
<1>3. 0 \in 0..MaxRetries
  OBVIOUS
<1> QED BY Zenon, <1>1, <1>2, <1>3, Initials DEF TypeOK, Answer, Goto

(* An answer ends the call of its process. *)
LEMMA AnswerShape ==
  ASSUME TypeOK, NEW p \in Procs, NEW k, NEW r, NEW v, Answer(p, k, r, v)
  PROVE  /\ pc'[p] = "idle" /\ call'[p] = NoCall /\ seen'[p] = InitialAnchor
         /\ PhaseInv(p)'
<1>1. pc'[p] = "idle" /\ call'[p] = NoCall /\ seen'[p] = InitialAnchor
  BY Zenon DEF TypeOK, Answer, Goto
<1>2. NoCall.op = "none"
  BY Zenon DEF NoCall
<1> QED BY Zenon, <1>1, <1>2 DEF PhaseInv, WritePhases, ReservePhases, RecoveryPhases

(* A refusal changes no shared state and ends the call. *)
LEMMA RefuseShape ==
  ASSUME TypeOK, NEW p \in Procs, NEW k \in Kinds, Refuse(p, k)
  PROVE  TypeOK' /\ PhaseInv(p)'
<1>1. 0 \in 0..MaxRevision
  OBVIOUS
<1>2. Answer(p, k, 0, NoPayload)
  BY Zenon DEF Refuse
<1> QED BY ZenonT(30), <1>1, <1>2, AnswerType, AnswerShape DEF TypeOK, Refuse

(* Going on with the next access keeps the types. *)
LEMMA ContinueType ==
  ASSUME TypeOK, NEW p \in Procs, NEW phase \in Phases, Continue(p, phase)
  PROVE  TypeOK' /\ pc'[p] = phase
  BY Zenon DEF TypeOK, Continue, Goto

(* So does reading the state a lost race returned. *)
LEMMA ConflictType ==
  ASSUME TypeOK, NEW p \in Procs, NEW phase \in Phases, AnchorConflict(p, phase)
  PROVE  TypeOK' /\ pc'[p] = phase /\ call'[p] = call[p] /\ committed'[p] = committed[p]
  BY Zenon DEF TypeOK, AnchorConflict, Goto

(* A retry stays below the bound or refuses. *)
LEMMA RetryShape ==
  ASSUME TypeOK, NEW p \in Procs, NEW phase \in Phases, Retry(p, phase)
  PROVE  /\ TypeOK'
         /\ \/ PhaseInv(p)'
            \/ /\ pc'[p] = phase /\ call'[p] = call[p] /\ seen'[p] = seen[p]
               /\ committed'[p] = committed[p]
<1>1. CASE tries[p] + 1 < MaxRetries
  <2>1. tries[p] + 1 \in 0..MaxRetries
    BY <1>1 DEF TypeOK
  <2>2. /\ tries' = [tries EXCEPT ![p] = tries[p] + 1]
        /\ Goto(p, phase)
        /\ UNCHANGED <<anchor, rows, call, seen, lease, result, committed, log,
                       issued, backup, restores>>
    BY Zenon, <1>1 DEF Retry
  <2> QED BY Zenon, <2>1, <2>2 DEF TypeOK, Goto
<1>2. CASE ~(tries[p] + 1 < MaxRetries)
  <2>1. Refuse(p, "AnchorContention")
    BY Zenon, <1>2 DEF Retry
  <2>2. "AnchorContention" \in Kinds
    BY Zenon DEF Kinds, Refusals
  <2> QED BY Zenon, <2>1, <2>2, RefuseShape
<1> QED BY Zenon, <1>1, <1>2

(* A call that begins has its arguments and no commit to its name. *)
LEMMA BeginType ==
  ASSUME TypeOK, NEW p \in Procs, NEW phase \in Phases, NEW a \in Calls,
         Begin(p, a, phase)
  PROVE  TypeOK' /\ pc'[p] = phase /\ call'[p] = a /\ ~committed'[p]
  BY Zenon, Initials DEF TypeOK, Begin, Goto

(* The kinds of answers the store gives. *)
LEMMA KindsListed ==
  /\ Refusals \subseteq Kinds
  /\ {"none", "loaded", "stored", "reserved", "discarded", "unknown"} \subseteq Kinds
  BY Zenon DEF Kinds

(* Starting a call. *)
LEMMA ShapeStart ==
  ASSUME ShapeInv, NEW p \in Procs, Start(p)
  PROVE  TypeOK' /\ PhaseInv(p)'
<1> USE DEF ShapeInv
<1>0. TypeOK
  BY Zenon
<1> DEFINE Op(o) == [NoCall EXCEPT !.op = o]
<1>1. CASE load(p)
  <2>1. "loadAnchor" \in Phases /\ Op("load") \in Calls /\ Op("load").op = "load"
    BY Zenon, PhasesListed, OpCall DEF PhaseNames
  <2>2. Begin(p, Op("load"), "loadAnchor")
    BY Zenon, <1>1 DEF load
  <2> HIDE DEF Op
  <2> QED BY <1>0, <2>1, <2>2, BeginType
            DEF PhaseInv, WritePhases, ReservePhases, RecoveryPhases
<1>2. CASE reserve_fence(p)
  <2>1. "resAnchor" \in Phases /\ Op("reserve") \in Calls /\ Op("reserve").op = "reserve"
    BY Zenon, PhasesListed, OpCall DEF PhaseNames
  <2>2. ~ExternalLeases /\ Begin(p, Op("reserve"), "resAnchor")
    BY Zenon, <1>2 DEF reserve_fence
  <2> HIDE DEF Op
  <2> QED BY <1>0, <2>1, <2>2, BeginType
            DEF PhaseInv, WritePhases, ReservePhases, RecoveryPhases
<1>3. CASE RecoverCandidates(p)
  <2>1. "resAnchor" \in Phases /\ Op("recover") \in Calls /\ Op("recover").op = "recover"
    BY Zenon, PhasesListed, OpCall DEF PhaseNames
  <2>2. Recovery /\ Begin(p, Op("recover"), "resAnchor")
    BY Zenon, <1>3 DEF RecoverCandidates
  <2> HIDE DEF Op
  <2> QED BY <1>0, <2>1, <2>2, BeginType
            DEF PhaseInv, WritePhases, ReservePhases, RecoveryPhases
<1>4. CASE IssueLease(p)
  BY SMTT(30), <1>0, <1>4 DEF IssueLease, TypeOK, PhaseInv
<1>5. ASSUME NEW e \in 0..MaxRevision, NEW v \in Payloads,
             compare_and_swap(p, e, v) \/ compare_and_swap_fenced(p, e, v)
      PROVE  TypeOK' /\ PhaseInv(p)'
  <2>1. PICK t \in 0..MaxFence, phase \in {"prepAnchor", "estAnchor"} :
          Begin(p, [op |-> "cas", expected |-> e, payload |-> v, token |-> t], phase)
    <3>1. 0 \in 0..MaxFence /\ lease[p] \in 0..MaxFence
      BY <1>0 DEF TypeOK
    <3>2. CASE compare_and_swap(p, e, v)
      BY Zenon, <3>1, <3>2 DEF compare_and_swap
    <3>3. CASE compare_and_swap_fenced(p, e, v)
      BY Zenon, <3>1, <3>3 DEF compare_and_swap_fenced
    <3> QED BY Zenon, <1>5, <3>2, <3>3
  <2> DEFINE a == [op |-> "cas", expected |-> e, payload |-> v, token |-> t]
  <2>2. a \in Calls /\ a.op = "cas" /\ a.payload \in Payloads
    BY Zenon DEF Calls
  <2>3. phase \in Phases
    BY Zenon, PhasesListed DEF PhaseNames
  <2>4. Begin(p, a, phase)
    BY Zenon, <2>1
  <2> HIDE DEF a
  <2> QED BY <1>0, <2>2, <2>3, <2>4, BeginType
            DEF PhaseInv, WritePhases, ReservePhases, RecoveryPhases
<1> QED BY Zenon, <1>1, <1>2, <1>3, <1>4, <1>5 DEF Start

(* Steps that read the anchor or the committed row. *)
LEMMA ShapeRead ==
  ASSUME ShapeInv, NEW p \in Procs,
         LoadAnchorState(p) \/ RecordMissing(p) \/ LoadRow(p) \/ BackendError(p)
            \/ Crash(p)
  PROVE  TypeOK' /\ PhaseInv(p)'
<1>0. TypeOK /\ PhaseInv(p) /\ 0 \in 0..MaxRevision
  BY DEF ShapeInv
<1>1. CASE LoadAnchorState(p)
  <2>1. RowPhaseOf[pc[p]] \in Phases
    BY Zenon, <1>1, NextPhase, PhasesListed DEF LoadAnchorState, PhaseNames
  <2>2. TypeOK'
    BY Zenon, <1>0, <1>1, <2>1 DEF LoadAnchorState, TypeOK, Goto
  <2>3. /\ pc'[p] = RowPhaseOf[pc[p]] /\ call'[p] = call[p]
        /\ committed'[p] = committed[p] /\ pc[p] \in AnchorPhases
    BY Zenon, <1>0, <1>1 DEF LoadAnchorState, TypeOK, Goto
  <2>4. PhaseInv(p)'
    BY <1>0, <2>3, NextPhase DEF PhaseInv, WritePhases, ReservePhases, RecoveryPhases
  <2> QED BY Zenon, <2>2, <2>4
<1>2. CASE RecordMissing(p)
  BY Zenon, <1>0, <1>2, RefuseShape, KindsListed DEF RecordMissing, Refusals
<1>3. CASE BackendError(p)
  BY ZenonT(30), <1>0, <1>3, RefuseShape, KindsListed DEF BackendError
<1>4. CASE LoadRow(p)
  <2>1. PICK r \in 0..MaxRevision, v \in Payloads \cup {NoPayload} :
            Answer(p, "loaded", r, v)
    BY SMTT(30), <1>0, <1>4 DEF LoadRow, FoundRows, TypeOK, Rows
  <2> QED BY ZenonT(30), <1>0, <1>4, <2>1, AnswerType, AnswerShape, KindsListed
             DEF LoadRow, TypeOK
<1>5. CASE Crash(p)
  BY SMTT(30), <1>0, <1>5, AnswerType, AnswerShape, KindsListed DEF Crash, TypeOK
<1> QED BY Zenon, <1>1, <1>2, <1>3, <1>4, <1>5

(* Steps that establish the caller's fence. *)
LEMMA ShapeEstablish ==
  ASSUME ShapeInv, NEW p \in Procs,
         EstablishRow(p) \/ EstablishCas(p) \/ EstablishActual(p)
  PROVE  TypeOK' /\ PhaseInv(p)'
<1>0. TypeOK /\ PhaseInv(p)
  BY Zenon DEF ShapeInv
<1>1. {"prepAnchor", "estCas", "estAnchor", "estActual"} \subseteq Phases
  BY Zenon, PhasesListed DEF PhaseNames
<1>2. "FencingTokenRejected" \in Kinds
  BY Zenon DEF Kinds, Refusals
<1>3. pc[p] \in {"estRow", "estCas", "estActual"}
  BY Zenon DEF EstablishRow, EstablishCas, EstablishActual
<1>4. ASSUME Continue(p, "prepAnchor") PROVE TypeOK' /\ PhaseInv(p)'
  <2>1. TypeOK' /\ pc'[p] = "prepAnchor"
    BY Zenon, <1>0, <1>1, <1>4, ContinueType
  <2> QED BY Zenon, <1>0, <1>3, <1>4, <2>1
            DEF Continue, PhaseInv, WritePhases, ReservePhases, RecoveryPhases
<1>5. CASE EstablishRow(p)
  <2>1. CASE call[p].token > seen[p].fence /\ Continue(p, "estCas")
    <3>1. TypeOK' /\ pc'[p] = "estCas"
      BY Zenon, <1>0, <1>1, <2>1, ContinueType
    <3>2. seen[p].fence < call[p].token
      BY Zenon, <1>0, <2>1 DEF TypeOK, AnchorStates, Calls
    <3> QED BY Zenon, <1>0, <1>3, <2>1, <3>1, <3>2
              DEF Continue, PhaseInv, WritePhases, ReservePhases, RecoveryPhases
  <2> QED BY Zenon, <1>0, <1>2, <1>4, <1>5, <2>1, RefuseShape DEF EstablishRow, CompareFence
<1>6. CASE EstablishActual(p)
  <2>1. CASE Retry(p, "estAnchor")
    BY ZenonT(30), <1>0, <1>1, <1>3, <2>1, RetryShape
       DEF PhaseInv, WritePhases, ReservePhases, RecoveryPhases
  <2> QED BY ZenonT(30), <1>0, <1>2, <1>4, <1>6, <2>1, RefuseShape
             DEF EstablishActual, CompareFence
<1>7. CASE EstablishCas(p)
  <2>1. CASE AnchorConflict(p, "estActual")
    BY ZenonT(30), <1>0, <1>1, <1>3, <2>1, ConflictType
       DEF PhaseInv, WritePhases, ReservePhases, RecoveryPhases
  <2>2. CASE /\ RaiseFence(p, call[p].token) /\ Goto(p, "prepAnchor")
             /\ UNCHANGED <<rows, call, seen, tries, lease, result, committed,
                            log, issued, backup, restores>>
    <3>1. anchor' \in AnchorStates
      BY ZenonT(30), <1>0, <2>2 DEF RaiseFence, TypeOK, AnchorStates, Calls
    <3>2. TypeOK' /\ pc'[p] = "prepAnchor"
      BY Zenon, <1>0, <1>1, <2>2, <3>1 DEF TypeOK, Goto
    <3> QED BY Zenon, <1>0, <1>3, <2>2, <3>2
              DEF PhaseInv, WritePhases, ReservePhases, RecoveryPhases
  <2> QED BY ZenonT(30), <1>7, <2>1, <2>2 DEF EstablishCas
<1> QED BY Zenon, <1>5, <1>6, <1>7

(* Steps that check the write and keep its candidate. *)
LEMMA ShapePrepare ==
  ASSUME ShapeInv, NEW p \in Procs,
         PrepareRow(p) \/ CheckFenceAndRevision(p) \/ PersistCandidate(p)
            \/ PersistActual(p)
  PROVE  TypeOK' /\ PhaseInv(p)'
<1>0. TypeOK /\ PhaseInv(p)
  BY Zenon DEF ShapeInv
<1>1. {"casAnchor", "persist", "persistActual", "promote"} \subseteq Phases
  BY Zenon, PhasesListed DEF PhaseNames
<1>2. /\ {"WriteConflict", "RevisionExhausted", "PendingCandidateLimit"} \subseteq Kinds
      /\ FenceRefusal(p) \in Kinds
  BY Zenon DEF Kinds, Refusals, FenceRefusal
<1>3. pc[p] \in {"prepRow", "casRow", "persist", "persistActual"}
  BY Zenon DEF PrepareRow, CheckFenceAndRevision, PersistCandidate, PersistActual
<1>4. CASE PrepareRow(p)
  <2>1. CASE call[p].expected < MaxRevision /\ Continue(p, "casAnchor")
    BY ZenonT(30), <1>0, <1>1, <1>3, <2>1, ContinueType
       DEF Continue, PhaseInv, WritePhases, ReservePhases, RecoveryPhases
  <2> QED BY ZenonT(30), <1>0, <1>2, <1>4, <2>1, RefuseShape DEF PrepareRow
<1>5. CASE CheckFenceAndRevision(p)
  <2>1. CASE /\ ~FenceMismatch(p) /\ call[p].expected = seen[p].rev
             /\ Continue(p, "persist")
    BY ZenonT(30), <1>0, <1>1, <1>5, <2>1, ContinueType
       DEF CheckFenceAndRevision, FenceMismatch, Continue, PhaseInv, WritePhases,
           ReservePhases, RecoveryPhases
  <2> QED BY ZenonT(30), <1>0, <1>2, <1>5, <2>1, RefuseShape
             DEF CheckFenceAndRevision
<1>6. CASE PersistCandidate(p)
  <2>1. CASE AnchorConflict(p, "persistActual")
    BY ZenonT(30), <1>0, <1>1, <1>3, <2>1, ConflictType
       DEF PhaseInv, WritePhases, ReservePhases, RecoveryPhases
  <2>2. CASE /\ rows' = Pruned(seen[p]) \cup {Candidate(p)} /\ Goto(p, "promote")
             /\ UNCHANGED <<anchor, call, seen, tries, lease, result, committed,
                            log, issued, backup, restores>>
    <3>1. pc[p] = "persist"
      BY ZenonT(30), <1>6 DEF PersistCandidate
    <3>2. Candidate(p) \in Rows
      BY SMTT(30), <1>0, <3>1 DEF Candidate, Rows, TypeOK, PhaseInv, WritePhases,
                        AnchorStates, Calls
    <3>3. Pruned(seen[p]) \subseteq rows
      BY Zenon DEF Pruned
    <3>4. TypeOK' /\ pc'[p] = "promote"
      BY Zenon, <1>0, <1>1, <2>2, <3>2, <3>3 DEF TypeOK, Goto
    <3> QED BY ZenonT(30), <1>0, <2>2, <3>1, <3>4
              DEF PhaseInv, WritePhases, ReservePhases, RecoveryPhases
  <2> QED BY ZenonT(30), <1>0, <1>2, <1>6, <2>1, <2>2, RefuseShape
             DEF PersistCandidate
<1>7. CASE PersistActual(p)
  BY Zenon, <1>0, <1>2, <1>7, RefuseShape DEF PersistActual
<1> QED BY Zenon, <1>4, <1>5, <1>6, <1>7

(* The anchor moving to a candidate, or to a higher fence, stays in range. *)
LEMMA AdvanceType ==
  ASSUME ShapeInv, NEW p \in Procs, pc[p] = "promote", Advance(p)
  PROVE  /\ anchor' \in AnchorStates
         /\ log' \in Seq([payload : Payloads, token : 0..MaxFence])
         /\ committed' \in [Procs -> BOOLEAN]
         /\ seen[p].rev + 1 \in 0..MaxRevision
         /\ call[p].payload \in Payloads
<1>0. TypeOK /\ PhaseInv(p)
  BY Zenon DEF ShapeInv
<1>1. /\ seen[p].rev + 1 \in 0..MaxRevision /\ call[p].payload \in Payloads
      /\ call[p].token \in 0..MaxFence
  BY SMTT(30), <1>0 DEF TypeOK, PhaseInv, WritePhases, AnchorStates, Calls
<1>2. anchor' \in AnchorStates
  BY ZenonT(30), <1>0, <1>1 DEF Advance, TypeOK, AnchorStates
<1>3. [payload |-> call[p].payload, token |-> call[p].token]
          \in [payload : Payloads, token : 0..MaxFence]
  BY Zenon, <1>1
<1>4. log' \in Seq([payload : Payloads, token : 0..MaxFence])
  BY <1>0, <1>3 DEF Advance, TypeOK
<1>5. committed' \in [Procs -> BOOLEAN]
  BY Zenon, <1>0 DEF Advance, TypeOK
<1> QED BY Zenon, <1>1, <1>2, <1>4, <1>5

(* Raising the fence keeps the anchor in range. *)
LEMMA RaiseType ==
  ASSUME ShapeInv, NEW p \in Procs, NEW t \in 0..MaxFence, RaiseFence(p, t)
  PROVE  anchor' \in AnchorStates
  BY ZenonT(30) DEF ShapeInv, TypeOK, RaiseFence, AnchorStates

(* Steps that promote a candidate. *)
LEMMA ShapePromote ==
  ASSUME ShapeInv, NEW p \in Procs, Promote(p) \/ PromoteActual(p)
  PROVE  TypeOK' /\ PhaseInv(p)'
<1>0. TypeOK /\ PhaseInv(p)
  BY Zenon DEF ShapeInv
<1>1. "promoteActual" \in Phases /\ {"WriteConflict", "FencingTokenRejected"} \subseteq Kinds
  BY Zenon, PhasesListed DEF PhaseNames, Kinds, Refusals
<1>2. CASE PromoteActual(p)
  BY Zenon, <1>0, <1>1, <1>2, RefuseShape DEF PromoteActual
<1>3. CASE Promote(p) /\ AnchorConflict(p, "promoteActual")
  BY ZenonT(30), <1>0, <1>1, <1>3, ConflictType
     DEF Promote, PhaseInv, WritePhases, ReservePhases, RecoveryPhases
<1>4. CASE /\ pc[p] = "promote" /\ Advance(p)
           /\ Answer(p, "stored", seen[p].rev + 1, call[p].payload)
           /\ UNCHANGED <<rows, lease, issued, backup, restores>>
  <2>1. /\ anchor' \in AnchorStates
        /\ log' \in Seq([payload : Payloads, token : 0..MaxFence])
        /\ committed' \in [Procs -> BOOLEAN]
        /\ seen[p].rev + 1 \in 0..MaxRevision
        /\ call[p].payload \in Payloads \cup {NoPayload}
    BY ZenonT(30), <1>4, AdvanceType
  <2>2. "stored" \in Kinds
    BY Zenon, KindsListed
  <2> QED BY ZenonT(30), <1>0, <1>4, <2>1, <2>2, AnswerType, AnswerShape DEF TypeOK
<1> QED BY Zenon, <1>2, <1>3, <1>4 DEF Promote

(* A fence that is about to be reserved is in range: reserve_fence checked that
   the fence it read is not the last one. *)
LEMMA ReservedFence ==
  ASSUME TypeOK, NEW p \in Procs, PhaseInv(p), pc[p] = "resCas"
  PROVE  seen[p].fence + 1 \in 0..MaxFence
<1>1. seen[p].fence < MaxFence
  BY ZenonT(30) DEF PhaseInv
<1>2. seen[p].fence \in 0..MaxFence
  BY SMTT(30) DEF TypeOK, AnchorStates
<1> QED BY <1>1, <1>2

(* Steps of reserve_fence. *)
LEMMA ShapeReserve ==
  ASSUME ShapeInv, NEW p \in Procs, ReserveRow(p) \/ ReserveCas(p)
  PROVE  TypeOK' /\ PhaseInv(p)'
<1>0. TypeOK /\ PhaseInv(p)
  BY DEF ShapeInv
<1>1. /\ {"resCas", "resAnchor", "recAnchor"} \subseteq Phases
      /\ {"FencingTokenExhausted", "reserved"} \subseteq Kinds
  BY Zenon, PhasesListed DEF PhaseNames, Kinds, Refusals
<1>2. CASE ReserveRow(p)
  <2>1. CASE seen[p].fence = MaxFence
    BY ZenonT(30), <1>0, <1>1, <1>2, <2>1, RefuseShape DEF ReserveRow
  <2>2. CASE seen[p].fence # MaxFence
    <3>1. pc[p] = "resRow" /\ Continue(p, "resCas")
      BY Zenon, <1>2, <2>2 DEF ReserveRow
    <3>2. seen[p].fence < MaxFence
      BY <1>0, <2>2 DEF TypeOK, AnchorStates
    <3> QED BY <1>0, <1>1, <3>1, <3>2, ContinueType
              DEF Continue, PhaseInv, WritePhases, ReservePhases, RecoveryPhases
  <2> QED BY Zenon, <2>1, <2>2
<1>3. CASE ReserveCas(p)
  <2>1. pc[p] = "resCas" /\ seen[p].fence + 1 \in 0..MaxFence
    <3>1. pc[p] = "resCas"
      BY ZenonT(30), <1>3 DEF ReserveCas
    <3> QED BY ZenonT(30), <1>0, <3>1, ReservedFence
  <2>2. CASE Retry(p, "resAnchor")
    BY <1>0, <1>1, <2>1, <2>2, RetryShape
       DEF PhaseInv, WritePhases, ReservePhases, RecoveryPhases
  <2>3. CASE /\ call[p].op = "reserve"
             /\ RaiseFence(p, seen[p].fence + 1)
             /\ lease' = [lease EXCEPT ![p] = seen[p].fence + 1]
             /\ Answer(p, "reserved", 0, NoPayload)
             /\ UNCHANGED <<rows, committed, log, issued, backup, restores>>
    <3>1. anchor' \in AnchorStates /\ 0 \in 0..MaxRevision
      <4>1. anchor' \in AnchorStates
        BY ZenonT(30), <2>1, <2>3, RaiseType
      <4>2. 0 \in 0..MaxRevision
        OBVIOUS
      <4> QED BY Zenon, <4>1, <4>2
    <3>2. lease' \in [Procs -> 0..MaxFence]
      BY ZenonT(30), <1>0, <2>1, <2>3 DEF TypeOK
    <3> QED BY ZenonT(30), <1>0, <1>1, <2>3, <3>1, <3>2, AnswerType, AnswerShape
               DEF TypeOK
  <2>4. CASE /\ Recovering(p)
             /\ RaiseFence(p, seen[p].fence + 1)
             /\ call' = [call EXCEPT ![p].token = seen[p].fence + 1]
             /\ Goto(p, "recAnchor")
             /\ UNCHANGED <<rows, seen, tries, lease, result, committed, log,
                            issued, backup, restores>>
    <3>1. anchor' \in AnchorStates
      BY ZenonT(30), <2>1, <2>4, RaiseType
    <3>2. call' \in [Procs -> Calls] /\ call'[p].op = "recover"
      <4> DEFINE c == [call[p] EXCEPT !.token = seen[p].fence + 1]
      <4>1. call[p] \in Calls /\ call[p].op = "recover"
        BY Zenon, <1>0, <2>4 DEF TypeOK, Recovering
      <4>2. c \in Calls /\ c.op = "recover"
        BY Zenon, <2>1, <4>1 DEF Calls
      <4>3. call' = [call EXCEPT ![p] = c]
        BY Zenon, <2>4
      <4> HIDE DEF c
      <4> QED BY Zenon, <1>0, <4>2, <4>3 DEF TypeOK
    <3>3. TypeOK' /\ pc'[p] = "recAnchor"
      BY Zenon, <1>0, <1>1, <2>4, <3>1, <3>2 DEF TypeOK, Goto
    <3>4. call[p].op = "recover" /\ committed' = committed
      BY Zenon, <2>4 DEF Recovering
    <3> QED BY ZenonT(30), <1>0, <2>1, <3>2, <3>3, <3>4
              DEF PhaseInv, WritePhases, ReservePhases, RecoveryPhases
  <2> QED BY Zenon, <1>3, <2>2, <2>3, <2>4 DEF ReserveCas
<1> QED BY Zenon, <1>2, <1>3

(* Steps of the recovery, and lost answers. *)
LEMMA ShapeRecover ==
  ASSUME ShapeInv, NEW p \in Procs,
         RecoverRow(p) \/ DiscardCandidates(p) \/ LostReply(p)
  PROVE  TypeOK' /\ PhaseInv(p)'
<1>0. TypeOK /\ PhaseInv(p) /\ 0 \in 0..MaxRevision
  BY DEF ShapeInv
<1>1. /\ "recDelete" \in Phases
      /\ {"FencingTokenRejected", "discarded", "unknown"} \subseteq Kinds
  BY Zenon, PhasesListed DEF PhaseNames, Kinds, Refusals
<1>2. CASE RecoverRow(p)
  <2>1. CASE Continue(p, "recDelete")
    BY ZenonT(60), <1>0, <1>1, <1>2, <2>1, ContinueType
       DEF RecoverRow, Continue, PhaseInv, WritePhases, ReservePhases, RecoveryPhases
  <2> QED BY ZenonT(30), <1>0, <1>1, <1>2, <2>1, RefuseShape DEF RecoverRow
<1>3. CASE DiscardCandidates(p)
  <2>1. rows' \subseteq rows
    BY ZenonT(30), <1>3 DEF DiscardCandidates
  <2> QED BY ZenonT(30), <1>0, <1>1, <1>3, <2>1, AnswerType, AnswerShape
             DEF DiscardCandidates, TypeOK
<1>4. CASE LostReply(p)
  <2>1. /\ anchor' \in AnchorStates
        /\ log' \in Seq([payload : Payloads, token : 0..MaxFence])
        /\ committed' \in [Procs -> BOOLEAN]
    <3>1. CASE pc[p] = "promote" /\ Advance(p)
      BY ZenonT(30), <3>1, AdvanceType
    <3>2. CASE /\ pc[p] = "estCas" /\ RaiseFence(p, call[p].token)
               /\ UNCHANGED <<log, committed>>
      <4>1. call[p].token \in 0..MaxFence
        BY Zenon, <1>0 DEF TypeOK, Calls
      <4>2. anchor' \in AnchorStates
        BY ZenonT(30), <3>2, <4>1, RaiseType
      <4> QED BY ZenonT(30), <1>0, <3>2, <4>2 DEF TypeOK
    <3>3. CASE /\ pc[p] = "resCas" /\ RaiseFence(p, seen[p].fence + 1)
               /\ UNCHANGED <<log, committed>>
      <4>1. seen[p].fence + 1 \in 0..MaxFence
        BY ZenonT(30), <1>0, <3>3, ReservedFence
      <4>2. anchor' \in AnchorStates
        BY ZenonT(30), <3>3, <4>1, RaiseType
      <4> QED BY ZenonT(30), <1>0, <3>3, <4>2 DEF TypeOK
    <3> QED BY ZenonT(30), <1>4, <3>1, <3>2, <3>3 DEF LostReply
  <2> QED BY ZenonT(30), <1>0, <1>1, <1>4, <2>1, AnswerType, AnswerShape
             DEF LostReply, TypeOK
<1> QED BY <1>2, <1>3, <1>4

(* The first layer holds initially and is preserved. *)
LEMMA ShapeInit == Init => ShapeInv
<1> SUFFICES ASSUME Init PROVE ShapeInv
  BY Zenon
<1>1. "idle" \in Phases /\ 0 \in 0..MaxRetries
  BY PhasesListed DEF PhaseNames
<1>2. TypeOK
  BY <1>1, Initials DEF Init, TypeOK
<1>3. NoCall.op = "none"
  BY Zenon DEF NoCall
<1> QED BY Zenon, <1>2, <1>3
          DEF Init, ShapeInv, PhaseInv, WritePhases, ReservePhases, RecoveryPhases

(* Every step, of a call, of a host or of a crash, preserves the first layer. *)
LEMMA ShapeNext == ShapeInv /\ [Next]_vars => ShapeInv'
<1> SUFFICES ASSUME ShapeInv, [Next]_vars PROVE ShapeInv'
  BY Zenon
<1>1. ASSUME NEW p \in Procs, ProcessStep(p) PROVE ShapeInv'
  <2>1. TypeOK' /\ PhaseInv(p)'
    BY ZenonT(30), <1>1, ShapeStart, ShapeRead, ShapeEstablish, ShapePrepare, ShapePromote,
       ShapeReserve, ShapeRecover DEF ProcessStep, Step
  <2>2. \A q \in Procs \ {p} : PhaseInv(q)'
    BY SMTT(30), <1>1, StepLocal DEF ShapeInv, OthersUntouched, PhaseInv
  <2> QED BY Zenon, <2>1, <2>2 DEF ShapeInv
<1>2. CASE Backup
  BY ZenonT(30), <1>2 DEF Backup, ShapeInv, TypeOK, PhaseInv
<1>3. CASE Restore
  <2>1. TypeOK'
    BY SMTT(30), <1>3 DEF Restore, ShapeInv, TypeOK
  <2>2. \A q \in Procs : PhaseInv(q)'
    BY ZenonT(30), <1>3 DEF Restore, ShapeInv, PhaseInv
  <2> QED BY Zenon, <2>1, <2>2 DEF ShapeInv
<1>4. CASE UNCHANGED vars
  BY ZenonT(30), <1>4 DEF vars, ShapeInv, TypeOK, PhaseInv
<1> QED BY Zenon, <1>1, <1>2, <1>3, <1>4 DEF Next, ProcessStep

(* Type correctness: in particular no revision or token ever leaves its range,
   whatever the interleaving of the calls that check for exhaustion. *)
THEOREM TypeCorrect == Spec => []TypeOK
<1>1. Spec => []ShapeInv
  BY ShapeInit, ShapeNext, PTL DEF Spec
<1>2. ShapeInv => TypeOK
  BY Zenon DEF ShapeInv
<1> QED BY <1>1, <1>2, PTL


-----------------------------------------------------------------------------
(* What a step does to the anchor: nothing, the write of a candidate, or a
   higher fence, each computed from exactly the state the anchor holds. *)

Commits(p) == pc[p] = "promote" /\ Advance(p)

Establishes(p) ==
    pc[p] = "estCas" /\ RaiseFence(p, call[p].token) /\ UNCHANGED <<log, committed>>

Reserves(p) ==
    pc[p] = "resCas" /\ RaiseFence(p, seen[p].fence + 1) /\ UNCHANGED <<log, committed>>

(* Every process step that moves the anchor is one of these three. *)
LEMMA AnchorStep ==
  ASSUME ShapeInv, NEW p \in Procs, ProcessStep(p)
  PROVE  /\ UNCHANGED <<anchor, log>> \/ Commits(p) \/ Establishes(p) \/ Reserves(p)
         /\ seen'[p] \in {seen[p], anchor, InitialAnchor}
         /\ UNCHANGED restores
<1>0. TypeOK
  BY Zenon DEF ShapeInv
<1> USE DEF Goto, Answer, Refuse, Continue, Begin, Retry, AnchorConflict
<1>1. CASE Start(p)
  BY Zenon, <1>0, <1>1 DEF Start, load, reserve_fence, IssueLease, RecoverCandidates,
              compare_and_swap, compare_and_swap_fenced, TypeOK
<1>2. CASE LoadAnchorState(p) \/ RecordMissing(p) \/ LoadRow(p)
  BY Zenon, <1>0, <1>2 DEF LoadAnchorState, RecordMissing, LoadRow, TypeOK
<1>3. CASE EstablishRow(p) \/ EstablishActual(p)
  BY Zenon, <1>0, <1>3 DEF EstablishRow, EstablishActual, CompareFence, TypeOK
<1>4. CASE EstablishCas(p)
  BY Zenon, <1>0, <1>4 DEF EstablishCas, Establishes, TypeOK
<1>5. CASE PrepareRow(p) \/ CheckFenceAndRevision(p)
  BY Zenon, <1>0, <1>5 DEF PrepareRow, CheckFenceAndRevision, TypeOK
<1>6. CASE PersistCandidate(p) \/ PersistActual(p)
  BY Zenon, <1>0, <1>6 DEF PersistCandidate, PersistActual, TypeOK
<1>7. CASE Promote(p)
  BY Zenon, <1>0, <1>7 DEF Promote, Commits, TypeOK
<1>8. CASE PromoteActual(p) \/ ReserveRow(p)
  BY <1>0, <1>8 DEF PromoteActual, ReserveRow, TypeOK
<1>9. CASE ReserveCas(p)
  BY Zenon, <1>0, <1>9 DEF ReserveCas, Reserves, TypeOK
<1>10. CASE RecoverRow(p) \/ DiscardCandidates(p) \/ BackendError(p) \/ Crash(p)
  BY Zenon, <1>0, <1>10 DEF RecoverRow, DiscardCandidates, BackendError, Crash, TypeOK
<1>11. CASE LostReply(p)
  BY Zenon, <1>0, <1>11 DEF LostReply, Commits, Establishes, Reserves, TypeOK
<1> QED BY Zenon, <1>1, <1>2, <1>3, <1>4, <1>5, <1>6, <1>7, <1>8, <1>9, <1>10, <1>11
          DEF ProcessStep, Step

(* The anchor steps in terms of the values they write. *)
LEMMA AnchorEffect ==
  ASSUME ShapeInv, NEW p \in Procs
  PROVE  /\ Commits(p) =>
              /\ anchor = seen[p] /\ anchor.rev < MaxRevision
              /\ anchor'.rev = anchor.rev + 1 /\ anchor'.com = call[p].payload
              /\ anchor'.fence = anchor.fence /\ call[p].token = anchor.fence
              /\ call[p].payload \in Payloads
              /\ log' = Append(log, [payload |-> anchor'.com, token |-> anchor.fence])
         /\ Establishes(p) \/ Reserves(p) =>
              /\ anchor = seen[p]
              /\ anchor'.rev = anchor.rev /\ anchor'.com = anchor.com
              /\ anchor'.fence > anchor.fence /\ anchor'.fence \in 1..MaxFence
              /\ log' = log
         /\ Establishes(p) => anchor'.fence = call[p].token
         /\ Reserves(p) => anchor'.fence = anchor.fence + 1
<1>0. TypeOK /\ PhaseInv(p)
  BY Zenon DEF ShapeInv
<1>1. /\ anchor.rev \in 0..MaxRevision /\ anchor.fence \in 0..MaxFence
      /\ call[p].token \in 0..MaxFence /\ DOMAIN anchor = {"rev", "com", "fence"}
  BY Zenon, <1>0 DEF TypeOK, AnchorStates, Calls
<1>2. ASSUME Commits(p)
      PROVE  /\ anchor = seen[p] /\ anchor.rev < MaxRevision
             /\ anchor'.rev = anchor.rev + 1 /\ anchor'.com = call[p].payload
             /\ anchor'.fence = anchor.fence /\ call[p].token = anchor.fence
             /\ call[p].payload \in Payloads
             /\ log' = Append(log, [payload |-> anchor'.com, token |-> anchor.fence])
  BY Zenon, <1>0, <1>1, <1>2 DEF Commits, Advance, PhaseInv, WritePhases, TypeOK, AnchorStates
<1>3. ASSUME Establishes(p)
      PROVE  /\ anchor = seen[p]
             /\ anchor'.rev = anchor.rev /\ anchor'.com = anchor.com
             /\ anchor'.fence > anchor.fence /\ anchor'.fence \in 1..MaxFence
             /\ log' = log /\ anchor'.fence = call[p].token
  BY SMTT(30), <1>0, <1>1, <1>3 DEF Establishes, RaiseFence, PhaseInv, TypeOK, AnchorStates
<1>4. ASSUME Reserves(p)
      PROVE  /\ anchor = seen[p]
             /\ anchor'.rev = anchor.rev /\ anchor'.com = anchor.com
             /\ anchor'.fence > anchor.fence /\ anchor'.fence \in 1..MaxFence
             /\ log' = log /\ anchor'.fence = anchor.fence + 1
  BY SMTT(30), <1>0, <1>1, <1>4 DEF Reserves, RaiseFence, PhaseInv, TypeOK, AnchorStates
<1> QED BY Zenon, <1>2, <1>3, <1>4

(* The steps that belong to no process leave the anchor alone. *)
LEMMA HostStep ==
  ASSUME [Next]_vars
  PROVE  \/ \E p \in Procs : ProcessStep(p)
         \/ Backup \/ Restore \/ UNCHANGED vars
  BY Zenon DEF Next, ProcessStep

(* Backups and restores change neither the history nor what callers hold. *)
LEMMA HostEffect ==
  ASSUME Backup \/ Restore \/ UNCHANGED vars
  PROVE  UNCHANGED <<anchor, pc, call, seen, lease, result, committed, log, issued>>
  BY Zenon DEF Backup, Restore, vars

(* No writer commits under a token other than the newest one the anchor knows,
   for any number of processes: the anchor accepts a write only from the state
   it holds, fence included, and the writer checked that fence to be its own. *)
THEOREM StaleWritersShutOut == Spec => NoStaleCommit
<1>1. ShapeInv /\ [Next]_vars =>
        [log' # log => log'[Len(log')].token = anchor.fence]_vars
  <2> SUFFICES ASSUME ShapeInv, [Next]_vars, log' # log
               PROVE  log'[Len(log')].token = anchor.fence
    BY Zenon
  <2>1. PICK p \in Procs : ProcessStep(p)
    BY Zenon, HostStep, HostEffect
  <2>2. log' = Append(log, [payload |-> anchor'.com, token |-> anchor.fence])
    BY Zenon, <2>1, AnchorStep, AnchorEffect
  <2>3. log \in Seq([payload : Payloads, token : 0..MaxFence])
    BY Zenon DEF ShapeInv, TypeOK
  <2> QED BY <2>2, <2>3
<1> QED BY <1>1, ShapeInit, ShapeNext, PTL DEF Spec, NoStaleCommit

(* The committed revision and the fence never go back, whatever process writes
   the anchor and whatever happens to the SQLite file. *)
THEOREM AnchorNeverGoesBack == Spec => AnchorMonotonic
<1>1. ShapeInv /\ [Next]_vars =>
        [/\ anchor'.rev >= anchor.rev
         /\ anchor'.fence >= anchor.fence
         /\ anchor'.com # anchor.com => anchor'.rev = anchor.rev + 1]_vars
  <2> SUFFICES ASSUME ShapeInv, [Next]_vars
               PROVE  /\ anchor'.rev >= anchor.rev
                      /\ anchor'.fence >= anchor.fence
                      /\ anchor'.com # anchor.com => anchor'.rev = anchor.rev + 1
    BY Zenon
  <2>1. anchor.rev \in Nat /\ anchor.fence \in Nat
    BY DEF ShapeInv, TypeOK, AnchorStates
  <2>2. CASE UNCHANGED anchor
    BY <2>1, <2>2
  <2>3. ASSUME NEW p \in Procs, ProcessStep(p), ~UNCHANGED anchor
        PROVE  /\ anchor'.rev >= anchor.rev
               /\ anchor'.fence >= anchor.fence
               /\ anchor'.com # anchor.com => anchor'.rev = anchor.rev + 1
    <3>1. Commits(p) \/ Establishes(p) \/ Reserves(p)
      BY Zenon, <2>3, AnchorStep
    <3>2. anchor'.fence \in Nat /\ anchor'.rev \in Nat
      <4>1. ShapeInv'
        BY Zenon, ShapeNext
      <4> QED BY <4>1 DEF ShapeInv, TypeOK, AnchorStates
    <3> QED BY SMTT(30), <2>1, <3>1, <3>2, AnchorEffect
  <2> QED BY Zenon, <2>2, <2>3, HostStep, HostEffect
<1> QED BY <1>1, ShapeInit, ShapeNext, PTL DEF Spec, AnchorMonotonic

-----------------------------------------------------------------------------
(* Refinement: seen through the anchor, every step is a step of the atomic
   fenced store or a stutter. *)

(* The anchored SQLite store implements the atomic fenced store: a write takes
   effect once, at the expected revision and under the current fence, at the
   moment the anchor accepts it, also when the answer is lost, the writer
   crashes, or rows are pruned, discarded or restored around it. *)
THEOREM Refinement == Spec => ImplementsFencedStore
<1>1. Init => Atomic!HistoryInit
  BY DEF Init, Atomic!HistoryInit, Atomic!Init, InitialAnchor
<1>2. ShapeInv /\ [Next]_vars => [Atomic!HistoryNext]_(Atomic!historyVars)
  <2> SUFFICES ASSUME ShapeInv, [Next]_vars
               PROVE  Atomic!HistoryNext \/ UNCHANGED Atomic!historyVars
    BY Zenon
  <2>1. CASE UNCHANGED <<anchor, log>>
    BY Zenon, <2>1 DEF Atomic!historyVars, Atomic!storeVars
  <2>2. ASSUME NEW p \in Procs, ProcessStep(p), ~UNCHANGED <<anchor, log>>
        PROVE  Atomic!HistoryNext
    <3>1. anchor.rev \in 0..MaxRevision /\ anchor.fence \in 0..MaxFence
      BY Zenon DEF ShapeInv, TypeOK, AnchorStates
    <3>2. CASE Commits(p)
      <4>1. /\ anchor.rev < MaxRevision /\ anchor'.rev = anchor.rev + 1
            /\ anchor'.com = call[p].payload /\ call[p].payload \in Payloads
            /\ anchor'.fence = anchor.fence
            /\ log' = Append(log, [payload |-> anchor'.com, token |-> anchor.fence])
        BY Zenon, <3>2, AnchorEffect
      <4>2. Atomic!Write(anchor.rev, call[p].payload, anchor.fence)
        BY Zenon, <4>1 DEF Atomic!Write, Atomic!compare_and_swap
      <4> QED BY Zenon, <3>1, <4>1, <4>2 DEF Atomic!HistoryNext
    <3>3. CASE Establishes(p) \/ Reserves(p)
      <4>1. /\ anchor'.rev = anchor.rev /\ anchor'.com = anchor.com
            /\ anchor'.fence > anchor.fence /\ anchor'.fence \in 1..MaxFence
            /\ log' = log
        BY Zenon, <3>3, AnchorEffect
      <4>2. Atomic!establish_fence(anchor'.fence)
        BY Zenon, <4>1 DEF Atomic!establish_fence
      <4> QED BY Zenon, <4>1, <4>2 DEF Atomic!HistoryNext
    <3> QED BY Zenon, <2>2, <3>2, <3>3, AnchorStep
  <2>3. CASE Backup \/ Restore \/ UNCHANGED vars
    BY Zenon, <2>1, <2>3, HostEffect
  <2> QED BY Zenon, <2>1, <2>2, <2>3, HostStep
<1> QED BY <1>1, <1>2, ShapeInit, ShapeNext, PTL
          DEF Spec, ImplementsFencedStore, Atomic!HistorySpec

-----------------------------------------------------------------------------
(* Second layer: every anchor state a call works with was committed. *)

Log == Seq([payload : Payloads, token : 0..MaxFence])

(* The payload committed at revision n of a history. *)
PayloadAt(l, n) == IF n = 0 THEN NoPayload ELSE l[n].payload

(* A state is one the anchor once held, given the history and the fence. *)
Known(state, l, f) ==
    /\ state.rev <= Len(l)
    /\ state.com = PayloadAt(l, state.rev)
    /\ state.fence <= f

HistoryInv ==
    /\ Len(log) = anchor.rev
    /\ Known(anchor, log, anchor.fence)
    /\ \A p \in Procs : Known(seen[p], log, anchor.fence)

(* A state stays known as the history and the fence grow. *)
LEMMA KnownGrows ==
  ASSUME NEW s \in AnchorStates, NEW l \in Log, NEW f \in Nat, NEW g \in Nat,
         Known(s, l, f), f <= g,
         NEW v \in Payloads, NEW t \in 0..MaxFence
  PROVE  /\ Known(s, l, g)
         /\ Known(s, Append(l, [payload |-> v, token |-> t]), g)
<1> DEFINE e == [payload |-> v, token |-> t]
           m == Append(l, e)
<1>1. s.rev \in Nat /\ s.fence \in Nat /\ Len(l) \in Nat
  BY DEF AnchorStates, Log
<1>2. Known(s, l, g)
  BY <1>1 DEF Known
<1>3. e \in [payload : Payloads, token : 0..MaxFence]
  BY Zenon
<1>4. Len(m) = Len(l) + 1 /\ \A i \in 1..Len(l) : m[i] = l[i]
  BY <1>3 DEF Log
<1>5. s.rev # 0 => m[s.rev] = l[s.rev]
  BY <1>1, <1>4 DEF Known
<1>6. Known(s, m, g)
  BY <1>1, <1>2, <1>4, <1>5 DEF Known, PayloadAt
<1> QED BY Zenon, <1>2, <1>6

(* Initially nothing is committed and nothing was read. *)
LEMMA HistoryInit == Init => HistoryInv
  BY DEF Init, HistoryInv, Known, PayloadAt, InitialAnchor

(* Reads copy the anchor, and only a commit extends the history, by the
   payload the anchor moves to. *)
LEMMA HistoryNext == ShapeInv /\ HistoryInv /\ [Next]_vars => HistoryInv'
<1> SUFFICES ASSUME ShapeInv, HistoryInv, [Next]_vars PROVE HistoryInv'
  BY Zenon
<1>0. /\ anchor \in AnchorStates /\ log \in Log /\ InitialAnchor \in AnchorStates
      /\ anchor.fence \in Nat /\ anchor.fence \in 0..MaxFence /\ anchor.rev \in Nat
      /\ \A p \in Procs : seen[p] \in AnchorStates
  BY Initials DEF ShapeInv, TypeOK, Log, AnchorStates
<1>1. ASSUME NEW p \in Procs, ProcessStep(p) PROVE HistoryInv'
  <2>1. \A q \in Procs : seen'[q] \in {seen[q], anchor, InitialAnchor}
    BY Zenon, <1>1, StepLocal, AnchorStep DEF ShapeInv, OthersUntouched
  <2>2. Known(InitialAnchor, log, anchor.fence)
    BY <1>0 DEF Known, PayloadAt, InitialAnchor, Log
  <2>3. \A q \in Procs : Known(seen'[q], log, anchor.fence) /\ seen'[q] \in AnchorStates
    BY Zenon, <1>0, <2>1, <2>2 DEF HistoryInv
  <2>4. CASE UNCHANGED <<anchor, log>>
    BY Zenon, <2>3, <2>4 DEF HistoryInv
  <2>5. CASE Establishes(p) \/ Reserves(p)
    <3>1. /\ anchor'.rev = anchor.rev /\ anchor'.com = anchor.com /\ log' = log
          /\ anchor'.fence > anchor.fence /\ anchor'.fence \in Nat
      BY <2>5, AnchorEffect
    <3>2. \A q \in Procs : Known(seen'[q], log', anchor'.fence)
      BY SMTT(30), <1>0, <2>3, <3>1 DEF Known, AnchorStates
    <3>3. Known(anchor', log', anchor'.fence)
      BY <3>1 DEF HistoryInv, Known
    <3> QED BY Zenon, <3>1, <3>2, <3>3 DEF HistoryInv
  <2>6. CASE Commits(p)
    <3>1. /\ anchor'.rev = anchor.rev + 1 /\ anchor'.com \in Payloads
          /\ anchor'.fence = anchor.fence
          /\ log' = Append(log, [payload |-> anchor'.com, token |-> anchor.fence])
      BY Zenon, <2>6, AnchorEffect
    <3>2. \A q \in Procs : Known(seen'[q], log', anchor'.fence)
      BY <1>0, <2>3, <3>1, KnownGrows
    <3>3. Len(log') = Len(log) + 1 /\ log'[Len(log) + 1].payload = anchor'.com
      BY <1>0, <3>1 DEF Log
    <3>4. Len(log') = anchor'.rev /\ Known(anchor', log', anchor'.fence)
      BY <1>0, <3>1, <3>3 DEF HistoryInv, Known, PayloadAt
    <3> QED BY Zenon, <3>2, <3>4 DEF HistoryInv
  <2> QED BY Zenon, <1>1, <2>4, <2>5, <2>6, AnchorStep
<1>2. CASE Backup \/ Restore \/ UNCHANGED vars
  BY Zenon, <1>2, HostEffect DEF HistoryInv
<1> QED BY Zenon, <1>1, <1>2, HostStep

(* Two known states of the same revision agree on the payload. *)
LEMMA SameRevision ==
  ASSUME HistoryInv, NEW p \in Procs, seen[p].rev = anchor.rev
  PROVE  seen[p].com = anchor.com
  BY Zenon DEF HistoryInv, Known

-----------------------------------------------------------------------------
(* What callers are told. *)

Vague == {"none", "unknown", "reserved", "discarded"}

AnswerStays(p) == result'[p] = result[p] /\ committed'[p] = committed[p]

AnswerVague(p) == result'[p].kind \in Vague

AnswerRefuses(p) ==
    result'[p].kind \in Refusals /\ pc[p] # "idle" /\ committed'[p] = committed[p]

AnswerLoads(p) ==
    /\ result'[p].kind = "loaded"
    /\ result'[p].rev = seen[p].rev /\ result'[p].com = seen[p].com

AnswerStores(p) ==
    /\ result'[p].kind = "stored" /\ Commits(p)
    /\ result'[p].rev = seen[p].rev + 1 /\ result'[p].com = call[p].payload

(* A step leaves the last answer alone or gives one of these. *)
LEMMA AnswerStep ==
  ASSUME ShapeInv, HistoryInv, NEW p \in Procs, ProcessStep(p)
  PROVE  AnswerStays(p) \/ AnswerVague(p) \/ AnswerRefuses(p) \/ AnswerLoads(p)
            \/ AnswerStores(p)
<1>0. TypeOK
  BY Zenon DEF ShapeInv
<1>1. ASSUME NEW k, NEW r, NEW v, Answer(p, k, r, v)
      PROVE  result'[p].kind = k /\ result'[p].rev = r /\ result'[p].com = v
  BY Zenon, <1>0, <1>1 DEF Answer, TypeOK
<1>2. ASSUME NEW k \in Refusals, Refuse(p, k), pc[p] # "idle" PROVE AnswerRefuses(p)
  BY Zenon, <1>1, <1>2 DEF Refuse, AnswerRefuses
<1>3. ASSUME NEW phase, Continue(p, phase) \/ AnchorConflict(p, phase)
      PROVE  AnswerStays(p)
  BY Zenon, <1>3 DEF Continue, AnchorConflict, AnswerStays
<1>4. ASSUME NEW phase, Retry(p, phase), pc[p] # "idle"
      PROVE  AnswerStays(p) \/ AnswerRefuses(p)
  BY Zenon, <1>2, <1>4 DEF Retry, AnswerStays, Refusals
<1>5. ASSUME NEW a, NEW phase, Begin(p, a, phase) PROVE AnswerVague(p)
  BY Zenon, <1>0, <1>5 DEF Begin, TypeOK, NoResult, AnswerVague, Vague
<1>6. FenceRefusal(p) \in Refusals
  BY Zenon DEF FenceRefusal, Refusals
<1>7. CASE Start(p)
  <2>1. CASE IssueLease(p)
    BY Zenon, <2>1 DEF IssueLease, AnswerStays
  <2> QED BY ZenonT(30), <1>5, <1>7, <2>1
            DEF Start, load, reserve_fence, RecoverCandidates, compare_and_swap,
                compare_and_swap_fenced
<1>8. CASE LoadRow(p)
  <2>1. CASE seen[p].rev = 0 /\ Answer(p, "loaded", 0, NoPayload)
    <3>1. seen[p].com = NoPayload
      BY Zenon, <2>1 DEF HistoryInv, Known, PayloadAt
    <3> QED BY Zenon, <1>1, <2>1, <3>1 DEF AnswerLoads
  <2>2. ASSUME NEW r \in FoundRows(seen[p]), Answer(p, "loaded", r.rev, r.com)
        PROVE  AnswerLoads(p)
    BY Zenon, <1>1, <2>2 DEF AnswerLoads, FoundRows
  <2> QED BY Zenon, <1>8, <2>1, <2>2 DEF LoadRow
<1>9. CASE LoadAnchorState(p)
  BY Zenon, <1>9 DEF LoadAnchorState, AnswerStays
<1>10. CASE RecordMissing(p)
  <2>1. pc[p] # "idle" /\ "AnchorRecordMissing" \in Refusals
    BY Zenon, <1>10 DEF RecordMissing, RowPhases, Refusals
  <2> QED BY Zenon, <1>2, <1>10, <2>1 DEF RecordMissing
<1>11. CASE EstablishRow(p) \/ EstablishActual(p)
  <2>1. pc[p] # "idle" /\ "FencingTokenRejected" \in Refusals
    BY Zenon, <1>11 DEF EstablishRow, EstablishActual, Refusals
  <2> QED BY Zenon, <1>2, <1>3, <1>4, <1>11, <2>1
            DEF EstablishRow, EstablishActual, CompareFence
<1>12. CASE EstablishCas(p)
  BY ZenonT(30), <1>3, <1>12 DEF EstablishCas, AnswerStays
<1>13. CASE PrepareRow(p) \/ CheckFenceAndRevision(p) \/ PersistActual(p)
  <2>1. pc[p] # "idle" /\ {"WriteConflict", "RevisionExhausted"} \subseteq Refusals
    BY ZenonT(30), <1>13 DEF PrepareRow, CheckFenceAndRevision, PersistActual, Refusals
  <2> QED BY Zenon, <1>2, <1>3, <1>6, <1>13, <2>1
            DEF PrepareRow, CheckFenceAndRevision, PersistActual
<1>14. CASE PersistCandidate(p)
  <2>1. pc[p] # "idle" /\ "PendingCandidateLimit" \in Refusals
    BY ZenonT(30), <1>14 DEF PersistCandidate, Refusals
  <2> QED BY ZenonT(30), <1>2, <1>3, <1>14, <2>1 DEF PersistCandidate, AnswerStays
<1>15. CASE Promote(p)
  BY ZenonT(30), <1>1, <1>3, <1>15 DEF Promote, AnswerStores, Commits
<1>16. CASE PromoteActual(p) \/ ReserveRow(p) \/ RecoverRow(p)
  <2>1. /\ pc[p] # "idle"
        /\ {"FencingTokenRejected", "WriteConflict", "FencingTokenExhausted"} \subseteq Refusals
    BY Zenon, <1>16 DEF PromoteActual, ReserveRow, RecoverRow, Refusals
  <2> QED BY ZenonT(40), <1>2, <1>3, <1>16, <2>1 DEF PromoteActual, ReserveRow, RecoverRow
<1>17. CASE ReserveCas(p)
  <2>1. pc[p] # "idle" /\ "reserved" \in Vague
    BY Zenon, <1>17 DEF ReserveCas, Vague
  <2> QED BY Zenon, <1>1, <1>4, <1>17, <2>1 DEF ReserveCas, AnswerVague, AnswerStays
<1>18. CASE DiscardCandidates(p) \/ BackendError(p) \/ Crash(p) \/ LostReply(p)
  <2>1. PICK k \in Vague : Answer(p, k, 0, NoPayload)
    BY Zenon, <1>18 DEF DiscardCandidates, BackendError, Crash, LostReply, Refuse, Vague
  <2> QED BY ZenonT(30), <1>1, <2>1 DEF AnswerVague
<1> QED BY Zenon, <1>7, <1>8, <1>9, <1>10, <1>11, <1>12, <1>13, <1>14, <1>15, <1>16,
           <1>17, <1>18 DEF ProcessStep, Step

(* Loads report what is committed at their revision, stores what they wrote. *)
ReportInv ==
    /\ LoadsReturnCommitted
    /\ AnswersAreDefinite
    /\ \A p \in Procs : result[p].kind = "stored" => result[p].rev \in 1..Len(log)

(* The history only grows at its end. *)
LEMMA LogGrows ==
  ASSUME ShapeInv, [Next]_vars
  PROVE  /\ Len(log) \in Nat /\ Len(log') \in Nat /\ Len(log) <= Len(log')
         /\ \A i \in 1..Len(log) : log'[i] = log[i]
<1>0. log \in Log
  BY Zenon DEF ShapeInv, TypeOK, Log
<1>1. CASE log' = log
  BY <1>0, <1>1 DEF Log
<1>2. ASSUME NEW p \in Procs, Commits(p)
      PROVE  /\ Len(log) \in Nat /\ Len(log') \in Nat /\ Len(log) <= Len(log')
             /\ \A i \in 1..Len(log) : log'[i] = log[i]
  <2>1. PICK e : log' = Append(log, e) /\ e \in [payload : Payloads, token : 0..MaxFence]
    <3>1. /\ call[p].payload \in Payloads /\ anchor'.com = call[p].payload
          /\ log' = Append(log, [payload |-> anchor'.com, token |-> anchor.fence])
      BY Zenon, <1>2, AnchorEffect
    <3>2. anchor.fence \in 0..MaxFence
      BY Zenon DEF ShapeInv, TypeOK, AnchorStates
    <3> QED BY <3>1, <3>2
  <2> QED BY <1>0, <2>1 DEF Log
<1>3. \/ log' = log
      \/ \E p \in Procs : Commits(p)
  BY Zenon, HostStep, HostEffect, AnchorStep DEF Establishes, Reserves
<1> QED BY Zenon, <1>1, <1>2, <1>3

(* A step gives a truthful answer, and commits do not falsify earlier ones. *)
LEMMA ReportNext ==
  ShapeInv /\ HistoryInv /\ ReportInv /\ [Next]_vars => ReportInv'
<1> SUFFICES ASSUME ShapeInv, HistoryInv, ReportInv, [Next]_vars PROVE ReportInv'
  BY Zenon
<1>0. /\ Len(log) \in Nat /\ Len(log') \in Nat /\ Len(log) <= Len(log')
      /\ \A i \in 1..Len(log) : log'[i] = log[i]
  BY Zenon, LogGrows
<1> DEFINE Loaded(q) ==
             result'[q].kind = "loaded" =>
               /\ result'[q].rev <= Len(log')
               /\ result'[q].com = IF result'[q].rev = 0 THEN NoPayload
                                   ELSE log'[result'[q].rev].payload
           Definite(q) ==
             /\ result'[q].kind \in Refusals => ~committed'[q]
             /\ result'[q].kind = "stored" =>
                  /\ committed'[q]
                  /\ log'[result'[q].rev].payload = result'[q].com
                  /\ result'[q].rev \in 1..Len(log')
<1>1. ASSUME NEW q \in Procs, result'[q] = result[q], committed'[q] = committed[q]
      PROVE  Loaded(q) /\ Definite(q)
  <2>1. result[q].rev \in Nat
    BY DEF ShapeInv, TypeOK, Results
  <2>2. Loaded(q)
    <3>1. result[q].kind = "loaded" =>
            /\ result[q].rev <= Len(log)
            /\ result[q].com = IF result[q].rev = 0 THEN NoPayload
                              ELSE log[result[q].rev].payload
      BY Zenon DEF ReportInv, LoadsReturnCommitted
    <3>2. result[q].kind = "loaded" /\ result[q].rev # 0 => result[q].rev \in 1..Len(log)
      BY <1>0, <2>1, <3>1
    <3> QED BY SMTT(30), <1>0, <1>1, <2>1, <3>1, <3>2
  <2>3. Definite(q)
    <3>1. /\ result[q].kind \in Refusals => ~committed[q]
          /\ result[q].kind = "stored" =>
               /\ committed[q] /\ log[result[q].rev].payload = result[q].com
               /\ result[q].rev \in 1..Len(log)
      BY Zenon DEF ReportInv, AnswersAreDefinite
    <3> QED BY SMTT(30), <1>0, <1>1, <2>1, <3>1
  <2> QED BY Zenon, <2>2, <2>3
<1>2. ASSUME NEW p \in Procs, ProcessStep(p) PROVE Loaded(p) /\ Definite(p)
  <2>1. CASE AnswerStays(p)
    BY Zenon, <1>1, <2>1 DEF AnswerStays
  <2>2. CASE AnswerVague(p)
    BY Zenon, <2>2 DEF AnswerVague, Vague, Refusals
  <2>3. CASE AnswerRefuses(p)
    BY Zenon, <2>3 DEF AnswerRefuses, Refusals, ShapeInv, PhaseInv
  <2>4. CASE AnswerLoads(p)
    <3>1. seen[p].rev \in Nat
      BY DEF ShapeInv, TypeOK, AnchorStates
    <3>2. seen[p].rev <= Len(log) /\ seen[p].com = PayloadAt(log, seen[p].rev)
      BY Zenon DEF HistoryInv, Known
    <3>3. Loaded(p)
      BY <1>0, <2>4, <3>1, <3>2 DEF AnswerLoads, PayloadAt
    <3>4. Definite(p)
      BY SMTT(30), <2>4 DEF AnswerLoads, Refusals
    <3> QED BY <3>3, <3>4
  <2>5. CASE AnswerStores(p)
    <3>1. /\ anchor = seen[p] /\ anchor'.com = call[p].payload
          /\ log' = Append(log, [payload |-> anchor'.com, token |-> anchor.fence])
      <4>1. Commits(p)
        BY Zenon, <2>5 DEF AnswerStores
      <4> QED BY ZenonT(30), <4>1, AnchorEffect
    <3>2. /\ log \in Log /\ Len(log) = anchor.rev /\ Len(log) \in Nat
      BY Zenon, <1>0 DEF ShapeInv, TypeOK, Log, HistoryInv
    <3>3. Len(log') = Len(log) + 1 /\ log'[Len(log) + 1].payload = call[p].payload
      BY SMTT(30), <3>1, <3>2 DEF Log
    <3>4. committed'[p]
      BY Zenon, <2>5 DEF AnswerStores, Commits, Advance, ShapeInv, TypeOK
    <3>5. /\ result'[p].kind = "stored" /\ result'[p].com = call[p].payload
          /\ result'[p].rev = Len(log) + 1
      <4>1. /\ result'[p].kind = "stored" /\ result'[p].com = call[p].payload
            /\ result'[p].rev = seen[p].rev + 1
        BY Zenon, <2>5 DEF AnswerStores
      <4> QED BY Zenon, <3>1, <3>2, <4>1
    <3>6. result'[p].kind # "loaded" /\ result'[p].kind \notin Refusals
      BY Zenon, <3>5 DEF Refusals
    <3>7. result'[p].rev \in 1..Len(log')
      BY <3>2, <3>3, <3>5
    <3> QED BY Zenon, <3>3, <3>4, <3>5, <3>6, <3>7
  <2> QED BY ZenonT(30), <1>2, <2>1, <2>2, <2>3, <2>4, <2>5, AnswerStep
<1>3. \A q \in Procs : Loaded(q) /\ Definite(q)
  <2>1. ASSUME NEW p \in Procs, ProcessStep(p), NEW q \in Procs, q # p
        PROVE  Loaded(q) /\ Definite(q)
    <3>1. result'[q] = result[q] /\ committed'[q] = committed[q]
      BY ZenonT(30), <2>1, StepLocal DEF ShapeInv, OthersUntouched
    <3> QED BY ZenonT(30), <1>1, <3>1
  <2>2. CASE Backup \/ Restore \/ UNCHANGED vars
    BY Zenon, <1>1, <2>2, HostEffect
  <2> QED BY Zenon, <1>2, <2>1, <2>2, HostStep
<1> QED BY Zenon, <1>3 DEF ReportInv, LoadsReturnCommitted, AnswersAreDefinite

(* Initially nobody was told anything. *)
LEMMA ReportInit == Init => ReportInv
  BY DEF Init, ReportInv, LoadsReturnCommitted, AnswersAreDefinite, NoResult, Refusals

(* The first two layers and the truth of the answers hold throughout. *)
LEMMA ReportAlways == Spec => [](ShapeInv /\ HistoryInv /\ ReportInv)
  BY ShapeInit, ShapeNext, HistoryInit, HistoryNext, ReportInit, ReportNext, PTL DEF Spec

(* A load that succeeds returns what was committed at the revision it reports,
   for any number of processes and any number of restored SQLite files. *)
THEOREM LoadsCorrect == Spec => []LoadsReturnCommitted
<1>1. ReportInv => LoadsReturnCommitted
  BY Zenon DEF ReportInv
<1> QED BY <1>1, ReportAlways, PTL

(* A refusal never hides a committed write and a stored answer is never wrong,
   however the caller's anchor accesses raced with others. *)
THEOREM AnswersCorrect == Spec => []AnswersAreDefinite
<1>1. ReportInv => AnswersAreDefinite
  BY Zenon DEF ReportInv
<1> QED BY <1>1, ReportAlways, PTL

-----------------------------------------------------------------------------
(* The order of the tokens writes were committed under. *)

TokensLogged ==
    /\ \A i \in 1..Len(log) : log[i].token <= anchor.fence
    /\ CommitTokensMonotone

(* A commit logs the fence of the anchor, which is no lower than any before. *)
LEMMA TokensLoggedNext == ShapeInv /\ TokensLogged /\ [Next]_vars => TokensLogged'
<1> SUFFICES ASSUME ShapeInv, TokensLogged, [Next]_vars PROVE TokensLogged'
  OBVIOUS
<1>0. ShapeInv'
  BY Zenon, ShapeNext
<1>1. /\ log \in Log /\ anchor.fence \in Nat /\ anchor'.fence \in Nat
      /\ \A i \in 1..Len(log) : log[i].token \in Nat
  <2>1. log \in Log
    BY Zenon DEF ShapeInv, TypeOK, Log
  <2>2. anchor.fence \in Nat /\ anchor'.fence \in Nat
    BY <1>0 DEF ShapeInv, TypeOK, AnchorStates
  <2> DEFINE E == [payload : Payloads, token : 0..MaxFence]
  <2>3. log \in Seq(E)
    BY Zenon, <2>1 DEF Log
  <2>4. \A x \in E : x.token \in Nat
    OBVIOUS
  <2> HIDE DEF E
  <2>5. \A i \in 1..Len(log) : log[i] \in E
    BY <2>3
  <2> QED BY Zenon, <2>1, <2>2, <2>4, <2>5
<1>2. CASE log' = log /\ anchor.fence <= anchor'.fence
  <2>1. \A i \in 1..Len(log) : log[i].token <= anchor'.fence
    BY <1>1, <1>2 DEF TokensLogged
  <2> QED BY Zenon, <1>2, <2>1 DEF TokensLogged, CommitTokensMonotone
<1>3. ASSUME NEW p \in Procs, Commits(p) PROVE TokensLogged'
  <2> DEFINE e == [payload |-> anchor'.com, token |-> anchor.fence]
  <2>1. log' = Append(log, e) /\ anchor'.fence = anchor.fence
    BY Zenon, <1>3, AnchorEffect
  <2>2. e \in [payload : Payloads, token : 0..MaxFence]
    <3>1. anchor'.com \in Payloads
      BY Zenon, <1>3, AnchorEffect
    <3>2. anchor.fence \in 0..MaxFence
      BY Zenon DEF ShapeInv, TypeOK, AnchorStates
    <3> QED BY Zenon, <3>1, <3>2
  <2>3. /\ Len(log) \in Nat /\ Len(log') = Len(log) + 1
        /\ log'[Len(log) + 1].token = anchor.fence
        /\ \A i \in 1..Len(log) : log'[i] = log[i]
        /\ DOMAIN log' = 1..Len(log') /\ DOMAIN log = 1..Len(log)
    BY <1>1, <2>1, <2>2 DEF Log
  <2>4. \A i \in 1..Len(log') : log'[i].token <= anchor.fence
    BY <1>1, <2>3 DEF TokensLogged
  <2>5. ASSUME NEW i \in DOMAIN log', NEW j \in DOMAIN log', i < j
        PROVE  log'[i].token <= log'[j].token
    <3>1. CASE j = Len(log) + 1
      BY Zenon, <2>3, <2>4, <3>1
    <3>2. CASE j # Len(log) + 1
      <4>1. i \in DOMAIN log /\ j \in DOMAIN log
        BY <2>3, <2>5, <3>2
      <4>2. log[i].token <= log[j].token
        BY Zenon, <2>5, <4>1 DEF TokensLogged, CommitTokensMonotone
      <4> QED BY Zenon, <2>3, <4>1, <4>2
    <3> QED BY Zenon, <3>1, <3>2
  <2> QED BY Zenon, <2>1, <2>4, <2>5 DEF TokensLogged, CommitTokensMonotone
<1>4. \/ log' = log /\ anchor.fence <= anchor'.fence
      \/ \E p \in Procs : Commits(p)
  <2>1. ASSUME NEW p \in Procs, ProcessStep(p), ~Commits(p)
        PROVE  log' = log /\ anchor.fence <= anchor'.fence
    BY SMTT(30), <1>1, <2>1, AnchorStep, AnchorEffect
  <2>2. CASE Backup \/ Restore \/ UNCHANGED vars
    BY <1>1, <2>2, HostEffect
  <2> QED BY Zenon, <2>1, <2>2, HostStep
<1> QED BY Zenon, <1>2, <1>3, <1>4

(* Writes are committed under tokens that never go down, so once a fenced
   writer committed, no writer with an older lease, and none without a lease,
   commits after it. *)
THEOREM CommitTokensNeverGoDown == Spec => []CommitTokensMonotone
<1>1. Init => TokensLogged
  BY DEF Init, TokensLogged, CommitTokensMonotone
<1>2. TokensLogged => CommitTokensMonotone
  BY Zenon DEF TokensLogged
<1> QED BY <1>1, <1>2, ShapeInit, ShapeNext, TokensLoggedNext, PTL DEF Spec

-----------------------------------------------------------------------------
(* Third layer: who holds which token.  Recovery takes its fence with
   reserve_fence, so this needs the leases to come from the same source. *)

OneTokenSource == ~(ExternalLeases /\ Recovery)

(* The highest token handed out so far. *)
Ceiling == IF ExternalLeases THEN issued ELSE anchor.fence

TokensBelow ==
    \A p \in Procs : lease[p] <= Ceiling /\ call[p].token <= Ceiling

(* A recovery runs alone: hosts stop admissions first. *)
RecoveryAlone ==
    \A p, q \in Procs :
        p # q /\ call[p].op = "recover" => call[q].op \notin {"reserve", "recover"}

(* From the moment a recovery has its fence until it is done, nobody moves the
   anchor. *)
RecoveryFence ==
    \A p \in Procs :
        /\ pc[p] \in RecoveryPhases => anchor.fence = call[p].token /\ call[p].token > 0
        /\ pc[p] \in {"recRow", "recDelete"} => seen[p] = anchor

LeaseInv == TokensBelow /\ LeasesUnique /\ RecoveryAlone /\ RecoveryFence

TokensKept(p) ==
    {lease'[p], call'[p].token} \subseteq {lease[p], call[p].token, 0} /\ issued' = issued

TokensReserved(p) ==
    /\ {lease'[p], call'[p].token} \subseteq {lease[p], call[p].token, 0, seen[p].fence + 1}
    /\ issued' = issued /\ Reserves(p)

(* A step keeps the tokens of its process, drops some, or adds a fresh one. *)
LEMMA TokenStep ==
  ASSUME ShapeInv, NEW p \in Procs, ProcessStep(p)
  PROVE  TokensKept(p) \/ TokensReserved(p) \/ IssueLease(p)
<1>0. TypeOK
  BY Zenon DEF ShapeInv
<1>a. ASSUME NEW k, NEW r, NEW v, Answer(p, k, r, v) PROVE call'[p].token = 0
  BY Zenon, <1>0, <1>a DEF Answer, TypeOK, NoCall
<1>b. ASSUME NEW k, Refuse(p, k) PROVE TokensKept(p)
  BY Zenon, <1>a, <1>b DEF Refuse, TokensKept
<1>c. ASSUME NEW phase, Continue(p, phase) \/ AnchorConflict(p, phase) \/ Retry(p, phase)
      PROVE  TokensKept(p)
  BY Zenon, <1>b, <1>c DEF Continue, AnchorConflict, Retry, TokensKept
<1>d. ASSUME NEW a, NEW phase, Begin(p, a, phase), a.token \in {0, lease[p]}
      PROVE  TokensKept(p)
  BY Zenon, <1>0, <1>d DEF Begin, TypeOK, TokensKept
<1>1. CASE Start(p)
  <2>1. CASE load(p) \/ reserve_fence(p) \/ RecoverCandidates(p)
    BY ZenonT(30), <1>d, <2>1, OpCall DEF load, reserve_fence, RecoverCandidates
  <2>2. ASSUME NEW e \in 0..MaxRevision, NEW v \in Payloads,
               compare_and_swap(p, e, v) \/ compare_and_swap_fenced(p, e, v)
        PROVE  TokensKept(p)
    BY Zenon, <1>d, <2>2 DEF compare_and_swap, compare_and_swap_fenced
  <2> QED BY Zenon, <1>1, <2>1, <2>2 DEF Start
<1>2. CASE LoadAnchorState(p)
  BY Zenon, <1>2 DEF LoadAnchorState, TokensKept
<1>3. CASE RecordMissing(p) \/ BackendError(p) \/ PersistActual(p) \/ PromoteActual(p)
  BY Zenon, <1>b, <1>3 DEF RecordMissing, BackendError, PersistActual, PromoteActual
<1>4. CASE LoadRow(p) \/ DiscardCandidates(p) \/ Crash(p)
  <2>1. lease'[p] \in {lease[p], 0} /\ issued' = issued
    BY Zenon, <1>0, <1>4 DEF LoadRow, DiscardCandidates, Crash, TypeOK
  <2>2. call'[p].token = 0
    BY Zenon, <1>a, <1>4 DEF LoadRow, DiscardCandidates, Crash
  <2> QED BY Zenon, <2>1, <2>2 DEF TokensKept
<1>5. CASE EstablishRow(p) \/ EstablishActual(p)
  BY Zenon, <1>b, <1>c, <1>5 DEF EstablishRow, EstablishActual, CompareFence
<1>6. CASE EstablishCas(p)
  BY Zenon, <1>c, <1>6 DEF EstablishCas, TokensKept
<1>7. CASE PrepareRow(p) \/ CheckFenceAndRevision(p) \/ ReserveRow(p) \/ RecoverRow(p)
  BY Zenon, <1>b, <1>c, <1>7 DEF PrepareRow, CheckFenceAndRevision, ReserveRow, RecoverRow
<1>8. CASE PersistCandidate(p)
  BY Zenon, <1>b, <1>c, <1>8 DEF PersistCandidate, TokensKept
<1>9. CASE Promote(p)
  BY Zenon, <1>a, <1>c, <1>9 DEF Promote, TokensKept
<1>10. CASE LostReply(p)
  BY Zenon, <1>a, <1>10 DEF LostReply, TokensKept
<1>11. CASE ReserveCas(p)
  <2>1. CASE Retry(p, "resAnchor")
    BY Zenon, <1>c, <2>1
  <2>2. CASE /\ RaiseFence(p, seen[p].fence + 1)
             /\ lease' = [lease EXCEPT ![p] = seen[p].fence + 1]
             /\ Answer(p, "reserved", 0, NoPayload)
             /\ UNCHANGED <<rows, committed, log, issued, backup, restores>>
    <3>1. lease'[p] = seen[p].fence + 1
      BY Zenon, <1>0, <2>2 DEF TypeOK
    <3> QED BY Zenon, <1>a, <1>11, <2>2, <3>1 DEF ReserveCas, TokensReserved, Reserves
  <2>3. CASE /\ RaiseFence(p, seen[p].fence + 1)
             /\ call' = [call EXCEPT ![p].token = seen[p].fence + 1]
             /\ UNCHANGED <<rows, seen, tries, lease, result, committed, log,
                            issued, backup, restores>>
    <3>1. call'[p].token = seen[p].fence + 1
      BY <1>0, <2>3 DEF TypeOK, Calls
    <3> QED BY Zenon, <1>11, <2>3, <3>1 DEF ReserveCas, TokensReserved, Reserves
  <2> QED BY Zenon, <1>11, <2>1, <2>2, <2>3 DEF ReserveCas
<1> QED BY Zenon, <1>1, <1>2, <1>3, <1>4, <1>5, <1>6, <1>7, <1>8, <1>9, <1>10, <1>11
          DEF ProcessStep, Step

OpKept(p) == call'[p].op \in {call[p].op, "none", "load", "cas"}

OpStarts(p) ==
    \/ call'[p].op = "reserve" /\ \A q \in Procs : call[q].op # "recover"
    \/ call'[p].op = "recover" /\ \A q \in Procs : call[q].op \notin {"reserve", "recover"}

(* Where a process is after its step, as far as a recovery is concerned. *)
RecoveryMoves(p) ==
    \/ pc'[p] \notin RecoveryPhases
    \/ /\ Reserves(p) /\ pc'[p] = "recAnchor" /\ call'[p].token = seen[p].fence + 1
    \/ /\ pc[p] \in RecoveryPhases /\ call'[p] = call[p] /\ UNCHANGED anchor
       /\ \/ pc'[p] = "recRow" /\ seen'[p] = anchor
          \/ pc'[p] = "recDelete" /\ pc[p] = "recRow" /\ seen'[p] = seen[p]

(* Every process step is one of these moves. *)
LEMMA RecoveryStep ==
  ASSUME ShapeInv, NEW p \in Procs, ProcessStep(p)
  PROVE  (OpKept(p) \/ OpStarts(p)) /\ RecoveryMoves(p)
<1>0. TypeOK
  BY DEF ShapeInv
<1> DEFINE Goal == (OpKept(p) \/ OpStarts(p)) /\ RecoveryMoves(p)
<1>a. ASSUME NEW k, NEW r, NEW v, Answer(p, k, r, v) PROVE Goal
  <2>1. pc'[p] = "idle" /\ call'[p] = NoCall
    BY Zenon, <1>0, <1>a, AnswerShape
  <2> QED BY <2>1 DEF NoCall, OpKept, RecoveryMoves, RecoveryPhases
<1>b. ASSUME NEW k, Refuse(p, k) PROVE Goal
  BY Zenon, <1>a, <1>b DEF Refuse
<1>c. ASSUME NEW phase, Continue(p, phase) \/ AnchorConflict(p, phase) \/ Retry(p, phase),
             phase \notin RecoveryPhases
      PROVE  Goal
  <2>1. CASE Refuse(p, "AnchorContention")
    BY Zenon, <1>b, <2>1
  <2>2. CASE Goto(p, phase) /\ call' = call
    BY Zenon, <1>0, <1>c, <2>2 DEF Goto, TypeOK, OpKept, RecoveryMoves
  <2> QED BY Zenon, <1>c, <2>1, <2>2 DEF Continue, AnchorConflict, Retry
<1>d. ASSUME NEW a, NEW phase, Begin(p, a, phase), phase \notin RecoveryPhases
      PROVE  RecoveryMoves(p) /\ call'[p] = a
  BY Zenon, <1>0, <1>d DEF Begin, Goto, TypeOK, RecoveryMoves
<1>e. \A x \in {"loadAnchor", "prepAnchor", "estAnchor", "resAnchor", "estCas",
                "estActual", "casAnchor", "persist", "persistActual", "promote",
                "promoteActual", "resCas"} : x \notin RecoveryPhases
  BY Zenon DEF RecoveryPhases
<1>1. CASE Start(p)
  <2>1. CASE load(p)
    BY ZenonT(30), <1>d, <1>e, <2>1, OpCall DEF load, OpKept
  <2>2. CASE reserve_fence(p)
    <3>1. /\ Begin(p, [NoCall EXCEPT !.op = "reserve"], "resAnchor")
          /\ \A q \in Procs : call[q].op # "recover"
      BY Zenon, <2>2 DEF reserve_fence, Recovering
    <3> QED BY ZenonT(30), <1>d, <1>e, <3>1, OpCall DEF OpStarts
  <2>3. CASE RecoverCandidates(p)
    <3>1. /\ Begin(p, [NoCall EXCEPT !.op = "recover"], "resAnchor")
          /\ \A q \in Procs : call[q].op \notin {"reserve", "recover"}
      BY Zenon, <2>3 DEF RecoverCandidates, Recovering
    <3> QED BY ZenonT(30), <1>d, <1>e, <3>1, OpCall DEF OpStarts
  <2>4. CASE IssueLease(p)
    <3>1. pc[p] = "idle" /\ UNCHANGED <<pc, call>>
      BY Zenon, <2>4 DEF IssueLease
    <3> QED BY Zenon, <3>1 DEF OpKept, RecoveryMoves, RecoveryPhases
  <2>5. ASSUME NEW e \in 0..MaxRevision, NEW v \in Payloads,
               compare_and_swap(p, e, v) \/ compare_and_swap_fenced(p, e, v)
        PROVE  Goal
    <3>1. RecoveryMoves(p) /\ call'[p].op = "cas"
      BY <1>d, <1>e, <2>5 DEF compare_and_swap, compare_and_swap_fenced
    <3> QED BY Zenon, <3>1 DEF OpKept
  <2> QED BY Zenon, <1>1, <2>1, <2>2, <2>3, <2>4, <2>5 DEF Start
<1>2. CASE LoadAnchorState(p)
  <2>1. /\ pc[p] \in AnchorPhases /\ pc'[p] = RowPhaseOf[pc[p]]
        /\ call' = call /\ anchor' = anchor /\ seen'[p] = anchor
    BY Zenon, <1>0, <1>2 DEF LoadAnchorState, Goto, TypeOK
  <2> QED BY Zenon, <2>1, NextPhase DEF OpKept, RecoveryMoves, RecoveryPhases
<1>3. CASE RecordMissing(p) \/ BackendError(p) \/ PersistActual(p) \/ PromoteActual(p)
  BY Zenon, <1>b, <1>3 DEF RecordMissing, BackendError, PersistActual, PromoteActual
<1>4. CASE LoadRow(p) \/ DiscardCandidates(p) \/ Crash(p) \/ LostReply(p)
  BY Zenon, <1>a, <1>4 DEF LoadRow, DiscardCandidates, Crash, LostReply
<1>5. CASE EstablishRow(p) \/ EstablishActual(p)
  BY Zenon, <1>b, <1>c, <1>e, <1>5 DEF EstablishRow, EstablishActual, CompareFence
<1>6. CASE EstablishCas(p)
  <2>1. CASE Goto(p, "prepAnchor") /\ call' = call
    BY Zenon, <1>0, <1>e, <2>1 DEF Goto, TypeOK, OpKept, RecoveryMoves
  <2> QED BY Zenon, <1>c, <1>e, <1>6, <2>1 DEF EstablishCas
<1>7. CASE PrepareRow(p) \/ CheckFenceAndRevision(p) \/ ReserveRow(p)
  BY Zenon, <1>b, <1>c, <1>e, <1>7 DEF PrepareRow, CheckFenceAndRevision, ReserveRow
<1>8. CASE PersistCandidate(p)
  <2>1. CASE Goto(p, "promote") /\ call' = call
    BY Zenon, <1>0, <1>e, <2>1 DEF Goto, TypeOK, OpKept, RecoveryMoves
  <2> QED BY Zenon, <1>b, <1>c, <1>e, <1>8, <2>1 DEF PersistCandidate
<1>9. CASE Promote(p)
  BY Zenon, <1>a, <1>c, <1>e, <1>9 DEF Promote
<1>10. CASE RecoverRow(p)
  <2>1. CASE Continue(p, "recDelete")
    <3>1. /\ pc[p] = "recRow" /\ pc'[p] = "recDelete"
          /\ call' = call /\ seen' = seen /\ anchor' = anchor
      BY Zenon, <1>0, <1>10, <2>1 DEF RecoverRow, Continue, Goto, TypeOK
    <3> QED BY Zenon, <3>1 DEF OpKept, RecoveryMoves, RecoveryPhases
  <2> QED BY Zenon, <1>b, <1>10, <2>1 DEF RecoverRow
<1>11. CASE ReserveCas(p)
  <2>1. CASE /\ RaiseFence(p, seen[p].fence + 1)
             /\ call' = [call EXCEPT ![p].token = seen[p].fence + 1]
             /\ Goto(p, "recAnchor")
             /\ UNCHANGED <<rows, seen, tries, lease, result, committed, log,
                            issued, backup, restores>>
    <3>1. /\ call'[p].token = seen[p].fence + 1 /\ call'[p].op = call[p].op
          /\ pc'[p] = "recAnchor"
      BY <1>0, <2>1 DEF TypeOK, Calls, Goto
    <3>2. Reserves(p)
      BY Zenon, <1>11, <2>1 DEF ReserveCas, Reserves
    <3> QED BY Zenon, <3>1, <3>2 DEF OpKept, RecoveryMoves
  <2> QED BY Zenon, <1>a, <1>c, <1>e, <1>11, <2>1 DEF ReserveCas
<1> QED BY Zenon, <1>1, <1>2, <1>3, <1>4, <1>5, <1>6, <1>7, <1>8, <1>9, <1>10, <1>11
          DEF ProcessStep, Step

(* The types the arithmetic of tokens needs. *)
LEMMA TokenTypes ==
  ASSUME ShapeInv
  PROVE  /\ issued \in Nat /\ anchor.fence \in Nat /\ Ceiling \in Nat
         /\ \A p \in Procs : lease[p] \in Nat /\ call[p].token \in Nat
                             /\ seen[p].fence \in Nat
  BY SMTT(30) DEF ShapeInv, TypeOK, AnchorStates, Calls, Ceiling

(* A token that enters a process's hands is above every token handed out
   before it. *)
LEMMA FreshTokens ==
  ASSUME ShapeInv, OneTokenSource, NEW p \in Procs, ProcessStep(p)
  PROVE  /\ Ceiling <= Ceiling'
         /\ \/ {lease'[p], call'[p].token} \subseteq {lease[p], call[p].token, 0}
            \/ \E t \in Nat :
                 /\ Ceiling < t /\ t <= Ceiling'
                 /\ {lease'[p], call'[p].token} \subseteq {lease[p], call[p].token, 0, t}
<1>0. ShapeInv' /\ PhaseInv(p)
  BY Zenon, ShapeNext DEF Next, ProcessStep, ShapeInv
<1>1. /\ issued \in Nat /\ anchor.fence \in Nat /\ seen[p].fence \in Nat
      /\ issued' \in Nat /\ anchor'.fence \in Nat
  BY SMTT(30), <1>0, TokenTypes DEF ShapeInv, TypeOK, AnchorStates
<1>2. anchor.fence <= anchor'.fence
  <2>1. anchor.fence <= anchor.fence
    BY Zenon, <1>1, TokenOrder
  <2>2. anchor'.fence > anchor.fence => anchor.fence <= anchor'.fence
    BY Zenon, <1>1, TokenOrder
  <2>3. anchor' = anchor \/ anchor'.fence = anchor.fence \/ anchor'.fence > anchor.fence
    BY Zenon, AnchorStep, AnchorEffect
  <2> QED BY Zenon, <2>1, <2>2, <2>3
<1>3. CASE TokensKept(p)
  <2>1. issued <= issued
    BY Zenon, <1>1, TokenOrder
  <2> QED BY Zenon, <1>2, <1>3, <2>1 DEF TokensKept, Ceiling
<1>4. CASE TokensReserved(p)
  <2>1. ~ExternalLeases
    BY Zenon, <1>0, <1>4 DEF TokensReserved, Reserves, PhaseInv, ReservePhases, OneTokenSource
  <2>2. anchor = seen[p] /\ anchor'.fence = anchor.fence + 1
    BY Zenon, <1>4, AnchorEffect DEF TokensReserved
  <2>3. Ceiling = anchor.fence /\ Ceiling' = anchor.fence + 1
    BY Zenon, <2>1, <2>2 DEF Ceiling
  <2> DEFINE t == seen[p].fence + 1
  <2>4. {lease'[p], call'[p].token} \subseteq {lease[p], call[p].token, 0, t}
    BY Zenon, <1>4 DEF TokensReserved
  <2>5. t = Ceiling'
    BY Zenon, <2>2, <2>3
  <2>6. anchor.fence + 1 \in Nat /\ anchor.fence < anchor.fence + 1
        /\ anchor.fence <= anchor.fence + 1 /\ anchor.fence + 1 <= anchor.fence + 1
    BY Zenon, <1>1, TokenOrder
  <2> HIDE DEF t
  <2> QED BY Zenon, <2>3, <2>4, <2>5, <2>6
<1>5. CASE IssueLease(p)
  <2>1. ExternalLeases /\ issued < issued' /\ call' = call
    <3>1. /\ ExternalLeases /\ call' = call
          /\ issued' = 1 + (IF issued > anchor.fence THEN issued ELSE anchor.fence)
      BY Zenon, <1>5 DEF IssueLease
    <3>2. issued < issued'
      BY Zenon, <1>1, <3>1, TokenOrder
    <3> QED BY Zenon, <3>1, <3>2
  <2>2. lease'[p] = issued'
    BY Zenon, <1>5 DEF IssueLease, ShapeInv, TypeOK
  <2>3. Ceiling = issued /\ Ceiling' = issued'
    BY Zenon, <2>1 DEF Ceiling
  <2>4. issued <= issued' /\ issued' <= issued'
    BY Zenon, <1>1, <2>1, TokenOrder
  <2> QED BY Zenon, <1>1, <2>1, <2>2, <2>3, <2>4
<1> QED BY Zenon, <1>3, <1>4, <1>5, TokenStep

(* While a recovery holds its fence, no step of another process moves the
   anchor: a writer needs the newest token, which is the recovery's. *)
LEMMA RecoveryHolds ==
  ASSUME ShapeInv, LeaseInv, OneTokenSource, NEW p \in Procs, ProcessStep(p),
         NEW q \in Procs, q # p, pc[q] \in RecoveryPhases
  PROVE  UNCHANGED anchor
<1>0. /\ PhaseInv(p) /\ PhaseInv(q) /\ call[q].op = "recover" /\ ~ExternalLeases
  BY Zenon DEF ShapeInv, PhaseInv, OneTokenSource
<1>1. anchor.fence = call[q].token /\ call[q].token > 0 /\ call[q].token \in Nat
  BY Zenon, TokenTypes DEF LeaseInv, RecoveryFence
<1>2. ASSUME Commits(p) PROVE FALSE
  <2>1. call[p].token = anchor.fence
    BY Zenon, <1>2, AnchorEffect
  <2>2. call[p].token \in Held(p) \cap Held(q)
    BY <1>1, <2>1 DEF Held
  <2> QED BY Zenon, <2>2 DEF LeaseInv, LeasesUnique
<1>3. ASSUME Establishes(p) PROVE FALSE
  <2>1. call[p].token > anchor.fence
    BY Zenon, <1>3, AnchorEffect
  <2>2. call[p].token <= anchor.fence
    BY ZenonT(30), <1>0 DEF LeaseInv, TokensBelow, Ceiling
  <2> QED BY <2>1, <2>2, TokenTypes
<1>4. ASSUME Reserves(p) PROVE FALSE
  BY Zenon, <1>0, <1>4 DEF Reserves, PhaseInv, ReservePhases, LeaseInv, RecoveryAlone
<1> QED BY Zenon, <1>2, <1>3, <1>4, AnchorStep

(* Initially nobody holds a token. *)
LEMMA LeaseInit == Init => LeaseInv
<1> SUFFICES ASSUME Init PROVE LeaseInv
  BY Zenon
<1>1. NoCall.op = "none" /\ NoCall.token = 0 /\ InitialAnchor.fence = 0
  BY Zenon DEF NoCall, InitialAnchor
<1> QED BY <1>1 DEF Init, LeaseInv, TokensBelow, Ceiling, LeasesUnique, Held,
                    RecoveryAlone, RecoveryFence, RecoveryPhases

(* With one source of tokens every step keeps them distinct and the recovery
   undisturbed. *)
LEMMA LeaseNext ==
  ShapeInv /\ LeaseInv /\ OneTokenSource /\ [Next]_vars => LeaseInv'
<1> SUFFICES ASSUME ShapeInv, LeaseInv, OneTokenSource, [Next]_vars PROVE LeaseInv'
  BY Zenon
<1>0. ShapeInv'
  BY Zenon, ShapeNext
<1>1. ASSUME NEW p \in Procs, ProcessStep(p) PROVE LeaseInv'
  <2>0. /\ Ceiling \in Nat /\ Ceiling' \in Nat /\ Ceiling <= Ceiling'
        /\ \A q \in Procs : lease[q] \in Nat /\ call[q].token \in Nat
        /\ \A q \in Procs : lease'[q] \in Nat /\ call'[q].token \in Nat
    <3>1. Ceiling' \in Nat /\ \A q \in Procs : lease'[q] \in Nat /\ call'[q].token \in Nat
      <4>1. /\ issued' \in Nat /\ anchor'.fence \in Nat
            /\ \A q \in Procs : lease'[q] \in Nat /\ call'[q] \in Calls
        BY <1>0 DEF ShapeInv, TypeOK, AnchorStates
      <4> QED BY SMTT(30), <4>1 DEF Calls, Ceiling
    <3>2. Ceiling \in Nat /\ \A q \in Procs : lease[q] \in Nat /\ call[q].token \in Nat
      BY Zenon, TokenTypes
    <3>3. Ceiling <= Ceiling'
      BY Zenon, <1>1, FreshTokens
    <3> QED BY Zenon, <3>1, <3>2, <3>3
  <2>1. \A q \in Procs \ {p} :
          /\ pc'[q] = pc[q] /\ call'[q] = call[q] /\ seen'[q] = seen[q]
          /\ lease'[q] = lease[q]
    BY Zenon, <1>1, StepLocal DEF ShapeInv, OthersUntouched
  <2>2. \A q \in Procs \ {p} : lease'[q] <= Ceiling /\ call'[q].token <= Ceiling
    BY Zenon, <2>1 DEF LeaseInv, TokensBelow
  <2>3. \A x \in {lease'[p], call'[p].token} :
           x \in {lease[p], call[p].token, 0} \/ (Ceiling < x /\ x <= Ceiling')
    BY Zenon, <1>1, FreshTokens
  <2>4. TokensBelow'
    <3>1. lease[p] <= Ceiling /\ call[p].token <= Ceiling
      BY Zenon DEF LeaseInv, TokensBelow
    <3>2. lease'[p] <= Ceiling' /\ call'[p].token <= Ceiling'
      BY <2>0, <2>3, <3>1
    <3>3. \A q \in Procs \ {p} : lease'[q] <= Ceiling' /\ call'[q].token <= Ceiling'
      BY SMTT(30), <2>0, <2>2
    <3> QED BY Zenon, <3>2, <3>3 DEF TokensBelow
  <2>5. LeasesUnique'
    <3>1. ASSUME NEW q \in Procs, q # p,
                 NEW x \in {lease'[p], call'[p].token}, x # 0,
                 x \in {lease'[q], call'[q].token}
          PROVE  FALSE
      <4>1. x <= Ceiling /\ x \in {lease[q], call[q].token} /\ x \in Nat
        BY Zenon, <2>0, <2>1, <2>2, <3>1
      <4>2. x \in {lease[p], call[p].token}
        BY <2>0, <2>3, <3>1, <4>1
      <4>3. x \in Held(p) \cap Held(q)
        BY Zenon, <3>1, <4>1, <4>2 DEF Held
      <4> QED BY Zenon, <3>1, <4>3 DEF LeaseInv, LeasesUnique
    <3>2. ASSUME NEW q \in Procs, NEW r \in Procs, q # p, r # p, q # r
          PROVE  Held(q)' \cap Held(r)' = {}
      <4>1. Held(q) \cap Held(r) = {}
        BY Zenon, <3>2 DEF LeaseInv, LeasesUnique
      <4> QED BY Zenon, <2>1, <3>2, <4>1 DEF Held
    <3> QED BY <3>1, <3>2 DEF LeasesUnique, Held
  <2>6. RecoveryAlone'
    BY <1>1, <2>1, RecoveryStep DEF OpKept, OpStarts, LeaseInv, RecoveryAlone
  <2>7. RecoveryFence'
    <3>1. ASSUME NEW q \in Procs, q # p
          PROVE  /\ pc'[q] \in RecoveryPhases =>
                      anchor'.fence = call'[q].token /\ call'[q].token > 0
                 /\ pc'[q] \in {"recRow", "recDelete"} => seen'[q] = anchor'
      <4>1. CASE pc[q] \in RecoveryPhases
        <5>1. anchor' = anchor
          BY Zenon, <1>1, <3>1, <4>1, RecoveryHolds
        <5> QED BY Zenon, <2>1, <3>1, <5>1 DEF LeaseInv, RecoveryFence
      <4>2. CASE pc[q] \notin RecoveryPhases
        BY Zenon, <2>1, <3>1, <4>2 DEF RecoveryPhases
      <4> QED BY Zenon, <4>1, <4>2
    <3>2. /\ pc'[p] \in RecoveryPhases =>
               anchor'.fence = call'[p].token /\ call'[p].token > 0
          /\ pc'[p] \in {"recRow", "recDelete"} => seen'[p] = anchor'
      <4>1. CASE pc'[p] \notin RecoveryPhases
        BY Zenon, <4>1 DEF RecoveryPhases
      <4>2. CASE /\ Reserves(p) /\ pc'[p] = "recAnchor"
                 /\ call'[p].token = seen[p].fence + 1
        BY <4>2, AnchorEffect, TokenTypes
      <4>3. CASE /\ pc[p] \in RecoveryPhases /\ call'[p] = call[p] /\ UNCHANGED anchor
                 /\ \/ pc'[p] = "recRow" /\ seen'[p] = anchor
                    \/ pc'[p] = "recDelete" /\ pc[p] = "recRow" /\ seen'[p] = seen[p]
        BY Zenon, <4>3 DEF LeaseInv, RecoveryFence
      <4> QED BY Zenon, <1>1, <4>1, <4>2, <4>3, RecoveryStep DEF RecoveryMoves
    <3> QED BY Zenon, <3>1, <3>2 DEF RecoveryFence
  <2> QED BY Zenon, <2>4, <2>5, <2>6, <2>7 DEF LeaseInv
<1>2. CASE Backup \/ Restore \/ UNCHANGED vars
  BY SMTT(30), <1>2, HostEffect DEF LeaseInv, TokensBelow, Ceiling, LeasesUnique, Held,
                          RecoveryAlone, RecoveryFence
<1> QED BY Zenon, <1>1, <1>2, HostStep

(* The tokens that admissions and recoveries hold are distinct, for any number
   of concurrent reserve_fence calls, crashes and lost answers, as long as the
   leases and the recovery fences come from one source. *)
THEOREM LeasesDistinct == OneTokenSource => (Spec => []LeasesUnique)
<1> SUFFICES ASSUME OneTokenSource PROVE Spec => []LeasesUnique
  BY Zenon
<1>1. ShapeInv /\ LeaseInv /\ [Next]_vars => LeaseInv'
  BY Zenon, LeaseNext
<1>2. LeaseInv => LeasesUnique
  BY Zenon DEF LeaseInv
<1> QED BY <1>1, <1>2, ShapeInit, ShapeNext, LeaseInit, PTL DEF Spec

-----------------------------------------------------------------------------
(* Fourth layer: the rows in the SQLite file. *)

(* A writer that will win the next anchor compare-and-swap has its row. *)
CandidateKept ==
    restores = 0 => \A p \in Procs :
        pc[p] = "promote" /\ seen[p] = anchor => Candidate(p) \in rows

RowInv == CommittedRowPresent /\ CandidateKept

RowsKept(p) == rows' = rows /\ pc'[p] # "promote"

RowsPersisted(p) ==
    /\ rows' = Pruned(seen[p]) \cup {Candidate(p)}
    /\ anchor = seen[p] /\ pc'[p] = "promote"
    /\ UNCHANGED <<anchor, call, seen>>

RowsDiscarded(p) ==
    /\ pc[p] = "recDelete" /\ pc'[p] = "idle" /\ UNCHANGED anchor
    /\ rows' = {r \in rows : seen[p].rev # 0 /\ r = RowAt(seen[p])}

(* A step leaves the rows alone, persists a candidate, or discards. *)
LEMMA RowStep ==
  ASSUME ShapeInv, NEW p \in Procs, ProcessStep(p)
  PROVE  RowsKept(p) \/ RowsPersisted(p) \/ RowsDiscarded(p)
<1>0. TypeOK
  BY DEF ShapeInv
<1>a. ASSUME NEW k, NEW r, NEW v, Answer(p, k, r, v) PROVE pc'[p] = "idle"
  BY Zenon, <1>0, <1>a, AnswerShape
<1>b. ASSUME NEW k, Refuse(p, k) PROVE RowsKept(p)
  BY Zenon, <1>a, <1>b DEF Refuse, RowsKept
<1>c. ASSUME NEW phase, Continue(p, phase) \/ AnchorConflict(p, phase) \/ Retry(p, phase),
             phase # "promote"
      PROVE  RowsKept(p)
  <2>1. CASE Refuse(p, "AnchorContention")
    BY Zenon, <1>b, <2>1
  <2>2. CASE Goto(p, phase) /\ rows' = rows
    BY Zenon, <1>0, <1>c, <2>2 DEF Goto, TypeOK, RowsKept
  <2> QED BY Zenon, <1>c, <2>1, <2>2 DEF Continue, AnchorConflict, Retry
<1>d. ASSUME NEW a, NEW phase, Begin(p, a, phase), phase # "promote"
      PROVE  RowsKept(p)
  BY Zenon, <1>0, <1>d DEF Begin, Goto, TypeOK, RowsKept
<1>1. CASE Start(p)
  <2>1. CASE IssueLease(p)
    BY Zenon, <2>1 DEF IssueLease, RowsKept
  <2> QED BY ZenonT(30), <1>d, <1>1, <2>1
            DEF Start, load, reserve_fence, RecoverCandidates, compare_and_swap,
                compare_and_swap_fenced
<1>2. CASE LoadAnchorState(p)
  <2>1. pc[p] \in AnchorPhases /\ pc'[p] = RowPhaseOf[pc[p]] /\ rows' = rows
    BY Zenon, <1>0, <1>2 DEF LoadAnchorState, Goto, TypeOK
  <2> QED BY Zenon, <2>1, NextPhase DEF RowsKept
<1>3. CASE RecordMissing(p) \/ BackendError(p) \/ PersistActual(p) \/ PromoteActual(p)
  BY Zenon, <1>b, <1>3 DEF RecordMissing, BackendError, PersistActual, PromoteActual
<1>4. CASE LoadRow(p) \/ Crash(p) \/ LostReply(p)
  BY Zenon, <1>a, <1>4 DEF LoadRow, Crash, LostReply, RowsKept
<1>5. CASE EstablishRow(p) \/ EstablishActual(p)
  BY Zenon, <1>b, <1>c, <1>5 DEF EstablishRow, EstablishActual, CompareFence
<1>6. CASE EstablishCas(p)
  <2>1. CASE Goto(p, "prepAnchor") /\ rows' = rows
    BY Zenon, <1>0, <2>1 DEF Goto, TypeOK, RowsKept
  <2> QED BY Zenon, <1>c, <1>6, <2>1 DEF EstablishCas
<1>7. CASE PrepareRow(p) \/ CheckFenceAndRevision(p) \/ ReserveRow(p) \/ RecoverRow(p)
  BY Zenon, <1>b, <1>c, <1>7 DEF PrepareRow, CheckFenceAndRevision, ReserveRow, RecoverRow
<1>8. CASE PersistCandidate(p)
  <2>1. CASE /\ anchor = seen[p] /\ rows' = Pruned(seen[p]) \cup {Candidate(p)}
             /\ Goto(p, "promote")
             /\ UNCHANGED <<anchor, call, seen, tries, lease, result, committed,
                            log, issued, backup, restores>>
    BY Zenon, <1>0, <2>1 DEF Goto, TypeOK, RowsPersisted
  <2> QED BY Zenon, <1>b, <1>c, <1>8, <2>1 DEF PersistCandidate
<1>9. CASE Promote(p)
  BY Zenon, <1>a, <1>c, <1>9 DEF Promote, RowsKept
<1>10. CASE ReserveCas(p)
  <2>1. CASE Goto(p, "recAnchor") /\ rows' = rows
    BY Zenon, <1>0, <2>1 DEF Goto, TypeOK, RowsKept
  <2> QED BY Zenon, <1>a, <1>c, <1>10, <2>1 DEF ReserveCas, RowsKept
<1>11. CASE DiscardCandidates(p)
  BY Zenon, <1>a, <1>11 DEF DiscardCandidates, RowsDiscarded
<1> QED BY Zenon, <1>1, <1>2, <1>3, <1>4, <1>5, <1>6, <1>7, <1>8, <1>9, <1>10, <1>11
          DEF ProcessStep, Step

(* Neither the pruning of another writer nor a recovery removes the committed
   row or the row of the next winner. *)
LEMMA RowNext ==
  ShapeInv /\ HistoryInv /\ LeaseInv /\ OneTokenSource /\ RowInv /\ [Next]_vars
    => RowInv'
<1> SUFFICES ASSUME ShapeInv, HistoryInv, LeaseInv, OneTokenSource, RowInv, [Next]_vars
             PROVE  RowInv'
  BY Zenon
<1>0. /\ restores \in Nat /\ anchor.rev \in Nat /\ anchor.fence \in Nat
      /\ \A q \in Procs : seen[q].rev \in Nat /\ seen[q].fence \in Nat
  BY SMTT(30) DEF ShapeInv, TypeOK, AnchorStates
<1>1. ASSUME NEW p \in Procs, ProcessStep(p) PROVE RowInv'
  <2>0. restores' = restores
    BY Zenon, <1>1, AnchorStep
  <2>1. SUFFICES ASSUME restores = 0 PROVE RowInv'
    BY Zenon, <2>0 DEF RowInv, CommittedRowPresent, CandidateKept
  <2>2. \A q \in Procs \ {p} :
          pc'[q] = pc[q] /\ call'[q] = call[q] /\ seen'[q] = seen[q]
    BY Zenon, <1>1, StepLocal DEF ShapeInv, OthersUntouched
  <2>3. /\ anchor.rev # 0 => RowAt(anchor) \in rows
        /\ \A q \in Procs : pc[q] = "promote" /\ seen[q] = anchor => Candidate(q) \in rows
    BY Zenon, <2>1 DEF RowInv, CommittedRowPresent, CandidateKept
  <2>4. CASE RowsPersisted(p)
    <3>1. anchor' = anchor /\ anchor = seen[p] /\ call' = call /\ seen' = seen
      BY Zenon, <2>4 DEF RowsPersisted
    <3>2. anchor.rev # 0 => RowAt(anchor) \in rows'
      <4>1. RowAt(anchor).rev = anchor.rev /\ RowAt(anchor).com = anchor.com
        BY Zenon DEF RowAt
      <4>2. anchor.rev # 0 => RowAt(anchor) \in Pruned(anchor)
        BY <1>0, <2>3, <4>1 DEF Pruned
      <4> QED BY Zenon, <2>4, <3>1, <4>2 DEF RowsPersisted
    <3>3. ASSUME NEW q \in Procs, pc'[q] = "promote", seen[q] = anchor
          PROVE  Candidate(q) \in rows'
      <4>1. CASE q = p
        BY Zenon, <2>4, <4>1 DEF RowsPersisted
      <4>2. CASE q # p
        <5>1. Candidate(q) \in rows /\ Candidate(q).rev = anchor.rev + 1
          BY ZenonT(60), <2>2, <2>3, <3>3, <4>2 DEF Candidate
        <5>2. Candidate(q) \in Pruned(seen[p])
          BY <1>0, <3>1, <5>1 DEF Pruned
        <5> QED BY Zenon, <2>4, <5>2 DEF RowsPersisted
      <4> QED BY Zenon, <4>1, <4>2
    <3>4. \A q \in Procs : Candidate(q)' = Candidate(q)
      BY Zenon, <3>1 DEF Candidate
    <3> QED BY Zenon, <3>1, <3>2, <3>3, <3>4
              DEF RowInv, CommittedRowPresent, CandidateKept, RowAt
  <2>5. CASE RowsDiscarded(p)
    <3>1. seen[p] = anchor /\ anchor' = anchor /\ pc[p] \in RecoveryPhases
      BY Zenon, <2>5 DEF RowsDiscarded, LeaseInv, RecoveryFence, RecoveryPhases
    <3>2. anchor.rev # 0 => RowAt(anchor) \in rows'
      BY Zenon, <2>3, <2>5, <3>1 DEF RowsDiscarded
    <3>3. ASSUME NEW q \in Procs, pc'[q] = "promote", seen'[q] = anchor PROVE FALSE
      <4>1. q # p
        BY Zenon, <2>5, <3>3 DEF RowsDiscarded
      <4>2. pc[q] = "promote" /\ seen[q] = anchor
        BY Zenon, <2>2, <3>3, <4>1
      <4>3. call[q].token = anchor.fence
        BY Zenon, <4>2 DEF ShapeInv, PhaseInv
      <4>4. anchor.fence = call[p].token /\ call[p].token > 0
        BY Zenon, <3>1 DEF LeaseInv, RecoveryFence
      <4>5. call[q].token \in Held(p) \cap Held(q)
        BY <4>3, <4>4 DEF Held
      <4> QED BY Zenon, <4>1, <4>5 DEF LeaseInv, LeasesUnique
    <3> QED BY Zenon, <3>1, <3>2, <3>3 DEF RowInv, CommittedRowPresent, CandidateKept, RowAt
  <2>6. CASE RowsKept(p)
    <3>1. rows' = rows /\ pc'[p] # "promote"
      BY Zenon, <2>6 DEF RowsKept
    <3>2. \A q \in Procs \ {p} : Candidate(q)' = Candidate(q)
      BY Zenon, <2>2 DEF Candidate
    <3>3. CASE UNCHANGED anchor
      BY ZenonT(60), <2>2, <2>3, <3>1, <3>2, <3>3
         DEF RowInv, CommittedRowPresent, CandidateKept, RowAt
    <3>4. ASSUME Commits(p) \/ Establishes(p) \/ Reserves(p), NEW q \in Procs,
                 pc'[q] = "promote", seen'[q] = anchor'
          PROVE  FALSE
      <4>1. q # p /\ seen'[q] = seen[q]
        BY Zenon, <2>2, <3>1, <3>4
      <4>2. seen[q].rev <= anchor.rev /\ seen[q].fence <= anchor.fence
        BY Zenon DEF HistoryInv, Known
      <4>3. anchor'.rev = anchor.rev + 1 \/ anchor'.fence > anchor.fence
        BY Zenon, <3>4, AnchorEffect
      <4> QED BY SMTT(30), <1>0, <3>4, <4>1, <4>2, <4>3
    <3>5. CASE Commits(p)
      <4>1. /\ anchor = seen[p] /\ anchor'.rev = anchor.rev + 1
            /\ anchor'.com = call[p].payload /\ pc[p] = "promote"
        BY Zenon, <3>5, AnchorEffect DEF Commits
      <4>2. RowAt(anchor)' = Candidate(p)
        BY Zenon, <4>1 DEF RowAt, Candidate
      <4>3. RowAt(anchor)' \in rows'
        BY Zenon, <2>3, <3>1, <4>1, <4>2
      <4> QED BY Zenon, <3>4, <3>5, <4>3 DEF RowInv, CommittedRowPresent, CandidateKept
    <3>6. CASE Establishes(p) \/ Reserves(p)
      <4>1. anchor'.rev = anchor.rev /\ anchor'.com = anchor.com
        BY Zenon, <3>6, AnchorEffect
      <4>2. anchor'.rev # 0 => RowAt(anchor)' \in rows'
        BY Zenon, <2>3, <3>1, <4>1 DEF RowAt
      <4> QED BY Zenon, <3>4, <3>6, <4>2 DEF RowInv, CommittedRowPresent, CandidateKept
    <3> QED BY Zenon, <1>1, <3>3, <3>5, <3>6, AnchorStep
  <2> QED BY Zenon, <1>1, <2>4, <2>5, <2>6, RowStep
<1>2. CASE Restore
  <2>1. restores' # 0
    BY <1>0, <1>2 DEF Restore
  <2> QED BY Zenon, <2>1 DEF RowInv, CommittedRowPresent, CandidateKept
<1>3. CASE Backup \/ UNCHANGED vars
  BY Zenon, <1>3 DEF Backup, vars, RowInv, CommittedRowPresent, CandidateKept, RowAt, Candidate
<1> QED BY Zenon, <1>1, <1>2, <1>3, HostStep

(* Initially no revision is committed. *)
LEMMA RowInit == Init => RowInv
  BY DEF Init, RowInv, CommittedRowPresent, CandidateKept, InitialAnchor

(* All layers hold throughout when there is one source of tokens. *)
LEMMA RowAlways ==
  OneTokenSource => (Spec => [](ShapeInv /\ HistoryInv /\ LeaseInv /\ RowInv))
<1> SUFFICES ASSUME OneTokenSource
             PROVE  Spec => [](ShapeInv /\ HistoryInv /\ LeaseInv /\ RowInv)
  BY Zenon
<1>1. ShapeInv /\ LeaseInv /\ [Next]_vars => LeaseInv'
  BY LeaseNext
<1>2. ShapeInv /\ HistoryInv /\ LeaseInv /\ RowInv /\ [Next]_vars => RowInv'
  BY Zenon, RowNext
<1> QED BY <1>1, <1>2, ShapeInit, ShapeNext, HistoryInit, HistoryNext, LeaseInit,
           RowInit, PTL DEF Spec

(* The committed payload is never pruned, discarded or lost with a crashed
   writer, for any number of writers and any number of pending candidates.  The
   hypothesis is needed: with leases from an outside authority a recovery's
   fence may be older than a lease already handed out. *)
THEOREM CommittedPayloadSafe == OneTokenSource => (Spec => []CommittedRowPresent)
<1> SUFFICES ASSUME OneTokenSource PROVE Spec => []CommittedRowPresent
  OBVIOUS
<1>1. RowInv => CommittedRowPresent
  BY Zenon DEF RowInv
<1> QED BY <1>1, RowAlways, PTL

(* A payload is reported missing only if an older file was put back or the
   record moved on between the two reads of the call. *)
THEOREM MissingExplained == OneTokenSource => (Spec => []MissingMeansMoved)
<1> SUFFICES ASSUME OneTokenSource PROVE Spec => []MissingMeansMoved
  OBVIOUS
<1>1. ShapeInv /\ HistoryInv /\ RowInv => MissingMeansMoved
  <2> SUFFICES ASSUME ShapeInv, HistoryInv, RowInv, NEW p \in Procs,
                      ~RecordAtAnchor(p), ~(restores > 0)
               PROVE  anchor.rev > seen[p].rev
    BY Zenon DEF MissingMeansMoved
  <2>1. /\ restores = 0 /\ anchor.rev \in Nat /\ seen[p].rev \in Nat
        /\ seen[p].rev <= anchor.rev
    BY DEF ShapeInv, TypeOK, AnchorStates, HistoryInv, Known
  <2>2. CASE seen[p].rev = anchor.rev
    <3>1. seen[p].com = anchor.com /\ anchor.rev # 0
      BY Zenon, <2>2, SameRevision DEF RecordAtAnchor
    <3>2. RowAt(anchor) \in FoundRows(seen[p])
      BY Zenon, <2>1, <2>2, <3>1 DEF RowInv, CommittedRowPresent, RowAt, FoundRows
    <3> QED BY Zenon, <3>2 DEF RecordAtAnchor
  <2> QED BY <2>1, <2>2
<1> QED BY <1>1, RowAlways, PTL

-----------------------------------------------------------------------------
(* How many rows the file has. *)

INSTANCE FiniteSetTheorems

Few(rs) == IsFiniteSet(rs) /\ Cardinality(rs) <= MaxPending + 1

RoomInv == Few(rows) /\ Few(backup)

(* A writer adds one row, within the limit on pending candidates. *)
RowAdded(p) ==
    /\ Cardinality(PendingRows(Pruned(seen[p]), seen[p])) < MaxPending
    /\ rows' = Pruned(seen[p]) \cup {Candidate(p)}

(* Every other step leaves the rows alone or removes some, or puts back rows
   that were there before. *)
LEMMA RowsMove ==
  ASSUME ShapeInv, [Next]_vars
  PROVE  /\ backup' \in {backup, rows}
         /\ rows' \subseteq rows \/ rows' = backup \/ \E p \in Procs : RowAdded(p)
<1>1. ASSUME NEW p \in Procs, ProcessStep(p) PROVE backup' = backup
  BY ZenonT(60), <1>1 DEF ProcessStep, Step, Start, load, reserve_fence, IssueLease,
      RecoverCandidates, compare_and_swap, compare_and_swap_fenced, LoadAnchorState,
      RecordMissing, LoadRow, EstablishRow, EstablishCas, EstablishActual, CompareFence,
      PrepareRow, CheckFenceAndRevision, PersistCandidate, PersistActual, Promote,
      PromoteActual, ReserveRow, ReserveCas, RecoverRow, DiscardCandidates, BackendError,
      LostReply, Crash, Begin, Refuse, Continue, Retry, AnchorConflict
<1>2. ASSUME NEW p \in Procs, ProcessStep(p)
      PROVE  rows' \subseteq rows \/ RowAdded(p)
  <2>1. rows' = rows \/ PersistCandidate(p) \/ DiscardCandidates(p)
    BY ZenonT(30), <1>2 DEF ProcessStep, Step, Start, load, reserve_fence, IssueLease,
        RecoverCandidates, compare_and_swap, compare_and_swap_fenced, LoadAnchorState,
        RecordMissing, LoadRow, EstablishRow, EstablishCas, EstablishActual, CompareFence,
        PrepareRow, CheckFenceAndRevision, PersistActual, Promote, PromoteActual,
        ReserveRow, ReserveCas, RecoverRow, BackendError, LostReply, Crash, Begin, Refuse,
        Continue, Retry, AnchorConflict
  <2>2. CASE DiscardCandidates(p)
    BY Zenon, <2>2 DEF DiscardCandidates
  <2>3. CASE PersistCandidate(p)
    <3>1. rows' = rows \/ /\ rows' = Pruned(seen[p]) \cup {Candidate(p)}
                          /\ \/ Candidate(p) \in Pruned(seen[p])
                             \/ RowAdded(p)
      BY Zenon, <2>3 DEF PersistCandidate, AnchorConflict, Refuse, Continue, Retry, RowAdded
    <3>2. Pruned(seen[p]) \subseteq rows
      BY Zenon DEF Pruned
    <3> QED BY ZenonT(60), <3>1, <3>2
  <2> QED BY SMTT(30), <2>1, <2>2, <2>3
<1>3. CASE Backup \/ Restore \/ UNCHANGED vars
  BY Zenon, <1>3 DEF Backup, Restore, vars
<1> QED BY ZenonT(30), <1>1, <1>2, <1>3 DEF Next, ProcessStep

(* Pruning leaves pending candidates and the committed row. *)
LEMMA PrunedFew ==
  ASSUME ShapeInv, NEW p \in Procs, IsFiniteSet(rows)
  PROVE  LET kept == Pruned(seen[p])
             pending == PendingRows(kept, seen[p])
         IN  /\ IsFiniteSet(kept) /\ Cardinality(kept) \in Nat
             /\ Cardinality(pending) \in Nat
             /\ Cardinality(kept) <= Cardinality(pending) + 1
<1> DEFINE kept == Pruned(seen[p])
           pending == PendingRows(kept, seen[p])
<1>1. kept \subseteq rows /\ pending \subseteq kept
  BY Zenon DEF Pruned, PendingRows
<1>2. IsFiniteSet(kept) /\ IsFiniteSet(pending)
  BY Zenon, <1>1, FS_Subset
<1>3. Cardinality(kept) \in Nat /\ Cardinality(pending) \in Nat
  BY Zenon, <1>2, FS_CardinalityType
<1>4. kept \subseteq pending \cup {RowAt(seen[p])}
  <2>1. rows \subseteq Rows /\ seen[p].rev \in Nat
    BY SMTT(30) DEF ShapeInv, TypeOK, AnchorStates
  <2>2. ASSUME NEW r \in kept, ~(r.rev > seen[p].rev)
        PROVE  r = RowAt(seen[p])
    <3>1. r \in Rows /\ r.rev \in Nat \ {0} /\ r = [rev |-> r.rev, com |-> r.com]
      BY SMTT(30), <1>1, <2>1 DEF Rows
    <3>2. seen[p].rev # 0 /\ r.rev = seen[p].rev /\ r.com = seen[p].com
      BY SMTT(30), <2>1, <2>2, <3>1 DEF Pruned
    <3> QED BY ZenonT(60), <3>1, <3>2 DEF RowAt
  <2> QED BY Zenon, <2>2 DEF PendingRows
<1>5. /\ IsFiniteSet(pending \cup {RowAt(seen[p])})
      /\ Cardinality(pending \cup {RowAt(seen[p])}) \in Nat
      /\ Cardinality(pending \cup {RowAt(seen[p])}) <= Cardinality(pending) + 1
  <2>1. /\ IsFiniteSet(pending \cup {RowAt(seen[p])})
        /\ \/ Cardinality(pending \cup {RowAt(seen[p])}) = Cardinality(pending)
           \/ Cardinality(pending \cup {RowAt(seen[p])}) = Cardinality(pending) + 1
    <3> HIDE DEF pending
    <3> QED BY Zenon, <1>2, FS_AddElement
  <2> HIDE DEF pending
  <2> QED BY SMTT(30), <1>3, <2>1
<1>6. Cardinality(kept) <= Cardinality(pending \cup {RowAt(seen[p])})
  <2> HIDE DEF pending, kept
  <2> QED BY ZenonT(60), <1>4, <1>5, FS_Subset
<1> HIDE DEF pending, kept
<1>7. Cardinality(kept) <= Cardinality(pending) + 1
  BY SMTT(30), <1>3, <1>5, <1>6
<1> QED BY ZenonT(60), <1>2, <1>3, <1>7 DEF kept, pending

(* Each step keeps the number of rows within its limit. *)
LEMMA RoomNext == ShapeInv /\ RoomInv /\ [Next]_vars => RoomInv'
<1> SUFFICES ASSUME ShapeInv, RoomInv, [Next]_vars PROVE RoomInv'
  BY Zenon
<1>1. Few(backup')
  BY Zenon, RowsMove DEF RoomInv
<1>2. CASE rows' \subseteq rows
  <2>1. IsFiniteSet(rows') /\ Cardinality(rows') <= Cardinality(rows)
    BY Zenon, <1>2, FS_Subset DEF RoomInv, Few
  <2>2. Cardinality(rows) \in Nat /\ Cardinality(rows') \in Nat
    BY Zenon, <2>1, FS_CardinalityType DEF RoomInv, Few
  <2> QED BY SMTT(30), <1>1, <2>1, <2>2 DEF RoomInv, Few
<1>3. CASE rows' = backup
  BY Zenon, <1>1, <1>3 DEF RoomInv, Few
<1>4. ASSUME NEW p \in Procs, RowAdded(p) PROVE RoomInv'
  <2> DEFINE kept == Pruned(seen[p])
  <2>1. /\ IsFiniteSet(kept) /\ Cardinality(kept) \in Nat
        /\ Cardinality(PendingRows(kept, seen[p])) \in Nat
        /\ Cardinality(kept) <= Cardinality(PendingRows(kept, seen[p])) + 1
    BY Zenon, PrunedFew DEF RoomInv, Few
  <2>2. /\ Cardinality(PendingRows(kept, seen[p])) < MaxPending
        /\ rows' = kept \cup {Candidate(p)}
    BY Zenon, <1>4 DEF RowAdded
  <2> HIDE DEF kept
  <2>3. /\ IsFiniteSet(rows')
        /\ Cardinality(rows') = Cardinality(kept) \/ Cardinality(rows') = Cardinality(kept) + 1
    BY ZenonT(60), <2>1, <2>2, FS_AddElement
  <2>4. Cardinality(rows') <= MaxPending + 1
    BY SMTT(30), <2>1, <2>2, <2>3
  <2> QED BY ZenonT(60), <1>1, <2>3, <2>4 DEF RoomInv, Few
<1> QED BY ZenonT(60), <1>2, <1>3, <1>4, RowsMove

(* Whatever is written, left behind by a crash or put back from a copy, the rows
   of a record stay within MAX_PENDING_SQLITE_CANDIDATES and the committed one,
   with leases from anywhere (persist_candidate). *)
THEOREM RowsStayFew == Spec => []RowsBounded
<1>1. Init => RoomInv
  BY SMTT(30), FS_EmptySet DEF Init, RoomInv, Few
<1>2. RoomInv => RowsBounded
  BY Zenon DEF RoomInv, Few, RowsBounded
<1> QED BY <1>1, <1>2, RoomNext, ShapeInit, ShapeNext, PTL DEF Spec
=============================================================================
