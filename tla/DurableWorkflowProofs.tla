----------------------- MODULE DurableWorkflowProofs -----------------------
(***************************************************************************)
(* The safety properties of DurableWorkflow, for plans of any length and   *)
(* any number of calls, engines, executions and recoveries.                *)
(*                                                                         *)
(* The ledger in storage only grows, because every write replaces the      *)
(* revision it was made from (StorageInv); a token names the call it was   *)
(* made for, because an engine never uses a call identifier twice          *)
(* (TokenInv); and who holds the newest lease has what is stored, because  *)
(* every recovery that writes took a lease of its own before (LeaseInv).   *)
(***************************************************************************)
EXTENDS DurableWorkflow, WorkflowEngineProofs

Operation == [state : OperationStates, compensation : OperationStates \cup {"none"}]
Ledgers == [revision : Nat, operations : UNION {[D -> Operation] : D \in SUBSET Keys}]
Effects == {"absent", "running"} \cup Terminal

Recovery ==
    [at : {"start", "loaded", "prepared", "answered", "over"}, ledger : Ledgers,
     revision : Nat, token : Nat, key : Nat \X Nat, answer : Effects]

(* m is what l can have become: nothing recorded, decided or ended is undone. *)
Later(l, m) ==
    \A k \in DOMAIN l.operations :
        /\ k \in DOMAIN m.operations
        /\ State(l, k) \in Terminal => State(m, k) = State(l, k)
        /\ Compensation(l, k) # "none" => Compensation(m, k) # "none"
        /\ Compensation(l, k) \in Terminal => Compensation(m, k) = Compensation(l, k)

(* A ledger's outcomes are those the worker has, effects x and inverses y. *)
Truthful(l, x, y) ==
    \A k \in DOMAIN l.operations :
        /\ State(l, k) \in Terminal => x[k] = State(l, k)
        /\ Compensation(l, k) \in Terminal => y[k] = Compensation(l, k)
        /\ Compensation(l, k) # "none" => State(l, k) = "succeeded"

(* An answer the worker gave for k: what it says of an outcome stays true. *)
Witnessed(k, s, x) == s \in {"running"} \cup Terminal /\ (s \in Terminal => x[k] = s)

(* A ledger loaded at revision n is the stored one or has been replaced. *)
Based(l, n) == n \in Nat /\ n <= floor /\ (n = floor => l = stored)

StoreInv ==
    /\ floor \in Nat /\ fence \in Nat
    /\ ledger \in Ledgers /\ stored \in Ledgers /\ written \in Ledgers
    /\ effect \in [Keys -> Effects] /\ inverse \in [Keys -> Effects]
    /\ Truthful(ledger, effect, inverse) /\ Truthful(stored, effect, inverse)
    /\ Later(written, ledger) /\ Later(written, stored)
    /\ Based(written, base)

RecoveryOK(e) ==
    e.at \in {"loaded", "prepared", "answered"} =>
        /\ e.key \in DOMAIN e.ledger.operations
        /\ Truthful(e.ledger, effect, inverse)
        /\ Based(e.ledger, e.revision)
        /\ e.at = "answered" => Witnessed(e.key, e.answer, effect)

RecoveryInv ==
    /\ recovery \in [Recoverers -> Recovery]
    /\ \A r \in Recoverers : RecoveryOK(recovery[r])

(* The decision to compensate k is in storage. *)
Decided(l, k) == Recorded(l, k) /\ Compensation(l, k) # "none"

DecidedInv ==
    /\ \A a \in consents : Decided(stored, a.key)
    /\ \A k \in undone : Decided(stored, k)

StorageInv == StoreInv /\ RecoveryInv /\ DecidedInv

(* Calls c and d ask for the same operation. *)
Alike(c, d) == c.id = d.id /\ c.step = d.step /\ c.ord = d.ord

(* Identifiers of calls are not used twice. *)
CallIdsInv ==
    \A c \in calls : /\ c.id < engine.next
                     /\ KeyOf(c) \in Keys
                     /\ \A d \in calls : d.id = c.id => Alike(c, d)

(* The call a token names is the one it was made for, while its engine lives. *)
TokenOK(t) ==
    /\ t.engine \in Nat /\ t.engine <= engine.id
    /\ t.engine = engine.id =>
          /\ t.call \in Nat /\ t.call < engine.next
          /\ \A c \in calls : c.id = t.call => KeyOf(c) = t.key /\ c.step = t.step

TokenInv ==
    /\ \A t \in prepared \cup claimed : TokenOK(t)
    /\ \A t \in claimed : Recorded(stored, t.key)

DurableInv == EngineInv /\ CallIdsInv /\ StorageInv /\ TokenInv

(* A recovery that may write does not write under the host's lease. *)
Leased(e) ==
    e.at \in {"prepared", "answered"} =>
        e.token \in Nat /\ e.token <= fence /\ e.token # lease

LeaseInv ==
    /\ lease \in Nat /\ lease <= fence
    /\ lease = fence => written = stored
    /\ \A r \in Recoverers : Leased(recovery[r])

-----------------------------------------------------------------------------
(* Ledgers *)

(* What membership in Ledgers says of a ledger. *)
LEMMA LedgerParts ==
    ASSUME NEW l \in Ledgers
    PROVE  /\ l.revision \in Nat
           /\ DOMAIN l.operations \subseteq Keys
           /\ \A k \in DOMAIN l.operations :
                 /\ l.operations[k] \in Operation
                 /\ State(l, k) \in OperationStates
                 /\ Compensation(l, k) \in OperationStates \cup {"none"}
  BY DEF Ledgers, Operation, State, Compensation

(* A new ledger is empty. *)
LEMMA EmptyLedger == for_plan \in Ledgers /\ DOMAIN for_plan.operations = {}
  <1>1. << >> \in [{} -> Operation] /\ DOMAIN << >> = {}
    OBVIOUS
  <1>2. << >> \in UNION {[D -> Operation] : D \in SUBSET Keys}
    BY Zenon, <1>1
  <1> QED BY Zenon, <1>1, <1>2 DEF for_plan, Ledgers

(* A change of one operation leaves a ledger, and the others alone. *)
LEMMA ReviseParts ==
    ASSUME NEW l \in Ledgers, NEW k \in Keys, NEW o \in Operation
    PROVE  /\ Revise(l, k, o) \in Ledgers
           /\ DOMAIN Revise(l, k, o).operations = DOMAIN l.operations \cup {k}
           /\ State(Revise(l, k, o), k) = o.state
           /\ Compensation(Revise(l, k, o), k) = o.compensation
           /\ \A j \in DOMAIN l.operations : j # k =>
                 /\ State(Revise(l, k, o), j) = State(l, j)
                 /\ Compensation(Revise(l, k, o), j) = Compensation(l, j)
  <1> DEFINE D == DOMAIN l.operations \cup {k}
             ops == [x \in D |-> IF x = k THEN o ELSE l.operations[x]]
  <1>1. /\ l.revision \in Nat /\ DOMAIN l.operations \subseteq Keys
        /\ \A j \in DOMAIN l.operations : l.operations[j] \in Operation
    BY Zenon, LedgerParts
  <1>2. D \in SUBSET Keys /\ ops \in [D -> Operation]
    BY Zenon, <1>1
  <1>3. ops \in UNION {[E -> Operation] : E \in SUBSET Keys}
    BY Zenon, <1>2
  <1>4. Revise(l, k, o) = [revision |-> l.revision + 1, operations |-> ops]
    BY Zenon DEF Revise
  <1>5. Revise(l, k, o).operations = ops
    BY <1>4
  <1>6. Revise(l, k, o) \in Ledgers
    <2>1. l.revision + 1 \in Nat
      BY <1>1
    <2> HIDE DEF ops
    <2> QED BY <1>3, <1>4, <2>1 DEF Ledgers
  <1> QED BY Zenon, <1>5, <1>6 DEF State, Compensation

(* Every ledger is later than itself. *)
LEMMA LaterSelf == ASSUME NEW l PROVE Later(l, l)
  BY Zenon DEF Later

(* What became of a later ledger is later. *)
LEMMA LaterChain ==
    ASSUME NEW l, NEW m, NEW n, Later(l, m), Later(m, n)
    PROVE  Later(l, n)
  BY Zenon DEF Later

(* A decision stays a decision. *)
LEMMA LaterDecided ==
    ASSUME NEW l, NEW m, Later(l, m), NEW k, Decided(l, k)
    PROVE  Decided(m, k)
  BY Zenon DEF Later, Decided, Recorded

(* m is a ledger that truthfully goes on from l. *)
GoesOn(l, m, x, y) == m \in Ledgers /\ Later(l, m) /\ Truthful(m, x, y)

(* A change that keeps what has ended and says what the worker has is one. *)
LEMMA ReviseGoesOn ==
    ASSUME NEW l \in Ledgers, NEW k \in Keys, NEW o \in Operation, NEW x, NEW y,
           Truthful(l, x, y),
           k \in DOMAIN l.operations =>
              /\ State(l, k) \in Terminal => o.state = State(l, k)
              /\ Compensation(l, k) # "none" => o.compensation # "none"
              /\ Compensation(l, k) \in Terminal => o.compensation = Compensation(l, k),
           o.state \in Terminal => x[k] = o.state,
           o.compensation \in Terminal => y[k] = o.compensation,
           o.compensation # "none" => o.state = "succeeded"
    PROVE  GoesOn(l, Revise(l, k, o), x, y)
  <1> PICK m : m = Revise(l, k, o)
    BY Zenon
  <1>1. /\ m \in Ledgers
        /\ DOMAIN m.operations = DOMAIN l.operations \cup {k}
        /\ State(m, k) = o.state
        /\ Compensation(m, k) = o.compensation
        /\ \A j \in DOMAIN l.operations : j # k =>
              State(m, j) = State(l, j) /\ Compensation(m, j) = Compensation(l, j)
    BY ReviseParts
  <1>2. Later(l, m)
    BY Zenon, <1>1 DEF Later
  <1>3. Truthful(m, x, y)
    BY Zenon, <1>1 DEF Truthful
  <1> QED BY Zenon, <1>1, <1>2, <1>3 DEF GoesOn

(* WorkflowOperationLedger::record *)
LEMMA RecordGoesOn ==
    ASSUME NEW l \in Ledgers, NEW k \in Keys, NEW x, NEW y, Truthful(l, x, y),
           ~Recorded(l, k)
    PROVE  GoesOn(l, record(l, k), x, y)
  <1> PICK o : o = [state |-> "pending", compensation |-> "none"]
    BY Zenon
  <1>1. o \in Operation /\ o.state = "pending" /\ o.compensation = "none"
    BY Zenon DEF Operation, OperationStates
  <1>2. "pending" \notin Terminal /\ "none" \notin Terminal
    BY Zenon DEF Terminal
  <1> QED BY Zenon, <1>1, <1>2, ReviseGoesOn DEF record, Recorded

(* A worker's answer that the ledger accepts: apply_verified_reconciliation *)
LEMMA ObservationGoesOn ==
    ASSUME NEW l \in Ledgers, NEW k, NEW s, NEW x, NEW y, Truthful(l, x, y),
           ~ObservationRefused(l, k, s), Witnessed(k, s, x)
    PROVE  GoesOn(l, apply_verified_reconciliation(l, k, s), x, y)
  <1>1. /\ k \in DOMAIN l.operations /\ k \in Keys
        /\ l.operations[k] \in Operation
        /\ s \in OperationStates
        /\ State(l, k) \in Terminal => s = State(l, k)
    BY Zenon, LedgerParts DEF ObservationRefused, Recorded, accepts, is_terminal, Witnessed,
                       OperationStates
  <1>2. CASE State(l, k) = s
    BY Zenon, <1>2, LaterSelf DEF GoesOn, apply_verified_reconciliation
  <1>3. CASE State(l, k) # s
    <2> PICK o : o = [l.operations[k] EXCEPT !.state = s]
      BY Zenon
    <2>1. o \in Operation /\ o.state = s /\ o.compensation = Compensation(l, k)
      BY Zenon, <1>1 DEF Operation, Compensation
    <2>2. Compensation(l, k) = "none"
      BY Zenon, <1>1, <1>3 DEF Truthful, Terminal
    <2>3. apply_verified_reconciliation(l, k, s) = Revise(l, k, o)
      BY Zenon, <1>3 DEF apply_verified_reconciliation
    <2>4. "none" \notin Terminal /\ (s \in Terminal => x[k] = s)
      BY Zenon DEF Witnessed, Terminal
    <2> QED BY Zenon, <1>1, <2>1, <2>2, <2>3, <2>4, ReviseGoesOn
  <1> QED BY Zenon, <1>2, <1>3

(* WorkflowOperationLedger::record_compensation *)
LEMMA CompensationGoesOn ==
    ASSUME NEW l \in Ledgers, NEW k, NEW x, NEW y, Truthful(l, x, y),
           ~CompensationRefused(l, k)
    PROVE  GoesOn(l, record_compensation(l, k), x, y)
  <1>1. /\ k \in DOMAIN l.operations /\ k \in Keys
        /\ l.operations[k] \in Operation
        /\ State(l, k) = "succeeded" /\ Compensation(l, k) = "none"
    BY Zenon, LedgerParts DEF CompensationRefused, Recorded
  <1> PICK o : o = [l.operations[k] EXCEPT !.compensation = "pending"]
    BY Zenon
  <1>2. o \in Operation /\ o.state = "succeeded" /\ o.compensation = "pending"
    BY Zenon, <1>1 DEF Operation, OperationStates, State
  <1>3. "none" \notin Terminal /\ "pending" \notin Terminal /\ "succeeded" \in Terminal
    BY Zenon DEF Terminal
  <1>4. x[k] = "succeeded"
    BY Zenon, <1>1, <1>3 DEF Truthful
  <1> QED BY Zenon, <1>1, <1>2, <1>3, <1>4, ReviseGoesOn DEF record_compensation

(* A worker's answer about the inverse: apply_verified_compensation *)
LEMMA InverseGoesOn ==
    ASSUME NEW l \in Ledgers, NEW k, NEW s, NEW x, NEW y, Truthful(l, x, y),
           ~CompensationObservationRefused(l, k, s), Witnessed(k, s, y)
    PROVE  GoesOn(l, apply_verified_compensation(l, k, s), x, y)
  <1>1. /\ k \in DOMAIN l.operations /\ k \in Keys
        /\ l.operations[k] \in Operation
        /\ s \in OperationStates /\ s # "none"
        /\ Compensation(l, k) # "none"
        /\ Compensation(l, k) \in Terminal => s = Compensation(l, k)
    BY Zenon, LedgerParts DEF CompensationObservationRefused, Recorded, accepts, is_terminal,
                       Witnessed, OperationStates, Terminal
  <1>2. CASE Compensation(l, k) = s
    BY Zenon, <1>2, LaterSelf DEF GoesOn, apply_verified_compensation
  <1>3. CASE Compensation(l, k) # s
    <2> PICK o : o = [l.operations[k] EXCEPT !.compensation = s]
      BY Zenon
    <2>1. o \in Operation /\ o.compensation = s /\ o.state = State(l, k)
      BY Zenon, <1>1 DEF Operation, State
    <2>2. State(l, k) = "succeeded" /\ (State(l, k) \in Terminal => x[k] = State(l, k))
      BY Zenon, <1>1 DEF Truthful
    <2>3. apply_verified_compensation(l, k, s) = Revise(l, k, o)
      BY Zenon, <1>3 DEF apply_verified_compensation
    <2>4. s \in Terminal => y[k] = s
      BY Zenon DEF Witnessed
    <2> QED BY Zenon, <1>1, <2>1, <2>2, <2>3, <2>4, ReviseGoesOn
  <1> QED BY Zenon, <1>2, <1>3

-----------------------------------------------------------------------------
(* Storage *)

(* The worker's outcomes stay. *)
Stays(x, z) == \A k \in Keys : x[k] \in Terminal => z[k] = x[k]

(* What a ledger says of an outcome stays true. *)
LEMMA TruthStays ==
    ASSUME NEW l \in Ledgers, NEW x, NEW y, NEW u, NEW v, Truthful(l, x, y),
           Stays(x, u), Stays(y, v)
    PROVE  Truthful(l, u, v)
  <1>1. DOMAIN l.operations \subseteq Keys
    BY Zenon, LedgerParts
  <1> QED BY Zenon, <1>1 DEF Truthful, Stays

(* An answer stays true. *)
LEMMA WitnessStays ==
    ASSUME NEW k \in Keys, NEW s, NEW x, NEW u, Witnessed(k, s, x), Stays(x, u)
    PROVE  Witnessed(k, s, u)
  BY Zenon DEF Witnessed, Stays

(* The worker moves on: PerformEffect, PerformInverse. *)
LEMMA WorkerStays ==
    ASSUME NEW x \in [Keys -> Effects], NEW z, NEW k \in Keys,
           NEW s \in Run(x[k], Terminal), z = [x EXCEPT ![k] = s]
    PROVE  z \in [Keys -> Effects] /\ Stays(x, z)
  <1>1. x[k] \notin Terminal /\ s \in Effects
    BY Zenon DEF Run, Terminal, Effects
  <1> QED BY Zenon, <1>1 DEF Stays

(* What the host's storage and its copies do in a step *)
StoreStill == UNCHANGED <<stored, floor, fence>>
HostStill == UNCHANGED <<ledger, written, base>>
WorkerMoves ==
    /\ effect' \in [Keys -> Effects] /\ inverse' \in [Keys -> Effects]
    /\ Stays(effect, effect') /\ Stays(inverse, inverse')
WorkerStill == UNCHANGED <<effect, inverse>>

(* The stored ledger is replaced by one that goes on from it. *)
StoreWritten(m) ==
    /\ GoesOn(stored, m, effect, inverse)
    /\ stored' = m /\ floor' = floor + 1 /\ UNCHANGED fence

(* A worker that does nothing keeps what it did. *)
LEMMA WorkerIdle == StoreInv /\ WorkerStill => WorkerMoves
  BY Zenon DEF StoreInv, WorkerStill, WorkerMoves, Stays

(* A copy of the ledger that was current is outdated by a write, and nothing
   else. *)
LEMMA BasedStays ==
    ASSUME StoreInv, NEW l, NEW n, Based(l, n),
           \/ UNCHANGED <<stored, floor>>
           \/ floor' = floor + 1
    PROVE  n \in Nat /\ n <= floor' /\ (n = floor' => l = stored')
  <1>1. n \in Nat /\ n <= floor /\ floor \in Nat /\ (n = floor => l = stored)
    BY Zenon DEF Based, StoreInv
  <1>2. CASE UNCHANGED <<stored, floor>>
    BY Zenon, <1>1, <1>2
  <1>3. CASE floor' = floor + 1
    BY <1>1, <1>3
  <1> QED BY Zenon, <1>2, <1>3

(* Steps of the worker, of the engine and of other processes that do not write:
   nothing the host or the store has becomes wrong. *)
LEMMA StoreKeeps ==
    ASSUME StoreInv, WorkerMoves, UNCHANGED <<stored, floor>>, fence' \in Nat, HostStill
    PROVE  StoreInv'
  <1>1. Truthful(ledger, effect', inverse') /\ Truthful(stored, effect', inverse')
    BY Zenon, TruthStays DEF StoreInv, WorkerMoves
  <1>2. base \in Nat /\ base <= floor' /\ (base = floor' => written = stored')
    BY Zenon, BasedStays DEF StoreInv
  <1> QED BY Zenon, <1>1, <1>2 DEF StoreInv, WorkerMoves, HostStill, Based

(* The host changes its copy of the ledger, which it had stored. *)
LEMMA LedgerKeeps ==
    ASSUME StoreInv, LedgerStored, StoreStill, WorkerStill,
           GoesOn(ledger, ledger', effect, inverse), UNCHANGED <<written, base>>
    PROVE  StoreInv'
  BY Zenon DEF StoreInv, LedgerStored, StoreStill, WorkerStill, GoesOn, Based

(* The host writes the ledger. *)
LEMMA PersistKeeps ==
    ASSUME StoreInv, Persist
    PROVE  StoreInv' /\ StoreWritten(ledger) /\ WorkerStill
  <1>1. /\ base = floor /\ stored' = ledger /\ floor' = base + 1 /\ fence' = fence
        /\ written' = ledger /\ base' = floor' /\ ledger' = ledger
        /\ effect' = effect /\ inverse' = inverse
    BY Zenon DEF Persist, Store!compare_and_swap
  <1>2. written = stored
    BY Zenon, <1>1 DEF StoreInv, Based
  <1>3. StoreWritten(ledger)
    BY Zenon, <1>1, <1>2 DEF StoreWritten, GoesOn, StoreInv
  <1>4. floor' \in Nat
    BY <1>1 DEF StoreInv
  <1>5. Based(written, base)'
    BY <1>1, <1>4 DEF Based
  <1> QED BY Zenon, <1>1, <1>3, <1>4, <1>5, LaterSelf DEF StoreInv, WorkerStill

(* Another process writes the ledger. *)
LEMMA RecoveredKeeps ==
    ASSUME StoreInv, NEW m, StoreWritten(m), HostStill, WorkerStill
    PROVE  StoreInv'
  <1>1. base \in Nat /\ base <= floor' /\ (base = floor' => written = stored')
    BY Zenon, BasedStays DEF StoreInv, StoreWritten
  <1>2. Later(written, stored')
    BY Zenon, LaterChain DEF StoreInv, StoreWritten, GoesOn
  <1> QED BY <1>1, <1>2 DEF StoreInv, StoreWritten, GoesOn, HostStill, WorkerStill, Based

(* The host comes back with what is stored. *)
LEMMA ReloadKeeps ==
    ASSUME StoreInv, UNCHANGED <<stored, floor>>, fence' \in Nat, WorkerStill,
           ledger' = stored, written' = stored, base' = floor
    PROVE  StoreInv'
  BY LaterSelf DEF StoreInv, WorkerStill, Based

(* The stored ledger goes on in every step of this kind. *)
StoredGoesOn == stored' = stored \/ \E m : StoreWritten(m)

(* Decisions in storage stay there. *)
LEMMA StoredLater == StoredGoesOn => Later(stored, stored')
  BY Zenon, LaterSelf DEF StoredGoesOn, StoreWritten, GoesOn

(* The store is left alone or written in this step. *)
StoreSteps == UNCHANGED <<stored, floor>> \/ floor' = floor + 1

(* A recovery that does nothing keeps what it has. *)
LEMMA RecoveryStays ==
    ASSUME StoreInv, WorkerMoves, StoreSteps, NEW e \in Recovery, RecoveryOK(e)
    PROVE  RecoveryOK(e)'
  <1> SUFFICES ASSUME e.at \in {"loaded", "prepared", "answered"}
               PROVE  RecoveryOK(e)'
    BY Zenon DEF RecoveryOK
  <1>1. /\ e.ledger \in Ledgers /\ e.key \in DOMAIN e.ledger.operations
        /\ Truthful(e.ledger, effect, inverse)
        /\ Based(e.ledger, e.revision)
        /\ e.at = "answered" => Witnessed(e.key, e.answer, effect)
    BY Zenon DEF RecoveryOK, Recovery
  <1>2. e.key \in Keys
    BY Zenon, <1>1, LedgerParts
  <1>3. Truthful(e.ledger, effect', inverse')
    BY Zenon, <1>1, TruthStays DEF WorkerMoves
  <1>4. e.at = "answered" => Witnessed(e.key, e.answer, effect')
    BY Zenon, <1>1, <1>2, WitnessStays DEF WorkerMoves
  <1>5. /\ e.revision \in Nat /\ e.revision <= floor'
        /\ e.revision = floor' => e.ledger = stored'
    BY Zenon, <1>1, BasedStays DEF StoreSteps
  <1> QED BY Zenon, <1>1, <1>3, <1>4, <1>5 DEF RecoveryOK, Based

(* Where no recovery moves, none becomes wrong. *)
LEMMA RecoveriesStay ==
    ASSUME StoreInv, RecoveryInv, WorkerMoves, StoreSteps, UNCHANGED recovery
    PROVE  RecoveryInv'
  <1>1. \A r \in Recoverers : recovery[r] \in Recovery /\ RecoveryOK(recovery[r])
    BY Zenon DEF RecoveryInv
  <1>2. ASSUME NEW r \in Recoverers
        PROVE  RecoveryOK(recovery[r])'
    <2> PICK e : e = recovery[r]
      BY Zenon
    <2>1. RecoveryOK(e)'
      BY Zenon, <1>1, RecoveryStays
    <2> QED BY Zenon, <2>1
  <1> QED BY Zenon, <1>2 DEF RecoveryInv

(* One recovery moves to e. *)
LEMMA RecoveryMoves ==
    ASSUME StoreInv, RecoveryInv, WorkerMoves, StoreSteps,
           NEW r \in Recoverers, NEW e \in Recovery, RecoveryOK(e)',
           recovery' = [recovery EXCEPT ![r] = e]
    PROVE  RecoveryInv'
  <1>1. /\ recovery \in [Recoverers -> Recovery]
        /\ \A q \in Recoverers : recovery[q] \in Recovery /\ RecoveryOK(recovery[q])
    BY Zenon DEF RecoveryInv
  <1>2. ASSUME NEW q \in Recoverers
        PROVE  RecoveryOK(recovery[q])'
    <2> PICK d : d = recovery'[q]
      BY Zenon
    <2>1. CASE q = r
      <3>1. d = e
        BY Zenon, <1>1, <2>1
      <3> QED BY Zenon, <3>1
    <2>2. CASE q # r
      <3>1. d = recovery[q]
        BY Zenon, <1>1, <2>2
      <3>2. RecoveryOK(d)'
        BY Zenon, <1>1, <3>1, RecoveryStays
      <3> QED BY Zenon, <3>2
    <2> QED BY Zenon, <2>1, <2>2
  <1>3. recovery' \in [Recoverers -> Recovery]
    BY Zenon, <1>1
  <1> QED BY Zenon, <1>2, <1>3 DEF RecoveryInv

(* What everybody else may rely on while a recovery acts. *)
Aside == HostStill /\ WorkerStill /\ UNCHANGED <<consents, undone>>

(* recover_bubblewrap_operation: whatever was written meanwhile, its own write
   goes on from what is stored. *)
LEMMA RecoverKeeps ==
    ASSUME StoreInv, RecoveryInv, NEW r \in Recoverers, RecoverOperation(r)
    PROVE  StoreInv' /\ RecoveryInv' /\ StoredGoesOn /\ Aside
  <1>0. /\ recovery \in [Recoverers -> Recovery]
        /\ recovery[r] \in Recovery /\ RecoveryOK(recovery[r])
        /\ stored \in Ledgers /\ floor \in Nat /\ fence \in Nat
        /\ Truthful(stored, effect, inverse)
    BY Zenon DEF RecoveryInv, StoreInv
  <1>1. ASSUME NEW e, Recover(r, e)
        PROVE  Aside /\ recovery' = [recovery EXCEPT ![r] = e]
    BY Zenon, <1>1 DEF Recover, Aside, HostStill, WorkerStill, hostVars
  <1>2. ASSUME NEW e \in Recovery, Recover(r, e), RecoveryOK(e)',
               UNCHANGED <<stored, floor>>, fence' \in Nat
        PROVE  StoreInv' /\ RecoveryInv' /\ StoredGoesOn /\ Aside
    <2>1. Aside /\ recovery' = [recovery EXCEPT ![r] = e]
      BY Zenon, <1>1, <1>2
    <2>2. WorkerMoves
      BY Zenon, <2>1, WorkerIdle DEF Aside
    <2>3. StoreInv'
      BY Zenon, <1>2, <2>1, <2>2, StoreKeeps DEF Aside
    <2>4. RecoveryInv'
      BY Zenon, <1>2, <2>1, <2>2, RecoveryMoves DEF StoreSteps
    <2> QED BY Zenon, <1>2, <2>1, <2>3, <2>4 DEF StoredGoesOn
  <1>3. ASSUME NEW k \in Recoverable, LoadLedger(r, k)
        PROVE  StoreInv' /\ RecoveryInv' /\ StoredGoesOn /\ Aside
    <2> PICK e : e = [recovery[r] EXCEPT !.at = "loaded", !.ledger = stored,
                                         !.revision = floor, !.key = k]
      BY Zenon
    <2>1. /\ Recover(r, e) /\ k \in DOMAIN stored.operations
          /\ UNCHANGED <<stored, floor, fence>>
      BY <1>3, Zenon DEF LoadLedger, storeVars, Recorded
    <2>2. k \in Nat \X Nat
      <3>1. k \in Keys
        BY Zenon, <1>0, <2>1, LedgerParts
      <3> QED BY <3>1, EngineAssumption DEF Keys, Prefix
    <2>3. /\ e \in Recovery /\ e.at = "loaded" /\ e.ledger = stored
          /\ e.revision = floor /\ e.key = k
      BY Zenon, <1>0, <2>2 DEF Recovery
    <2>4. RecoveryOK(e)'
      <3>1. WorkerStill
        BY Zenon, <1>1, <2>1 DEF Aside
      <3> QED BY <1>0, <2>1, <2>3, <3>1 DEF RecoveryOK, Based, WorkerStill
    <2> QED BY Zenon, <1>0, <1>2, <2>1, <2>3, <2>4
  <1>4. CASE ReserveFence(r)
    <2> PICK e : e = [recovery[r] EXCEPT !.at = "prepared", !.token = fence']
      BY Zenon
    <2>1. /\ Recover(r, e) /\ fence' = fence + 1 /\ UNCHANGED <<stored, floor>>
          /\ recovery[r].at = "loaded"
      BY Zenon, <1>4 DEF ReserveFence, Store!reserve_fence
    <2>2. fence' \in Nat
      BY <1>0, <2>1
    <2>3. /\ e \in Recovery /\ e.at = "prepared" /\ e.ledger = recovery[r].ledger
          /\ e.revision = recovery[r].revision /\ e.key = recovery[r].key
      BY Zenon, <1>0, <2>2 DEF Recovery
    <2>4. RecoveryOK(e)'
      <3>1. WorkerStill
        BY Zenon, <1>1, <2>1 DEF Aside
      <3> QED BY Zenon, <1>0, <2>1, <2>3, <3>1 DEF RecoveryOK, Based, WorkerStill
    <2> QED BY Zenon, <1>2, <2>1, <2>2, <2>3, <2>4
  <1>5. CASE execute_reconciliation(r)
    <2>1. PICK s \in Observed(effect[recovery[r].key]) :
             Recover(r, [recovery[r] EXCEPT !.at = "answered", !.answer = s])
      BY Zenon, <1>5 DEF execute_reconciliation
    <2> PICK e : e = [recovery[r] EXCEPT !.at = "answered", !.answer = s]
      BY Zenon
    <2>2. UNCHANGED <<stored, floor, fence>> /\ recovery[r].at = "prepared"
      BY Zenon, <1>5 DEF execute_reconciliation, storeVars
    <2>3. recovery[r].key \in Keys
      <3>1. recovery[r].ledger \in Ledgers
        BY Zenon, <1>0 DEF Recovery
      <3> QED BY Zenon, <1>0, <2>2, <3>1, LedgerParts DEF RecoveryOK
    <2>4. s \in Effects /\ Witnessed(recovery[r].key, s, effect)
      BY Zenon, <2>3 DEF Observed, Witnessed, StoreInv, Effects, Terminal
    <2>5. /\ e \in Recovery /\ e.at = "answered" /\ e.ledger = recovery[r].ledger
          /\ e.revision = recovery[r].revision /\ e.key = recovery[r].key
          /\ e.answer = s
      BY Zenon, <1>0, <2>4 DEF Recovery
    <2>6. RecoveryOK(e)'
      <3>1. WorkerStill
        BY Zenon, <1>1, <2>1 DEF Aside
      <3> QED BY Zenon, <1>0, <2>2, <2>4, <2>5, <3>1 DEF RecoveryOK, Based, WorkerStill
    <2> QED BY Zenon, <1>0, <1>2, <2>1, <2>2, <2>5, <2>6
  <1>6. CASE persist_recovery_observation(r)
    <2> PICK d : d = recovery[r]
      BY Zenon
    <2> PICK e : e = [NoRecovery EXCEPT !.at = "over"]
      BY Zenon
    <2>1. /\ Recover(r, e) /\ d.at = "answered"
          /\ \/ /\ ~ObservationRefused(d.ledger, d.key, d.answer)
                /\ Store!compare_and_swap(d.revision, Reconciled(d), d.token)
             \/ UNCHANGED <<stored, floor, fence>>
      BY Zenon, <1>6 DEF persist_recovery_observation, storeVars
    <2>2. e \in Recovery /\ e.at = "over"
      BY Zenon, EmptyLedger DEF NoRecovery, Recovery, Effects
    <2>3. RecoveryOK(e)'
      BY Zenon, <2>2 DEF RecoveryOK
    <2>4. CASE UNCHANGED <<stored, floor, fence>>
      BY Zenon, <1>0, <1>2, <2>1, <2>2, <2>3, <2>4
    <2>5. CASE /\ ~ObservationRefused(d.ledger, d.key, d.answer)
               /\ Store!compare_and_swap(d.revision, Reconciled(d), d.token)
      <3>1. /\ d.revision = floor /\ stored' = Reconciled(d) /\ floor' = floor + 1
            /\ UNCHANGED fence
        BY Zenon, <2>5 DEF Store!compare_and_swap
      <3>2. d.ledger = stored /\ Witnessed(d.key, d.answer, effect)
        BY Zenon, <1>0, <2>1, <3>1 DEF RecoveryOK, Based
      <3>3. GoesOn(stored, Reconciled(d), effect, inverse)
        BY Zenon, <1>0, <2>5, <3>2, ObservationGoesOn DEF Reconciled
      <3>4. StoreWritten(Reconciled(d))
        BY Zenon, <3>1, <3>3 DEF StoreWritten
      <3>5. Aside /\ recovery' = [recovery EXCEPT ![r] = e]
        BY Zenon, <1>1, <2>1
      <3>6. WorkerMoves
        BY Zenon, <3>5, WorkerIdle DEF Aside
      <3>7. StoreInv'
        BY Zenon, <3>4, <3>5, RecoveredKeeps DEF Aside
      <3>8. RecoveryInv'
        BY Zenon, <2>2, <2>3, <3>1, <3>5, <3>6, RecoveryMoves DEF StoreSteps
      <3> QED BY Zenon, <3>4, <3>5, <3>7, <3>8 DEF StoredGoesOn
    <2> QED BY Zenon, <2>1, <2>4, <2>5
  <1> QED BY Zenon, <1>3, <1>4, <1>5, <1>6 DEF RecoverOperation

(* Decisions to compensate, and requests made on their strength, refer to what
   is stored. *)
DecidedMoves ==
    /\ \A a \in consents' : a \in consents \/ Decided(stored, a.key)
    /\ \A k \in undone' : k \in undone \/ Decided(stored, k)

(* A stored decision is not lost. *)
LEMMA DecidedKeeps == DecidedInv /\ StoredGoesOn /\ DecidedMoves => DecidedInv'
  <1> SUFFICES ASSUME DecidedInv, StoredGoesOn, DecidedMoves PROVE DecidedInv'
    BY Zenon
  <1>1. \A k : Decided(stored, k) => Decided(stored', k)
    BY Zenon, StoredLater, LaterDecided
  <1> QED BY Zenon, <1>1 DEF DecidedInv, DecidedMoves

(* A step that touches neither ledger, storage, recovery nor worker. *)
Elsewhere == HostStill /\ WorkerStill /\ StoreStill /\ UNCHANGED recovery /\ DecidedMoves

(* The host changes its stored copy of the ledger. *)
LedgerMoves ==
    /\ LedgerStored
    /\ GoesOn(ledger, ledger', effect, inverse)
    /\ UNCHANGED <<written, base>>
    /\ WorkerStill /\ StoreStill /\ UNCHANGED <<recovery, consents, undone>>

(* Such steps change nothing that is stored. *)
LEMMA ElsewhereKeeps ==
    ASSUME StorageInv, Elsewhere \/ LedgerMoves
    PROVE  StorageInv' /\ StoredGoesOn
  <1>1. /\ StoredGoesOn /\ StoreSteps /\ WorkerStill /\ DecidedMoves /\ UNCHANGED recovery
    BY Zenon DEF Elsewhere, LedgerMoves, StoreStill, StoredGoesOn, StoreSteps, DecidedMoves
  <1>2. WorkerMoves
    BY Zenon, <1>1, WorkerIdle DEF StorageInv
  <1>3. StoreInv'
    <2>1. CASE Elsewhere
      <3>1. UNCHANGED <<stored, floor>> /\ fence' \in Nat /\ HostStill
        BY Zenon, <2>1 DEF Elsewhere, StoreStill, StorageInv, StoreInv
      <3> QED BY Zenon, <1>2, <3>1, StoreKeeps DEF StorageInv
    <2>2. CASE LedgerMoves
      BY Zenon, <2>2, LedgerKeeps DEF StorageInv, LedgerMoves
    <2> QED BY Zenon, <2>1, <2>2
  <1>4. RecoveryInv'
    BY Zenon, <1>1, <1>2, RecoveriesStay DEF StorageInv
  <1>5. DecidedInv'
    BY Zenon, <1>1, DecidedKeeps DEF StorageInv
  <1> QED BY Zenon, <1>1, <1>3, <1>4, <1>5 DEF StorageInv

(* An answer of the worker says what it has done. *)
LEMMA ObservedWitnessed ==
    ASSUME NEW x \in [Keys -> Effects], NEW k \in Keys, NEW s \in Observed(x[k])
    PROVE  Witnessed(k, s, x)
  <1>1. x[k] \in Effects
    BY Zenon
  <1> QED BY Zenon, <1>1 DEF Observed, Witnessed, Effects, Terminal

(* prepare_next_external_operation, observations and the decision to compensate
   change the ledger only in ways that go on from it. *)
LEMMA LedgerSteps ==
    ASSUME StorageInv, CallIdsInv,
           \/ prepare_next_external_operation
           \/ \E k \in Keys : \/ ObserveOperation(k)
                              \/ RecordCompensation(k)
                              \/ ObserveCompensation(k)
    PROVE  LedgerMoves
  <1>0. /\ ledger \in Ledgers /\ Truthful(ledger, effect, inverse)
        /\ effect \in [Keys -> Effects] /\ inverse \in [Keys -> Effects]
    BY Zenon DEF StorageInv, StoreInv
  <1>1. GoesOn(ledger, ledger, effect, inverse)
    BY Zenon, <1>0, LaterSelf DEF GoesOn
  <1>2. GoesOn(ledger, ledger', effect, inverse)
    <2>1. CASE prepare_next_external_operation
      <3>1. PICK c \in NextQueued :
               IF Recorded(ledger, KeyOf(c))
               THEN ledger' = ledger
               ELSE ledger' = record(ledger, KeyOf(c))
        BY Zenon, <2>1 DEF prepare_next_external_operation
      <3>2. KeyOf(c) \in Keys
        BY Zenon DEF NextQueued, Queued, CallIdsInv
      <3> QED BY Zenon, <1>0, <1>1, <3>1, <3>2, RecordGoesOn
    <2>2. ASSUME NEW k \in Keys, ObserveOperation(k)
          PROVE  GoesOn(ledger, ledger', effect, inverse)
      <3>1. PICK s \in Observed(effect[k]) :
               /\ ~ObservationRefused(ledger, k, s)
               /\ ledger' = apply_verified_reconciliation(ledger, k, s)
        BY Zenon, <2>2 DEF ObserveOperation
      <3>2. Witnessed(k, s, effect)
        BY Zenon, <1>0, ObservedWitnessed
      <3> QED BY Zenon, <1>0, <3>1, <3>2, ObservationGoesOn
    <2>3. ASSUME NEW k \in Keys, RecordCompensation(k)
          PROVE  GoesOn(ledger, ledger', effect, inverse)
      <3>1. ~CompensationRefused(ledger, k) /\ ledger' = record_compensation(ledger, k)
        BY Zenon, <2>3 DEF RecordCompensation
      <3> QED BY Zenon, <1>0, <3>1, CompensationGoesOn
    <2>4. ASSUME NEW k \in Keys, ObserveCompensation(k)
          PROVE  GoesOn(ledger, ledger', effect, inverse)
      <3>1. PICK s \in Observed(inverse[k]) :
               /\ ~CompensationObservationRefused(ledger, k, s)
               /\ ledger' = apply_verified_compensation(ledger, k, s)
        BY Zenon, <2>4 DEF ObserveCompensation
      <3>2. Witnessed(k, s, inverse)
        BY Zenon, <1>0, ObservedWitnessed
      <3> QED BY Zenon, <1>0, <3>1, <3>2, InverseGoesOn
    <2> QED BY Zenon, <2>1, <2>2, <2>3, <2>4
  <1>3. /\ LedgerStored /\ UNCHANGED <<storage, effect, inverse, consents, undone>>
    BY Zenon DEF prepare_next_external_operation, ObserveOperation, RecordCompensation,
           ObserveCompensation
  <1>4. /\ UNCHANGED <<written, base, recovery, consents, undone>>
        /\ WorkerStill /\ StoreStill
    BY Zenon, <1>3 DEF storage, storeVars, hostVars, WorkerStill, StoreStill
  <1> QED BY Zenon, <1>2, <1>3, <1>4 DEF LedgerMoves

(* PerformEffect and PerformInverse *)
LEMMA PerformKeeps ==
    ASSUME StorageInv, NEW k \in Keys, PerformEffect(k) \/ PerformInverse(k)
    PROVE  StorageInv' /\ StoredGoesOn
  <1>0. effect \in [Keys -> Effects] /\ inverse \in [Keys -> Effects] /\ fence \in Nat
    BY Zenon DEF StorageInv, StoreInv
  <1>1. Stays(effect, effect) /\ Stays(inverse, inverse)
    BY Zenon DEF Stays
  <1>2. WorkerMoves
    <2>1. CASE PerformEffect(k)
      <3>1. PICK s \in Run(effect[k], Outcomes) : effect' = [effect EXCEPT ![k] = s]
        BY Zenon, <2>1 DEF PerformEffect
      <3>2. s \in Run(effect[k], Terminal)
        BY Zenon, DurableWorkflowAssumption DEF Run
      <3>3. UNCHANGED inverse
        BY Zenon, <2>1 DEF PerformEffect
      <3> QED BY Zenon, <1>0, <1>1, <3>1, <3>2, <3>3, WorkerStays DEF WorkerMoves
    <2>2. CASE PerformInverse(k)
      <3>1. PICK s \in Run(inverse[k], {"succeeded"}) : inverse' = [inverse EXCEPT ![k] = s]
        BY Zenon, <2>2 DEF PerformInverse
      <3>2. s \in Run(inverse[k], Terminal)
        BY Zenon DEF Run, Terminal
      <3>3. UNCHANGED effect
        BY Zenon, <2>2 DEF PerformInverse
      <3> QED BY Zenon, <1>0, <1>1, <3>1, <3>2, <3>3, WorkerStays DEF WorkerMoves
    <2> QED BY Zenon, <2>1, <2>2
  <1>3. UNCHANGED <<ledger, stored, floor, fence, written, base, recovery, consents, undone>>
    BY Zenon DEF PerformEffect, PerformInverse, storage, storeVars, hostVars
  <1>4. HostStill /\ StoreSteps /\ StoredGoesOn /\ DecidedMoves /\ fence' \in Nat
    BY Zenon, <1>0, <1>3 DEF HostStill, StoreSteps, StoredGoesOn, DecidedMoves
  <1>5. StoreInv'
    BY Zenon, <1>2, <1>3, <1>4, StoreKeeps DEF StorageInv
  <1>6. RecoveryInv'
    BY Zenon, <1>2, <1>3, <1>4, RecoveriesStay DEF StorageInv
  <1>7. DecidedInv'
    BY Zenon, <1>4, DecidedKeeps DEF StorageInv
  <1> QED BY Zenon, <1>4, <1>5, <1>6, <1>7 DEF StorageInv

(* The host comes back with the stored ledger, or only the engine is replaced. *)
LEMMA RestartStorage ==
    ASSUME StorageInv, RestartHost
    PROVE  StorageInv' /\ StoredGoesOn
  <1>1. /\ UNCHANGED <<stored, floor, recovery, undone>> /\ WorkerStill
        /\ fence' = fence \/ fence' = fence + 1
        /\ consents' \subseteq consents
        /\ \/ ledger' = stored /\ written' = stored /\ base' = floor
           \/ HostStill
    BY Zenon DEF RestartHost, Store!reserve_fence, storeVars, hostVars, WorkerStill, HostStill
  <1>2. fence' \in Nat /\ StoreInv
    BY <1>1 DEF StorageInv, StoreInv
  <1>3. WorkerMoves
    BY Zenon, <1>1, <1>2, WorkerIdle
  <1>4. StoreInv'
    BY Zenon, <1>1, <1>2, <1>3, ReloadKeeps, StoreKeeps
  <1>5. RecoveryInv'
    BY Zenon, <1>1, <1>3, RecoveriesStay DEF StorageInv, StoreSteps
  <1>6. StoredGoesOn /\ DecidedMoves
    BY Zenon, <1>1 DEF StoredGoesOn, DecidedMoves
  <1>7. DecidedInv'
    BY Zenon, <1>6, DecidedKeeps DEF StorageInv
  <1> QED BY Zenon, <1>4, <1>5, <1>6, <1>7 DEF StorageInv

(* The host's write *)
LEMMA PersistStorage ==
    ASSUME StorageInv, Persist
    PROVE  StorageInv' /\ StoredGoesOn
  <1>1. StoreInv' /\ StoreWritten(ledger) /\ WorkerStill
    BY Zenon, PersistKeeps DEF StorageInv
  <1>2. UNCHANGED <<recovery, consents, undone>>
    BY Zenon DEF Persist
  <1>3. StoredGoesOn /\ DecidedMoves /\ StoreSteps
    BY Zenon, <1>1, <1>2 DEF StoredGoesOn, DecidedMoves, StoreSteps, StoreWritten
  <1>4. WorkerMoves
    BY Zenon, <1>1, WorkerIdle DEF StorageInv
  <1>5. RecoveryInv'
    BY Zenon, <1>2, <1>3, <1>4, RecoveriesStay DEF StorageInv
  <1>6. DecidedInv'
    BY Zenon, <1>3, DecidedKeeps DEF StorageInv
  <1> QED BY Zenon, <1>1, <1>3, <1>5, <1>6 DEF StorageInv

(* A recovery's step *)
LEMMA RecoveryStorage ==
    ASSUME StorageInv, NEW r \in Recoverers, RecoverOperation(r)
    PROVE  StorageInv' /\ StoredGoesOn
  <1>1. StoreInv' /\ RecoveryInv' /\ StoredGoesOn /\ Aside
    BY Zenon, RecoverKeeps DEF StorageInv
  <1>2. DecidedMoves
    BY Zenon, <1>1 DEF DecidedMoves, Aside
  <1>3. DecidedInv'
    BY Zenon, <1>1, <1>2, DecidedKeeps DEF StorageInv
  <1> QED BY Zenon, <1>1, <1>3 DEF StorageInv

(* A compensation is approved from the ledger as it is stored, and asked for on
   the strength of that approval. *)
LEMMA ConsentSteps ==
    ASSUME StorageInv,
           \/ \E k \in Keys : approve_compensation(k)
           \/ \E a \in consents : prepare_authenticated_operation_compensation(a)
    PROVE  Elsewhere
  <1>1. /\ HostStill /\ WorkerStill /\ StoreStill /\ UNCHANGED recovery
    BY Zenon DEF approve_compensation, prepare_authenticated_operation_compensation, storage,
           storeVars, hostVars, HostStill, WorkerStill, StoreStill
  <1>2. DecidedMoves
    <2>1. ASSUME NEW k \in Keys, approve_compensation(k)
          PROVE  DecidedMoves
      <3>1. Decided(ledger, k) /\ written = ledger
        BY Zenon, <2>1 DEF approve_compensation, Decided, LedgerStored
      <3>2. Decided(stored, k)
        BY Zenon, <3>1, LaterDecided DEF StorageInv, StoreInv
      <3>3. (\A a \in consents' : a.key = k) /\ UNCHANGED undone
        BY <2>1 DEF approve_compensation
      <3> QED BY Zenon, <3>2, <3>3 DEF DecidedMoves
    <2>2. ASSUME NEW a \in consents, prepare_authenticated_operation_compensation(a)
          PROVE  DecidedMoves
      <3>1. consents' = {} /\ undone' \subseteq undone \cup {a.key}
        BY Zenon, <2>2 DEF prepare_authenticated_operation_compensation
      <3> QED BY Zenon, <3>1 DEF DecidedMoves, StorageInv, DecidedInv
    <2> QED BY Zenon, <2>1, <2>2
  <1> QED BY Zenon, <1>1, <1>2 DEF Elsewhere

(* Steps of the engine and of its bridge that leave the ledger alone *)
BridgeStep ==
    \/ Drives
    \/ \E t \in prepared : claim_prepared_external_operation(t)
    \/ \E t \in claimed :
          \/ prepare_authenticated_claimed_external_operation_dispatch(t)
          \/ CompleteCall(t)
          \/ TimeOutCall(t)
    \/ GiveUpSettled
    \/ \E c \in calls : DropCall(c) \/ ExpireQueued(c)
    \/ UNCHANGED vars

(* They leave storage, recoveries and worker alone too. *)
LEMMA BridgeElsewhere == BridgeStep => Elsewhere
  <1> SUFFICES ASSUME BridgeStep PROVE Elsewhere
    BY Zenon
  <1>1. UNCHANGED <<ledger, storage, consents, effect, inverse, undone>>
    BY Zenon DEF BridgeStep, Drives, claim_prepared_external_operation,
           prepare_authenticated_claimed_external_operation_dispatch, CompleteCall,
           TimeOutCall, GiveUpSettled, DropCall, ExpireQueued, vars, opVars
  <1> QED BY Zenon, <1>1 DEF Elsewhere, DecidedMoves, HostStill, WorkerStill, StoreStill, storage,
                      storeVars, hostVars

(* Every step keeps the storage in order and goes on from what is stored. *)
LEMMA StorageNext ==
    StorageInv /\ CallIdsInv /\ [Next]_vars => StorageInv' /\ StoredGoesOn
  <1> SUFFICES ASSUME StorageInv, CallIdsInv, [Next]_vars
               PROVE  StorageInv' /\ StoredGoesOn
    BY Zenon
  <1>1. CASE BridgeStep
    BY Zenon, <1>1, BridgeElsewhere, ElsewhereKeeps
  <1>2. CASE \/ prepare_next_external_operation
             \/ \E k \in Keys : \/ ObserveOperation(k)
                                \/ RecordCompensation(k)
                                \/ ObserveCompensation(k)
    BY Zenon, <1>2, LedgerSteps, ElsewhereKeeps
  <1>3. CASE \/ \E k \in Keys : approve_compensation(k)
             \/ \E a \in consents : prepare_authenticated_operation_compensation(a)
    BY Zenon, <1>3, ConsentSteps, ElsewhereKeeps
  <1> QED BY ZenonT(60), <1>1, <1>2, <1>3, PerformKeeps, PersistStorage, RestartStorage,
             RecoveryStorage
             DEF Next, Operate, BridgeStep

-----------------------------------------------------------------------------
(* Calls and tokens *)

(* A call that an evaluation started, as call number c.id - b + 1 of step s *)
StartedBy(c, s, b, lo, hi) ==
    /\ c.id \in lo .. hi - 1
    /\ c.step = s
    /\ c.ord = c.id - b + 1
    /\ KeyOf(c) \in Keys

(* The calls ds are calls of cs or calls started with identifiers from lo on,
   below hi. *)
Extends(cs, ds, lo, hi) ==
    \E s, b \in Nat : \A c \in ds : \/ \E x \in cs : Alike(c, x)
                                    \/ StartedBy(c, s, b, lo, hi)

(* The engine starts calls under fresh identifiers, or none. *)
CallsGoOn ==
    /\ engine'.id = engine.id
    /\ engine'.next \in Nat /\ engine.next <= engine'.next
    /\ Extends(calls, calls', engine.next, engine'.next)

(* What is known of the calls between steps *)
CallsTyped == engine.id \in Nat /\ engine.next \in Nat /\ calls \subseteq CallRecords

(* The engine's invariant has it. *)
LEMMA EngineTyped == EngineInv => CallsTyped
  BY Zenon DEF EngineInv, TypeInv, Engines, CallsTyped

(* Calls that are some of those there were, in whatever state *)
LEMMA FewerGoOn ==
    ASSUME CallsTyped, engine'.id = engine.id, engine'.next = engine.next,
           \A c \in calls' : \E x \in calls : Alike(c, x)
    PROVE  CallsGoOn
  <1>1. Extends(calls, calls', engine.next, engine'.next)
    BY Zenon DEF Extends
  <1> QED BY <1>1 DEF CallsGoOn, CallsTyped

(* A slice of a step's script starts calls of that step, numbered from the
   step's first one. *)
LEMMA SliceCalls ==
    ASSUME NEW e \in Engines, e.base <= e.next, e.step < NSteps,
           NEW cs, cs \subseteq CallRecords, NEW r \in Slices(e, cs)
    PROVE  Extends(cs, r.calls, e.next, r.next)
  <1>0. PICK n \in 0 .. MaxStepCalls :
           e.next - e.base + n <= MaxStepCalls /\ SliceForm(e, cs, n, r)
    BY Zenon, SliceForms
  <1>1. LET now == cs \cup Started(e, n)
        IN  /\ n \in 0 .. MaxStepCalls
            /\ e.next - e.base + n <= MaxStepCalls
            /\ r.next = e.next + n
            /\ r.calls = now \/ \E c \in now : r.calls = Await(now, c)
    BY Zenon, <1>0 DEF SliceForm
  <1> DEFINE now == cs \cup Started(e, n)
             New(c) == StartedBy(c, e.step + 1, e.base, e.next, r.next)
  <1>2. /\ e.next \in Nat /\ e.base \in Nat /\ e.step \in Nat /\ n \in Nat
        /\ NSteps \in Nat /\ MaxStepCalls \in Nat
        /\ e.next - e.base + n <= MaxStepCalls /\ r.next = e.next + n
    <2>1. e.next \in Nat /\ e.base \in Nat /\ e.step \in Nat /\ n \in Nat
      BY EngineAssumption DEF Engines
    <2>2. e.next - e.base + n <= MaxStepCalls /\ r.next = e.next + n
      BY Zenon, <1>1
    <2> QED BY Zenon, <2>1, <2>2, EngineAssumption
  <1>3. ASSUME NEW c \in Started(e, n)
        PROVE  c \in CallRecords /\ New(c)
    <2>1. PICK i \in e.next .. e.next + n - 1 :
             c = [id |-> i, step |-> e.step + 1, ord |-> i - e.base + 1,
                  state |-> "queued", awaited |-> FALSE]
      BY Zenon, <1>3 DEF Started
    <2>2. /\ i \in Nat /\ i \in e.next .. r.next - 1
          /\ i - e.base + 1 \in 1 .. MaxStepCalls /\ e.step + 1 \in 1 .. NSteps
      BY SMTT(30), <1>2
    <2>3. KeyOf(c) \in Keys
      BY Zenon, <2>1, <2>2 DEF KeyOf, Keys, Prefix
    <2>4. c \in CallRecords
      BY <2>1, <2>2 DEF CallRecords
    <2> QED BY Zenon, <2>1, <2>2, <2>3, <2>4 DEF StartedBy
  <1>4. now \subseteq CallRecords
    BY Zenon, <1>3
  <1>5. ASSUME NEW c \in r.calls
        PROVE  \E d \in now : Alike(c, d)
    <2>1. CASE r.calls = now
      BY Zenon, <1>5, <2>1 DEF Alike
    <2>2. CASE \E d \in now : r.calls = Await(now, d)
      <3>1. PICK d \in now : r.calls = (now \ {d}) \cup {[d EXCEPT !.awaited = TRUE]}
        BY Zenon, <2>2 DEF Await
      <3>2. d \in CallRecords
        BY Zenon, <1>4
      <3>3. Alike([d EXCEPT !.awaited = TRUE], d)
        BY Zenon, <3>2 DEF Alike, CallRecords
      <3> QED BY Zenon, <1>5, <3>1, <3>3 DEF Alike
    <2> QED BY Zenon, <1>1, <2>1, <2>2
  <1>6. ASSUME NEW c \in r.calls
        PROVE  (\E x \in cs : Alike(c, x)) \/ New(c)
    <2>1. PICK d \in now : Alike(c, d)
      BY Zenon, <1>5
    <2>2. CASE d \in cs
      BY Zenon, <2>1, <2>2
    <2>3. CASE d \in Started(e, n)
      <3>1. New(d)
        BY Zenon, <1>3, <2>3
      <3> QED BY Zenon, <2>1, <3>1 DEF Alike, StartedBy, KeyOf
    <2> QED BY Zenon, <2>2, <2>3
  <1>7. e.step + 1 \in Nat
    BY <1>2
  <1> QED BY Zenon, <1>2, <1>6, <1>7 DEF Extends

(* Driving a step does not touch the engine's identity. *)
LEMMA DriveIds ==
    ASSUME NEW e \in Engines, NEW r, Drive(e, r)
    PROVE  engine'.id = e.id /\ engine'.next = e.next /\ calls' \subseteq r.calls
  <1>1. engine' = drive_step(e, r) /\ calls' = cancel_unawaited_external_work(r)
    BY Zenon DEF Drive
  <1>2. drive_step(e, r).id = e.id /\ drive_step(e, r).next = e.next
    BY Zenon DEF drive_step, complete_step, Ended, Engines
  <1>3. calls' \subseteq r.calls
    BY Zenon, <1>1 DEF cancel_unawaited_external_work
  <1> QED BY Zenon, <1>1, <1>2, <1>3

(* Calls started from some of the calls there were *)
LEMMA ExtendsFewer ==
    ASSUME NEW cs, NEW bs, cs \subseteq bs, NEW ds, NEW es, es \subseteq ds,
           NEW lo, NEW hi, Extends(cs, ds, lo, hi)
    PROVE  Extends(bs, es, lo, hi)
  BY Zenon DEF Extends

(* A slice that the engine drives, from some of the calls there were *)
LEMMA SliceGoesOn ==
    ASSUME CallsTyped, NEW e \in Engines, e.base <= e.next, e.step < NSteps,
           e.id = engine.id, e.next = engine.next,
           NEW cs, cs \subseteq calls, NEW r \in Slices(e, cs),
           r.next \in Nat, r.next >= e.next, Drive([e EXCEPT !.next = r.next], r)
    PROVE  CallsGoOn
  <1> DEFINE f == [e EXCEPT !.next = r.next]
  <1>1. f \in Engines /\ f.id = e.id /\ f.next = r.next
    BY Zenon DEF Engines
  <1> HIDE DEF f
  <1>2. Drive(f, r)
    BY Zenon DEF f
  <1>3. engine'.id = e.id /\ engine'.next = r.next /\ calls' \subseteq r.calls
    BY Zenon, <1>1, <1>2, DriveIds
  <1>4. cs \subseteq CallRecords
    BY Zenon DEF CallsTyped
  <1>5. Extends(cs, r.calls, e.next, r.next)
    BY Zenon, <1>4, SliceCalls
  <1>6. Extends(calls, calls', engine.next, engine'.next)
    BY Zenon, <1>3, <1>5, ExtendsFewer
  <1> QED BY Zenon, <1>3, <1>6 DEF CallsGoOn, CallsTyped

(* A step's first slice *)
LEMMA RunGoesOn ==
    ASSUME EngineInv, RunSteps
    PROVE  EngineInv' /\ CallsGoOn
  <1>1. Advance
    BY Zenon DEF RunSteps, Advance
  <1>2. EngineInv'
    BY Zenon, <1>1, AdvanceKeeps
  <1>3. CallsTyped /\ engine \in Engines
    BY Zenon, EngineTyped DEF EngineInv, TypeInv
  <1>4. CASE Complete
    <2>1. engine' = Ended(engine, NSteps) /\ calls' = calls
      BY Zenon, <1>4 DEF Complete
    <2>2. engine'.id = engine.id /\ engine'.next = engine.next
      BY Zenon, <1>3, <2>1 DEF Ended, Engines
    <2>3. \A c \in calls' : \E x \in calls : Alike(c, x)
      BY Zenon, <2>1 DEF Alike
    <2> QED BY Zenon, <1>2, <1>3, <2>2, <2>3, FewerGoOn
  <1>5. CASE RunStep
    <2>1. engine.pc = "running" /\ engine.step < NSteps
      BY Zenon, <1>5 DEF RunStep
    <2>2. PICK r \in Slices(Entering, calls) : Drive([Entering EXCEPT !.next = r.next], r)
      BY Zenon, <1>5 DEF RunStep
    <2>3. /\ Entering \in Engines /\ Entering.base = engine.next
          /\ Entering.next = engine.next /\ Entering.step = engine.step
      BY Zenon, <2>1, EnteringEvaluating
    <2>4. Entering.id = engine.id
      BY Zenon, <1>3 DEF Entering, take_for_step, Engines
    <2>5. Entering.base <= Entering.next /\ Entering.step < NSteps
      BY SMTT(30), <1>3, <2>1, <2>3 DEF CallsTyped
    <2>6. CallsFit(Entering, "none", calls)
      BY Zenon, <2>1, <2>3 DEF EngineInv, TypeInv, CallsInv, QueuedCallsAreCurrent, Queued, CallsFit
    <2>7. r.next \in Nat /\ r.next >= Entering.next
      BY Zenon, <2>3, <2>5, <2>6, SliceFits
    <2>8. CallsGoOn
      BY ZenonT(60), <1>3, <2>2, <2>3, <2>4, <2>5, <2>7, SliceGoesOn
    <2> QED BY Zenon, <1>2, <2>8
  <1> QED BY Zenon, <1>4, <1>5 DEF RunSteps

(* The slice after a call is settled *)
LEMMA ResumeGoesOn ==
    ASSUME EngineInv, NEW c \in calls, Resume(c)
    PROVE  EngineInv' /\ CallsGoOn
  <1>1. EngineInv'
    BY Zenon, ResumeKeeps
  <1>2. CallsTyped /\ engine \in Engines /\ engine.base <= engine.next
    BY Zenon, EngineTyped DEF EngineInv, TypeInv
  <1>3. engine.pc = "suspended" /\ engine.step < NSteps
    BY Zenon DEF Resume, EngineInv, ProgressInv
  <1>4. CASE ~c.awaited
    <2>1. calls' \subseteq calls /\ engine' = engine
      BY Zenon, <1>4 DEF Resume
    <2>2. \A x \in calls' : \E y \in calls : Alike(x, y)
      BY Zenon, <2>1 DEF Alike
    <2> QED BY ZenonT(60), <1>1, <1>2, <2>1, <2>2, FewerGoOn
  <1>5. CASE c.awaited
    <2>1. PICK r \in Slices(engine, calls \ {c}) : Drive([engine EXCEPT !.next = r.next], r)
      BY Zenon, <1>5 DEF Resume
    <2>2. r.next \in Nat /\ r.next >= engine.next
      BY Zenon, <1>3, <1>5, SettledSlice
    <2>3. calls \ {c} \subseteq calls
      BY Zenon
    <2>4. CallsGoOn
      BY ZenonT(60), <1>2, <1>3, <2>1, <2>2, <2>3, SliceGoesOn
    <2> QED BY Zenon, <1>1, <2>4
  <1> QED BY Zenon, <1>4, <1>5

(* A queued call is claimed. *)
LEMMA ClaimGoesOn ==
    ASSUME EngineInv, NEW c \in calls, calls' = Replace(c, "claimed"),
           UNCHANGED <<style, engine, held, approvals, saved, done>>
    PROVE  EngineInv' /\ CallsGoOn
  <1>1. EngineInv'
    BY Zenon, ReplaceKeeps
  <1>2. CallsTyped /\ calls \subseteq CallRecords
    BY Zenon, EngineTyped DEF EngineInv, TypeInv
  <1>3. Alike([c EXCEPT !.state = "claimed"], c)
    BY Zenon, <1>2 DEF Alike, CallRecords
  <1>4. \A x \in calls' : \E y \in calls : Alike(x, y)
    BY Zenon, <1>3 DEF Replace, Alike
  <1> QED BY ZenonT(60), <1>1, <1>2, <1>4, FewerGoOn

(* An execution starts from nothing or from the stored checkpoint. *)
LEMMA LaunchGoesOn ==
    ASSUME EngineInv, Launch
    PROVE  EngineInv' /\ CallsGoOn
  <1>1. engine.pc = "idle" /\ UNCHANGED <<style, calls, held, approvals, saved, done>>
    BY Zenon DEF Launch
  <1>2. PICK c \in IF saved = {} THEN {[completed |-> 0, data |-> {}]} ELSE saved :
           engine' = [engine EXCEPT !.pc = "running", !.step = c.completed,
                                    !.leases = Leases(c.completed + 1),
                                    !.data = c.data, !.last = {}, !.reported = NoCount]
    BY Zenon DEF Launch
  <1>3. Earned(c.completed, c.data)
    <2>1. CASE saved = {}
      <3>1. c.completed = 0 /\ c.data = {}
        BY SMTT(30), <1>2, <2>1
      <3> QED BY <3>1, EngineAssumption DEF Earned, Contexts, Prefix
    <2>2. CASE saved # {}
      BY Zenon, <1>2, <2>2 DEF EngineInv, TokensInv
    <2> QED BY Zenon, <2>1, <2>2
  <1>4. c.completed \in 0 .. NSteps /\ c.data \in Contexts /\ NoCount \in Int
    BY <1>3 DEF Earned, NoCount
  <1>5. Leases(c.completed + 1) \in Seq(Int)
    <2>1. c.completed + 1 \in 1 .. NSteps + 1
      BY <1>4, EngineAssumption
    <2> QED BY Zenon, <2>1, LeasesType
  <1>6. engine \in Engines /\ engine.base <= engine.next /\ calls \subseteq CallRecords
    BY Zenon DEF EngineInv, TypeInv
  <1>7. /\ engine' \in Engines /\ engine'.pc = "running"
        /\ engine'.step = c.completed /\ engine'.leases = Leases(c.completed + 1)
        /\ engine'.data = c.data /\ engine'.id = engine.id
        /\ engine'.base = engine.base /\ engine'.next = engine.next
    BY Zenon, <1>2, <1>4, <1>5, <1>6 DEF Engines
  <1>8. TypeInv'
    BY ZenonT(60), <1>1, <1>6, <1>7 DEF TypeInv, Engines, Contexts, CallRecords
  <1>9. ProgressInv'
    BY Zenon, <1>1, <1>3, <1>7 DEF ProgressInv, Earned, Dataflow, Leases
  <1>10. CallsInv'
    BY Zenon, <1>1, <1>7 DEF EngineInv, CallsInv, QueuedCallsAreCurrent, Queued
  <1>11. TokensInv'
    BY Zenon, <1>1, TokensKeep DEF EngineInv
  <1>12. \A x \in calls' : \E y \in calls : Alike(x, y)
    BY Zenon, <1>1 DEF Alike
  <1>13. CallsGoOn
    BY ZenonT(60), <1>7, <1>12, EngineTyped, FewerGoOn
  <1> QED BY ZenonT(60), <1>8, <1>9, <1>10, <1>11, <1>13 DEF EngineInv

(* Fresh identifiers keep identifiers apart. *)
LEMMA CallIdsKeep ==
    ASSUME CallsTyped, CallIdsInv, CallsGoOn
    PROVE  CallIdsInv'
  <1>1. PICK s \in Nat, b \in Nat :
           \A c \in calls' : \/ \E x \in calls : Alike(c, x)
                             \/ StartedBy(c, s, b, engine.next, engine'.next)
    BY Zenon DEF CallsGoOn, Extends
  <1> DEFINE Old(c) == \E x \in calls : Alike(c, x)
             New(c) == StartedBy(c, s, b, engine.next, engine'.next)
  <1>2. /\ engine.next \in Nat /\ engine'.next \in Nat /\ engine.next <= engine'.next
        /\ \A x \in calls : x.id \in Nat
    BY Zenon DEF CallsTyped, CallsGoOn, CallRecords
  <1>3. ASSUME NEW c \in calls', Old(c)
        PROVE  c.id \in Nat /\ c.id < engine.next /\ KeyOf(c) \in Keys
    BY Zenon, <1>2, <1>3 DEF CallIdsInv, Alike, KeyOf
  <1>4. ASSUME NEW c \in calls', New(c)
        PROVE  /\ c.id \in Nat /\ c.id >= engine.next /\ c.id < engine'.next
               /\ KeyOf(c) \in Keys
    BY <1>2, <1>4 DEF StartedBy
  <1>5. ASSUME NEW c \in calls', NEW d \in calls', d.id = c.id
        PROVE  Alike(c, d)
    <2>1. CASE Old(c) /\ Old(d)
      BY <1>5, <2>1 DEF CallIdsInv, Alike
    <2>2. CASE New(c) /\ New(d)
      BY Zenon, <1>5, <2>2 DEF StartedBy, Alike
    <2>3. ~(Old(c) /\ New(d)) /\ ~(New(c) /\ Old(d))
      BY SMTT(30), <1>2, <1>3, <1>4, <1>5
    <2> QED BY ZenonT(60), <1>1, <2>1, <2>2, <2>3
  <1>6. ASSUME NEW c \in calls'
        PROVE  c.id < engine'.next /\ KeyOf(c) \in Keys
    BY SMTT(30), <1>1, <1>2, <1>3, <1>4
  <1> QED BY Zenon, <1>5, <1>6 DEF CallIdsInv, Alike, KeyOf, Keys

(* A token goes on naming its call. *)
LEMMA TokenKeeps ==
    ASSUME CallsTyped, CallIdsInv, CallsGoOn, NEW t, TokenOK(t)
    PROVE  TokenOK(t)'
  <1>1. PICK s \in Nat, b \in Nat :
           \A c \in calls' : \/ \E x \in calls : Alike(c, x)
                             \/ StartedBy(c, s, b, engine.next, engine'.next)
    BY Zenon DEF CallsGoOn, Extends
  <1>2. /\ engine.next \in Nat /\ engine'.next \in Nat /\ engine.next <= engine'.next
        /\ engine'.id = engine.id
    BY Zenon DEF CallsTyped, CallsGoOn
  <1>3. ASSUME t.engine = engine.id
        PROVE  /\ t.call \in Nat /\ t.call < engine'.next
               /\ \A c \in calls' : c.id = t.call => KeyOf(c) = t.key /\ c.step = t.step
    <2>1. t.call \in Nat /\ t.call < engine.next
      BY Zenon, <1>3 DEF TokenOK
    <2>2. ASSUME NEW c \in calls', c.id = t.call
          PROVE  KeyOf(c) = t.key /\ c.step = t.step
      <3>1. ~StartedBy(c, s, b, engine.next, engine'.next)
        BY SMTT(30), <1>2, <2>1, <2>2 DEF StartedBy
      <3>2. PICK x \in calls : Alike(c, x)
        BY Zenon, <1>1, <3>1
      <3> QED BY Zenon, <1>3, <2>2, <3>2 DEF TokenOK, Alike, KeyOf
    <2> QED BY SMTT(30), <1>2, <2>1, <2>2
  <1> QED BY Zenon, <1>2, <1>3 DEF TokenOK, KeyOf

(* A token made from a call names it. *)
LEMMA TokenMade ==
    ASSUME CallsTyped, CallIdsInv, NEW c \in calls
    PROVE  TokenOK(Token(c))
  <1>1. engine.id \in Nat /\ c.id \in Nat
    BY Zenon DEF CallsTyped, CallRecords
  <1>2. /\ Token(c).engine = engine.id /\ Token(c).call = c.id
        /\ Token(c).step = c.step /\ Token(c).key = KeyOf(c)
    BY Zenon DEF Token
  <1>3. c.id < engine.next /\ \A d \in calls : d.id = c.id => Alike(c, d)
    BY Zenon DEF CallIdsInv
  <1> QED BY SMTT(30), <1>1, <1>2, <1>3 DEF TokenOK, Alike, KeyOf

(* Where the host's tokens come from *)
TokensMove ==
    /\ \A t \in prepared' : t \in prepared \/ \E c \in calls : t = Token(c)
    /\ \A t \in claimed' : t \in claimed \/ (t \in prepared /\ Recorded(written, t.key))

(* A claimed token's operation is in storage. *)
LEMMA TokensStay ==
    ASSUME CallsTyped, CallIdsInv, CallsGoOn, StorageInv, StoredGoesOn, TokenInv, TokensMove
    PROVE  TokenInv'
  <1>1. ASSUME NEW t \in prepared' \cup claimed'
        PROVE  TokenOK(t)'
    <2>1. TokenOK(t)
      BY Zenon, <1>1, TokenMade DEF TokensMove, TokenInv
    <2> QED BY Zenon, <2>1, TokenKeeps
  <1>2. Later(written, stored) /\ Later(stored, stored')
    BY Zenon, StoredLater DEF StorageInv, StoreInv
  <1>3. ASSUME NEW t \in claimed'
        PROVE  Recorded(stored', t.key)
    BY Zenon, <1>2, <1>3 DEF TokensMove, TokenInv, Later, Recorded
  <1> QED BY Zenon, <1>1, <1>3 DEF TokenInv, Recorded

(* The bridge and the other host calls, as the engine and the tokens see
   them *)
EngineKept == EngineInv' /\ CallsGoOn /\ TokensMove

(* Steps that leave the engine alone *)
LEMMA EngineStill ==
    ASSUME EngineInv, UNCHANGED engineVars, TokensMove
    PROVE  EngineKept
  <1>1. UNCHANGED <<style, engine, calls, held, approvals, issued, saved, done>>
    BY Zenon DEF engineVars
  <1>2. EngineInv'
    BY Zenon, NextKeeps
  <1>3. \A x \in calls' : \E y \in calls : Alike(x, y)
    BY Zenon, <1>1 DEF Alike
  <1>4. CallsGoOn
    BY Zenon, <1>1, <1>3, EngineTyped, FewerGoOn
  <1> QED BY Zenon, <1>2, <1>4 DEF EngineKept

(* Steps that neither change nor lose a token *)
LEMMA TokensUnchanged ==
    ASSUME UNCHANGED <<prepared, claimed>>
    PROVE  TokensMove
  BY Zenon DEF TokensMove

(* The engine's own steps *)
LEMMA DrivesKeep ==
    ASSUME EngineInv, Drives
    PROVE  EngineKept
  <1>1. UNCHANGED <<prepared, claimed>>
    BY Zenon DEF Drives, opVars
  <1>2. TokensMove
    BY Zenon, <1>1, TokensUnchanged
  <1>3. CASE Launch
    BY Zenon, <1>2, <1>3, LaunchGoesOn DEF EngineKept
  <1>4. CASE RunSteps
    BY Zenon, <1>2, <1>4, RunGoesOn DEF EngineKept
  <1>5. CASE checkpoint_after
    <2>1. EngineInv' /\ UNCHANGED <<engine, calls>>
      BY Zenon, <1>5, CheckpointKeeps DEF checkpoint_after
    <2>2. \A x \in calls' : \E y \in calls : Alike(x, y)
      BY Zenon, <2>1 DEF Alike
    <2>3. CallsGoOn
      BY Zenon, <2>1, <2>2, EngineTyped, FewerGoOn
    <2> QED BY ZenonT(60), <1>2, <2>1, <2>3 DEF EngineKept
  <1> QED BY Zenon, <1>3, <1>4, <1>5 DEF Drives

(* A prepared call is claimed, or its token is spent for nothing. *)
LEMMA ClaimKeeps ==
    ASSUME EngineInv, NEW t \in prepared, claim_prepared_external_operation(t)
    PROVE  EngineKept
  <1>1. /\ UNCHANGED <<style, engine, held, approvals, saved, done>>
        /\ prepared' = {} /\ Recorded(written, t.key)
        /\ \/ /\ \E c \in Queued : c.id = t.call
              /\ calls' = Replace(CHOOSE c \in Queued : c.id = t.call, "claimed")
              /\ claimed' = claimed \cup {t}
           \/ UNCHANGED <<calls, claimed>>
    BY Zenon DEF claim_prepared_external_operation
  <1>2. TokensMove
    BY Zenon, <1>1 DEF TokensMove
  <1>3. CASE \E c \in Queued : c.id = t.call
             /\ calls' = Replace(CHOOSE d \in Queued : d.id = t.call, "claimed")
    <2>1. (CHOOSE c \in Queued : c.id = t.call) \in Queued
      BY Zenon, <1>3
    <2>2. (CHOOSE c \in Queued : c.id = t.call) \in calls
      BY Zenon, <2>1 DEF Queued
    <2> QED BY ZenonT(60), <1>1, <1>2, <1>3, <2>2, ClaimGoesOn DEF EngineKept
  <1>4. CASE UNCHANGED calls
    <2>1. issued' = issued
      BY Zenon DEF claim_prepared_external_operation
    <2>2. UNCHANGED engineVars
      BY Zenon, <1>1, <1>4, <2>1 DEF engineVars
    <2> QED BY Zenon, <1>2, <2>2, EngineStill
  <1> QED BY Zenon, <1>1, <1>3, <1>4

(* A call is settled, however the host settles it. *)
LEMMA SettledKeeps ==
    ASSUME EngineInv,
           \/ \E t \in claimed : CompleteCall(t) \/ TimeOutCall(t)
           \/ \E c \in calls : DropCall(c) \/ ExpireQueued(c)
    PROVE  EngineKept
  <1>1. PICK c \in calls : Resume(c)
    BY Zenon DEF CompleteCall, TimeOutCall, DropCall, ExpireQueued, Settle
  <1>2. prepared' = prepared /\ claimed' \subseteq claimed
    BY Zenon DEF CompleteCall, TimeOutCall, DropCall, ExpireQueued, opVars
  <1>3. TokensMove
    BY Zenon, <1>2 DEF TokensMove
  <1> QED BY Zenon, <1>1, <1>3, ResumeGoesOn DEF EngineKept

(* A call whose operation is over is claimed to be given up. *)
LEMMA GiveUpKeeps ==
    ASSUME EngineInv, GiveUpSettled
    PROVE  EngineKept
  <1>1. UNCHANGED <<prepared, claimed>>
    BY Zenon DEF GiveUpSettled, opVars
  <1>2. /\ UNCHANGED <<style, engine, held, approvals, saved, done>>
        /\ \E c \in calls : calls' = Replace(c, "claimed")
    BY Zenon DEF GiveUpSettled, claim_next_external_tool, NextQueued, Queued
  <1> QED BY Zenon, <1>1, <1>2, ClaimGoesOn, TokensUnchanged DEF EngineKept

(* A queued call is prepared. *)
LEMMA PrepareKeeps ==
    ASSUME EngineInv, prepare_next_external_operation
    PROVE  EngineKept
  <1>1. UNCHANGED engineVars /\ claimed' = claimed
    BY Zenon DEF prepare_next_external_operation
  <1>2. \E c \in calls : prepared' = prepared \cup {Token(c)}
    BY Zenon DEF prepare_next_external_operation, NextQueued, Queued
  <1>3. TokensMove
    BY Zenon, <1>1, <1>2 DEF TokensMove
  <1> QED BY Zenon, <1>1, <1>3, EngineStill

(* Steps of the host, of the worker and of recoveries beside the engine *)
BesideEngine ==
    \/ \E t \in claimed : prepare_authenticated_claimed_external_operation_dispatch(t)
    \/ Persist
    \/ \E k \in Keys : Operate(k)
    \/ \E a \in consents : prepare_authenticated_operation_compensation(a)
    \/ \E r \in Recoverers : RecoverOperation(r)
    \/ UNCHANGED vars

(* They leave the engine and its tokens alone. *)
LEMMA BesideKeeps ==
    ASSUME EngineInv, BesideEngine
    PROVE  EngineKept
  <1>1. ASSUME NEW r \in Recoverers, RecoverOperation(r)
        PROVE  UNCHANGED <<engineVars, prepared, claimed>>
    BY Zenon, <1>1 DEF RecoverOperation, LoadLedger, ReserveFence, execute_reconciliation,
           persist_recovery_observation, Recover
  <1>2. ASSUME NEW k \in Keys, Operate(k)
        PROVE  UNCHANGED <<engineVars, prepared, claimed>>
    BY Zenon, <1>2 DEF Operate, ObserveOperation, RecordCompensation, approve_compensation,
           ObserveCompensation, PerformEffect, PerformInverse
  <1>3. UNCHANGED <<engineVars, prepared, claimed>>
    BY Zenon, <1>1, <1>2 DEF BesideEngine, Persist, vars, opVars,
           prepare_authenticated_claimed_external_operation_dispatch,
           prepare_authenticated_operation_compensation
  <1>4. UNCHANGED engineVars /\ UNCHANGED <<prepared, claimed>>
    BY Zenon, <1>3
  <1> QED BY Zenon, <1>4, TokensUnchanged, EngineStill

(* Every step but a restart goes on with the calls there are. *)
LEMMA EngineSteps ==
    ASSUME EngineInv, [Next]_vars
    PROVE  EngineKept \/ RestartHost
  <1>1. CASE BesideEngine
    BY Zenon, <1>1, BesideKeeps
  <1>2. CASE \/ \E t \in claimed : CompleteCall(t) \/ TimeOutCall(t)
             \/ \E c \in calls : DropCall(c) \/ ExpireQueued(c)
    BY Zenon, <1>2, SettledKeeps
  <1> QED BY ZenonT(60), <1>1, <1>2, DrivesKeep, ClaimKeeps, GiveUpKeeps, PrepareKeeps
             DEF Next, BesideEngine

(* A restart ends every call, and every token with it. *)
LEMMA RestartTokens ==
    ASSUME EngineInv, TokenInv, StorageInv, RestartHost
    PROVE  EngineInv' /\ CallIdsInv' /\ TokenInv'
  <1>1. Restart
    BY Zenon DEF RestartHost
  <1>2. EngineInv'
    BY Zenon, <1>1, RestartKeeps
  <1>3. calls' = {} /\ engine' = NewEngine(engine.id + 1) /\ engine.id \in Nat
    BY Zenon, <1>1, EngineTyped DEF Restart, CallsTyped
  <1>4. engine'.id = engine.id + 1
    BY Zenon, <1>3 DEF NewEngine
  <1>5. CallIdsInv'
    BY Zenon, <1>3 DEF CallIdsInv
  <1>6. prepared' \subseteq prepared /\ claimed' \subseteq claimed
    BY Zenon DEF RestartHost
  <1>7. ASSUME NEW t \in prepared' \cup claimed'
        PROVE  TokenOK(t)'
    <2>1. t.engine \in Nat /\ t.engine <= engine.id
      BY Zenon, <1>6 DEF TokenInv, TokenOK
    <2>2. t.engine <= engine'.id /\ t.engine # engine'.id
      BY <1>3, <1>4, <2>1
    <2> QED BY Zenon, <2>1, <2>2 DEF TokenOK
  <1>8. stored' = stored
    BY Zenon DEF RestartHost, Store!reserve_fence, storeVars
  <1>9. \A t \in claimed' : Recorded(stored', t.key)
    BY Zenon, <1>6, <1>8 DEF TokenInv
  <1> QED BY ZenonT(60), <1>2, <1>5, <1>7, <1>9 DEF TokenInv, Recorded

-----------------------------------------------------------------------------
(* The inductive invariant and what follows from it *)

(* Every step keeps the invariant and goes on from what is stored. *)
LEMMA DurableNext ==
    DurableInv /\ [Next]_vars => DurableInv' /\ StoredGoesOn
  <1> SUFFICES ASSUME DurableInv, [Next]_vars PROVE DurableInv' /\ StoredGoesOn
    BY Zenon
  <1>1. EngineInv /\ CallIdsInv /\ StorageInv /\ TokenInv /\ CallsTyped
    BY Zenon, EngineTyped DEF DurableInv
  <1>2. StorageInv' /\ StoredGoesOn
    BY Zenon, <1>1, StorageNext
  <1>3. CASE RestartHost
    BY Zenon, <1>1, <1>2, <1>3, RestartTokens DEF DurableInv
  <1>4. CASE EngineKept
    <2>1. EngineInv' /\ CallsGoOn /\ TokensMove
      BY Zenon, <1>4 DEF EngineKept
    <2>2. CallIdsInv'
      BY ZenonT(60), <1>1, <2>1, CallIdsKeep
    <2>3. TokenInv'
      BY ZenonT(60), <1>1, <1>2, <2>1, TokensStay
    <2> QED BY ZenonT(60), <1>2, <2>1, <2>2, <2>3 DEF DurableInv
  <1> QED BY ZenonT(60), <1>1, <1>3, <1>4, EngineSteps

(* A host starts with an empty ledger and an idle worker. *)
LEMMA DurableInit == Init => DurableInv
  <1> SUFFICES ASSUME Init PROVE DurableInv
    BY Zenon
  <1>1. EngineInv
    BY Zenon, InitEstablishes DEF Init
  <1>2. CallIdsInv /\ TokenInv
    BY Zenon DEF Init, EngineInit, CallIdsInv, TokenInv
  <1>3. for_plan \in Ledgers /\ DOMAIN for_plan.operations = {}
    BY Zenon, EmptyLedger
  <1>4. Later(for_plan, for_plan) /\ Truthful(for_plan, effect, inverse)
    BY Zenon, <1>3 DEF Later, Truthful
  <1>5. effect \in [Keys -> Effects] /\ inverse \in [Keys -> Effects]
    BY Zenon DEF Init, Effects
  <1>6. StoreInv
    BY SMTT(30), <1>3, <1>4, <1>5 DEF Init, StoreInv, Based
  <1>7. NoRecovery \in Recovery /\ NoRecovery.at = "start"
    BY Zenon, <1>3 DEF NoRecovery, Recovery, Effects
  <1>8. recovery = [r \in Recoverers |-> NoRecovery]
    BY Zenon DEF Init
  <1>9. RecoveryInv
    <2> HIDE DEF NoRecovery
    <2> QED BY Zenon, <1>7, <1>8 DEF RecoveryInv, RecoveryOK
  <1>10. DecidedInv
    BY Zenon DEF Init, DecidedInv
  <1> QED BY ZenonT(60), <1>1, <1>2, <1>6, <1>9, <1>10 DEF DurableInv, StorageInv

(* The invariant holds in every state: whatever late answer, crash, recovery
   or replaced engine comes between, storage holds a ledger that goes on from
   every ledger that was stored before it, its outcomes are the worker's, and
   a token names the call it was made for. *)
THEOREM DurableInvariant == Spec => []DurableInv
  <1>1. DurableInv /\ [Next]_vars => DurableInv'
    BY Zenon, DurableNext
  <1> QED BY <1>1, DurableInit, PTL DEF Spec

(* An inverse effect is asked for only when the worker performed the effect
   and the decision to undo it is in storage (approve_compensation,
   prepare_authenticated_operation_compensation). *)
THEOREM CompensationsAreDecided == Spec => []CompensationIsDecided
  <1>1. DurableInv => CompensationIsDecided
    <2> SUFFICES ASSUME DurableInv, NEW k \in undone
                 PROVE  /\ effect[k] = "succeeded" /\ Recorded(stored, k)
                        /\ Compensation(stored, k) # "none"
      BY Zenon DEF CompensationIsDecided
    <2>1. Decided(stored, k) /\ Truthful(stored, effect, inverse)
      BY Zenon DEF DurableInv, StorageInv, StoreInv, DecidedInv
    <2> QED BY Zenon, <2>1 DEF Decided, Truthful, Recorded, Terminal
  <1> QED BY <1>1, DurableInvariant, PTL

(* A stored outcome is the worker's and stays (accepts, the fenced
   compare_and_swap of the host and of every recovery). *)
THEOREM StoredOutcomesAreFinal == Spec => StoredOutcomeIsFinal
  <1> DEFINE Final ==
         \A k \in DOMAIN stored.operations :
            /\ is_terminal(State(stored, k)) =>
                  /\ State(stored', k) = State(stored, k)
                  /\ State(stored, k) = effect[k]
            /\ is_terminal(Compensation(stored, k)) =>
                  /\ Compensation(stored', k) = Compensation(stored, k)
                  /\ Compensation(stored, k) = inverse[k]
  <1>1. DurableInv /\ [Next]_vars => Final
    <2> SUFFICES ASSUME DurableInv, [Next]_vars PROVE Final
      BY Zenon
    <2>1. Later(stored, stored') /\ Truthful(stored, effect, inverse)
      BY ZenonT(60), DurableNext, StoredLater DEF DurableInv, StorageInv, StoreInv
    <2> QED BY Zenon, <2>1 DEF Later, Truthful, is_terminal
  <1>2. DurableInv /\ [Next]_vars => [Final]_vars
    BY Zenon, <1>1
  <1> HIDE DEF Final
  <1>3. Spec => [][Final]_vars
    BY <1>2, DurableInvariant, PTL DEF Spec
  <1> QED BY Zenon, <1>3 DEF StoredOutcomeIsFinal, Final

(* A dispatch frame leaves in one kind of step only. *)
LEMMA OnlyDispatchSends ==
    ASSUME [Next]_vars, NEW f \in frames' \ frames
    PROVE  \E t \in claimed : /\ ClaimIsCurrent(t) /\ BindingHolds(ledger, t)
                              /\ f = Frame(t)
  <1>1. \/ frames' = frames
        \/ \E t \in claimed : prepare_authenticated_claimed_external_operation_dispatch(t)
    <2>1. ASSUME NEW r \in Recoverers, RecoverOperation(r) PROVE frames' = frames
      BY Zenon, <2>1 DEF RecoverOperation, LoadLedger, ReserveFence, execute_reconciliation,
             persist_recovery_observation, Recover
    <2>2. ASSUME NEW k \in Keys, Operate(k) PROVE frames' = frames
      BY Zenon, <2>2 DEF Operate, ObserveOperation, RecordCompensation, approve_compensation,
             ObserveCompensation, PerformEffect, PerformInverse
    <2>3. CASE \/ Persist \/ RestartHost \/ prepare_next_external_operation
               \/ \E t \in prepared : claim_prepared_external_operation(t)
               \/ \E a \in consents : prepare_authenticated_operation_compensation(a)
      BY Zenon, <2>3 DEF Persist, RestartHost, prepare_next_external_operation,
             claim_prepared_external_operation, prepare_authenticated_operation_compensation
    <2>4. CASE \/ Drives \/ GiveUpSettled \/ UNCHANGED vars
               \/ \E t \in claimed : CompleteCall(t) \/ TimeOutCall(t)
               \/ \E c \in calls : DropCall(c) \/ ExpireQueued(c)
      BY Zenon, <2>4 DEF Drives, GiveUpSettled, CompleteCall, TimeOutCall, DropCall,
             ExpireQueued, vars, opVars
    <2> QED BY ZenonT(60), <2>1, <2>2, <2>3, <2>4 DEF Next
  <1> QED BY Zenon, <1>1 DEF prepare_authenticated_claimed_external_operation_dispatch

(* Only the host's write, its restart and the recoveries touch what is stored
   and the leases. *)
LEMMA LeasesUntouched ==
    ASSUME [Next]_vars
    PROVE  \/ UNCHANGED storage
           \/ Persist \/ RestartHost \/ \E r \in Recoverers : RecoverOperation(r)
  <1>1. ASSUME NEW k \in Keys, Operate(k) PROVE UNCHANGED storage
    BY Zenon, <1>1 DEF Operate, ObserveOperation, RecordCompensation, approve_compensation,
           ObserveCompensation, PerformEffect, PerformInverse
  <1>2. CASE BridgeStep
    BY Zenon, <1>2 DEF BridgeStep, Drives, claim_prepared_external_operation,
           prepare_authenticated_claimed_external_operation_dispatch, CompleteCall,
           TimeOutCall, GiveUpSettled, DropCall, ExpireQueued, vars, opVars
  <1>3. CASE \/ prepare_next_external_operation
             \/ \E a \in consents : prepare_authenticated_operation_compensation(a)
    BY Zenon, <1>3 DEF prepare_next_external_operation,
           prepare_authenticated_operation_compensation
  <1> QED BY ZenonT(60), <1>1, <1>2, <1>3 DEF Next, BridgeStep

(* A recovery reserves its lease before it asks the worker and writes under
   no other, so that the host's lease is no longer the newest when it does. *)
LEMMA RecoveryLeases ==
    ASSUME DurableInv, LeaseInv, NEW r \in Recoverers, RecoverOperation(r)
    PROVE  LeaseInv'
  <1>0. /\ recovery \in [Recoverers -> Recovery] /\ recovery[r] \in Recovery
        /\ fence \in Nat /\ lease \in Nat /\ lease <= fence
        /\ lease = fence => written = stored
        /\ \A q \in Recoverers : Leased(recovery[q])
    BY Zenon DEF DurableInv, StorageInv, RecoveryInv, StoreInv, LeaseInv
  <1>1. ASSUME NEW e, Recover(r, e)
        PROVE  /\ UNCHANGED <<written, lease>>
               /\ recovery'[r] = e
               /\ \A q \in Recoverers : q # r => recovery'[q] = recovery[q]
    BY Zenon, <1>0, <1>1 DEF Recover, hostVars
  <1>2. ASSUME NEW e, Recover(r, e), UNCHANGED <<stored, fence>>,
               e.at \in {"prepared", "answered"} =>
                  recovery[r].at \in {"prepared", "answered"} /\ e.token = recovery[r].token
        PROVE  LeaseInv'
    BY ZenonT(60), <1>0, <1>1, <1>2 DEF LeaseInv, Leased
  <1>3. ASSUME NEW k \in Recoverable, LoadLedger(r, k)
        PROVE  LeaseInv'
    <2> PICK e : e = [recovery[r] EXCEPT !.at = "loaded", !.ledger = stored,
                                         !.revision = floor, !.key = k]
      BY Zenon
    <2>1. Recover(r, e) /\ UNCHANGED <<stored, fence>>
      BY Zenon, <1>3 DEF LoadLedger, storeVars
    <2>2. e.at = "loaded"
      BY Zenon, <1>0 DEF Recovery
    <2> QED BY ZenonT(60), <1>2, <2>1, <2>2
  <1>4. CASE ReserveFence(r)
    <2> PICK e : e = [recovery[r] EXCEPT !.at = "prepared", !.token = fence']
      BY Zenon
    <2>1. Recover(r, e) /\ fence' = fence + 1 /\ UNCHANGED <<stored, floor>>
      BY Zenon, <1>4 DEF ReserveFence, Store!reserve_fence
    <2>2. e.token = fence'
      BY Zenon, <1>0 DEF Recovery
    <2>3. /\ fence' \in Nat /\ lease <= fence' /\ lease # fence' /\ fence' <= fence'
          /\ \A n \in Nat : n <= fence => n <= fence'
      BY <1>0, <2>1
    <2>4. UNCHANGED <<written, lease>> /\ recovery'[r] = e
          /\ \A q \in Recoverers : q # r => recovery'[q] = recovery[q]
      BY Zenon, <1>1, <2>1
    <2> QED BY ZenonT(60), <1>0, <2>2, <2>3, <2>4 DEF LeaseInv, Leased
  <1>5. CASE execute_reconciliation(r)
    <2>1. PICK s \in Observed(effect[recovery[r].key]) :
             Recover(r, [recovery[r] EXCEPT !.at = "answered", !.answer = s])
      BY Zenon, <1>5 DEF execute_reconciliation
    <2> PICK e : e = [recovery[r] EXCEPT !.at = "answered", !.answer = s]
      BY Zenon
    <2>2. e.token = recovery[r].token
      BY Zenon, <1>0 DEF Recovery
    <2>3. UNCHANGED <<stored, fence>> /\ recovery[r].at = "prepared"
      BY Zenon, <1>5 DEF execute_reconciliation, storeVars
    <2> QED BY Zenon, <1>2, <2>1, <2>2, <2>3
  <1>6. CASE persist_recovery_observation(r)
    <2> PICK e : e = [NoRecovery EXCEPT !.at = "over"]
      BY Zenon
    <2>1. /\ Recover(r, e) /\ recovery[r].at = "answered"
          /\ \/ fence' = fence /\ recovery[r].token = fence
             \/ UNCHANGED <<stored, fence>>
      BY Zenon, <1>6 DEF persist_recovery_observation, Store!compare_and_swap, storeVars
    <2>2. e.at = "over"
      BY Zenon DEF NoRecovery
    <2>3. CASE UNCHANGED <<stored, fence>>
      BY Zenon, <1>2, <2>1, <2>2, <2>3
    <2>4. CASE fence' = fence /\ recovery[r].token = fence
      <3>1. lease # fence
        BY Zenon, <1>0, <2>1, <2>4 DEF Leased
      <3>2. UNCHANGED <<written, lease>> /\ recovery'[r] = e
            /\ \A q \in Recoverers : q # r => recovery'[q] = recovery[q]
        BY Zenon, <1>1, <2>1
      <3> QED BY ZenonT(60), <1>0, <2>2, <2>4, <3>1, <3>2 DEF LeaseInv, Leased
    <2> QED BY Zenon, <2>1, <2>3, <2>4
  <1> QED BY Zenon, <1>3, <1>4, <1>5, <1>6 DEF RecoverOperation

(* Who holds the newest lease has what is stored, after every step. *)
LEMMA LeasesKeep ==
    ASSUME DurableInv, LeaseInv, [Next]_vars
    PROVE  LeaseInv'
  <1>0. /\ fence \in Nat /\ lease \in Nat /\ lease <= fence
        /\ \A r \in Recoverers : Leased(recovery[r])
    BY Zenon DEF DurableInv, StorageInv, StoreInv, LeaseInv
  <1>1. CASE UNCHANGED storage
    BY Zenon, <1>1 DEF LeaseInv, Leased, storage, storeVars, hostVars
  <1>2. CASE Persist
    <2>1. stored' = ledger /\ written' = ledger /\ UNCHANGED <<fence, lease, recovery>>
      BY Zenon, <1>2 DEF Persist, Store!compare_and_swap
    <2> QED BY Zenon, <2>1 DEF LeaseInv, Leased
  <1>3. CASE RestartHost
    <2>1. \/ UNCHANGED <<stored, fence, written, lease, recovery>>
          \/ /\ fence' = fence + 1 /\ lease' = fence' /\ written' = stored
             /\ UNCHANGED <<stored, recovery>>
      BY Zenon, <1>3 DEF RestartHost, Store!reserve_fence, storeVars, hostVars
    <2>2. CASE UNCHANGED <<stored, fence, written, lease, recovery>>
      BY Zenon, <2>2 DEF LeaseInv, Leased
    <2>3. CASE /\ fence' = fence + 1 /\ lease' = fence' /\ written' = stored
               /\ UNCHANGED <<stored, recovery>>
      <3>1. /\ fence' \in Nat /\ fence' <= fence'
            /\ \A n \in Nat : n <= fence => n <= fence' /\ n # fence'
        BY <1>0, <2>3
      <3> QED BY Zenon, <1>0, <2>3, <3>1 DEF LeaseInv, Leased
    <2> QED BY Zenon, <2>1, <2>2, <2>3
  <1> QED BY Zenon, <1>1, <1>2, <1>3, LeasesUntouched, RecoveryLeases

(* Once the outcome of an operation is in storage, the holder of the ledger's
   lease sends no frame for it, whoever stored the outcome and whatever call
   was prepared or claimed before (validate_external_operation_binding,
   persist_recovery_observation). *)
THEOREM OutcomesStopDispatch == Spec => []OutcomeStopsDispatch
  <1>1. Init => LeaseInv /\ OutcomeStopsDispatch
    <2> SUFFICES ASSUME Init PROVE LeaseInv /\ OutcomeStopsDispatch
      BY Zenon
    <2>1. fence = 1 /\ lease = 1 /\ written = stored /\ frames = {}
          /\ \A r \in Recoverers : recovery[r].at = "start"
      BY Zenon DEF Init, NoRecovery
    <2>2. lease \in Nat /\ lease <= fence
      BY <2>1
    <2> QED BY Zenon, <2>1, <2>2 DEF LeaseInv, Leased, OutcomeStopsDispatch
  <1>2. DurableInv /\ LeaseInv /\ OutcomeStopsDispatch /\ [Next]_vars
           => LeaseInv' /\ OutcomeStopsDispatch'
    <2> SUFFICES ASSUME DurableInv, LeaseInv, OutcomeStopsDispatch, [Next]_vars
                 PROVE  LeaseInv' /\ OutcomeStopsDispatch'
      BY Zenon
    <2>1. ASSUME NEW f \in frames' \ frames
          PROVE  f.sent # "late"
      <3>1. PICK t \in claimed : BindingHolds(ledger, t) /\ f = Frame(t)
        BY Zenon, OnlyDispatchSends
      <3>2. ~Settled(ledger, t.key) /\ f.sent = Sent(t.key)
        BY Zenon, <3>1 DEF BindingHolds, Frame
      <3>3. lease = fence => ~Settled(stored, t.key)
        BY Zenon, <3>2 DEF DurableInv, StorageInv, StoreInv, LeaseInv, Later, Settled, Recorded,
               is_terminal
      <3> QED BY Zenon, <3>2, <3>3 DEF Sent
    <2>2. OutcomeStopsDispatch'
      BY Zenon, <2>1 DEF OutcomeStopsDispatch
    <2> QED BY Zenon, <2>2, LeasesKeep
  <1> QED BY <1>1, <1>2, DurableInvariant, PTL DEF Spec

(* A frame is sent only for a stored operation, and while the very call its
   token was made for is claimed in the suspended step
   (validate_claimed_external_operation). *)
THEOREM DispatchesServeCurrentCalls == Spec => DispatchServesCurrentCall
  <1> DEFINE Serves ==
         \A f \in frames' \ frames :
            /\ Recorded(stored, f.key)
            /\ engine.pc = "suspended"
            /\ \E c \in calls : /\ KeyOf(c) = f.key
                                /\ c.state = "claimed"
                                /\ c.step = engine.step + 1
  <1>1. DurableInv /\ [Next]_vars => Serves
    <2> SUFFICES ASSUME DurableInv, [Next]_vars, NEW f \in frames' \ frames
                 PROVE  /\ Recorded(stored, f.key)
                        /\ engine.pc = "suspended"
                        /\ \E c \in calls : /\ KeyOf(c) = f.key
                                            /\ c.state = "claimed"
                                            /\ c.step = engine.step + 1
      BY Zenon
    <2>1. PICK t \in claimed : ClaimIsCurrent(t) /\ f = Frame(t)
      BY Zenon, OnlyDispatchSends
    <2>2. f.key = t.key
      BY Zenon, <2>1 DEF Frame
    <2>3. TokenOK(t) /\ Recorded(stored, t.key)
      BY Zenon DEF DurableInv, TokenInv
    <2> QED BY Zenon, <2>1, <2>2, <2>3 DEF ClaimIsCurrent, TokenIsCurrent, TokenOK
  <1>2. DurableInv /\ [Next]_vars => [Serves]_vars
    BY Zenon, <1>1
  <1> HIDE DEF Serves
  <1>3. Spec => [][Serves]_vars
    BY <1>2, DurableInvariant, PTL DEF Spec
  <1> QED BY Zenon, <1>3 DEF DispatchServesCurrentCall, Serves

(* What WorkflowEngine promises holds of the engine inside the host too:
   leases fit their steps, no step is skipped, and a queued call is the
   suspended step's (execute_from, cancel_unawaited_external_work). *)
THEOREM EngineKeepsItsPromise ==
    Spec => [](LeaseFitsStep /\ NoStepSkipped /\ QueuedCallsAreCurrent)
  <1>1. DurableInv => LeaseFitsStep /\ NoStepSkipped /\ QueuedCallsAreCurrent
    BY Zenon DEF DurableInv, EngineInv, ProgressInv, CallsInv, TokensInv, Earned, LeaseFitsStep,
           NoStepSkipped
  <1> QED BY <1>1, DurableInvariant, PTL

=============================================================================
