------------------------ MODULE WorkerSessionProofs -------------------------
(***************************************************************************)
(* The safety properties of WorkerSession, for any workers, keys and       *)
(* identities and every bound: the inductive invariant, the steps that     *)
(* open, lose and persist a session, then requests and the calls of        *)
(* adapters, and the theorems.                                             *)
(*                                                                         *)
(* The properties speak of the stored journal and of the outside world,    *)
(* while requests are answered and adapters called from the copy a session *)
(* holds, which another session may have outdated.  The invariant says how *)
(* a copy relates to what is stored: it is an earlier version of it, and   *)
(* exactly it as long as the revision has not moved.                       *)
(***************************************************************************)
EXTENDS WorkerSession, TLAPS

(* The journal a load would give *)
Current == IF floor = 0 THEN EmptyJournal ELSE durable

(* The last version of the journal a session read or wrote *)
Persisting(w) == pc[w] \in {"establish", "write"}

Base(w) == IF Persisting(w) THEN before[w] ELSE journal[w]

(* b is a later version of a slot, or of a journal: records stay, keep their
   identity, never return to pending and never leave a terminal state. *)
Follows(a, b) ==
    /\ a.state # "Absent" => b.state # "Absent" /\ b.identity = a.identity
    /\ a.state \in Terminal => b.state = a.state
    /\ a.state = "Running" => b.state # "Pending"

Later(i, j) == \A k \in Keys, s \in Slots : Follows(i[k][s], j[k][s])

(* What a journal says happened, or will never happen, is so at a provider. *)
Truthful(p, j) ==
    \A k \in Keys, s \in Slots :
        /\ j[k][s].state = "Succeeded" => p[k][s] = "done"
        /\ j[k][s].state \in {"Failed", "Cancelled"} => p[k][s] = "refused"

Requests == [slot : Slots, key : Keys, after : (States \ {"Absent", "Pending"}) \cup {"none"}]

Effects == {"none", "running", "done", "refused"}

Reports == [Keys -> [Slots -> SUBSET (States \ {"Absent", "Pending"})]]

TypeInv ==
    /\ floor \in Nat
    /\ fence \in Nat
    /\ floor > 0 => durable \in Journals
    /\ external \in BOOLEAN
    /\ issued \in Nat
    /\ mode \in [Workers -> {"closed", "loaded", "open", "poisoned"}]
    /\ pc \in [Workers -> {"idle", "establish", "write", "call"}]
    /\ journal \in [Workers -> Journals]
    /\ revision \in [Workers -> Nat]
    /\ lease \in [Workers -> Nat]
    /\ before \in [Workers -> Journals]
    /\ DOMAIN request = Workers
    /\ \A w \in Workers : pc[w] # "idle" => mode[w] = "open" /\ request[w] \in Requests
    /\ provider \in [Keys -> [Slots -> Effects]]
    /\ calls \in [Keys -> [Slots -> Nat]]
    /\ reported \in Reports

(* Copies of the journal are versions of it. *)
VersionOK(w) ==
    /\ revision[w] <= floor
    /\ revision[w] = floor => Base(w) = Current
    /\ Later(Base(w), Current)
    /\ ~external => lease[w] <= fence

VersionInv == \A w \in Workers : VersionOK(w)

(* A journal under way to the store adds the request's own step to the version
   it is to replace. *)
PersistOK(w) ==
    Persisting(w) =>
        /\ Later(before[w], journal[w])
        /\ Observing(w) => journal[w][Key(w)][Slot(w)].state = request[w].after
        /\ ~Observing(w) =>
              /\ before[w][Key(w)][Slot(w)].state = "Absent"
              /\ journal[w][Key(w)][Slot(w)].state = "Pending"
              /\ Slot(w) = "compensation" =>
                    before[w][Key(w)]["operation"].state = "Succeeded"

PersistInv == \A w \in Workers : PersistOK(w)

(* A worker about to call an adapter is the only one, for an effect that was
   recorded and never asked for. *)
CallOK(w) ==
    pc[w] = "call" =>
        /\ Current[Key(w)][Slot(w)].state # "Absent"
        /\ calls[Key(w)][Slot(w)] = 0
        /\ Slot(w) = "compensation" => Current[Key(w)]["operation"].state = "Succeeded"

CallInv ==
    /\ \A w \in Workers : CallOK(w)
    /\ \A v, w \in Workers :
          /\ pc[v] = "call" /\ pc[w] = "call"
          /\ Key(v) = Key(w) /\ Slot(v) = Slot(w)
          => v = w

TruthInv ==
    /\ Truthful(provider, Current)
    /\ \A w \in Workers : Truthful(provider, journal[w]) /\ Truthful(provider, before[w])

(* The properties *)
WorldOK ==
    /\ EffectAtMostOnce
    /\ IntentBeforeEffect
    /\ ResponsesAreDurable
    /\ JournalIsTruthful

SessionInv ==
    /\ TypeInv
    /\ VersionInv
    /\ PersistInv
    /\ CallInv
    /\ TruthInv
    /\ WorldOK

-----------------------------------------------------------------------------
(* What a step of one worker does, as the lemmas below need it *)

(* The other workers: their requests and copies, their versions and leases *)
OthersStill(w) ==
    \A v \in Workers \ {w} :
        /\ pc'[v] = pc[v]
        /\ journal'[v] = journal[v]
        /\ before'[v] = before[v]
        /\ request'[v] = request[v]

OthersHold(w) ==
    \A v \in Workers \ {w} : revision'[v] = revision[v] /\ lease'[v] = lease[v]

(* The store stands still or takes the next version; its fence only grows. *)
StoreMoves ==
    /\ Current' \in Journals
    /\ Later(Current, Current')
    /\ \/ floor' = floor /\ Current' = Current
       \/ floor' = floor + 1
    /\ UNCHANGED external
    /\ fence' \in Nat
    /\ fence <= fence'

(* Only the call a worker is at is made; no other worker is at the call it
   enters. *)
CallsOwn(w) ==
    \A k \in Keys, s \in Slots : calls'[k][s] # calls[k][s] =>
        pc[w] = "call" /\ Key(w) = k /\ Slot(w) = s

EntersAlone(w) ==
    pc'[w] = "call" =>
        /\ CallOK(w)'
        /\ \A v \in Workers \ {w} :
              pc[v] = "call" => ~(Key(v) = Key(w)' /\ Slot(v) = Slot(w)')

(* What is newly reported is what the store says now. *)
ToldFromStore ==
    \A k \in Keys, s \in Slots : \A status \in reported'[k][s] :
        \/ status \in reported[k][s]
        \/ Current[k][s].state' = status
        \/ status = "Running" /\ Current[k][s].state' \in Terminal

(* An effect that changes, or is asked for, has a record. *)
EffectsRecorded ==
    \A k \in Keys, s \in Slots :
        /\ provider'[k][s] # provider[k][s] => Current[k][s].state # "Absent"
        /\ calls'[k][s] # calls[k][s] =>
              /\ calls'[k][s] = 1
              /\ Current[k][s].state # "Absent"
              /\ s = "compensation" => Current[k]["operation"].state = "Succeeded"

(* Settled effects stay as they are. *)
Moves(p, q) ==
    \A k \in Keys, s \in Slots :
        /\ q[k][s] # p[k][s] => p[k][s] \in {"none", "running"}
        /\ p[k][s] # "none" => q[k][s] # "none"

(* A provider is updated at one effect. *)
Written(k, s, e) ==
    /\ provider' \in [Keys -> [Slots -> Effects]]
    /\ provider'[k][s] = e
    /\ \A l \in Keys, t \in Slots :
          <<l, t>> # <<k, s>> => provider'[l][t] = provider[l][t]

(* A request ends, or starts to persist the next version. *)
Ends(w) ==
    /\ pc' = [pc EXCEPT ![w] = "idle"]
    /\ DOMAIN request' = Workers
    /\ \A v \in Workers \ {w} : request'[v] = request[v]
    /\ UNCHANGED <<journal, before>>

Begins(w, j, r) ==
    /\ mode[w] = "open"
    /\ pc' = [pc EXCEPT ![w] = "establish"]
    /\ request' = [request EXCEPT ![w] = r]
    /\ journal' = [journal EXCEPT ![w] = j]
    /\ before' = [before EXCEPT ![w] = journal[w]]
    /\ Later(journal[w], j)
    /\ Truthful(provider', j)
    /\ r.after # "none" => j[r.key][r.slot].state = r.after
    /\ r.after = "none" =>
          /\ journal[w][r.key][r.slot].state = "Absent"
          /\ j[r.key][r.slot].state = "Pending"
          /\ r.slot = "compensation" =>
                journal[w][r.key]["operation"].state = "Succeeded"

EndsOrBegins(w) == Ends(w) \/ \E j \in Journals, r \in Requests : Begins(w, j, r)

(* The part of the next type invariant that is about requests *)
RequestTyped ==
    /\ pc' \in [Workers -> {"idle", "establish", "write", "call"}]
    /\ journal' \in [Workers -> Journals]
    /\ before' \in [Workers -> Journals]
    /\ DOMAIN request' = Workers
    /\ \A v \in Workers : pc'[v] # "idle" => mode'[v] = "open" /\ request'[v] \in Requests

-----------------------------------------------------------------------------
(* Journals *)

(* A journal is a later version of itself. *)
LEMMA LaterReflexive ==
    ASSUME NEW j \in Journals
    PROVE  Later(j, j)
  BY Zenon DEF Later, Follows

(* A later version of a later version is a later version. *)
LEMMA LaterTransitive ==
    ASSUME NEW i \in Journals, NEW j \in Journals, NEW l \in Journals,
           Later(i, j), Later(j, l)
    PROVE  Later(i, l)
  <1> SUFFICES ASSUME NEW k \in Keys, NEW s \in Slots
               PROVE  Follows(i[k][s], l[k][s])
    BY Zenon DEF Later
  <1>1. Follows(i[k][s], j[k][s]) /\ Follows(j[k][s], l[k][s])
    BY Zenon DEF Later
  <1>2. /\ i[k][s].state \in States
        /\ j[k][s].state \in States
    BY Zenon DEF Journals, Record
  <1> QED BY Zenon, <1>1, <1>2 DEF Follows, States, Terminal

(* The empty journal is a journal, an earlier version of any, and truthful. *)
LEMMA EmptyIsFirst ==
    /\ EmptyJournal \in Journals
    /\ \A k \in Keys, s \in Slots : EmptyJournal[k][s].state = "Absent"
    /\ \A j \in Journals : Later(EmptyJournal, j)
    /\ Truthful(provider, EmptyJournal)
  <1>1. \A k \in Keys, s \in Slots :
           EmptyJournal[k][s] = [state |-> "Absent", identity |-> NoIdentity]
    BY Zenon DEF EmptyJournal
  <1>2. EmptyJournal \in Journals
    BY Zenon DEF EmptyJournal, Journals, Record, States
  <1>3. \A j \in Journals : Later(EmptyJournal, j)
    BY <1>1 DEF Later, Follows, Terminal
  <1>4. Truthful(provider, EmptyJournal)
    BY <1>1 DEF Truthful
  <1> QED BY <1>1, <1>2, <1>3, <1>4

(* Writing one slot of a journal changes that slot only. *)
LEMMA SlotWritten ==
    ASSUME NEW j \in Journals, NEW k \in Keys, NEW s \in Slots,
           NEW r \in [state : States, identity : Identities \cup {NoIdentity}]
    PROVE  /\ [j EXCEPT ![k][s] = r] \in Journals
           /\ [j EXCEPT ![k][s] = r][k][s] = r
           /\ \A l \in Keys, t \in Slots : <<l, t>> # <<k, s>> =>
                 [j EXCEPT ![k][s] = r][l][t] = j[l][t]
  <1> DEFINE n == [j[k] EXCEPT ![s] = r]
  <1>1. j[k] \in Record /\ DOMAIN j = Keys
    BY Zenon DEF Journals
  <1>2. n \in Record /\ n[s] = r /\ \A t \in Slots : t # s => n[t] = j[k][t]
    BY Zenon, <1>1 DEF Record
  <1>3. [j EXCEPT ![k][s] = r] = [j EXCEPT ![k] = n]
    BY Zenon, <1>1
  <1> HIDE DEF n
  <1> QED BY Zenon, <1>1, <1>2, <1>3 DEF Journals

(* An observation that is accepted gives a later version, with the observed
   state. *)
LEMMA ObservationFollows ==
    ASSUME NEW j \in Journals, NEW k \in Keys, NEW s \in Slots,
           NEW status \in States \ {"Absent", "Pending"},
           accepts(j[k][s].state, status)
    PROVE  /\ WithState(j, k, s, status) \in Journals
           /\ WithState(j, k, s, status)[k][s].state = status
           /\ \A l \in Keys, t \in Slots : <<l, t>> # <<k, s>> =>
                 WithState(j, k, s, status)[l][t] = j[l][t]
           /\ Later(j, WithState(j, k, s, status))
  <1> DEFINE r == [j[k][s] EXCEPT !.state = status]
  <1>1. j[k][s] \in [state : States, identity : Identities \cup {NoIdentity}]
    BY Zenon DEF Journals, Record
  <1>2. /\ r \in [state : States, identity : Identities \cup {NoIdentity}]
        /\ r.state = status
        /\ r.identity = j[k][s].identity
    BY Zenon, <1>1
  <1>3. WithState(j, k, s, status) = [j EXCEPT ![k][s] = r]
    BY Zenon DEF WithState, Journals, Record
  <1> HIDE DEF r
  <1> DEFINE n == [j EXCEPT ![k][s] = r]
  <1>4. Follows(j[k][s], r)
    BY Zenon, <1>2 DEF Follows, accepts, Terminal
  <1>5. /\ n \in Journals
        /\ n[k][s] = r
        /\ \A l \in Keys, t \in Slots : <<l, t>> # <<k, s>> => n[l][t] = j[l][t]
    BY <1>2, SlotWritten
  <1>6. WithState(j, k, s, status) = n
    BY Zenon, <1>3
  <1> HIDE DEF n
  <1>7. Later(j, n)
    <2> SUFFICES ASSUME NEW l \in Keys, NEW t \in Slots
                 PROVE  Follows(j[l][t], n[l][t])
      BY Zenon DEF Later
    <2>1. CASE <<l, t>> = <<k, s>>
      BY Zenon, <2>1, <1>4, <1>5
    <2>2. CASE <<l, t>> # <<k, s>>
      BY Zenon, <2>2, <1>5 DEF Follows
    <2> QED BY Zenon, <2>1, <2>2
  <1> QED BY ZenonT(60), <1>2, <1>5, <1>6, <1>7

(* An admission gives a later version, with one record more. *)
LEMMA AdmissionFollows ==
    ASSUME NEW j \in Journals, NEW k \in Keys, NEW s \in Slots,
           NEW id \in Identities, j[k][s].state = "Absent"
    PROVE  LET n == [j EXCEPT ![k][s] = [state |-> "Pending", identity |-> id]] IN
           /\ n \in Journals
           /\ n[k][s].state = "Pending"
           /\ \A l \in Keys, t \in Slots : <<l, t>> # <<k, s>> => n[l][t] = j[l][t]
           /\ Later(j, n)
  <1> DEFINE r == [state |-> "Pending", identity |-> id]
             n == [j EXCEPT ![k][s] = r]
  <1>1. /\ r \in [state : States, identity : Identities \cup {NoIdentity}]
        /\ r.state = "Pending"
    BY Zenon DEF States
  <1> HIDE DEF r
  <1>2. /\ n \in Journals
        /\ n[k][s] = r
        /\ \A l \in Keys, t \in Slots : <<l, t>> # <<k, s>> => n[l][t] = j[l][t]
    BY <1>1, SlotWritten
  <1> HIDE DEF n
  <1>3. Later(j, n)
    <2> SUFFICES ASSUME NEW l \in Keys, NEW t \in Slots
                 PROVE  Follows(j[l][t], n[l][t])
      BY Zenon DEF Later
    <2>1. CASE <<l, t>> = <<k, s>>
      BY Zenon, <2>1 DEF Follows, Terminal
    <2>2. CASE <<l, t>> # <<k, s>>
      BY Zenon, <2>2, <1>2 DEF Follows
    <2> QED BY Zenon, <2>1, <2>2
  <1> QED BY Zenon, <1>1, <1>2, <1>3 DEF n, r

-----------------------------------------------------------------------------
(* The stored journal *)

(* Stored reads the current journal, which is one. *)
LEMMA CurrentStored ==
    ASSUME TypeInv
    PROVE  /\ Current \in Journals
           /\ \A k \in Keys, s \in Slots : Stored(k, s) = Current[k][s].state
  BY EmptyIsFirst DEF TypeInv, Current, Stored

(* As long as the store and the world stand still, so does what is said of
   them. *)
LEMMA WorldStill ==
    ASSUME SessionInv, UNCHANGED <<durable, floor, provider, calls, reported>>
    PROVE  /\ Current' = Current
           /\ Truthful(provider', Current')
           /\ WorldOK'
  <1>1. \A k \in Keys, s \in Slots : Stored(k, s)' = Stored(k, s)
    BY Zenon DEF Stored
  <1>2. Current' = Current
    BY Zenon DEF Current
  <1>3. Truthful(provider', Current')
    BY Zenon, <1>2 DEF SessionInv, TruthInv
  <1>4. EffectAtMostOnce' /\ IntentBeforeEffect'
    BY Zenon, <1>1 DEF SessionInv, WorldOK, EffectAtMostOnce, IntentBeforeEffect
  <1>5. ResponsesAreDurable' /\ JournalIsTruthful'
    BY <1>1 DEF SessionInv, WorldOK, ResponsesAreDurable, JournalIsTruthful, Slots
  <1> QED BY Zenon, <1>2, <1>3, <1>4, <1>5 DEF WorldOK

(* A write that succeeds replaces the version it was derived from. *)
LEMMA CommitMoves ==
    ASSUME SessionInv, NEW w \in Workers, pc[w] = "write", Commit(w)
    PROVE  /\ Current = before[w]
           /\ Current' = journal[w]
           /\ Later(Current, Current')
           /\ floor' = floor + 1
           /\ fence' = fence
           /\ lease[w] = fence
           /\ durable' = journal[w]
  <1>1. /\ revision[w] = floor
        /\ lease[w] = fence
        /\ durable' = journal[w]
        /\ floor' = floor + 1
        /\ fence' = fence
    BY Zenon DEF SessionInv, TypeInv, Commit, Store!compare_and_swap
  <1>2. Current = before[w] /\ Later(before[w], journal[w])
    BY Zenon, <1>1 DEF SessionInv, VersionInv, VersionOK, PersistInv, PersistOK, Persisting, Base
  <1>3. Current' = journal[w]
    BY <1>1 DEF SessionInv, TypeInv, Current
  <1> QED BY Zenon, <1>1, <1>2, <1>3

(* A later stored version falsifies nothing that was said of the world. *)
LEMMA WorldFollows ==
    ASSUME SessionInv, TypeInv', Later(Current, Current'),
           Truthful(provider', Current'), UNCHANGED <<provider, calls>>, ToldFromStore
    PROVE  WorldOK'
  <1>1. /\ Current \in Journals /\ Current' \in Journals
        /\ \A k \in Keys, s \in Slots :
              /\ Stored(k, s) = Current[k][s].state
              /\ Stored(k, s)' = Current'[k][s].state
    BY EmptyIsFirst DEF SessionInv, TypeInv, Current, Stored
  <1>2. \A k \in Keys, s \in Slots :
           /\ Stored(k, s) # "Absent" => Stored(k, s)' # "Absent"
           /\ Stored(k, s) \in Terminal => Stored(k, s)' = Stored(k, s)
           /\ Stored(k, s) = "Running" => Stored(k, s)' # "Pending"
           /\ Stored(k, s)' \in States
    BY <1>1 DEF Later, Follows, Journals, Record
  <1>3. EffectAtMostOnce'
    BY Zenon DEF SessionInv, WorldOK, EffectAtMostOnce
  <1>4. IntentBeforeEffect'
    BY Zenon, <1>2 DEF SessionInv, WorldOK, IntentBeforeEffect
  <1>5. ResponsesAreDurable'
    <2> SUFFICES ASSUME NEW k \in Keys, NEW s \in Slots,
                        NEW status \in reported'[k][s]
                 PROVE  \/ Stored(k, s)' = status
                        \/ status = "Running" /\ Stored(k, s)' \in Terminal
      BY Zenon DEF ResponsesAreDurable
    <2>1. CASE status \in reported[k][s]
      <3>1. /\ \/ Stored(k, s) = status
               \/ status = "Running" /\ Stored(k, s) \in Terminal
            /\ status \in States \ {"Absent", "Pending"}
        BY <2>1 DEF SessionInv, TypeInv, Reports, WorldOK, ResponsesAreDurable
      <3> QED BY Zenon, <3>1, <1>2 DEF States, Terminal
    <2> QED BY Zenon, <2>1, <1>1 DEF ToldFromStore
  <1>6. JournalIsTruthful'
    <2>1. \A k \in Keys : calls'[k]["compensation"] > 0 =>
             provider'[k]["operation"] = "done" /\ Stored(k, "operation")' = "Succeeded"
      BY Zenon, <1>2 DEF SessionInv, WorldOK, JournalIsTruthful, Terminal, Slots
    <2> QED BY <2>1, <1>1 DEF JournalIsTruthful, Truthful
  <1> QED BY Zenon, <1>3, <1>4, <1>5, <1>6 DEF WorldOK

(* A report adds one status to what was reported of an effect. *)
LEMMA ReportAdds ==
    ASSUME TypeInv, NEW k \in Keys, NEW s \in Slots,
           NEW status \in States \ {"Absent", "Pending"}, Report(k, s, status)
    PROVE  /\ reported' \in Reports
           /\ \A l \in Keys, t \in Slots : \A told \in reported'[l][t] :
                 told \in reported[l][t] \/ (l = k /\ t = s /\ told = status)
  <1> DEFINE T == SUBSET (States \ {"Absent", "Pending"})
             n == [reported[k] EXCEPT ![s] = @ \cup {status}]
  <1>1. reported \in [Keys -> [Slots -> T]]
    BY Zenon DEF TypeInv, Reports
  <1>2. reported[k][s] \cup {status} \in T
    BY Zenon, <1>1
  <1> HIDE DEF T
  <1>3. /\ n \in [Slots -> T]
        /\ n[s] = reported[k][s] \cup {status}
        /\ \A t \in Slots : t # s => n[t] = reported[k][t]
    BY Zenon, <1>1, <1>2
  <1>4. reported' = [reported EXCEPT ![k] = n]
    BY Zenon, <1>1 DEF Report
  <1> HIDE DEF n
  <1>5. /\ reported' \in [Keys -> [Slots -> T]]
        /\ reported'[k] = n
        /\ \A l \in Keys : l # k => reported'[l] = reported[l]
    BY Zenon, <1>1, <1>3, <1>4
  <1>6. \A l \in Keys, t \in Slots : \A told \in reported'[l][t] :
           told \in reported[l][t] \/ (l = k /\ t = s /\ told = status)
    BY Zenon, <1>3, <1>5
  <1> QED BY Zenon, <1>5, <1>6 DEF T, Reports

(* If the store says what is reported, or says by now how it ended, then what
   was told is from the store. *)
LEMMA ReportIsStored ==
    ASSUME TypeInv, NEW k \in Keys, NEW s \in Slots,
           NEW status \in States \ {"Absent", "Pending"}, Report(k, s, status),
           \/ Current'[k][s].state = status
           \/ status = "Running" /\ Current'[k][s].state \in Terminal
    PROVE  reported' \in Reports /\ ToldFromStore
  <1>1. /\ reported' \in Reports
        /\ \A l \in Keys, t \in Slots : \A told \in reported'[l][t] :
              told \in reported[l][t] \/ (l = k /\ t = s /\ told = status)
    BY Zenon, ReportAdds
  <1> QED BY Zenon, <1>1 DEF ToldFromStore

(* The requests of the other workers are as good as before, whatever one worker
   does that does not enter a call of theirs. *)
LEMMA OthersKeep ==
    ASSUME SessionInv, NEW w \in Workers,
           Current' \in Journals, Later(Current, Current'), OthersStill(w),
           CallsOwn(w), PersistOK(w)', EntersAlone(w)
    PROVE  PersistInv' /\ CallInv'
  <1>1. ASSUME NEW v \in Workers, v # w PROVE PersistOK(v)'
    <2>1. PersistOK(v)
      BY Zenon DEF SessionInv, PersistInv
    <2>2. /\ pc'[v] = pc[v] /\ journal'[v] = journal[v]
          /\ before'[v] = before[v] /\ request'[v] = request[v]
      BY Zenon, <1>1 DEF OthersStill
    <2> QED BY Zenon, <2>1, <2>2 DEF PersistOK, Persisting, Observing, Key, Slot
  <1>2. ASSUME NEW v \in Workers, v # w, pc'[v] = "call"
        PROVE  /\ pc[v] = "call"
               /\ Key(v)' = Key(v) /\ Slot(v)' = Slot(v)
               /\ Key(v) \in Keys /\ Slot(v) \in Slots
    <2>1. pc[v] = "call" /\ request'[v] = request[v]
      BY Zenon, <1>2 DEF OthersStill
    <2>2. request[v] \in Requests
      BY Zenon, <2>1 DEF SessionInv, TypeInv
    <2> QED BY Zenon, <2>1, <2>2 DEF Requests, Key, Slot
  <1>3. ASSUME NEW v \in Workers, v # w, pc'[v] = "call" PROVE CallOK(v)'
    <2>1. CallOK(v) /\ Current \in Journals
      BY Zenon, CurrentStored DEF SessionInv, CallInv
    <2>2. calls'[Key(v)][Slot(v)] = calls[Key(v)][Slot(v)]
      BY <1>2, <1>3 DEF SessionInv, CallInv, CallsOwn
    <2>3. /\ Current'[Key(v)][Slot(v)].state # "Absent"
          /\ Slot(v) = "compensation" => Current'[Key(v)]["operation"].state = "Succeeded"
      BY Zenon, <1>2, <1>3, <2>1 DEF CallOK, Later, Follows, Terminal, Slots
    <2> QED BY Zenon, <1>2, <1>3, <2>1, <2>2, <2>3 DEF CallOK
  <1>4. ASSUME NEW v \in Workers PROVE CallOK(v)'
    BY Zenon, <1>3 DEF CallOK, EntersAlone
  <1>5. ASSUME NEW u \in Workers, NEW v \in Workers, u # v,
               pc'[u] = "call", pc'[v] = "call",
               Key(u)' = Key(v)', Slot(u)' = Slot(v)'
        PROVE  FALSE
    <2>1. CASE u # w /\ v # w
      BY Zenon, <2>1, <1>2, <1>5 DEF SessionInv, CallInv
    <2>2. CASE u = w
      BY Zenon, <2>2, <1>2, <1>5 DEF EntersAlone
    <2>3. CASE v = w
      BY Zenon, <2>3, <1>2, <1>5 DEF EntersAlone
    <2> QED BY Zenon, <2>1, <2>2, <2>3
  <1>6. CallInv'
    BY Zenon, <1>4, <1>5 DEF CallInv
  <1>7. PersistInv'
    BY Zenon, <1>1 DEF PersistInv
  <1> QED BY Zenon, <1>6, <1>7

(* The copies of the other workers stay versions of the journal, also if one
   worker stores the next version. *)
LEMMA OthersLag ==
    ASSUME SessionInv, NEW w \in Workers, StoreMoves, OthersStill(w), OthersHold(w),
           VersionOK(w)'
    PROVE  VersionInv'
  <1> SUFFICES ASSUME NEW v \in Workers, v # w PROVE VersionOK(v)'
    BY Zenon DEF VersionInv
  <1>0. /\ pc'[v] = pc[v] /\ journal'[v] = journal[v] /\ before'[v] = before[v]
        /\ revision'[v] = revision[v] /\ lease'[v] = lease[v]
    BY Zenon DEF OthersStill, OthersHold
  <1>1. VersionOK(v) /\ Current \in Journals
    BY Zenon, CurrentStored DEF SessionInv, VersionInv
  <1>2. Base(v)' = Base(v) /\ Base(v) \in Journals
    BY Zenon, <1>0 DEF SessionInv, TypeInv, Base, Persisting
  <1>3. Later(Base(v), Current')
    BY Zenon, <1>1, <1>2, LaterTransitive DEF VersionOK, StoreMoves
  <1>4. revision[v] \in Nat /\ floor \in Nat /\ fence \in Nat /\ lease[v] \in Nat
    BY Zenon DEF SessionInv, TypeInv
  <1>5. /\ revision'[v] <= floor'
        /\ revision'[v] = floor' => Base(v)' = Current'
        /\ ~external' => lease'[v] <= fence'
    BY <1>0, <1>1, <1>2, <1>4 DEF VersionOK, StoreMoves
  <1> QED BY Zenon, <1>2, <1>3, <1>5 DEF VersionOK

(* Nothing is called by a step that leaves the calls alone, and nothing entered
   by one that does not end at a call. *)
LEMMA NoCall ==
    ASSUME NEW w \in Workers
    PROVE  /\ UNCHANGED calls => CallsOwn(w)
           /\ pc'[w] # "call" => EntersAlone(w)
  BY Zenon DEF CallsOwn, EntersAlone

-----------------------------------------------------------------------------
(* One lemma per action *)

(* Nothing is stored, asked for or reported at first. *)
LEMMA SessionInit == Init => SessionInv
  <1> SUFFICES ASSUME Init PROVE SessionInv
    BY Zenon
  <1>1. TypeInv
    BY EmptyIsFirst DEF Init, Store!Init, TypeInv, Effects, Reports
  <1>2. Current = EmptyJournal
    BY Zenon DEF Init, Store!Init, Current
  <1>3. VersionInv
    BY <1>2, EmptyIsFirst DEF Init, Store!Init, VersionInv, VersionOK, Base, Persisting
  <1>4. PersistInv /\ CallInv
    BY Zenon DEF Init, PersistInv, PersistOK, CallInv, CallOK, Persisting
  <1>5. TruthInv
    BY Zenon, <1>2, EmptyIsFirst DEF Init, TruthInv
  <1>6. \A k \in Keys, s \in Slots : Stored(k, s) = "Absent"
    BY Zenon DEF Init, Store!Init, Stored
  <1>7. WorldOK
    BY <1>6 DEF Init, WorldOK, EffectAtMostOnce, IntentBeforeEffect, ResponsesAreDurable,
                JournalIsTruthful, Terminal, Slots
  <1> QED BY Zenon, <1>1, <1>3, <1>4, <1>5, <1>7 DEF SessionInv

(* A session starts from the current version. *)
LEMMA LoadKeeps ==
    ASSUME SessionInv, NEW w \in Workers, load(w)
    PROVE  SessionInv'
  <1>0. /\ UNCHANGED <<durable, floor, fence, external, issued, pc, lease, before,
                       request, provider, calls, reported>>
        /\ journal' = [journal EXCEPT ![w] = Current]
        /\ revision' = [revision EXCEPT ![w] = floor]
        /\ mode' = [mode EXCEPT ![w] = "loaded"]
        /\ mode[w] = "closed"
    BY Zenon DEF load, storeVars, authority, worldVars, Current
  <1>1. Current \in Journals /\ pc[w] = "idle" /\ fence \in Nat
    BY Zenon, <1>0, CurrentStored DEF SessionInv, TypeInv
  <1>2. TypeInv'
    BY Zenon, <1>0, <1>1 DEF SessionInv, TypeInv
  <1>3. Current' = Current /\ Truthful(provider', Current') /\ WorldOK'
    BY Zenon, <1>0, WorldStill
  <1>4. StoreMoves /\ OthersStill(w) /\ OthersHold(w)
    <2>1. StoreMoves
      BY <1>0, <1>1, <1>3, LaterReflexive DEF StoreMoves
    <2> QED BY Zenon, <1>0, <2>1 DEF OthersStill, OthersHold, SessionInv, TypeInv
  <1>5. VersionInv'
    <2>1. /\ Base(w)' = Current /\ revision'[w] = floor
          /\ ~external => lease[w] <= fence
      BY Zenon, <1>0, <1>1 DEF SessionInv, TypeInv, VersionInv, VersionOK, Base, Persisting
    <2>2. VersionOK(w)'
      BY <1>0, <1>1, <1>3, <2>1, LaterReflexive DEF VersionOK, SessionInv, TypeInv
    <2> QED BY Zenon, <1>4, <2>2, OthersLag
  <1>6. PersistInv' /\ CallInv'
    <2>1. PersistOK(w)' /\ pc'[w] # "call"
      BY Zenon, <1>0, <1>1 DEF PersistOK, Persisting
    <2> QED BY Zenon, <1>0, <1>4, <2>1, NoCall, OthersKeep DEF StoreMoves
  <1>7. TruthInv'
    BY Zenon, <1>0, <1>3 DEF SessionInv, TypeInv, TruthInv
  <1> QED BY Zenon, <1>2, <1>3, <1>5, <1>6, <1>7 DEF SessionInv

(* A lease the store issues is current, one from elsewhere is only a number. *)
LEMMA OpenKeeps ==
    ASSUME SessionInv, NEW w \in Workers, open(w)
    PROVE  SessionInv'
  <1>0. /\ UNCHANGED <<durable, floor, external, pc, journal, revision, before,
                       request, provider, calls, reported>>
        /\ mode' = [mode EXCEPT ![w] = "open"]
        /\ \E t \in Nat : /\ lease' = [lease EXCEPT ![w] = t]
                          /\ ~external => t = fence'
        /\ fence' \in Nat /\ fence <= fence'
        /\ issued' \in Nat
    BY DEF open, Admit, Store!reserve_fence, storeVars, authority, worldVars,
           SessionInv, TypeInv
  <1>1. Current \in Journals /\ mode[w] = "loaded" /\ pc[w] = "idle"
    BY Zenon, CurrentStored DEF open, SessionInv, TypeInv
  <1>2. TypeInv'
    BY <1>0 DEF SessionInv, TypeInv
  <1>3. Current' = Current /\ Truthful(provider', Current') /\ WorldOK'
    BY Zenon, <1>0, WorldStill
  <1>4. StoreMoves /\ OthersStill(w) /\ OthersHold(w)
    <2>1. StoreMoves
      BY Zenon, <1>0, <1>1, <1>3, LaterReflexive DEF StoreMoves
    <2> QED BY Zenon, <1>0, <2>1 DEF OthersStill, OthersHold, SessionInv, TypeInv
  <1>5. VersionInv'
    <2>1. VersionOK(w) /\ Base(w)' = Base(w)
      BY Zenon, <1>0 DEF SessionInv, VersionInv, Base, Persisting
    <2>2. ~external' => lease'[w] <= fence'
      BY <1>0 DEF SessionInv, TypeInv
    <2>3. VersionOK(w)'
      BY Zenon, <1>0, <1>3, <2>1, <2>2 DEF VersionOK
    <2> QED BY <1>4, <2>3, OthersLag
  <1>6. PersistInv' /\ CallInv'
    <2>1. PersistOK(w)' /\ pc'[w] # "call"
      BY Zenon, <1>0, <1>1 DEF PersistOK, Persisting
    <2> QED BY Zenon, <1>0, <1>4, <2>1, NoCall, OthersKeep DEF StoreMoves
  <1>7. TruthInv'
    BY Zenon, <1>0, <1>3 DEF SessionInv, TruthInv
  <1> QED BY <1>2, <1>3, <1>5, <1>6, <1>7 DEF SessionInv

(* A dead session holds the empty journal, the first version of any. *)
LEMMA CrashKeeps ==
    ASSUME SessionInv, NEW w \in Workers, Crash(w)
    PROVE  SessionInv'
  <1>0. /\ UNCHANGED <<durable, floor, fence, external, issued, provider, calls, reported>>
        /\ mode' = [mode EXCEPT ![w] = "closed"]
        /\ pc' = [pc EXCEPT ![w] = "idle"]
        /\ journal' = [journal EXCEPT ![w] = EmptyJournal]
        /\ revision' = [revision EXCEPT ![w] = 0]
        /\ lease' = [lease EXCEPT ![w] = 0]
        /\ before' = [before EXCEPT ![w] = EmptyJournal]
        /\ request' = [request EXCEPT ![w] = NoRequest]
    BY Zenon DEF Crash, storeVars, authority, worldVars
  <1>1. Current \in Journals /\ floor \in Nat /\ fence \in Nat
    BY Zenon, CurrentStored DEF SessionInv, TypeInv
  <1>2. TypeInv'
    BY Zenon, <1>0, EmptyIsFirst DEF SessionInv, TypeInv
  <1>3. Current' = Current /\ Truthful(provider', Current') /\ WorldOK'
    BY Zenon, <1>0, WorldStill
  <1>4. StoreMoves /\ OthersStill(w) /\ OthersHold(w)
    <2>1. StoreMoves
      BY <1>0, <1>1, <1>3, LaterReflexive DEF StoreMoves
    <2> QED BY Zenon, <1>0, <2>1 DEF OthersStill, OthersHold, SessionInv, TypeInv
  <1>5. VersionInv'
    <2>1. Base(w)' = EmptyJournal /\ revision'[w] = 0 /\ lease'[w] = 0
      BY Zenon, <1>0 DEF SessionInv, TypeInv, Base, Persisting
    <2>2. floor = 0 => Current = EmptyJournal
      BY Zenon DEF Current
    <2>3. VersionOK(w)'
      BY <1>0, <1>1, <1>3, <2>1, <2>2, EmptyIsFirst DEF VersionOK
    <2> QED BY <1>4, <2>3, OthersLag
  <1>6. PersistInv' /\ CallInv'
    <2>1. PersistOK(w)' /\ pc'[w] # "call"
      BY Zenon, <1>0 DEF SessionInv, TypeInv, PersistOK, Persisting
    <2> QED BY Zenon, <1>0, <1>4, <2>1, NoCall, OthersKeep DEF StoreMoves
  <1>7. TruthInv'
    BY Zenon, <1>0, <1>3, EmptyIsFirst DEF SessionInv, TypeInv, TruthInv
  <1> QED BY <1>2, <1>3, <1>5, <1>6, <1>7 DEF SessionInv

(* A poisoned session is back at the version it started from, whether or not
   its write took effect. *)
LEMMA PoisonKeeps ==
    ASSUME SessionInv, NEW w \in Workers, Persisting(w), Poison(w),
           UNCHANGED <<authority, worldVars>>,
           \/ UNCHANGED <<durable, floor, fence>>
           \/ pc[w] = "write" /\ Commit(w)
    PROVE  SessionInv'
  <1>0. /\ UNCHANGED <<external, issued, provider, calls, reported, revision, lease, before>>
        /\ mode' = [mode EXCEPT ![w] = "poisoned"]
        /\ pc' = [pc EXCEPT ![w] = "idle"]
        /\ journal' = [journal EXCEPT ![w] = before[w]]
        /\ request' = [request EXCEPT ![w] = NoRequest]
    BY Zenon DEF Poison, EndRequest, authority, worldVars
  <1>1. /\ Current \in Journals
        /\ journal[w] \in Journals /\ before[w] \in Journals
        /\ floor \in Nat /\ fence \in Nat /\ revision[w] \in Nat
    BY Zenon, CurrentStored DEF SessionInv, TypeInv
  <1>2. Base(w) = before[w] /\ Base(w)' = before[w] /\ VersionOK(w)
    BY Zenon, <1>0 DEF SessionInv, TypeInv, VersionInv, Base, Persisting
  <1>3. /\ StoreMoves
        /\ fence' = fence /\ floor' \in Nat
        /\ Truthful(provider', Current')
        /\ floor' > 0 => durable' \in Journals
        /\ VersionOK(w)'
    <2>1. CASE UNCHANGED <<durable, floor, fence>>
      <3>1. Current' = Current
        BY Zenon, <2>1 DEF Current
      <3>2. VersionOK(w)'
        BY Zenon, <2>1, <3>1, <1>0, <1>2 DEF VersionOK
      <3>3. Truthful(provider', Current')
        BY Zenon, <3>1, <1>0 DEF SessionInv, TruthInv
      <3>4. floor' > 0 => durable' \in Journals
        BY Zenon, <2>1 DEF SessionInv, TypeInv
      <3>5. StoreMoves
        BY SMTT(30), <2>1, <3>1, <1>0, <1>1, LaterReflexive DEF StoreMoves
      <3> QED BY Zenon, <2>1, <3>2, <3>3, <3>4, <3>5, <1>1
    <2>2. CASE pc[w] = "write" /\ Commit(w)
      <3>1. /\ Current = before[w] /\ Current' = journal[w]
            /\ Later(Current, Current') /\ floor' = floor + 1
            /\ fence' = fence /\ durable' = journal[w]
        BY Zenon, <2>2, CommitMoves
      <3>2. VersionOK(w)'
        BY <3>1, <1>0, <1>1, <1>2 DEF VersionOK
      <3>3. Truthful(provider', Current')
        BY Zenon, <3>1, <1>0 DEF SessionInv, TruthInv
      <3>4. StoreMoves
        <4>1. Current' \in Journals /\ UNCHANGED external /\ fence' \in Nat /\ fence <= fence'
          BY <3>1, <1>0, <1>1
        <4> QED BY Zenon, <3>1, <4>1 DEF StoreMoves
      <3> QED BY <3>1, <3>2, <3>3, <3>4, <1>1
    <2> QED BY Zenon, <2>1, <2>2
  <1>4. OthersStill(w) /\ OthersHold(w)
    BY Zenon, <1>0 DEF OthersStill, OthersHold, SessionInv, TypeInv
  <1>5. TypeInv'
    BY Zenon, <1>0, <1>1, <1>3 DEF SessionInv, TypeInv
  <1>6. VersionInv'
    BY Zenon, <1>3, <1>4, OthersLag
  <1>7. PersistInv' /\ CallInv'
    <2>1. PersistOK(w)' /\ pc'[w] # "call"
      BY Zenon, <1>0 DEF SessionInv, TypeInv, PersistOK, Persisting
    <2> QED BY Zenon, <1>0, <1>3, <1>4, <2>1, NoCall, OthersKeep DEF StoreMoves
  <1>8. TruthInv'
    BY Zenon, <1>0, <1>3 DEF SessionInv, TypeInv, TruthInv
  <1>9. WorldOK'
    <2>1. ToldFromStore
      BY Zenon, <1>0 DEF ToldFromStore
    <2> QED BY Zenon, <1>0, <1>3, <1>5, <2>1, WorldFollows DEF StoreMoves
  <1> QED BY Zenon, <1>5, <1>6, <1>7, <1>8, <1>9 DEF SessionInv

(* Establishing a lease moves the fence only. *)
LEMMA EstablishKeeps ==
    ASSUME SessionInv, NEW w \in Workers, EstablishFence(w)
    PROVE  SessionInv'
  <1>1. CASE Poison(w) /\ UNCHANGED storeVars
    BY Zenon, <1>1, PoisonKeeps DEF EstablishFence, Persisting, storeVars
  <1>2. CASE ~(Poison(w) /\ UNCHANGED storeVars)
    <2>0. /\ UNCHANGED <<durable, floor, external, issued, mode, journal, revision,
                         lease, before, request, provider, calls, reported>>
          /\ pc[w] = "establish"
          /\ pc' = [pc EXCEPT ![w] = "write"]
          /\ fence' \in Nat /\ fence <= fence'
      BY <1>2 DEF EstablishFence, Store!establish_fence, storeVars, authority, worldVars,
                  SessionInv, TypeInv
    <2>1. /\ Current \in Journals /\ pc'[w] = "write"
          /\ lease[w] \in Nat /\ fence \in Nat
      BY Zenon, <2>0, CurrentStored DEF SessionInv, TypeInv
    <2>2. TypeInv'
      BY Zenon, <2>0 DEF SessionInv, TypeInv
    <2>3. Current' = Current /\ Truthful(provider', Current') /\ WorldOK'
      BY Zenon, <2>0, WorldStill
    <2>4. StoreMoves /\ OthersStill(w) /\ OthersHold(w)
      <3>1. StoreMoves
        BY Zenon, <2>0, <2>1, <2>3, LaterReflexive DEF StoreMoves
      <3> QED BY Zenon, <2>0, <3>1 DEF OthersStill, OthersHold, SessionInv, TypeInv
    <2>5. VersionInv'
      <3>1. VersionOK(w) /\ Base(w)' = Base(w)
        BY Zenon, <2>0, <2>1 DEF SessionInv, VersionInv, Base, Persisting
      <3>2. VersionOK(w)'
        BY <2>0, <2>1, <2>3, <3>1 DEF VersionOK
      <3> QED BY <2>4, <3>2, OthersLag
    <2>6. PersistInv' /\ CallInv'
      <3>1. PersistOK(w) /\ Persisting(w)
        BY Zenon, <2>0 DEF SessionInv, PersistInv, Persisting
      <3>2. PersistOK(w)'
        BY Zenon, <2>0, <3>1 DEF PersistOK, Observing, Key, Slot
      <3>3. pc'[w] # "call"
        BY Zenon, <2>1
      <3> QED BY Zenon, <2>0, <2>4, <3>2, <3>3, NoCall, OthersKeep DEF StoreMoves
    <2>7. TruthInv'
      BY Zenon, <2>0, <2>3 DEF SessionInv, TruthInv
    <2> QED BY <2>2, <2>3, <2>5, <2>6, <2>7 DEF SessionInv
  <1> QED BY Zenon, <1>1, <1>2

(* A refused or failed write poisons the session. *)
LEMMA RefusedKeeps ==
    ASSUME SessionInv, NEW w \in Workers, PersistRefused(w) \/ PersistFailed(w)
    PROVE  SessionInv'
  <1>1. CASE PersistRefused(w)
    BY Zenon, <1>1, PoisonKeeps DEF PersistRefused, Persisting, storeVars
  <1>2. CASE PersistFailed(w)
    BY Zenon, <1>2, PoisonKeeps DEF PersistFailed, Persisting, storeVars
  <1> QED BY Zenon, <1>1, <1>2

(* An accepted intent entitles its worker to the one call; an accepted
   observation is reported. *)
LEMMA AcceptedKeeps ==
    ASSUME SessionInv, NEW w \in Workers, PersistAccepted(w)
    PROVE  SessionInv'
  <1>0. /\ pc[w] = "write" /\ Commit(w) /\ Persisting(w)
        /\ UNCHANGED <<external, issued, mode, journal, lease, before, provider, calls>>
        /\ revision' = [revision EXCEPT ![w] = floor']
    BY Zenon DEF PersistAccepted, authority, Persisting
  <1>1. /\ Current = before[w] /\ Current' = journal[w]
        /\ Later(Current, Current') /\ floor' = floor + 1
        /\ fence' = fence /\ durable' = journal[w]
    BY Zenon, <1>0, CommitMoves
  <1>2. /\ floor \in Nat /\ fence \in Nat /\ Current' \in Journals
        /\ request[w] \in Requests /\ Key(w) \in Keys /\ Slot(w) \in Slots
    BY Zenon, <1>0, <1>1 DEF SessionInv, TypeInv, Requests, Key, Slot
  <1>3. PersistOK(w) /\ VersionOK(w)
    BY Zenon DEF SessionInv, PersistInv, VersionInv
  <1>4. \/ /\ ~Observing(w)
           /\ pc' = [pc EXCEPT ![w] = "call"]
           /\ UNCHANGED <<request, reported>>
        \/ /\ Observing(w)
           /\ pc' = [pc EXCEPT ![w] = "idle"]
           /\ request' = [request EXCEPT ![w] = NoRequest]
           /\ Report(Key(w), Slot(w), request[w].after)
    BY Zenon DEF PersistAccepted, EndRequest
  <1>5. /\ pc' \in [Workers -> {"idle", "establish", "write", "call"}]
        /\ pc'[w] \in {"idle", "call"}
        /\ OthersStill(w) /\ OthersHold(w)
    <2>1. /\ pc'[w] \in {"idle", "call"}
          /\ pc' \in [Workers -> {"idle", "establish", "write", "call"}]
          /\ \A v \in Workers \ {w} : pc'[v] = pc[v] /\ request'[v] = request[v]
      BY ZenonT(60), <1>4 DEF SessionInv, TypeInv
    <2>2. \A v \in Workers \ {w} : revision'[v] = revision[v]
      BY Zenon, <1>0 DEF SessionInv, TypeInv
    <2> QED BY Zenon, <1>0, <2>1, <2>2 DEF OthersStill, OthersHold
  <1>6. StoreMoves
    BY <1>0, <1>1, <1>2 DEF StoreMoves
  <1>7. VersionInv'
    <2>1. Base(w)' = journal[w]
      BY Zenon, <1>0, <1>5 DEF Base, Persisting
    <2>2. revision'[w] = floor'
      BY Zenon, <1>0 DEF SessionInv, TypeInv
    <2>3. ~external' => lease'[w] <= fence'
      BY Zenon, <1>0, <1>1, <1>3 DEF VersionOK
    <2>4. Later(Base(w)', Current') /\ Base(w)' = Current'
      BY Zenon, <1>1, <1>2, <2>1, LaterReflexive
    <2>5. VersionOK(w)'
      BY <1>1, <1>2, <2>2, <2>3, <2>4 DEF VersionOK
    <2> QED BY Zenon, <1>5, <1>6, <2>5, OthersLag
  <1>8. PersistInv' /\ CallInv'
    <2>1. PersistOK(w)'
      BY Zenon, <1>5 DEF PersistOK, Persisting
    <2>2. ASSUME pc'[w] = "call"
          PROVE  /\ CallOK(w)'
                 /\ \A v \in Workers \ {w} :
                       pc[v] = "call" => ~(Key(v) = Key(w)' /\ Slot(v) = Slot(w)')
      <3>1. ~Observing(w) /\ UNCHANGED request
        BY Zenon, <1>4, <2>2 DEF SessionInv, TypeInv
      <3>2. Key(w)' = Key(w) /\ Slot(w)' = Slot(w)
        BY Zenon, <3>1 DEF Key, Slot
      <3>3. /\ Current[Key(w)][Slot(w)].state = "Absent"
            /\ Current'[Key(w)][Slot(w)].state = "Pending"
            /\ Slot(w) = "compensation" => Current[Key(w)]["operation"].state = "Succeeded"
        BY Zenon, <1>0, <1>1, <1>3, <3>1 DEF PersistOK
      <3>4. Slot(w) = "compensation" => Current'[Key(w)]["operation"].state = "Succeeded"
        BY Zenon, <1>1, <1>2, <3>3 DEF Later, Follows, Terminal, Slots
      <3>5. calls[Key(w)][Slot(w)] = 0
        <4>1. Stored(Key(w), Slot(w)) = "Absent"
          BY Zenon, <1>2, <3>3, CurrentStored DEF SessionInv
        <4>2. calls[Key(w)][Slot(w)] \in Nat /\ ~(calls[Key(w)][Slot(w)] > 0)
          BY <4>1, <1>2 DEF SessionInv, WorldOK, IntentBeforeEffect, TypeInv
        <4> QED BY <4>2
      <3>6. CallOK(w)'
        BY Zenon, <1>0, <3>2, <3>3, <3>4, <3>5 DEF CallOK
      <3>7. \A v \in Workers : pc[v] = "call" => Current[Key(v)][Slot(v)].state # "Absent"
        BY Zenon DEF SessionInv, CallInv, CallOK
      <3> QED BY Zenon, <3>2, <3>3, <3>6, <3>7
    <2>3. EntersAlone(w)
      BY Zenon, <2>2 DEF EntersAlone
    <2> QED BY Zenon, <1>0, <1>5, <1>6, <2>1, <2>3, NoCall, OthersKeep DEF StoreMoves
  <1>9. reported' \in Reports /\ ToldFromStore
    <2>1. CASE ~Observing(w)
      BY Zenon, <2>1, <1>4 DEF ToldFromStore, SessionInv, TypeInv
    <2>2. CASE Observing(w)
      <3>1. /\ request[w].after \in States \ {"Absent", "Pending"}
            /\ Current'[Key(w)][Slot(w)].state = request[w].after
            /\ Report(Key(w), Slot(w), request[w].after)
        BY Zenon, <2>2, <1>0, <1>1, <1>2, <1>3, <1>4 DEF PersistOK, Observing, Requests
      <3>2. TypeInv
        BY Zenon DEF SessionInv
      <3> QED BY Zenon, <1>2, <3>1, <3>2, ReportIsStored
    <2> QED BY Zenon, <2>1, <2>2
  <1>10. TypeInv'
    <2>1. /\ DOMAIN request' = Workers
          /\ \A v \in Workers : pc'[v] # "idle" => mode'[v] = "open" /\ request'[v] \in Requests
      BY Zenon, <1>0, <1>2, <1>4 DEF SessionInv, TypeInv
    <2>2. /\ revision' \in [Workers -> Nat]
          /\ floor' \in Nat /\ fence' \in Nat
          /\ durable' \in Journals
      BY <1>0, <1>1, <1>2 DEF SessionInv, TypeInv
    <2> QED BY Zenon, <1>0, <1>5, <1>9, <2>1, <2>2 DEF SessionInv, TypeInv
  <1>11. Truthful(provider', Current') /\ TruthInv'
    BY Zenon, <1>0, <1>1 DEF SessionInv, TruthInv
  <1>12. WorldOK'
    BY Zenon, <1>0, <1>1, <1>9, <1>10, <1>11, WorldFollows
  <1> QED BY Zenon, <1>7, <1>8, <1>10, <1>11, <1>12 DEF SessionInv
-----------------------------------------------------------------------------
(* Requests and effects *)

(* A journal that is truthful stays so when effects move. *)
LEMMA TruthMoves ==
    ASSUME NEW p, NEW q, Moves(p, q), NEW j, Truthful(p, j)
    PROVE  Truthful(q, j)
  BY DEF Moves, Truthful

(* A provider updated at one effect *)
LEMMA ProviderWritten ==
    ASSUME TypeInv, NEW k \in Keys, NEW s \in Slots, NEW e \in Effects,
           provider' = [provider EXCEPT ![k][s] = e]
    PROVE  Written(k, s, e)
  <1> DEFINE n == [provider[k] EXCEPT ![s] = e]
  <1>1. provider \in [Keys -> [Slots -> Effects]]
    BY Zenon DEF TypeInv
  <1>2. /\ n \in [Slots -> Effects] /\ n[s] = e
        /\ \A t \in Slots : t # s => n[t] = provider[k][t]
    BY Zenon, <1>1
  <1>3. provider' = [provider EXCEPT ![k] = n]
    BY Zenon, <1>1
  <1> HIDE DEF n
  <1>4. /\ provider' \in [Keys -> [Slots -> Effects]]
        /\ provider'[k] = n
        /\ \A l \in Keys : l # k => provider'[l] = provider[l]
    BY ZenonT(60), <1>1, <1>2, <1>3
  <1>5. /\ provider'[k][s] = e
        /\ \A l \in Keys, t \in Slots :
              <<l, t>> # <<k, s>> => provider'[l][t] = provider[l][t]
    BY Zenon, <1>2, <1>4
  <1> QED BY Zenon, <1>4, <1>5 DEF Written

(* An update that does not undo a settled effect moves the provider. *)
LEMMA ProviderMoves ==
    ASSUME NEW k \in Keys, NEW s \in Slots, NEW e \in Effects, Written(k, s, e),
           \/ e = provider[k][s]
           \/ provider[k][s] \in {"none", "running"} /\ e # "none"
    PROVE  Moves(provider, provider')
  <1> SUFFICES ASSUME NEW l \in Keys, NEW t \in Slots
               PROVE  /\ provider'[l][t] # provider[l][t] =>
                            provider[l][t] \in {"none", "running"}
                      /\ provider[l][t] # "none" => provider'[l][t] # "none"
    BY Zenon DEF Moves
  <1>1. CASE <<l, t>> = <<k, s>>
    BY Zenon, <1>1 DEF Written
  <1>2. CASE <<l, t>> # <<k, s>>
    BY Zenon, <1>2 DEF Written
  <1> QED BY Zenon, <1>1, <1>2

(* What was said of effects stays true while those that change have a record. *)
LEMMA WorldMoves ==
    ASSUME SessionInv, UNCHANGED <<durable, floor, reported>>, Moves(provider, provider'),
           EffectsRecorded
    PROVE  WorldOK'
  <1>1. \A k \in Keys, s \in Slots :
           Stored(k, s)' = Stored(k, s) /\ Stored(k, s) = Current[k][s].state
    BY Zenon, CurrentStored DEF SessionInv, Stored
  <1>2. EffectAtMostOnce'
    BY DEF SessionInv, WorldOK, EffectAtMostOnce, EffectsRecorded
  <1>3. IntentBeforeEffect'
    BY <1>1 DEF SessionInv, WorldOK, IntentBeforeEffect, EffectsRecorded
  <1>4. ResponsesAreDurable'
    BY <1>1 DEF SessionInv, WorldOK, ResponsesAreDurable
  <1>5. Truthful(provider', Current)
    BY Zenon, TruthMoves DEF SessionInv, TruthInv
  <1>6. \A k \in Keys : calls'[k]["compensation"] > 0 =>
           provider'[k]["operation"] = "done" /\ Stored(k, "operation")' = "Succeeded"
    <2> SUFFICES ASSUME NEW k \in Keys, calls'[k]["compensation"] > 0
                 PROVE  Current[k]["operation"].state = "Succeeded"
      BY Zenon, <1>1, <1>5 DEF Truthful, Slots
    <2>1. calls[k]["compensation"] > 0 => Stored(k, "operation") = "Succeeded"
      BY Zenon DEF SessionInv, WorldOK, JournalIsTruthful
    <2> QED BY Zenon, <2>1, <1>1 DEF Slots, EffectsRecorded
  <1>7. JournalIsTruthful'
    BY <1>1, <1>5, <1>6 DEF JournalIsTruthful, Truthful
  <1> QED BY Zenon, <1>2, <1>3, <1>4, <1>7 DEF WorldOK

(* A request that ends or begins keeps the invariant of sessions and requests. *)
LEMMA RequestKeeps ==
    ASSUME SessionInv, NEW w \in Workers, pc[w] \in {"idle", "call"},
           UNCHANGED <<durable, floor, fence, external, mode, revision, lease>>,
           EndsOrBegins(w), Moves(provider, provider'), CallsOwn(w)
    PROVE  VersionInv' /\ PersistInv' /\ CallInv' /\ TruthInv' /\ RequestTyped
  <1>1. /\ Current' = Current /\ Current \in Journals /\ fence \in Nat
        /\ Later(Current, Current')
    BY Zenon, CurrentStored, LaterReflexive DEF SessionInv, TypeInv, Current
  <1>2. ~Persisting(w) /\ Base(w) = journal[w] /\ VersionOK(w)
    BY Zenon DEF Persisting, Base, SessionInv, VersionInv
  <1>3. /\ pc' \in [Workers -> {"idle", "establish", "write", "call"}]
        /\ journal' \in [Workers -> Journals]
        /\ before' \in [Workers -> Journals]
        /\ DOMAIN request' = Workers
        /\ pc'[w] \in {"idle", "establish"}
        /\ Base(w)' = journal[w]
        /\ OthersStill(w)
        /\ pc'[w] # "idle" => mode'[w] = "open" /\ request'[w] \in Requests
        /\ PersistOK(w)'
        /\ Truthful(provider', journal'[w]) /\ Truthful(provider', before'[w])
    <2>0. /\ pc \in [Workers -> {"idle", "establish", "write", "call"}]
          /\ journal \in [Workers -> Journals]
          /\ before \in [Workers -> Journals]
          /\ DOMAIN request = Workers
          /\ Truthful(provider', journal[w]) /\ Truthful(provider', before[w])
      BY Zenon, TruthMoves DEF SessionInv, TypeInv, TruthInv
    <2>1. CASE Ends(w)
      <3>1. /\ pc' = [pc EXCEPT ![w] = "idle"] /\ pc'[w] = "idle"
            /\ UNCHANGED <<journal, before>>
            /\ OthersStill(w)
        BY Zenon, <2>0, <2>1 DEF Ends, OthersStill
      <3> QED BY Zenon, <2>0, <2>1, <3>1 DEF Ends, PersistOK, Persisting, Base
    <2>2. CASE \E j \in Journals, r \in Requests : Begins(w, j, r)
      <3>1. PICK j \in Journals, r \in Requests : Begins(w, j, r)
        BY Zenon, <2>2
      <3>2. /\ journal'[w] = j /\ before'[w] = journal[w]
            /\ request'[w] = r /\ pc'[w] = "establish" /\ mode[w] = "open"
            /\ journal' \in [Workers -> Journals]
            /\ before' \in [Workers -> Journals]
            /\ pc' \in [Workers -> {"idle", "establish", "write", "call"}]
            /\ DOMAIN request' = Workers
        BY Zenon, <2>0, <3>1 DEF Begins
      <3>3. OthersStill(w)
        BY Zenon, <2>0, <3>1 DEF Begins, OthersStill
      <3>4. PersistOK(w)'
        BY Zenon, <3>1, <3>2 DEF Begins, PersistOK, Key, Slot, Observing
      <3>5. Truthful(provider', journal'[w]) /\ Truthful(provider', before'[w])
        BY Zenon, <2>0, <3>1, <3>2 DEF Begins
      <3>6. Base(w)' = journal[w]
        BY Zenon, <3>2 DEF Base, Persisting
      <3> QED BY Zenon, <3>1, <3>2, <3>3, <3>4, <3>5, <3>6
    <2> QED BY Zenon, <2>1, <2>2 DEF EndsOrBegins
  <1>4. VersionInv'
    <2>1. VersionOK(w)'
      BY Zenon, <1>1, <1>2, <1>3 DEF VersionOK
    <2>2. StoreMoves
      BY <1>1 DEF StoreMoves
    <2>3. OthersHold(w)
      BY Zenon DEF OthersHold
    <2> QED BY Zenon, <1>3, <2>1, <2>2, <2>3, OthersLag
  <1>5. PersistInv' /\ CallInv'
    BY Zenon, <1>1, <1>3, NoCall, OthersKeep
  <1>6. TruthInv'
    BY Zenon, <1>1, <1>3, TruthMoves DEF SessionInv, TruthInv, OthersStill
  <1>7. RequestTyped
    <2>1. ASSUME NEW v \in Workers, v # w, pc'[v] # "idle"
          PROVE  mode'[v] = "open" /\ request'[v] \in Requests
      BY Zenon, <1>3, <2>1 DEF OthersStill, SessionInv, TypeInv
    <2> QED BY Zenon, <1>3, <2>1 DEF RequestTyped
  <1> QED BY Zenon, <1>4, <1>5, <1>6, <1>7

(* An observed status becomes the next version, or the request ends. *)
LEMMA ObserveBegins ==
    ASSUME SessionInv, NEW w \in Workers, mode[w] = "open",
           NEW k \in Keys, NEW s \in Slots, NEW e \in Effects, NEW status \in Statuses(e),
           provider'[k][s] = e, Moves(provider, provider'), Observe(w, k, s, status)
    PROVE  EndsOrBegins(w)
  <1>1. /\ status \in States \ {"Absent", "Pending"}
        /\ status = "Succeeded" => e = "done"
        /\ status \in {"Failed", "Cancelled"} => e = "refused"
        /\ status # "none"
    BY Zenon DEF Statuses, States, Terminal, Effects
  <1>2. CASE EndRequest(w) /\ UNCHANGED <<journal, before>>
    BY Zenon, <1>2 DEF EndRequest, Ends, EndsOrBegins, SessionInv, TypeInv
  <1>3. CASE ~(EndRequest(w) /\ UNCHANGED <<journal, before>>)
    <2> DEFINE j == WithState(journal[w], k, s, status)
               r == [slot |-> s, key |-> k, after |-> status]
    <2>1. /\ accepts(journal[w][k][s].state, status)
          /\ BeginPersist(w, j)
          /\ request' = [request EXCEPT ![w] = r]
      BY Zenon, <1>3 DEF Observe
    <2>2. journal[w] \in Journals /\ Truthful(provider', journal[w])
      BY Zenon, TruthMoves DEF SessionInv, TypeInv, TruthInv
    <2>3. /\ j \in Journals
          /\ j[k][s].state = status
          /\ \A l \in Keys, t \in Slots : <<l, t>> # <<k, s>> => j[l][t] = journal[w][l][t]
          /\ Later(journal[w], j)
      BY Zenon, <1>1, <2>1, <2>2, ObservationFollows
    <2>4. r \in Requests /\ r.after = status /\ r.key = k /\ r.slot = s
      BY Zenon, <1>1 DEF Requests
    <2> HIDE DEF j, r
    <2>5. Truthful(provider', j)
      <3> SUFFICES ASSUME NEW l \in Keys, NEW t \in Slots
                   PROVE  /\ j[l][t].state = "Succeeded" => provider'[l][t] = "done"
                          /\ j[l][t].state \in {"Failed", "Cancelled"} =>
                                provider'[l][t] = "refused"
        BY Zenon DEF Truthful
      <3>1. CASE <<l, t>> = <<k, s>>
        <4>1. l = k /\ t = s
          BY Zenon, <3>1
        <4> QED BY Zenon, <4>1, <1>1, <2>3
      <3>2. CASE <<l, t>> # <<k, s>>
        <4>1. j[l][t] = journal[w][l][t]
          BY Zenon, <3>2, <2>3
        <4> QED BY Zenon, <4>1, <2>2 DEF Truthful
      <3> QED BY Zenon, <3>1, <3>2
    <2>6. Begins(w, j, r)
      BY Zenon, <1>1, <2>1, <2>3, <2>4, <2>5 DEF Begins, BeginPersist
    <2> QED BY Zenon, <2>3, <2>4, <2>6 DEF EndsOrBegins
  <1> QED BY Zenon, <1>2, <1>3

(* The one call of an adapter for a recorded effect. *)
LEMMA CallKeeps ==
    ASSUME SessionInv, NEW w \in Workers, CallAdapter(w)
    PROVE  SessionInv'
  <1>a. PICK k \in Keys, s \in Slots : k = Key(w) /\ s = Slot(w)
    BY Zenon DEF CallAdapter, SessionInv, TypeInv, Requests, Key, Slot
  <1>0. /\ pc[w] = "call" /\ mode[w] = "open"
        /\ UNCHANGED <<durable, floor, fence, external, issued, mode, revision, lease, reported>>
    BY Zenon DEF CallAdapter, SessionInv, TypeInv, storeVars, authority
  <1>1. /\ Current[k][s].state # "Absent"
        /\ calls[k][s] = 0
        /\ s = "compensation" => Current[k]["operation"].state = "Succeeded"
    BY Zenon, <1>a, <1>0 DEF SessionInv, CallInv, CallOK
  <1>2. PICK e \in Effects :
           /\ provider[k][s] # "none" => e = provider[k][s]
           /\ provider' = [provider EXCEPT ![k][s] = e]
           /\ \/ \E status \in Statuses(e) : Observe(w, k, s, status)
              \/ EndRequest(w) /\ UNCHANGED <<journal, before>>
    BY Zenon, <1>a DEF CallAdapter, Effects
  <1>3. Written(k, s, e) /\ Moves(provider, provider')
    <2>1. \/ e = provider[k][s]
          \/ provider[k][s] \in {"none", "running"} /\ e # "none"
      BY Zenon, <1>2
    <2>2. Written(k, s, e)
      BY Zenon, <1>a, <1>2, ProviderWritten DEF SessionInv
    <2> QED BY Zenon, <1>a, <1>2, <2>1, <2>2, ProviderMoves
  <1>4. EndsOrBegins(w)
    <2>1. CASE \E status \in Statuses(e) : Observe(w, k, s, status)
      <3>1. provider'[k][s] = e
        BY Zenon, <1>3 DEF Written
      <3> QED BY Zenon, <1>a, <1>0, <1>2, <1>3, <2>1, <3>1, ObserveBegins
    <2>2. CASE EndRequest(w) /\ UNCHANGED <<journal, before>>
      BY Zenon, <2>2 DEF EndRequest, Ends, EndsOrBegins, SessionInv, TypeInv
    <2> QED BY Zenon, <1>2, <2>1, <2>2
  <1>5. /\ calls' \in [Keys -> [Slots -> Nat]]
        /\ calls'[k][s] = 1
        /\ \A l \in Keys, t \in Slots : calls'[l][t] # calls[l][t] => l = k /\ t = s
    <2> DEFINE n == [calls[k] EXCEPT ![s] = @ + 1]
    <2>1. calls \in [Keys -> [Slots -> Nat]] /\ k \in Keys /\ s \in Slots
      BY Zenon, <1>a DEF SessionInv, TypeInv
    <2>2. /\ n \in [Slots -> Nat] /\ n[s] = 1
          /\ \A t \in Slots : t # s => n[t] = calls[k][t]
      BY <1>1, <2>1
    <2>3. calls' = [calls EXCEPT ![k] = n]
      BY Zenon, <1>a, <2>1 DEF CallAdapter
    <2> HIDE DEF n
    <2>4. /\ calls' \in [Keys -> [Slots -> Nat]]
          /\ calls'[k] = n
          /\ \A l \in Keys : l # k => calls'[l] = calls[l]
      BY Zenon, <2>1, <2>2, <2>3
    <2> QED BY Zenon, <2>2, <2>4
  <1>6. VersionInv' /\ PersistInv' /\ CallInv' /\ TruthInv' /\ RequestTyped
    <2>1. CallsOwn(w)
      BY Zenon, <1>a, <1>0, <1>5 DEF CallsOwn
    <2> QED BY Zenon, <1>0, <1>3, <1>4, <2>1, RequestKeeps
  <1>7. TypeInv'
    BY Zenon, <1>0, <1>3, <1>5, <1>6 DEF SessionInv, TypeInv, RequestTyped, Written
  <1>8. WorldOK'
    <2>1. \A l \in Keys, t \in Slots : provider'[l][t] # provider[l][t] => l = k /\ t = s
      BY Zenon, <1>3 DEF Written
    <2>2. EffectsRecorded
      BY <1>1, <1>5, <2>1 DEF EffectsRecorded
    <2> QED BY Zenon, <1>0, <1>3, <2>2, WorldMoves
  <1> QED BY Zenon, <1>6, <1>7, <1>8 DEF SessionInv

(* Reconciliation asks about an operation its journal has a record of. *)
LEMMA ReconcileKeeps ==
    ASSUME SessionInv, NEW w \in Workers, NEW k \in Keys, handle_reconciliation(w, k)
    PROVE  SessionInv'
  <1>a. PICK s \in Slots : s = "operation"
    BY Zenon DEF Slots
  <1>0. /\ pc[w] = "idle" /\ mode[w] = "open"
        /\ UNCHANGED <<durable, floor, fence, external, issued, mode, revision, lease,
                       calls, reported>>
        /\ journal[w][k][s].state # "Absent"
    BY Zenon, <1>a DEF handle_reconciliation, storeVars, authority
  <1>1. Current[k][s].state # "Absent"
    <2>1. Later(journal[w], Current)
      BY Zenon, <1>0 DEF SessionInv, VersionInv, VersionOK, Base, Persisting
    <2> QED BY Zenon, <1>a, <1>0, <2>1 DEF Later, Follows
  <1>2. \/ UNCHANGED <<provider, pc, journal, before, request>>
        \/ \E e \in {"running", "done", "refused"} :
              /\ \/ e = provider[k][s]
                 \/ e = "refused" /\ provider[k][s] = "none"
              /\ provider' = [provider EXCEPT ![k][s] = e]
              /\ \E status \in Statuses(e) : Observe(w, k, s, status)
    BY Zenon, <1>a DEF handle_reconciliation
  <1>3. /\ provider' \in [Keys -> [Slots -> Effects]]
        /\ Moves(provider, provider')
        /\ \A l \in Keys, t \in Slots : provider'[l][t] # provider[l][t] => l = k /\ t = s
        /\ EndsOrBegins(w)
    <2>1. CASE UNCHANGED <<provider, pc, journal, before, request>>
      BY Zenon, <2>1, <1>0 DEF SessionInv, TypeInv, Moves, Ends, EndsOrBegins
    <2>2. CASE \E e \in {"running", "done", "refused"} :
                  /\ \/ e = provider[k][s]
                     \/ e = "refused" /\ provider[k][s] = "none"
                  /\ provider' = [provider EXCEPT ![k][s] = e]
                  /\ \E status \in Statuses(e) : Observe(w, k, s, status)
      <3>1. PICK e \in {"running", "done", "refused"} :
               /\ \/ e = provider[k][s]
                  \/ e = "refused" /\ provider[k][s] = "none"
               /\ provider' = [provider EXCEPT ![k][s] = e]
               /\ \E status \in Statuses(e) : Observe(w, k, s, status)
        BY Zenon, <2>2
      <3>2. e \in Effects /\ e # "none" /\ TypeInv
        BY Zenon, <3>1 DEF Effects, SessionInv
      <3>3. Written(k, s, e)
        BY Zenon, <1>a, <3>1, <3>2, ProviderWritten
      <3>4. Moves(provider, provider')
        BY Zenon, <1>a, <3>1, <3>2, <3>3, ProviderMoves
      <3>5. provider'[k][s] = e
        BY Zenon, <3>3 DEF Written
      <3>6. EndsOrBegins(w)
        BY Zenon, <1>a, <1>0, <3>1, <3>2, <3>4, <3>5, ObserveBegins
      <3> QED BY Zenon, <3>3, <3>4, <3>6 DEF Written
    <2> QED BY Zenon, <1>2, <2>1, <2>2
  <1>4. VersionInv' /\ PersistInv' /\ CallInv' /\ TruthInv' /\ RequestTyped
    BY Zenon, <1>0, <1>3, NoCall, RequestKeeps
  <1>5. TypeInv'
    BY Zenon, <1>0, <1>3, <1>4 DEF SessionInv, TypeInv, RequestTyped
  <1>6. WorldOK'
    <2>1. EffectsRecorded
      BY Zenon, <1>0, <1>1, <1>3 DEF EffectsRecorded
    <2> QED BY Zenon, <1>0, <1>3, <2>1, WorldMoves
  <1> QED BY Zenon, <1>4, <1>5, <1>6 DEF SessionInv

(* A duplicate is answered from a version of the journal; a new request starts
   to persist its intent. *)
LEMMA DispatchKeeps ==
    ASSUME SessionInv, NEW w \in Workers, NEW s \in Slots, NEW k \in Keys,
           NEW id \in Identities, handle_dispatch(w, s, k, id)
    PROVE  SessionInv'
  <1>0. /\ pc[w] = "idle" /\ mode[w] = "open"
        /\ UNCHANGED <<durable, floor, fence, external, issued, mode, revision, lease,
                       provider, calls>>
    BY Zenon DEF handle_dispatch, storeVars, authority
  <1>1. /\ journal[w] \in Journals /\ Later(journal[w], Current)
        /\ TypeInv
    BY Zenon, <1>0 DEF SessionInv, TypeInv, VersionInv, VersionOK, Base, Persisting
  <1>2. Moves(provider, provider')
    BY Zenon, <1>0 DEF Moves
  <1>3. Current' = Current /\ Current \in Journals
    BY Zenon, <1>0, <1>1, CurrentStored DEF Current
  <1>4. CASE /\ journal[w][k][s].state \notin {"Absent", "Pending"}
             /\ Report(k, s, journal[w][k][s].state)
             /\ UNCHANGED <<pc, journal, before, request>>
    <2> DEFINE status == journal[w][k][s].state
    <2>1. status \in States \ {"Absent", "Pending"}
      BY Zenon, <1>1, <1>4 DEF Journals, Record
    <2>2. \/ Current'[k][s].state = status
          \/ status = "Running" /\ Current'[k][s].state \in Terminal
      BY ZenonT(60), <1>1, <1>3, <2>1 DEF Later, Follows, Journals, Record, States, Terminal
    <2>3. Report(k, s, status)
      BY Zenon, <1>4
    <2> HIDE DEF status
    <2>4. reported' \in Reports /\ ToldFromStore
      BY Zenon, <1>1, <2>1, <2>2, <2>3, ReportIsStored
    <2>5. EndsOrBegins(w)
      BY Zenon, <1>0, <1>4 DEF Ends, EndsOrBegins, SessionInv, TypeInv
    <2>6. VersionInv' /\ PersistInv' /\ CallInv' /\ TruthInv' /\ RequestTyped
      BY Zenon, <1>0, <1>2, <2>5, NoCall, RequestKeeps
    <2>7. TypeInv'
      BY Zenon, <1>0, <2>4, <2>6 DEF SessionInv, TypeInv, RequestTyped
    <2>8. WorldOK'
      <3>1. Later(Current, Current') /\ Truthful(provider', Current')
        BY Zenon, <1>0, <1>3, <2>6, LaterReflexive DEF TruthInv
      <3> QED BY Zenon, <1>0, <2>4, <2>7, <3>1, WorldFollows
    <2> QED BY Zenon, <2>6, <2>7, <2>8 DEF SessionInv
  <1>5. CASE /\ Admissible(journal[w], k, s)
             /\ BeginPersist(w, [journal[w] EXCEPT ![k][s] =
                                    [state |-> "Pending", identity |-> id]])
             /\ request' = [request EXCEPT ![w] = [slot |-> s, key |-> k, after |-> "none"]]
             /\ UNCHANGED reported
    <2> DEFINE j == [journal[w] EXCEPT ![k][s] = [state |-> "Pending", identity |-> id]]
               r == [slot |-> s, key |-> k, after |-> "none"]
    <2>1. /\ j \in Journals
          /\ j[k][s].state = "Pending"
          /\ \A l \in Keys, t \in Slots : <<l, t>> # <<k, s>> => j[l][t] = journal[w][l][t]
          /\ Later(journal[w], j)
      BY Zenon, <1>1, <1>5, AdmissionFollows DEF Admissible
    <2>2. /\ BeginPersist(w, j) /\ request' = [request EXCEPT ![w] = r]
          /\ journal[w][k][s].state = "Absent"
          /\ s = "compensation" => journal[w][k]["operation"].state = "Succeeded"
      BY Zenon, <1>5 DEF Admissible
    <2>3. r \in Requests /\ r.after = "none" /\ r.key = k /\ r.slot = s
      BY Zenon DEF Requests
    <2> HIDE DEF j, r
    <2>4. Truthful(provider', j)
      <3>1. Truthful(provider', journal[w])
        BY Zenon, <1>0 DEF SessionInv, TruthInv
      <3> SUFFICES ASSUME NEW l \in Keys, NEW t \in Slots
                   PROVE  /\ j[l][t].state = "Succeeded" => provider'[l][t] = "done"
                          /\ j[l][t].state \in {"Failed", "Cancelled"} =>
                                provider'[l][t] = "refused"
        BY Zenon DEF Truthful
      <3>2. CASE <<l, t>> = <<k, s>>
        <4>1. l = k /\ t = s
          BY Zenon, <3>2
        <4> QED BY Zenon, <4>1, <2>1
      <3>3. CASE <<l, t>> # <<k, s>>
        <4>1. j[l][t] = journal[w][l][t]
          BY Zenon, <3>3, <2>1
        <4> QED BY Zenon, <4>1, <3>1 DEF Truthful
      <3> QED BY Zenon, <3>2, <3>3
    <2>5. EndsOrBegins(w)
      <3>1. Begins(w, j, r)
        BY Zenon, <1>0, <2>1, <2>2, <2>3, <2>4 DEF Begins, BeginPersist
      <3> QED BY Zenon, <2>1, <2>3, <3>1 DEF EndsOrBegins
    <2>6. VersionInv' /\ PersistInv' /\ CallInv' /\ TruthInv' /\ RequestTyped
      BY SMTT(30), <1>0, <1>2, <2>5, NoCall, RequestKeeps
    <2>7. TypeInv'
      BY Zenon, <1>0, <1>5, <2>6 DEF SessionInv, TypeInv, RequestTyped
    <2>8. WorldOK'
      BY Zenon, <1>0, <1>5, WorldStill
    <2> QED BY <2>6, <2>7, <2>8 DEF SessionInv
  <1> QED BY Zenon, <1>4, <1>5 DEF handle_dispatch

(* Effects that settle had a record. *)
LEMMA SettleKeeps ==
    ASSUME SessionInv, NEW k \in Keys, NEW s \in Slots, ProviderSettles(k, s)
    PROVE  SessionInv'
  <1>0. /\ UNCHANGED <<durable, floor, fence, external, issued, mode, pc, journal, revision,
                       lease, before, request, calls, reported>>
        /\ provider[k][s] = "running"
    BY Zenon DEF ProviderSettles, storeVars, authority, sessionVars
  <1>1. PICK e \in {"done", "refused"} : provider' = [provider EXCEPT ![k][s] = e]
    BY Zenon DEF ProviderSettles
  <1>2. e \in Effects /\ e # "none" /\ TypeInv
    BY Zenon, <1>1 DEF Effects, SessionInv
  <1>3. Written(k, s, e)
    BY Zenon, <1>1, <1>2, ProviderWritten
  <1>4. Moves(provider, provider')
    BY Zenon, <1>0, <1>2, <1>3, ProviderMoves
  <1>5. Current' = Current /\ Current[k][s].state # "Absent"
    <2>1. Stored(k, s) # "Absent"
      BY Zenon, <1>0 DEF SessionInv, WorldOK, IntentBeforeEffect
    <2> QED BY Zenon, <1>0, <1>2, <2>1, CurrentStored DEF Current
  <1>6. TypeInv'
    BY Zenon, <1>0, <1>3 DEF SessionInv, TypeInv, Written
  <1>7. VersionInv'
    BY Zenon, <1>0, <1>5 DEF SessionInv, VersionInv, VersionOK, Base, Persisting
  <1>8. PersistInv'
    BY Zenon, <1>0 DEF SessionInv, PersistInv, PersistOK, Persisting, Observing, Key, Slot
  <1>9. CallInv'
    BY Zenon, <1>0, <1>5 DEF SessionInv, CallInv, CallOK, Key, Slot
  <1>10. TruthInv'
    BY Zenon, <1>0, <1>4, <1>5, TruthMoves DEF SessionInv, TruthInv
  <1>11. WorldOK'
    <2>1. EffectsRecorded
      BY Zenon, <1>0, <1>3, <1>5 DEF EffectsRecorded, Written
    <2> QED BY Zenon, <1>0, <1>4, <2>1, WorldMoves
  <1> QED BY Zenon, <1>6, <1>7, <1>8, <1>9, <1>10, <1>11 DEF SessionInv

-----------------------------------------------------------------------------
(* The properties *)

(* Every step preserves the invariant. *)
LEMMA SessionNext == SessionInv /\ [Next]_vars => SessionInv'
  <1> SUFFICES ASSUME SessionInv, [Next]_vars PROVE SessionInv'
    BY Zenon
  <1>1. CASE UNCHANGED vars
    <2>0. UNCHANGED <<durable, floor, fence, external, issued, mode, pc, journal, revision,
                      lease, before, request, provider, calls, reported>>
      BY Zenon, <1>1 DEF vars, storeVars, authority, sessionVars, worldVars
    <2>1. Current' = Current /\ WorldOK'
      BY Zenon, <2>0, WorldStill
    <2>2. TypeInv' /\ TruthInv'
      BY Zenon, <2>0, <2>1 DEF SessionInv, TypeInv, TruthInv
    <2>3. VersionInv'
      BY Zenon, <2>0, <2>1 DEF SessionInv, VersionInv, VersionOK, Base, Persisting
    <2>4. PersistInv'
      BY Zenon, <2>0 DEF SessionInv, PersistInv, PersistOK, Persisting, Observing, Key, Slot
    <2>5. CallInv'
      BY Zenon, <2>0, <2>1 DEF SessionInv, CallInv, CallOK, Key, Slot
    <2> QED BY Zenon, <2>1, <2>2, <2>3, <2>4, <2>5 DEF SessionInv
  <1>2. ASSUME NEW w \in Workers,
               \/ load(w) \/ open(w) \/ Crash(w)
               \/ EstablishFence(w) \/ PersistRefused(w) \/ PersistAccepted(w)
               \/ PersistFailed(w) \/ CallAdapter(w)
        PROVE  SessionInv'
    BY Zenon, <1>2, LoadKeeps, OpenKeeps, CrashKeeps, EstablishKeeps, RefusedKeeps,
       AcceptedKeeps, CallKeeps
  <1>3. ASSUME NEW w \in Workers, NEW k \in Keys, handle_reconciliation(w, k)
        PROVE  SessionInv'
    BY Zenon, <1>3, ReconcileKeeps
  <1>4. ASSUME NEW w \in Workers, NEW k \in Keys, NEW s \in Slots, NEW id \in Identities,
               handle_dispatch(w, s, k, id)
        PROVE  SessionInv'
    BY Zenon, <1>4, DispatchKeeps
  <1>5. ASSUME NEW k \in Keys, NEW s \in Slots, ProviderSettles(k, s)
        PROVE  SessionInv'
    BY Zenon, <1>5, SettleKeeps
  <1> QED BY Zenon, <1>1, <1>2, <1>3, <1>4, <1>5 DEF Next

(* The journal is written only by the compare-and-swap of a session. *)
LEMMA StoreStep ==
    ASSUME SessionInv, Next
    PROVE  \/ UNCHANGED <<durable, floor>>
           \/ \E w \in Workers : pc[w] = "write" /\ Commit(w)
  <1>1. ASSUME NEW w \in Workers, load(w) \/ open(w) \/ Crash(w) \/ EstablishFence(w)
        PROVE  UNCHANGED <<durable, floor>>
    BY Zenon, <1>1 DEF load, open, Admit, Crash, EstablishFence, Store!reserve_fence,
                Store!establish_fence, storeVars
  <1>2. ASSUME NEW w \in Workers, PersistRefused(w) \/ PersistAccepted(w) \/ PersistFailed(w)
        PROVE  \/ UNCHANGED <<durable, floor>>
               \/ pc[w] = "write" /\ Commit(w)
    BY Zenon, <1>2 DEF PersistRefused, PersistAccepted, PersistFailed, storeVars
  <1>3. ASSUME NEW w \in Workers, NEW k \in Keys, NEW s \in Slots, NEW id \in Identities,
               \/ CallAdapter(w) \/ handle_reconciliation(w, k)
               \/ handle_dispatch(w, s, k, id) \/ ProviderSettles(k, s)
        PROVE  UNCHANGED <<durable, floor>>
    BY Zenon, <1>3 DEF CallAdapter, handle_reconciliation, handle_dispatch, ProviderSettles, storeVars
  <1>4. CASE \E w \in Workers : CallAdapter(w) \/ \E k \in Keys : handle_reconciliation(w, k)
    BY Zenon, <1>4 DEF CallAdapter, handle_reconciliation, storeVars
  <1>5. CASE \E k \in Keys, s \in Slots : ProviderSettles(k, s)
    BY Zenon, <1>5 DEF ProviderSettles, storeVars
  <1> QED BY Zenon, <1>1, <1>2, <1>3, <1>4, <1>5 DEF Next

(* A worker goes on to the adapter only when its write was accepted. *)
LEMMA CallStep ==
    ASSUME SessionInv, Next, NEW w \in Workers, pc[w] = "write", pc'[w] = "call"
    PROVE  Commit(w)
  <1>0. pc \in [Workers -> {"idle", "establish", "write", "call"}]
    BY Zenon DEF SessionInv, TypeInv
  <1>1. ASSUME NEW v \in Workers, load(v) \/ open(v) \/ Crash(v)
        PROVE  FALSE
    BY Zenon, <1>0, <1>1 DEF load, open, Crash
  <1>2. ASSUME NEW v \in Workers, EstablishFence(v) \/ PersistRefused(v) \/ PersistFailed(v)
        PROVE  FALSE
    BY Zenon, <1>0, <1>2 DEF EstablishFence, PersistRefused, PersistFailed, Poison, EndRequest
  <1>3. ASSUME NEW v \in Workers, PersistAccepted(v)
        PROVE  Commit(w)
    <2>1. v = w
      BY Zenon, <1>0, <1>3 DEF PersistAccepted, EndRequest
    <2> QED BY Zenon, <1>3, <2>1 DEF PersistAccepted
  <1>4. ASSUME NEW v \in Workers, CallAdapter(v)
        PROVE  FALSE
    BY Zenon, <1>0, <1>4 DEF CallAdapter, Observe, BeginPersist, EndRequest
  <1>5. ASSUME NEW v \in Workers, NEW k \in Keys, handle_reconciliation(v, k)
        PROVE  FALSE
    BY Zenon, <1>0, <1>5 DEF handle_reconciliation, Observe, BeginPersist, EndRequest
  <1>6. ASSUME NEW v \in Workers, NEW k \in Keys, NEW s \in Slots, NEW id \in Identities,
               handle_dispatch(v, s, k, id)
        PROVE  FALSE
    BY Zenon, <1>0, <1>6 DEF handle_dispatch, BeginPersist
  <1>7. ASSUME NEW k \in Keys, NEW s \in Slots, ProviderSettles(k, s)
        PROVE  FALSE
    BY Zenon, <1>0, <1>7 DEF ProviderSettles, sessionVars
  <1> QED BY Zenon, <1>1, <1>2, <1>3, <1>4, <1>5, <1>6, <1>7 DEF Next

(* The invariant of WorkerSession holds throughout. *)
THEOREM SessionInvariant == Spec => []SessionInv
  BY SessionInit, SessionNext, PTL DEF Spec

(* WorkerSession asks for an effect at most once, however many sessions hold
   the journal, whatever is resent and wherever a worker dies. *)
THEOREM AtMostOnce == Spec => []EffectAtMostOnce
  <1>1. SessionInv => EffectAtMostOnce
    BY Zenon DEF SessionInv, WorldOK
  <1> QED BY <1>1, SessionInvariant, PTL

(* No effect exists without a durable record of the intent. *)
THEOREM IntentFirst == Spec => []IntentBeforeEffect
  <1>1. SessionInv => IntentBeforeEffect
    BY Zenon DEF SessionInv, WorldOK
  <1> QED BY <1>1, SessionInvariant, PTL

(* What a host was told is what the store says, whichever session told it. *)
THEOREM ResponsesStand == Spec => []ResponsesAreDurable
  <1>1. SessionInv => ResponsesAreDurable
    BY Zenon DEF SessionInv, WorldOK
  <1> QED BY <1>1, SessionInvariant, PTL

(* The stored journal is right about the outside world, and nothing is
   compensated that did not happen. *)
THEOREM JournalTruth == Spec => []JournalIsTruthful
  <1>1. SessionInv => JournalIsTruthful
    BY Zenon DEF SessionInv, WorldOK
  <1> QED BY <1>1, SessionInvariant, PTL

(* A superseded session neither reaches an adapter nor takes back anything the
   journal says. *)
THEOREM StaleHarmless == Spec => StaleSessionsAreHarmless
  <1> DEFINE Entitled(w) == /\ lease[w] = fence
                            /\ ~external => \A v \in Workers : lease[v] <= lease[w]
             Kept(k, s) ==
                /\ Stored(k, s) # "Absent" => durable'[k][s].identity = durable[k][s].identity
                /\ Stored(k, s) # "Absent" => Stored(k, s)' # "Absent"
                /\ Stored(k, s) \in Terminal => Stored(k, s)' = Stored(k, s)
                /\ Stored(k, s) = "Running" => Stored(k, s)' # "Pending"
             Harmless ==
                /\ \A w \in Workers : pc[w] = "write" /\ pc'[w] = "call" => Entitled(w)
                /\ \A k \in Keys, s \in Slots : Kept(k, s)
  <1>1. ASSUME SessionInv, Next PROVE Harmless
    <2>1. ASSUME NEW w \in Workers, pc[w] = "write", pc'[w] = "call" PROVE Entitled(w)
      <3>1. lease[w] = fence
        BY Zenon, <1>1, <2>1, CallStep, CommitMoves
      <3>2. ~external => \A v \in Workers : lease[v] <= fence
        BY Zenon, <1>1 DEF SessionInv, VersionInv, VersionOK
      <3> QED BY Zenon, <3>1, <3>2
    <2>2. ASSUME NEW k \in Keys, NEW s \in Slots PROVE Kept(k, s)
      <3>1. CASE UNCHANGED <<durable, floor>>
        BY Zenon, <3>1 DEF Stored, Terminal
      <3>2. CASE \E w \in Workers : pc[w] = "write" /\ Commit(w)
        <4>1. PICK w \in Workers : pc[w] = "write" /\ Commit(w)
          BY Zenon, <3>2
        <4>2. /\ Later(Current, Current') /\ floor' = floor + 1 /\ floor \in Nat
              /\ durable' = journal[w] /\ Current' = journal[w]
          BY Zenon, <1>1, <4>1, CommitMoves DEF SessionInv, TypeInv
        <4>3. Stored(k, s)' = Current'[k][s].state
          BY <4>2 DEF Stored
        <4>4. CASE floor = 0
          BY Zenon, <4>4 DEF Stored, Terminal
        <4>5. CASE floor # 0
          <5>1. Stored(k, s) = durable[k][s].state /\ Follows(durable[k][s], durable'[k][s])
            BY Zenon, <4>2, <4>5 DEF Stored, Current, Later
          <5> QED BY Zenon, <4>2, <4>3, <5>1 DEF Follows
        <4> QED BY Zenon, <4>4, <4>5
      <3> QED BY Zenon, <1>1, <3>1, <3>2, StoreStep
    <2> HIDE DEF Entitled, Kept
    <2> QED BY Zenon, <2>1, <2>2
  <1>2. SessionInv /\ [Next]_vars => [Harmless]_vars
    BY Zenon, <1>1
  <1> QED BY <1>2, SessionInvariant, PTL DEF Spec, StaleSessionsAreHarmless
=============================================================================
