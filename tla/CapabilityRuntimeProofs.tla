---------------------- MODULE CapabilityRuntimeProofs ----------------------
(***************************************************************************)
(* The safety properties of CapabilityRuntime, for any tools, leases and   *)
(* grants and every limit.                                                 *)
(***************************************************************************)
EXTENDS CapabilityRuntime, TLAPS

(* The entry of a promise *)
Entry ==
    [tool : Tools, waiting : BOOLEAN, attempt : Nat, chunks : Nat,
     state : Unresolved \cup {"Ready"}, orphaned : BOOLEAN, expired : BOOLEAN,
     result : Results \cup {"none"}]

TypeInv ==
    /\ limits \in Limits
    /\ vm \in {"idle", "running", "paused"}
    /\ next \in 0..limits.promises
    /\ Held \subseteq 1..next
    /\ pending \in [Held -> Entry]
    /\ reachable \subseteq Held
    /\ claimed \subseteq 1..next
    /\ settled \in [Promises -> Nat]

(* A promise in the table: its audit record says whether it was resolved, a
   collected handle does not come back, a call the host holds was claimed, and
   a thread that waits for it is suspended and roots it. *)
Sound(p) ==
    /\ settled[p] = IF pending[p].state = "Ready" THEN 1 ELSE 0
    /\ pending[p].orphaned => p \notin reachable
    /\ p \in claimed => pending[p].state \in Answerable \cup {"Ready"}
    /\ pending[p].state = "Ready" /\ pending[p].expired => pending[p].result = "TimedOut"
    /\ pending[p].waiting => pending[p].state # "Ready" /\ vm = "paused" /\ p \in reachable

HeldInv == \A p \in Held : Sound(p)

(* A promise that is not in the table has not been handed out, or left a record
   if the host had claimed it. *)
GoneInv ==
    \A p \in Promises : p \notin Held =>
        /\ settled[p] <= 1
        /\ p \in claimed => settled[p] = 1
        /\ p > next => settled[p] = 0

(* At most one promise is awaited; the soft time budget apart, one is whenever
   the evaluation is suspended. *)
WaitInv ==
    /\ \A p, q \in Held : pending[p].waiting /\ pending[q].waiting => p = q
    /\ vm = "paused" /\ ~limits.soft => \E p \in Held : pending[p].waiting

PromiseInv == TypeInv /\ HeldInv /\ GoneInv /\ WaitInv

(* Who holds which lease *)
LeaseInv ==
    /\ vm \in {"idle", "running", "paused"}
    /\ registered \subseteq Tools
    /\ active \in Leases \cup {NoLease}
    /\ DOMAIN issued = Leases
    /\ leaseCalls \in [Leases -> [Tools -> Nat]]
    /\ LeaseSpansEvaluation

-----------------------------------------------------------------------------
(* Leases *)

(* A call the lease has no allowance for is refused. *)
LEMMA ReserveKeeps ==
    ASSUME LeaseInv, NEW t \in Tools, reserve(t)
    PROVE  /\ leaseCalls' \in [Leases -> [Tools -> Nat]]
           /\ \A l \in Leases, u \in Tools : leaseCalls'[l][u] <= Grants[l][u]
  <1>0. /\ leaseCalls \in [Leases -> [Tools -> Nat]]
        /\ \A l \in Leases, u \in Tools : leaseCalls[l][u] <= Grants[l][u]
    BY Zenon DEF LeaseInv, LeaseSpansEvaluation
  <1>1. CASE UNCHANGED leaseCalls
    BY Zenon, <1>0, <1>1
  <1>2. CASE ~UNCHANGED leaseCalls
    <2> DEFINE n == [leaseCalls[active] EXCEPT ![t] = @ + 1]
    <2>1. /\ active \in Leases
          /\ leaseCalls[active][t] < Grants[active][t]
          /\ leaseCalls' = [leaseCalls EXCEPT ![active][t] = @ + 1]
      BY Zenon, <1>2 DEF reserve, LeaseInv
    <2>2. Grants[active][t] \in Nat
      BY <2>1, CapabilityRuntimeAssumption
    <2>3. /\ n \in [Tools -> Nat]
          /\ \A u \in Tools : n[u] <= Grants[active][u]
      BY <1>0, <2>1, <2>2
    <2>4. leaseCalls' = [leaseCalls EXCEPT ![active] = n]
      BY Zenon, <1>0, <2>1
    <2> HIDE DEF n
    <2> QED BY Zenon, <1>0, <2>1, <2>3, <2>4
  <1> QED BY Zenon, <1>1, <1>2

(* Every step of an evaluation runs under the lease it started with. *)
LEMMA LeaseNext == LeaseInv /\ [Next]_vars => LeaseInv'
  <1> SUFFICES ASSUME LeaseInv, [Next]_vars PROVE LeaseInv'
    BY Zenon
  <1> USE DEF LeaseInv, LeaseSpansEvaluation
  <1>1. ASSUME NEW t \in Tools, register(t)
        PROVE  LeaseInv'
    BY <1>1, Zenon DEF register
  <1>2. ASSUME NEW l \in Leases, issue_capability_lease(l)
        PROVE  LeaseInv'
    BY <1>2, Zenon DEF issue_capability_lease
  <1>3. CASE eval
    BY <1>3, Zenon DEF eval
  <1>4. ASSUME NEW l \in Leases, eval_with_capability_lease(l)
        PROVE  LeaseInv'
    BY Zenon, <1>4 DEF eval_with_capability_lease
  <1>5. CASE Finish \/ SoftYield
    BY Zenon, <1>5 DEF Finish, SoftYield, clear_capability_lease_after
  <1>6. ASSUME NEW t \in Tools, call(t) \/ start(t)
        PROVE  LeaseInv'
    <2>1. /\ leaseCalls' \in [Leases -> [Tools -> Nat]]
          /\ \A l \in Leases, u \in Tools : leaseCalls'[l][u] <= Grants[l][u]
      BY Zenon, <1>6, ReserveKeeps DEF call, start
    <2> QED BY Zenon, <1>6, <2>1 DEF call, start, leaseVars
  <1>7. ASSUME NEW p, await(p)
        PROVE  LeaseInv'
    BY Zenon, <1>7 DEF await, clear_capability_lease_after
  <1>8. ASSUME NEW ps, NEW result, Resolve(ps, result)
        PROVE  LeaseInv'
    BY <1>8, Zenon DEF Resolve, Resumed, leaseVars
  <1>9. ASSUME NEW p, NEW e, Update(p, e)
        PROVE  LeaseInv'
    BY Zenon, <1>9 DEF Update, leaseVars
  <1>10. CASE \/ collect_garbage
              \/ \E p \in Promises : Drop(p) \/ DeadlinePasses(p)
    BY Zenon, <1>10 DEF collect_garbage, Drop, DeadlinePasses, leaseVars
  <1>11. CASE pump \/ expire_timed_out_tools
    BY <1>11, <1>8, Zenon DEF pump, expire_timed_out_tools
  <1>12. ASSUME NEW p \in Promises,
                \/ claim_external(p) \/ request_external_cancellation(p)
                \/ retry_external(p) \/ push_external_stream_chunk(p)
         PROVE  LeaseInv'
    BY Zenon, <1>12, <1>9 DEF claim_external, request_external_cancellation, retry_external,
                       push_external_stream_chunk
  <1>13. ASSUME NEW p \in Promises,
                \/ confirm_external_cancellation(p)
                \/ \E result \in Results \ {"TimedOut"} : complete_external(p, result)
         PROVE  LeaseInv'
    BY Zenon, <1>13, <1>8 DEF confirm_external_cancellation, complete_external
  <1>14. CASE UNCHANGED vars
    BY Zenon, <1>14 DEF vars, leaseVars
  <1> HIDE DEF LeaseInv, LeaseSpansEvaluation
  <1> QED BY Zenon, <1>1, <1>2, <1>3, <1>4, <1>5, <1>6, <1>7, <1>10, <1>11, <1>12, <1>13, <1>14
             DEF Next, Script, Host

-----------------------------------------------------------------------------
(* Promises *)

(* Nothing but the state of the VM changes, and nobody waits before. *)
Still ==
    /\ UNCHANGED <<limits, promiseVars>>
    /\ \/ vm' = vm
       \/ vm # "paused" /\ vm' = "running"
       \/ vm # "paused" /\ limits.soft /\ vm' = "paused"

(* The script lets go of handles. *)
LetsGo ==
    /\ vm = "running" /\ vm' \in {"running", "idle"}
    /\ reachable' \subseteq reachable
    /\ UNCHANGED <<limits, pending, next, claimed, settled>>

(* The entry of the unresolved promise p becomes e, also unresolved. *)
Becomes(p, e) ==
    /\ p \in In(Unresolved) /\ e \in Entry /\ e.state # "Ready"
    /\ e.orphaned = pending[p].orphaned
    /\ pending' = [pending EXCEPT ![p] = e]
    /\ claimed' = claimed \/ claimed' = claimed \cup {p}
    /\ p \in claimed' => e.state \in Answerable
    /\ UNCHANGED <<limits, next, reachable, settled>>
    /\ \/ vm' = vm /\ e.waiting = pending[p].waiting
       \/ vm = "running" /\ vm' = "paused" /\ e.waiting /\ p \in reachable

(* The evaluation starts or is paused, or the catalog changes. *)
LEMMA StillKeeps == PromiseInv /\ Still => PromiseInv'
  BY DEF PromiseInv, TypeInv, HeldInv, Sound, GoneInv, WaitInv, Still, Held, promiseVars

(* A promise the script lets go of is still accounted for. *)
LEMMA LetsGoKeeps == PromiseInv /\ LetsGo => PromiseInv'
  <1> SUFFICES ASSUME PromiseInv, LetsGo PROVE PromiseInv'
    BY Zenon
  <1>1. TypeInv' /\ GoneInv'
    BY Zenon DEF PromiseInv, TypeInv, GoneInv, LetsGo, Held
  <1>2. HeldInv'
    BY Zenon DEF PromiseInv, HeldInv, Sound, LetsGo, Held
  <1>3. WaitInv'
    BY Zenon DEF PromiseInv, WaitInv, LetsGo, Held
  <1> QED BY Zenon, <1>1, <1>2, <1>3 DEF PromiseInv

(* A promise changes its state or counters, or is awaited. *)
LEMMA BecomesKeeps ==
    ASSUME PromiseInv, NEW p, NEW e, Becomes(p, e)
    PROVE  PromiseInv'
  <1>0. /\ p \in Held /\ pending[p].state # "Ready"
        /\ Held' = Held /\ pending'[p] = e
        /\ \A q \in Held : q # p => pending'[q] = pending[q]
        /\ \A q \in Held : q # p => (q \in claimed' <=> q \in claimed)
    BY Zenon DEF PromiseInv, TypeInv, Becomes, In, Held, Unresolved
  <1>1. TypeInv'
    BY Zenon, <1>0 DEF PromiseInv, TypeInv, Becomes, Held
  <1>2. Sound(p)'
    BY Zenon, <1>0 DEF PromiseInv, HeldInv, Sound, Becomes
  <1>3. ASSUME NEW q \in Held, q # p
        PROVE  Sound(q)'
    BY <1>0, <1>3 DEF PromiseInv, HeldInv, Sound, Becomes
  <1>4. HeldInv'
    BY Zenon, <1>0, <1>2, <1>3 DEF HeldInv
  <1>5. GoneInv'
    BY <1>0 DEF PromiseInv, GoneInv, Becomes
  <1>6. WaitInv'
    <2>1. CASE vm' = vm /\ e.waiting = pending[p].waiting
      BY <1>0, <2>1 DEF PromiseInv, WaitInv, Becomes
    <2>2. CASE vm = "running" /\ e.waiting
      <3>1. \A q \in Held : ~pending[q].waiting
        BY Zenon, <2>2 DEF PromiseInv, HeldInv, Sound
      <3> QED BY Zenon, <1>0, <2>2, <3>1 DEF WaitInv
    <2> QED BY Zenon, <2>1, <2>2 DEF Becomes
  <1> QED BY Zenon, <1>1, <1>4, <1>5, <1>6 DEF PromiseInv

(* A new promise is unresolved and its identifier was never used. *)
LEMMA StartKeeps ==
    ASSUME PromiseInv, NEW t \in Tools, start(t)
    PROVE  PromiseInv'
  <1> PICK n : n = next + 1
    BY Zenon
  <1> DEFINE e == [tool |-> t, waiting |-> FALSE, attempt |-> 1, chunks |-> 0,
                   state |-> IF t \in External THEN "ExternalQueued" ELSE "HostPump",
                   orphaned |-> FALSE, expired |-> FALSE, result |-> "none"]
  <1>0. /\ next \in Nat /\ n \in Nat /\ n = next + 1 /\ n > next /\ n <= limits.promises
        /\ limits.promises <= MaxPromises /\ MaxPromises \in Nat /\ n \in Promises
        /\ n \notin Held /\ n \notin claimed /\ n \notin reachable
        /\ limits' = limits /\ vm' = vm /\ vm = "running" /\ next' = n
        /\ claimed' = claimed /\ settled' = settled /\ reachable' = reachable \cup {n}
    BY CapabilityRuntimeAssumption
       DEF PromiseInv, TypeInv, start, leaseVars, Promises
  <1>1. e \in Entry /\ e.state # "Ready" /\ ~e.waiting /\ ~e.orphaned
    BY Zenon DEF Entry, Unresolved
  <1>2. pending' = [p \in Held \cup {n} |-> IF p \in Held THEN pending[p] ELSE e]
    BY Zenon DEF start
  <1> HIDE DEF e
  <1>3. /\ Held' = Held \cup {n} /\ pending'[n] = e
        /\ \A p \in Held : pending'[p] = pending[p]
    BY Zenon, <1>0, <1>2 DEF Held
  <1>4. TypeInv'
    <2>1. pending' \in [Held' -> Entry]
      BY Zenon, <1>1, <1>2, <1>3 DEF PromiseInv, TypeInv
    <2>2. Held' \subseteq 1..n /\ claimed' \subseteq 1..n /\ reachable' \subseteq Held'
      BY <1>0, <1>3 DEF PromiseInv, TypeInv
    <2> QED BY <1>0, <2>1, <2>2 DEF PromiseInv, TypeInv
  <1>5. HeldInv'
    <2>1. Sound(n)'
      BY Zenon, <1>0, <1>1, <1>3 DEF PromiseInv, GoneInv, Sound
    <2>2. \A p \in Held : Sound(p)'
      BY ZenonT(60), <1>0, <1>3 DEF PromiseInv, HeldInv, Sound
    <2> QED BY Zenon, <1>3, <2>1, <2>2 DEF HeldInv
  <1>6. GoneInv'
    <2>1. ASSUME NEW p \in Promises, p \notin Held
          PROVE  /\ settled[p] <= 1
                 /\ p \in claimed => settled[p] = 1
                 /\ p > n => settled[p] = 0
      <3>1. /\ settled[p] <= 1
            /\ p \in claimed => settled[p] = 1
            /\ p > next => settled[p] = 0
        BY Zenon, <2>1 DEF PromiseInv, GoneInv
      <3>2. p > n => p > next
        BY <1>0 DEF Promises
      <3> QED BY Zenon, <3>1, <3>2
    <2> QED BY Zenon, <1>0, <1>3, <2>1 DEF GoneInv, Promises
  <1>7. WaitInv'
    BY ZenonT(60), <1>0, <1>1, <1>3 DEF PromiseInv, HeldInv, Sound, WaitInv
  <1> QED BY Zenon, <1>4, <1>5, <1>6, <1>7 DEF PromiseInv

(* The unresolved promises ps get their result. *)
Resolves(ps, result) ==
    /\ ps \subseteq In(Unresolved)
    /\ result \in Results
    /\ vm # "running"
    /\ Resolve(ps, result)

(* The entry of a promise that is resolved *)
ReadyEntry(p, result) ==
    [pending[p] EXCEPT !.state = "Ready", !.waiting = FALSE,
                       !.result = complete_ticket(p, result)]

(* A resolved promise carries its result or, if the deadline passed before, the
   timeout. *)
LEMMA ReadyEntryTyped ==
    ASSUME TypeInv, NEW p \in Held, NEW result \in Results
    PROVE  /\ ReadyEntry(p, result) \in Entry
           /\ ReadyEntry(p, result).state = "Ready"
           /\ ~ReadyEntry(p, result).waiting
           /\ ReadyEntry(p, result).orphaned = pending[p].orphaned
           /\ ReadyEntry(p, result).expired => ReadyEntry(p, result).result = "TimedOut"
  <1>1. pending[p] \in Entry
    BY Zenon DEF TypeInv
  <1>2. complete_ticket(p, result) \in Results \cup {"none"}
    BY Zenon DEF complete_ticket, Results
  <1> QED BY <1>1, <1>2, Zenon DEF ReadyEntry, Entry, complete_ticket

(* Each resolved promise leaves one record, and the evaluation that waited for it
   goes on. *)
LEMMA ResolveKeeps ==
    ASSUME PromiseInv, NEW ps, NEW result, Resolves(ps, result)
    PROVE  PromiseInv'
  <1>0. /\ ps \subseteq Held /\ result \in Results /\ Held \subseteq Promises
        /\ \A p \in ps : pending[p].state # "Ready" /\ settled[p] = 0
        /\ limits' = limits /\ next' = next /\ reachable' = reachable /\ claimed' = claimed
        /\ settled' = [p \in Promises |-> settled[p] + IF p \in ps THEN 1 ELSE 0]
        /\ vm' = Resumed(ps) /\ vm # "running"
    <2>1. Held \subseteq Promises
      BY CapabilityRuntimeAssumption DEF PromiseInv, TypeInv, Promises
    <2>2. ps \subseteq Held /\ \A p \in ps : pending[p].state # "Ready"
      BY Zenon DEF Resolves, In, Unresolved
    <2>3. \A p \in ps : settled[p] = 0
      BY Zenon, <2>2 DEF PromiseInv, HeldInv, Sound
    <2> QED BY <2>1, <2>2, <2>3, Zenon DEF Resolves, Resolve, leaseVars
  <1>1. /\ Held' = Held \ {q \in ps : pending[q].orphaned}
        /\ \A p \in Held' : p \in ps => pending'[p] = ReadyEntry(p, result)
        /\ \A p \in Held' : p \notin ps => pending'[p] = pending[p]
        /\ pending' = [p \in Held' |-> pending'[p]]
    BY Zenon DEF Resolves, Resolve, Held, ReadyEntry
  <1>2. /\ \A p \in Promises : p \in ps => settled'[p] = 1
        /\ \A p \in Promises : p \notin ps => settled'[p] = settled[p]
        /\ settled' \in [Promises -> Nat]
    BY <1>0 DEF PromiseInv, TypeInv
  <1>3. \A p \in Held : p \in ps =>
           /\ ReadyEntry(p, result) \in Entry
           /\ ReadyEntry(p, result).state = "Ready"
           /\ ~ReadyEntry(p, result).waiting
           /\ ReadyEntry(p, result).orphaned = pending[p].orphaned
           /\ ReadyEntry(p, result).expired => ReadyEntry(p, result).result = "TimedOut"
    BY Zenon, <1>0, ReadyEntryTyped DEF PromiseInv
  <1>4. TypeInv'
    <2>1. \A p \in Held' : pending'[p] \in Entry
      BY Zenon, <1>1, <1>3 DEF PromiseInv, TypeInv
    <2>2. reachable \subseteq Held'
      BY Zenon, <1>0, <1>1 DEF PromiseInv, TypeInv, HeldInv, Sound
    <2>3. vm' \in {"idle", "running", "paused"}
      BY Zenon, <1>0 DEF PromiseInv, TypeInv, Resumed
    <2>4. pending' \in [Held' -> Entry]
      BY Zenon, <1>1, <2>1
    <2> QED BY <1>0, <1>1, <1>2, <2>2, <2>3, <2>4, Zenon DEF PromiseInv, TypeInv
  <1>5. \A p \in Held : p \notin ps /\ pending[p].waiting => vm' = vm
    BY Zenon, <1>0 DEF PromiseInv, WaitInv, Resumed
  <1>6. HeldInv'
    <2>1. ASSUME NEW p \in Held', p \in ps
          PROVE  Sound(p)'
      BY <1>0, <1>1, <1>2, <1>3, <2>1 DEF PromiseInv, HeldInv, Sound
    <2>2. ASSUME NEW p \in Held', p \notin ps
          PROVE  Sound(p)'
      BY <1>0, <1>1, <1>2, <1>5, <2>2 DEF PromiseInv, HeldInv, Sound
    <2> QED BY Zenon, <2>1, <2>2 DEF HeldInv
  <1>7. GoneInv'
    BY <1>0, <1>1, <1>2 DEF PromiseInv, TypeInv, GoneInv, Promises
  <1>8. WaitInv'
    <2>1. \A p \in Held' : pending'[p].waiting => p \notin ps /\ pending[p].waiting
      BY <1>1, <1>3
    <2>2. ASSUME vm' = "paused", ~limits.soft
          PROVE  \E p \in Held' : pending'[p].waiting
      <3>1. vm = "paused" /\ \A p \in ps : ~pending[p].waiting
        BY Zenon, <1>0, <2>2 DEF Resumed
      <3>2. PICK p \in Held : pending[p].waiting
        BY Zenon, <2>2, <3>1 DEF PromiseInv, WaitInv
      <3> QED BY Zenon, <1>1, <3>1, <3>2
    <2> QED BY Zenon, <1>0, <1>1, <2>1, <2>2 DEF PromiseInv, WaitInv
  <1> QED BY <1>4, <1>6, <1>7, <1>8 DEF PromiseInv

(* A collection forgets no promise that is reachable or in the host's hands. *)
LEMMA CollectKeeps ==
    ASSUME PromiseInv, collect_garbage
    PROVE  PromiseInv'
  <1>0. UNCHANGED <<limits, vm, next, reachable, claimed, settled>>
    BY Zenon DEF collect_garbage, leaseVars
  <1>1. /\ Held' = Held \ Forgotten(Garbage)
        /\ \A p \in Held' : pending'[p] = [pending[p] EXCEPT !.orphaned = @ \/ p \in Garbage]
        /\ pending' = [p \in Held' |-> pending'[p]]
    BY Zenon DEF collect_garbage, Held
  <1>2. ASSUME NEW p \in Held'
        PROVE  /\ p \in Held /\ pending'[p] \in Entry
               /\ pending'[p].state = pending[p].state
               /\ pending'[p].waiting = pending[p].waiting
               /\ pending'[p].expired = pending[p].expired
               /\ pending'[p].result = pending[p].result
               /\ pending'[p].orphaned => pending[p].orphaned \/ p \notin reachable
    <2>1. p \in Held /\ pending[p] \in Entry
      BY Zenon, <1>1 DEF PromiseInv, TypeInv
    <2> DEFINE b == pending[p].orphaned \/ p \in Garbage
    <2>2. b \in BOOLEAN /\ pending'[p] = [pending[p] EXCEPT !.orphaned = b]
      BY <1>1, Zenon
    <2>3. b => pending[p].orphaned \/ p \notin reachable
      BY Zenon DEF Garbage
    <2> HIDE DEF b
    <2> QED BY Zenon, <2>1, <2>2, <2>3 DEF Entry
  <1>3. \A p \in Held : p \in reachable \/ pending[p].state \in Answerable => p \in Held'
    BY Zenon, <1>1 DEF Forgotten, Garbage, In
  <1>4. TypeInv'
    <2>1. pending' \in [Held' -> Entry]
      BY Zenon, <1>1, <1>2
    <2> QED BY <1>0, <1>2, <1>3, <2>1, Zenon DEF PromiseInv, TypeInv
  <1>5. HeldInv'
    BY <1>0, <1>2 DEF PromiseInv, HeldInv, Sound
  <1>6. GoneInv'
    BY <1>0, <1>3 DEF PromiseInv, TypeInv, HeldInv, Sound, GoneInv, Promises
  <1>7. WaitInv'
    BY Zenon, <1>0, <1>2, <1>3 DEF PromiseInv, HeldInv, Sound, WaitInv
  <1> QED BY Zenon, <1>4, <1>5, <1>6, <1>7 DEF PromiseInv

(* Every step keeps the promises in order. *)
LEMMA PromiseNext == PromiseInv /\ [Next]_vars => PromiseInv'
  <1> SUFFICES ASSUME PromiseInv, [Next]_vars PROVE PromiseInv'
    OBVIOUS
  <1>0. \A p \in Held : pending[p] \in Entry
    BY Zenon DEF PromiseInv, TypeInv
  <1>1. CASE \/ eval \/ SoftYield \/ UNCHANGED vars
             \/ \E t \in Tools : register(t) \/ call(t)
             \/ \E l \in Leases : issue_capability_lease(l) \/ eval_with_capability_lease(l)
    <2>1. Still
      BY <1>1, Zenon DEF Still, eval, SoftYield, register, call, issue_capability_lease,
                  eval_with_capability_lease, vars, leaseVars
    <2> QED BY Zenon, <2>1, StillKeeps
  <1>2. CASE Finish \/ \E p \in Promises : Drop(p)
    <2>1. LetsGo
      BY <1>2, Zenon DEF LetsGo, Finish, Drop, leaseVars
    <2> QED BY <2>1, LetsGoKeeps
  <1>3. ASSUME NEW p \in Promises, await(p)
        PROVE  PromiseInv'
    <2>0. p \in Held /\ p \in In(Unresolved) /\ pending[p].state # "Ready"
      BY Zenon, <1>3 DEF await, In, Unresolved
    <2> DEFINE e == [pending[p] EXCEPT !.waiting = TRUE]
    <2>1. /\ e \in Entry /\ e.state = pending[p].state /\ e.waiting
          /\ e.orphaned = pending[p].orphaned
      BY <1>0, <2>0, Zenon DEF Entry
    <2>2. pending' = [pending EXCEPT ![p] = e]
      BY Zenon, <1>3 DEF await
    <2> HIDE DEF e
    <2>3. p \in claimed => e.state \in Answerable
      BY Zenon, <2>0, <2>1 DEF PromiseInv, HeldInv, Sound
    <2>4. Becomes(p, e)
      BY <1>3, <2>0, <2>1, <2>2, <2>3, Zenon DEF Becomes, await
    <2> QED BY Zenon, <2>4, BecomesKeeps
  <1>4. ASSUME NEW p \in Promises, DeadlinePasses(p)
        PROVE  PromiseInv'
    <2>0. p \in Held /\ p \in In(Unresolved) /\ pending[p].state # "Ready"
      BY Zenon, <1>4 DEF DeadlinePasses, In, Unresolved
    <2> DEFINE e == [pending[p] EXCEPT !.expired = TRUE]
    <2>1. /\ e \in Entry /\ e.state = pending[p].state /\ e.waiting = pending[p].waiting
          /\ e.orphaned = pending[p].orphaned
      BY ZenonT(60), <1>0, <2>0, Zenon DEF Entry
    <2>2. pending' = [pending EXCEPT ![p] = e]
      BY Zenon, <1>4 DEF DeadlinePasses
    <2> HIDE DEF e
    <2>3. p \in claimed => e.state \in Answerable
      BY Zenon, <2>0, <2>1 DEF PromiseInv, HeldInv, Sound
    <2>4. Becomes(p, e)
      BY <1>4, <2>0, <2>1, <2>2, <2>3, Zenon DEF Becomes, DeadlinePasses, leaseVars
    <2> QED BY <2>4, BecomesKeeps
  <1>5. ASSUME NEW p \in Promises, NEW e, Update(p, e),
               p \in In(Unresolved), e \in Entry, e.state \in Answerable,
               e.waiting = pending[p].waiting, e.orphaned = pending[p].orphaned,
               claimed' = claimed \/ claimed' = claimed \cup {p}
        PROVE  PromiseInv'
    <2>1. Becomes(p, e)
      BY Zenon, <1>5 DEF Becomes, Update, leaseVars, Answerable
    <2> QED BY Zenon, <2>1, BecomesKeeps
  <1>6. ASSUME NEW p \in Promises, claim_external(p) \/ request_external_cancellation(p)
        PROVE  PromiseInv'
    <2>0. p \in Held /\ p \in In(Unresolved)
      BY Zenon, <1>6 DEF claim_external, request_external_cancellation, In, Unresolved
    <2>1. PICK s \in Answerable : Update(p, [pending[p] EXCEPT !.state = s])
      BY Zenon, <1>6 DEF claim_external, request_external_cancellation, Answerable
    <2> DEFINE e == [pending[p] EXCEPT !.state = s]
    <2>2. /\ e \in Entry /\ e.state \in Answerable /\ e.waiting = pending[p].waiting
          /\ e.orphaned = pending[p].orphaned
      BY Zenon, <1>0, <2>0 DEF Entry, Answerable, Unresolved
    <2>3. Update(p, e)
      BY Zenon, <2>1
    <2>4. claimed' = claimed \/ claimed' = claimed \cup {p}
      BY Zenon, <1>6 DEF claim_external, request_external_cancellation
    <2> HIDE DEF e
    <2> QED BY Zenon, <1>5, <2>0, <2>2, <2>3, <2>4
  <1>7. ASSUME NEW p \in Promises, retry_external(p) \/ push_external_stream_chunk(p)
        PROVE  PromiseInv'
    <2>0. p \in Held /\ p \in In(Unresolved) /\ pending[p].state \in Answerable
      BY Zenon, <1>7 DEF retry_external, push_external_stream_chunk, In, Unresolved, Live, Answerable
    <2>1. PICK e : /\ Update(p, e)
                   /\ \/ e = [pending[p] EXCEPT !.attempt = @ + 1]
                      \/ e = [pending[p] EXCEPT !.chunks = @ + 1]
      BY Zenon, <1>7 DEF retry_external, push_external_stream_chunk
    <2>2. /\ e \in Entry /\ e.state \in Answerable /\ e.waiting = pending[p].waiting
          /\ e.orphaned = pending[p].orphaned
      BY <1>0, <2>0, <2>1 DEF Entry
    <2>3. claimed' = claimed
      BY Zenon, <1>7 DEF retry_external, push_external_stream_chunk
    <2> QED BY Zenon, <1>5, <2>0, <2>1, <2>2, <2>3
  <1>8. CASE pump \/ expire_timed_out_tools
    <2>1. \E ps, result : Resolves(ps, result)
      <3>1. CASE pump
        BY Zenon, <3>1 DEF pump, Resolves, In, Unresolved, Results
      <3>2. CASE expire_timed_out_tools
        BY Zenon, <3>2 DEF expire_timed_out_tools, Resolves, Results
      <3> QED BY Zenon, <1>8, <3>1, <3>2
    <2> QED BY Zenon, <2>1, ResolveKeeps
  <1>9. ASSUME NEW p \in Promises,
               \/ confirm_external_cancellation(p)
               \/ \E result \in Results \ {"TimedOut"} : complete_external(p, result)
        PROVE  PromiseInv'
    <2>1. \E result : Resolves({p}, result)
      BY Zenon, <1>9 DEF confirm_external_cancellation, complete_external, Resolves, In, Unresolved,
                  Answerable, Results
    <2> QED BY Zenon, <2>1, ResolveKeeps
  <1> QED BY Zenon, <1>1, <1>2, <1>3, <1>4, <1>6, <1>7, <1>8, <1>9, StartKeeps, CollectKeeps
             DEF Next, Script, Host

-----------------------------------------------------------------------------
(* Cancellation *)

(* No step starts an attempt of, takes output of or revives a call that is to be
   cancelled. *)
LEMMA CancellationStep ==
    PromiseInv /\ [Next]_vars =>
        \A p \in In({"ExternalCancellationRequested"}) : p \in DOMAIN pending' =>
          /\ pending'[p].state \in {"ExternalCancellationRequested", "Ready"}
          /\ pending'[p].attempt = pending[p].attempt
          /\ pending'[p].chunks = pending[p].chunks
  <1> DEFINE Stopped(e, f) == /\ e.state \in {"ExternalCancellationRequested", "Ready"}
                              /\ e.attempt = f.attempt
                              /\ e.chunks = f.chunks
  <1> SUFFICES ASSUME PromiseInv, [Next]_vars,
                      NEW p \in Held, pending[p].state = "ExternalCancellationRequested",
                      p \in DOMAIN pending'
               PROVE  Stopped(pending'[p], pending[p])
    BY Zenon DEF In
  <1>0. \A q \in Held : pending[q] \in Entry
    BY Zenon DEF PromiseInv, TypeInv
  <1>1. CASE pending'[p] = pending[p]
    BY Zenon, <1>1
  <1>2. ASSUME NEW q \in Promises, q \in Held,
               \/ pending' = [pending EXCEPT ![q].waiting = TRUE]
               \/ pending' = [pending EXCEPT ![q].expired = TRUE]
        PROVE  Stopped(pending'[p], pending[p])
    BY <1>0, <1>2 DEF Entry, Held
  <1>3. ASSUME NEW q, NEW e, Update(q, e),
               pending[q].state \in {"ExternalQueued", "ExternalClaimed"}
        PROVE  Stopped(pending'[p], pending[p])
    <2>1. q # p
      BY Zenon, <1>3
    <2> QED BY Zenon, <1>1, <1>3, <2>1 DEF Update, Held
  <1>4. ASSUME NEW ps, NEW result, Resolve(ps, result)
        PROVE  Stopped(pending'[p], pending[p])
    <2>1. pending'[p] = IF p \in ps THEN ReadyEntry(p, result) ELSE pending[p]
      BY <1>4, Zenon DEF Resolve, ReadyEntry
    <2>2. Stopped(ReadyEntry(p, result), pending[p])
      BY Zenon, <1>0 DEF ReadyEntry, Entry
    <2> QED BY Zenon, <1>1, <2>1, <2>2
  <1>5. CASE collect_garbage
    <2>1. pending'[p] = [pending[p] EXCEPT !.orphaned = @ \/ p \in Garbage]
      BY Zenon, <1>5 DEF collect_garbage
    <2> QED BY Zenon, <1>0, <2>1 DEF Entry
  <1>6. CASE \/ eval \/ SoftYield \/ Finish \/ UNCHANGED vars
             \/ \E t \in Tools : register(t) \/ call(t) \/ start(t)
             \/ \E l \in Leases : issue_capability_lease(l) \/ eval_with_capability_lease(l)
             \/ \E q \in Promises : Drop(q)
    <2>1. pending'[p] = pending[p]
      BY <1>6, Zenon DEF eval, SoftYield, Finish, register, call, start, issue_capability_lease,
                  eval_with_capability_lease, Drop, vars, promiseVars, Held
    <2> QED BY Zenon, <1>1, <2>1
  <1>7. ASSUME NEW q \in Promises,
               \/ claim_external(q) \/ request_external_cancellation(q)
               \/ retry_external(q) \/ push_external_stream_chunk(q)
        PROVE  Stopped(pending'[p], pending[p])
    <2>1. \E e : Update(q, e) /\ pending[q].state \in {"ExternalQueued", "ExternalClaimed"}
      BY Zenon, <1>7 DEF claim_external, request_external_cancellation, retry_external,
                  push_external_stream_chunk, In, Live
    <2> QED BY Zenon, <1>3, <2>1
  <1>8. ASSUME NEW q \in Promises, await(q) \/ DeadlinePasses(q)
        PROVE  Stopped(pending'[p], pending[p])
    BY <1>2, <1>8, Zenon DEF await, DeadlinePasses, In
  <1>9. ASSUME \/ pump \/ expire_timed_out_tools
               \/ \E q \in Promises : confirm_external_cancellation(q)
               \/ \E q \in Promises, result \in Results \ {"TimedOut"} :
                     complete_external(q, result)
        PROVE  Stopped(pending'[p], pending[p])
    <2>1. \E ps, result : Resolve(ps, result)
      BY <1>9, Zenon DEF pump, expire_timed_out_tools, confirm_external_cancellation,
                  complete_external
    <2> QED BY Zenon, <1>4, <2>1
  <1> HIDE DEF Stopped
  <1> QED BY Zenon, <1>5, <1>6, <1>7, <1>8, <1>9 DEF Next, Script, Host

-----------------------------------------------------------------------------
(* The size of the table *)

INSTANCE FiniteSetTheorems

RoomInv == IsFiniteSet(Held) /\ Cardinality(Held) <= MaxPending

(* Only tool.start adds to the table, one promise at a time. *)
LEMMA OnlyStartAdds ==
    ASSUME PromiseInv, [Next]_vars
    PROVE  Held' \subseteq Held \/ (HasRoom /\ Held' = Held \cup {next + 1})
  <1>1. ASSUME NEW t \in Tools, start(t)
        PROVE  HasRoom /\ Held' = Held \cup {next + 1}
    BY Zenon, <1>1 DEF start, Held
  <1>2. ASSUME NEW ps, NEW result, Resolve(ps, result)
        PROVE  Held' \subseteq Held
    BY <1>2, Zenon DEF Resolve, Held
  <1>3. CASE \/ eval \/ SoftYield \/ Finish \/ UNCHANGED vars \/ collect_garbage
             \/ \E t \in Tools : register(t) \/ call(t)
             \/ \E l \in Leases : issue_capability_lease(l) \/ eval_with_capability_lease(l)
             \/ \E p \in Promises : Drop(p) \/ await(p) \/ DeadlinePasses(p)
    BY <1>3, Zenon DEF eval, SoftYield, Finish, register, call, issue_capability_lease,
                eval_with_capability_lease, Drop, vars, promiseVars, Held, await,
                DeadlinePasses, collect_garbage
  <1>4. CASE \E p \in Promises :
                \/ claim_external(p) \/ request_external_cancellation(p)
                \/ retry_external(p) \/ push_external_stream_chunk(p)
    BY <1>4, Zenon DEF claim_external, request_external_cancellation, retry_external,
                push_external_stream_chunk, Update, Held
  <1>5. CASE \/ pump \/ expire_timed_out_tools
             \/ \E p \in Promises : confirm_external_cancellation(p)
             \/ \E p \in Promises, result \in Results \ {"TimedOut"} :
                   complete_external(p, result)
    <2>1. \E ps, result : Resolve(ps, result)
      BY <1>5, Zenon DEF pump, expire_timed_out_tools, confirm_external_cancellation,
                  complete_external
    <2> QED BY Zenon, <1>2, <2>1
  <1> QED BY Zenon, <1>1, <1>3, <1>4, <1>5 DEF Next, Script, Host

(* A promise is added only where there is room for it. *)
LEMMA RoomNext == PromiseInv /\ RoomInv /\ [Next]_vars => RoomInv'
  <1> SUFFICES ASSUME PromiseInv, RoomInv, [Next]_vars PROVE RoomInv'
    BY Zenon
  <1>0. Cardinality(Held) \in Nat /\ MaxPending \in Nat
    BY Zenon, FS_CardinalityType, CapabilityRuntimeAssumption DEF RoomInv
  <1>1. CASE Held' \subseteq Held
    <2>1. IsFiniteSet(Held') /\ Cardinality(Held') <= Cardinality(Held)
      BY Zenon, <1>1, FS_Subset DEF RoomInv
    <2>2. Cardinality(Held') \in Nat
      BY Zenon, <2>1, FS_CardinalityType
    <2> QED BY <1>0, <2>1, <2>2 DEF RoomInv
  <1>2. CASE HasRoom /\ Held' = Held \cup {next + 1}
    <2>1. IsFiniteSet(Held') /\ (Cardinality(Held') = Cardinality(Held) \/
                                 Cardinality(Held') = Cardinality(Held) + 1)
      BY Zenon, <1>2, FS_AddElement DEF RoomInv
    <2> QED BY <1>0, <1>2, <2>1 DEF RoomInv, HasRoom
  <1> QED BY Zenon, <1>1, <1>2, OnlyStartAdds

-----------------------------------------------------------------------------
(* Theorems *)

(* The runtime starts with an empty catalog and an empty table. *)
LEMMA RuntimeInit == Init => LeaseInv /\ PromiseInv /\ RoomInv
  <1> SUFFICES ASSUME Init PROVE LeaseInv /\ PromiseInv /\ RoomInv
    BY Zenon
  <1>0. Held = {} /\ pending = [p \in {} |-> 0]
    BY Zenon DEF Init, Held
  <1>1. LeaseInv
    BY CapabilityRuntimeAssumption DEF Init, LeaseInv, LeaseSpansEvaluation
  <1>2. TypeInv
    <2>1. limits.promises \in 0..MaxPromises
      BY Zenon, CapabilityRuntimeAssumption DEF Init
    <2>2. pending \in [Held -> Entry]
      BY Zenon, <1>0
    <2> QED BY SMTT(30), <1>0, <2>1, <2>2, CapabilityRuntimeAssumption DEF Init, TypeInv
  <1>3. HeldInv /\ WaitInv /\ GoneInv
    BY <1>0 DEF Init, HeldInv, WaitInv, GoneInv
  <1>4. RoomInv
    BY SMTT(30), <1>0, FS_EmptySet, CapabilityRuntimeAssumption DEF RoomInv
  <1> QED BY Zenon, <1>1, <1>2, <1>3, <1>4 DEF PromiseInv

(* The inductive invariant of the capability runtime: every promise in the table
   is accounted for, every one that left it left a record, an evaluation waits for
   one promise, and it holds the lease it started with. *)
THEOREM RuntimeInvariant == Spec => [](LeaseInv /\ PromiseInv /\ RoomInv)
  BY RuntimeInit, LeaseNext, PromiseNext, RoomNext, PTL DEF Spec

(* Completion, cancellation, late answers, deadlines and the pump race for a
   deferred call, and exactly one of them ends it. *)
THEOREM OneOutcome == Spec => []OneOutcomePerCall
  <1>1. PromiseInv => OneOutcomePerCall
    <2> SUFFICES ASSUME PromiseInv PROVE OneOutcomePerCall
      BY Zenon
    <2>1. \A p \in Held : settled[p] <= 1 /\ (settled[p] = 1 <=> pending[p].state = "Ready")
      BY DEF PromiseInv, HeldInv, Sound
    <2>2. \A p \in Promises : p \notin Held => settled[p] <= 1
      BY Zenon DEF PromiseInv, GoneInv
    <2> QED BY <2>1, <2>2, Zenon DEF OneOutcomePerCall
  <1> QED BY <1>1, RuntimeInvariant, PTL

(* A call in the host's hands is pending or recorded, a handle the script holds is
   known, and the table is within max_pending_tools. *)
THEOREM PromisesAccounted == Spec => []PromisesAccountedFor
  <1>1. PromiseInv /\ RoomInv => PromisesAccountedFor
    <2> SUFFICES ASSUME PromiseInv, RoomInv PROVE PromisesAccountedFor
      BY Zenon
    <2>1. \A p \in claimed : p \in Promises
      BY CapabilityRuntimeAssumption DEF PromiseInv, TypeInv, Promises
    <2> QED BY Zenon, <2>1 DEF PromiseInv, TypeInv, GoneInv, RoomInv, PromisesAccountedFor
  <1> QED BY <1>1, RuntimeInvariant, PTL

(* An evaluation keeps its lease, and nothing but its lease, across suspensions. *)
THEOREM LeaseHeld == Spec => []LeaseSpansEvaluation
  <1>1. LeaseInv => LeaseSpansEvaluation
    BY Zenon DEF LeaseInv
  <1> QED BY <1>1, RuntimeInvariant, PTL

(* An answer that comes after the deadline is a timeout. *)
THEOREM DeadlineFinal == Spec => []DeadlineDecides
  <1>1. PromiseInv => DeadlineDecides
    BY Zenon DEF PromiseInv, HeldInv, Sound, DeadlineDecides
  <1> QED BY <1>1, RuntimeInvariant, PTL

(* A call that is to be cancelled makes no new attempt and streams no more. *)
THEOREM CancellationFinal == Spec => CancellationStops
  BY CancellationStep, RuntimeInvariant, PTL DEF Spec, CancellationStops

(* Without the soft time budget, a suspended evaluation waits for exactly one
   unresolved promise: the deadlock that a soft pause makes is the only one. *)
THEOREM OnlySoftPausesStick == Spec => [](~limits.soft => SuspendedIsResumable)
  <1>1. PromiseInv => (~limits.soft => SuspendedIsResumable)
    BY DEF PromiseInv, HeldInv, Sound, WaitInv, SuspendedIsResumable
  <1> QED BY <1>1, RuntimeInvariant, PTL

=============================================================================
