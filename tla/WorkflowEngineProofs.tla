------------------------ MODULE WorkflowEngineProofs ------------------------
(***************************************************************************)
(* The safety properties of WorkflowEngine, for plans of any length, any   *)
(* number of calls, engines and approvals, both modes and both leasings.   *)
(*                                                                         *)
(* No property is inductive by itself: what a step may run under depends   *)
(* on approvals issued and checkpoints stored earlier, and which calls may *)
(* be queued on which of them the script awaits and on an evaluation the   *)
(* host may hold.  EngineInv says what each of these carries.              *)
(***************************************************************************)
EXTENDS WorkflowEngine, TLAPS

Contexts == SUBSET (0 .. NSteps)

Engines ==
    [id : Nat, pc : {"idle", "running", "suspended"}, step : 0 .. NSteps,
     lease : Int, leases : Seq(Int), data : Contexts, last : SUBSET Contexts,
     global : SUBSET Contexts, reported : Int, base : Nat, next : Nat]

CallRecords ==
    [id : Nat, step : Nat, ord : Int,
     state : {"queued", "claimed", "cancel_requested"}, awaited : BOOLEAN]

Statuses == {"suspended", "succeeded", "failed", "unusable"}

(* What a count of completed steps and a dataflow context stand for *)
Earned(completed, data) ==
    /\ completed \in 0 .. NSteps
    /\ data \in Contexts
    /\ Prefix(completed) \subseteq done
    /\ Dataflow => data = Prefix(completed)

TypeInv ==
    /\ engine \in Engines
    /\ engine.base <= engine.next
    /\ calls \subseteq CallRecords

(* The execution under way and what the last one left behind *)
ProgressInv ==
    /\ engine.pc # "idle" => Earned(engine.step, engine.data)
    /\ engine.pc = "running" => engine.leases = Leases(engine.step + 1)
    /\ engine.pc = "suspended" =>
          /\ engine.step < NSteps
          /\ engine.lease = IF style.leasing = "shared" THEN Shared ELSE engine.step + 1
          /\ engine.leases = IF style.leasing = "shared" THEN <<>>
                             ELSE Leases(engine.step + 2)
          /\ engine.reported = engine.step
    /\ engine.pc # "running" /\ engine.reported # NoCount =>
          engine.reported \in 0 .. NSteps /\ Prefix(engine.reported) \subseteq done
    /\ Dataflow /\ engine.pc = "suspended" => engine.global = {engine.data}
    /\ Dataflow /\ engine.pc = "idle" =>
          /\ engine.global = {}
          /\ engine.reported # NoCount => engine.last = {Prefix(engine.reported)}

(* What a host may hand back to an engine *)
TokensInv ==
    /\ \A a \in approvals : /\ Earned(a.completed, a.data)
                            /\ a.leases = Leases(a.completed + 1)
    /\ \A c \in saved : Earned(c.completed, c.data)

(* At most one call is awaited, only in a suspended step, and by none that the
   host holds the end of. *)
CallsInv ==
    /\ QueuedCallsAreCurrent
    /\ \A c, d \in calls : c.awaited /\ d.awaited => c = d
    /\ \A c \in calls : c.awaited => engine.pc = "suspended"
    /\ \A h \in held :
          /\ h.status \in Statuses
          /\ h.status # "suspended" =>
                engine.pc = "suspended" /\ \A c \in calls : ~c.awaited

EngineInv == TypeInv /\ ProgressInv /\ TokensInv /\ CallsInv

-----------------------------------------------------------------------------
(* Helpers *)

(* Leases are a sequence of lease names, for the step after the last one
   too. *)
LEMMA LeasesType ==
    ASSUME NEW first \in 1 .. NSteps + 1
    PROVE  /\ Leases(first) \in Seq(Int)
           /\ style.leasing # "shared" => Len(Leases(first)) = NSteps - first + 1
  <1>1. CASE style.leasing = "shared"
    BY <1>1 DEF Leases, Shared
  <1>2. CASE style.leasing # "shared"
    BY <1>2, EngineAssumption DEF Leases
  <1> QED BY Zenon, <1>1, <1>2

(* The first per-step lease is the step's own and the rest are those of the
   steps after it (take_for_step). *)
LEMMA LeasesSplit ==
    ASSUME NEW first \in 1 .. NSteps, style.leasing # "shared"
    PROVE  /\ Leases(first) \in Seq(Int)
           /\ Leases(first) # <<>>
           /\ Head(Leases(first)) = first
           /\ Tail(Leases(first)) = Leases(first + 1)
  <1>1. /\ Leases(first) = [i \in 1 .. NSteps - first + 1 |-> first + i - 1]
        /\ Leases(first + 1) = [i \in 1 .. NSteps - first |-> first + i]
    BY EngineAssumption DEF Leases
  <1>2. Leases(first) \in Seq(Int) /\ Len(Leases(first)) = NSteps - first + 1
    BY <1>1, EngineAssumption
  <1>3. Leases(first) # <<>> /\ Head(Leases(first)) = first
    BY SMTT(30), <1>1, <1>2, EngineAssumption
  <1>4. /\ Tail(Leases(first)) \in Seq(Int)
        /\ Len(Tail(Leases(first))) = NSteps - first
        /\ \A i \in 1 .. NSteps - first : Tail(Leases(first))[i] = Leases(first)[i + 1]
    BY <1>2, <1>3, EngineAssumption
  <1>5. Leases(first + 1) \in Seq(Int) /\ Len(Leases(first + 1)) = NSteps - first
    <2>1. first + 1 \in 1 .. NSteps + 1 /\ NSteps - (first + 1) + 1 = NSteps - first
      BY EngineAssumption
    <2> QED BY Zenon, <2>1, LeasesType
  <1>6. \A i \in 1 .. NSteps - first : Tail(Leases(first))[i] = Leases(first + 1)[i]
    BY SMTT(30), <1>1, <1>4, EngineAssumption
  <1>7. Tail(Leases(first)) = Leases(first + 1)
    BY SMTT(30), <1>4, <1>5, <1>6
  <1> QED BY Zenon, <1>2, <1>3, <1>7

(* The calls an evaluation leaves: those it started are the step's own, the
   one it awaits is the only one awaited, and it awaits none unless it is
   suspended. *)
CallsFit(e, status, cs) ==
    /\ cs \subseteq CallRecords
    /\ \A c \in cs : c.state = "queued" => c.step = e.step + 1 /\ c.id >= e.base
    /\ \A c, d \in cs : c.awaited /\ d.awaited => c = d
    /\ status # "suspended" => \A c \in cs : ~c.awaited

(* A slice r of the step e that started n calls *)
SliceForm(e, cs, n, r) ==
    LET now == cs \cup Started(e, n)
    IN  /\ r.next = e.next + n
        /\ \/ r.status \in {"succeeded", "failed", "unusable"} /\ r.calls = now
           \/ r.status = "suspended" /\ r.calls = now
           \/ r.status = "suspended" /\ \E c \in now : r.calls = Await(now, c)

(* Every slice ends in one of three ways: the step is over, it is paused, or
   it awaits a call. *)
LEMMA SliceForms ==
    ASSUME NEW e, NEW cs, NEW r \in Slices(e, cs)
    PROVE  \E n \in 0 .. MaxStepCalls :
              e.next - e.base + n <= MaxStepCalls /\ SliceForm(e, cs, n, r)
  <1> DEFINE Bounded == {k \in 0 .. MaxStepCalls : /\ e.next - e.base + k <= MaxStepCalls
                                                  /\ e.next + k - 1 <= MaxCalls}
             Now(n) == cs \cup Started(e, n)
             Ends == {"succeeded", "failed"} \cup (IF Dataflow THEN {"unusable"} ELSE {})
             Over(n) == {[status |-> s, calls |-> Now(n), next |-> e.next + n] : s \in Ends}
             Waits(n) == {Await(Now(n), c) : c \in {d \in Now(n) : d.id >= e.base}}
                         \cup (IF style.soft THEN {Now(n)} ELSE {})
             Waiting(n) == {[status |-> "suspended", calls |-> waiting, next |-> e.next + n] :
                               waiting \in Waits(n)}
  <1>1. Slices(e, cs) = UNION {Over(n) \cup Waiting(n) : n \in Bounded}
    BY Zenon DEF Slices
  <1> HIDE DEF Bounded, Over, Waiting
  <1>2. PICK n \in Bounded : r \in Over(n) \/ r \in Waiting(n)
    BY Zenon, <1>1
  <1>3. n \in 0 .. MaxStepCalls /\ e.next - e.base + n <= MaxStepCalls
    BY Zenon DEF Bounded
  <1> HIDE DEF Now, Ends, Waits
  <1>4. CASE r \in Over(n)
    <2>1. PICK s \in Ends : r = [status |-> s, calls |-> Now(n), next |-> e.next + n]
      BY Zenon, <1>4 DEF Over
    <2>2. s \in {"succeeded", "failed", "unusable"}
      BY Zenon DEF Ends
    <2> QED BY Zenon, <1>3, <2>1, <2>2 DEF SliceForm, Now
  <1>5. CASE r \in Waiting(n)
    <2>1. PICK w \in Waits(n) : r = [status |-> "suspended", calls |-> w, next |-> e.next + n]
      BY Zenon, <1>5 DEF Waiting
    <2>2. w = Now(n) \/ \E c \in Now(n) : w = Await(Now(n), c)
      BY Zenon DEF Waits
    <2> QED BY Zenon, <1>3, <2>1, <2>2 DEF SliceForm, Now
  <1> QED BY Zenon, <1>2, <1>4, <1>5

(* A slice that starts from calls nobody awaits leaves calls that fit. *)
LEMMA SliceFits ==
    ASSUME NEW e \in Engines, NEW cs,
           e.base <= e.next,
           CallsFit(e, "none", cs),
           NEW r \in Slices(e, cs)
    PROVE  /\ r.status \in Statuses
           /\ r.next \in Nat
           /\ r.next >= e.next
           /\ CallsFit(e, r.status, r.calls)
  <1>1. PICK n \in 0 .. MaxStepCalls : SliceForm(e, cs, n, r)
    BY Zenon, SliceForms
  <1> DEFINE now == cs \cup Started(e, n)
  <1>2. e.next \in Nat /\ e.base \in Nat /\ e.step \in Nat /\ n \in Nat
    BY EngineAssumption DEF Engines
  <1>3. CallsFit(e, "none", now)
    <2>1. \A i \in e.next .. e.next + n - 1 :
             i \in Nat /\ i >= e.base /\ i - e.base + 1 \in Int
      BY <1>2
    <2>2. \A c \in Started(e, n) : /\ c \in CallRecords
                                   /\ c.step = e.step + 1
                                   /\ c.id >= e.base
                                   /\ c.awaited = FALSE
      <3> TAKE c \in Started(e, n)
      <3>1. PICK i \in e.next .. e.next + n - 1 :
               c = [id |-> i, step |-> e.step + 1, ord |-> i - e.base + 1,
                    state |-> "queued", awaited |-> FALSE]
        BY Zenon DEF Started
      <3>2. e.step + 1 \in Nat
        BY <1>2
      <3> QED BY Zenon, <2>1, <3>1, <3>2 DEF CallRecords
    <2> QED BY Zenon, <2>2 DEF CallsFit
  <1>4. r.next = e.next + n /\ r.next \in Nat /\ r.next >= e.next
    <2>1. r.next = e.next + n
      BY Zenon, <1>1 DEF SliceForm
    <2> QED BY <1>2, <2>1
  <1>5. CASE r.status \in Statuses /\ r.calls = now
    BY Zenon, <1>3, <1>4, <1>5 DEF CallsFit
  <1>6. CASE r.status = "suspended" /\ \E c \in now : r.calls = Await(now, c)
    <2>1. PICK c \in now : r.calls = Await(now, c)
      BY Zenon, <1>6
    <2> DEFINE a == [c EXCEPT !.awaited = TRUE]
    <2>2. c \in CallRecords
      BY Zenon, <1>3 DEF CallsFit
    <2>3. a \in CallRecords /\ a.step = c.step /\ a.id = c.id /\ a.state = c.state
      BY Zenon, <2>2 DEF CallRecords
    <2>4. r.calls = (now \ {c}) \cup {a}
      BY Zenon, <2>1 DEF Await
    <2>5. CallsFit(e, "suspended", r.calls)
      <3> HIDE DEF now, a
      <3>1. \A d \in now : ~d.awaited
        BY Zenon, <1>3 DEF CallsFit
      <3>2. r.calls \subseteq CallRecords
        BY Zenon, <1>3, <2>3, <2>4 DEF CallsFit
      <3>3. \A d \in r.calls : d.state = "queued" => d.step = e.step + 1 /\ d.id >= e.base
        BY Zenon, <1>3, <2>3, <2>4 DEF CallsFit
      <3> QED BY Zenon, <2>4, <3>1, <3>2, <3>3 DEF CallsFit
    <2> QED BY Zenon, <1>4, <1>6, <2>5 DEF Statuses
  <1> QED BY Zenon, <1>1, <1>5, <1>6 DEF SliceForm, Statuses

(* A step that leaves the calls, the engine and the held evaluation alone
   keeps what is said of them (approvals and checkpoints). *)
LEMMA TokensKeep ==
    ASSUME TokensInv, style' = style, done \subseteq done',
           saved' = saved,
           \A a \in approvals' :
              a \in approvals \/ (/\ Earned(a.completed, a.data)
                                 /\ a.leases = Leases(a.completed + 1))
    PROVE  TokensInv'
  <1>1. \A n, d : Earned(n, d) => Earned(n, d)'
    BY Zenon DEF Earned, Dataflow, Contexts
  <1>2. \A n : Leases(n)' = Leases(n)
    BY Zenon DEF Leases
  <1> QED BY Zenon, <1>1, <1>2 DEF TokensInv

(* The engine as a step's evaluation is about to report to it *)
Evaluating(e) ==
    /\ e \in Engines
    /\ e.base <= e.next
    /\ e.step < NSteps
    /\ Earned(e.step, e.data)
    /\ e.lease = IF style.leasing = "shared" THEN Shared ELSE e.step + 1
    /\ e.leases = IF style.leasing = "shared" THEN <<>> ELSE Leases(e.step + 2)
    /\ Dataflow => e.global = {e.data}

(* What drive_step makes of the engine, in each of its three branches. *)
LEMMA DriveEngine ==
    ASSUME NEW e, Evaluating(e), NEW r, r.status \in Statuses, Drive(e, r),
           style' = style
    PROVE  /\ engine' \in Engines
           /\ engine'.base = e.base /\ engine'.next = e.next
           /\ ProgressInv'
           /\ engine'.step = e.step \/ r.status = "succeeded"
           /\ engine'.pc = "suspended" <=> r.status = "suspended"
  <1> DEFINE f == engine'
  <1>0. /\ f = drive_step(e, r)
        /\ done' = done \cup (IF r.status = "succeeded" THEN {e.step + 1} ELSE {})
    BY Zenon DEF Drive
  <1>1. /\ e \in Engines /\ e.step \in Int /\ e.step + 1 \in 0 .. NSteps
        /\ NoCount = -1 /\ NoLease \in Int
    BY SMTT(30), EngineAssumption DEF Evaluating, Engines, NoCount, NoLease
  <1>p. /\ \A n, d : Earned(n, d) => Earned(n, d)'
        /\ \A n : Leases(n)' = Leases(n)
        /\ Dataflow' = Dataflow
    BY Zenon, <1>0 DEF Earned, Dataflow, Contexts, Leases
  <1>2. CASE r.status = "suspended"
    <2>1. f = [e EXCEPT !.pc = "suspended", !.reported = e.step]
      BY Zenon, <1>0, <1>2 DEF drive_step
    <2>2. f \in Engines /\ f.pc = "suspended" /\ f.reported = e.step
          /\ f.step = e.step /\ f.lease = e.lease /\ f.leases = e.leases
          /\ f.data = e.data /\ f.global = e.global
          /\ f.base = e.base /\ f.next = e.next
      BY Zenon, <1>1, <2>1 DEF Engines
    <2>3. Earned(e.step, e.data)'
      BY Zenon, <1>p DEF Evaluating
    <2>4. ProgressInv'
      BY Zenon, <1>1, <1>p, <2>2, <2>3 DEF Evaluating, ProgressInv, Earned
    <2> QED BY Zenon, <1>2, <2>2, <2>4
  <1>3. CASE r.status = "succeeded"
    <2> DEFINE data == IF Dataflow THEN e.data \cup {e.step + 1} ELSE e.data
               rest == IF style.leasing = "shared" THEN <<e.lease>> ELSE e.leases
    <2>1. f = complete_step([e EXCEPT !.pc = "running", !.step = @ + 1, !.global = {},
                                      !.data = data])
      BY Zenon, <1>0, <1>3 DEF drive_step
    <2>2. f = [e EXCEPT !.pc = "running", !.step = @ + 1, !.global = {},
                        !.data = data, !.lease = NoLease, !.leases = rest]
      BY Zenon, <1>1, <2>1 DEF complete_step, Engines
    <2>3. data \in Contexts
      BY Zenon, <1>1 DEF Engines, Contexts
    <2>4. rest \in Seq(Int) /\ rest = Leases(e.step + 2)
      <3>1. CASE style.leasing = "shared"
        BY <3>1 DEF Evaluating, Leases, Shared
      <3>2. CASE style.leasing # "shared"
        BY Zenon, <3>2 DEF Evaluating, Engines
      <3> QED BY Zenon, <3>1, <3>2
    <2>5. f \in Engines /\ f.pc = "running" /\ f.step = e.step + 1
          /\ f.leases = rest /\ f.data = data /\ f.base = e.base /\ f.next = e.next
      <3> HIDE DEF data, rest
      <3> QED BY Zenon, <1>1, <2>2, <2>3, <2>4 DEF Engines
    <2>6. Earned(engine.step, engine.data)'
      <3>1. Prefix(e.step + 1) = Prefix(e.step) \cup {e.step + 1}
        BY SMTT(30), <1>1, EngineAssumption DEF Evaluating, Engines, Prefix
      <3>2. Earned(e.step, e.data) /\ done' = done \cup {e.step + 1}
        BY Zenon, <1>0, <1>3 DEF Evaluating
      <3>3. Prefix(e.step + 1) \subseteq done'
        BY Zenon, <3>1, <3>2 DEF Earned
      <3>4. Dataflow => data = Prefix(e.step + 1)
        BY Zenon, <3>1, <3>2 DEF Earned
      <3> HIDE DEF data
      <3> QED BY Zenon, <1>1, <1>p, <2>3, <2>5, <3>3, <3>4 DEF Earned, Contexts
    <2>7. (engine.leases = Leases(engine.step + 1))'
      <3>1. e.step + 1 + 1 = e.step + 2
        BY <1>1
      <3> HIDE DEF data, rest
      <3> QED BY Zenon, <1>p, <2>4, <2>5, <3>1
    <2>8. ProgressInv'
      <3> HIDE DEF data, rest
      <3> QED BY Zenon, <2>5, <2>6, <2>7 DEF ProgressInv
    <2> QED BY Zenon, <1>3, <2>5, <2>8
  <1>4. CASE r.status \notin {"suspended", "succeeded"}
    <2>1. f = Ended(e, e.step)
      BY Zenon, <1>0, <1>4 DEF drive_step
    <2>2. f \in Engines /\ f.pc = "idle" /\ f.reported = e.step /\ f.step = e.step
          /\ f.last = (IF Dataflow THEN {e.data} ELSE e.last) /\ f.global = {}
          /\ f.base = e.base /\ f.next = e.next
      <3> DEFINE last == IF Dataflow THEN {e.data} ELSE e.last
      <3>1. f = [e EXCEPT !.pc = "idle", !.lease = NoLease, !.leases = <<>>,
                          !.last = last, !.global = {}, !.reported = e.step]
        BY Zenon, <2>1 DEF Ended
      <3>2. last \in SUBSET Contexts /\ {} \in SUBSET Contexts /\ <<>> \in Seq(Int)
        BY <1>1 DEF Engines
      <3> HIDE DEF last
      <3>3. f \in Engines /\ f.pc = "idle" /\ f.reported = e.step /\ f.step = e.step
            /\ f.last = last /\ f.global = {} /\ f.base = e.base /\ f.next = e.next
        BY Zenon, <1>1, <3>1, <3>2 DEF Engines
      <3> QED BY Zenon, <3>3 DEF last
    <2>3. Earned(e.step, e.data)'
      BY <1>p DEF Evaluating
    <2>4. ProgressInv'
      BY Zenon, <1>1, <1>p, <2>2, <2>3 DEF ProgressInv, Earned
    <2> QED BY Zenon, <1>4, <2>2, <2>4
  <1> QED BY Zenon, <1>2, <1>3, <1>4

(* A report applied to a step under way keeps the whole invariant. *)
LEMMA DriveKeeps ==
    ASSUME TokensInv, NEW e, Evaluating(e), NEW r, r.status \in Statuses,
           CallsFit(e, r.status, r.calls), Drive(e, r),
           UNCHANGED <<style, approvals, saved>>,
           \A h \in held' : h.status = "suspended"
    PROVE  EngineInv'
  <1>1. /\ engine' \in Engines
        /\ engine'.base = e.base /\ engine'.next = e.next
        /\ ProgressInv'
        /\ engine'.step = e.step \/ r.status = "succeeded"
        /\ engine'.pc = "suspended" <=> r.status = "suspended"
    BY Zenon, DriveEngine
  <1>2. /\ calls' = IF r.status = "suspended" THEN r.calls
                    ELSE {c \in r.calls : c.state # "queued"}
        /\ done \subseteq done'
    BY Zenon DEF Drive, cancel_unawaited_external_work
  <1>3. TypeInv'
    BY Zenon, <1>1, <1>2 DEF TypeInv, Evaluating, CallsFit, Engines, CallRecords, Contexts
  <1>4. TokensInv'
    BY Zenon, <1>2, TokensKeep
  <1>5. QueuedCallsAreCurrent'
    BY Zenon, <1>1, <1>2 DEF QueuedCallsAreCurrent, Queued, CallsFit
  <1>6. CallsInv'
    BY Zenon, <1>1, <1>2, <1>5 DEF CallsInv, CallsFit, Statuses
  <1> QED BY Zenon, <1>1, <1>3, <1>4, <1>6 DEF EngineInv

(* A suspended engine is ready for the report of the evaluation that ends the
   call it awaits, whatever ids that evaluation has used. *)
LEMMA SuspendedEvaluating ==
    ASSUME EngineInv, engine.pc = "suspended", NEW n \in Nat, n >= engine.next
    PROVE  Evaluating([engine EXCEPT !.next = n])
  <1> DEFINE e == [engine EXCEPT !.next = n]
  <1>1. engine \in Engines /\ engine.base <= engine.next
    BY Zenon DEF EngineInv, TypeInv
  <1>2. /\ e \in Engines /\ e.base = engine.base /\ e.next = n /\ e.step = engine.step
        /\ e.data = engine.data /\ e.lease = engine.lease
        /\ e.leases = engine.leases /\ e.global = engine.global
    BY Zenon, <1>1 DEF Engines
  <1>3. e.base <= e.next
    BY SMTT(30), <1>1, <1>2 DEF Engines
  <1> HIDE DEF e
  <1>4. Evaluating(e)
    BY Zenon, <1>2, <1>3 DEF EngineInv, ProgressInv, Evaluating
  <1> QED BY Zenon, <1>4 DEF e

(* The engine that takes a step's lease and enters its evaluation is ready for
   the report. *)
LEMMA EnteringEvaluating ==
    ASSUME EngineInv, engine.pc = "running", engine.step < NSteps
    PROVE  /\ Entering \in Engines
           /\ Entering.base = engine.next /\ Entering.next = engine.next
           /\ Entering.step = engine.step
           /\ \A n \in Nat : n >= engine.next =>
                 Evaluating([Entering EXCEPT !.next = n])
  <1> DEFINE g == IF Dataflow THEN {engine.data} ELSE {}
  <1>1. /\ engine \in Engines /\ Earned(engine.step, engine.data)
        /\ engine.leases = Leases(engine.step + 1)
        /\ engine.step + 1 \in 1 .. NSteps /\ engine.step \in Int
    BY SMTT(30), EngineAssumption DEF EngineInv, TypeInv, ProgressInv, Engines
  <1>2. /\ Head(engine.leases) = IF style.leasing = "shared" THEN Shared
                                 ELSE engine.step + 1
        /\ Tail(engine.leases) = IF style.leasing = "shared" THEN <<>>
                                 ELSE Leases(engine.step + 2)
        /\ Head(engine.leases) \in Int
        /\ Tail(engine.leases) \in Seq(Int)
    <2>1. CASE style.leasing = "shared"
      <3>1. engine.leases = <<Shared>> /\ Shared = 0
        BY Zenon, <1>1, <2>1 DEF Leases, Shared
      <3>2. <<Shared>> \in Seq(Int) /\ <<Shared>> # <<>> /\ Len(<<Shared>>) = 1
            /\ Head(<<Shared>>) = Shared
        BY <3>1
      <3>3. Tail(<<Shared>>) \in Seq(Int) /\ Len(Tail(<<Shared>>)) = 0
        BY <3>2
      <3>4. Tail(<<Shared>>) = <<>>
        BY <3>3
      <3> QED BY <2>1, <3>1, <3>2, <3>3, <3>4
    <2>2. CASE style.leasing # "shared"
      <3>1. engine.step + 1 + 1 = engine.step + 2 /\ engine.step + 2 \in 1 .. NSteps + 1
        BY <1>1, EngineAssumption
      <3>2. Leases(engine.step + 2) \in Seq(Int)
        BY Zenon, <3>1, LeasesType
      <3>3. /\ Head(Leases(engine.step + 1)) = engine.step + 1
            /\ Tail(Leases(engine.step + 1)) = Leases(engine.step + 1 + 1)
        BY Zenon, <1>1, <2>2, LeasesSplit
      <3>4. Leases(engine.step + 1 + 1) = Leases(engine.step + 2)
        BY Zenon, <3>1
      <3>5. /\ Head(engine.leases) = engine.step + 1
            /\ Tail(engine.leases) = Leases(engine.step + 2)
        BY <1>1, <3>3, <3>4, Zenon
      <3>6. engine.step + 1 \in Int
        BY <1>1
      <3> QED BY <2>2, <3>2, <3>5, <3>6, Zenon
    <2> QED BY Zenon, <2>1, <2>2
  <1>3. Entering = [engine EXCEPT !.lease = Head(engine.leases),
                                  !.leases = Tail(engine.leases),
                                  !.base = engine.next, !.global = g]
    BY Zenon, <1>1 DEF Entering, take_for_step, Engines
  <1>4. g \in SUBSET Contexts
    BY Zenon, <1>1 DEF Engines
  <1> HIDE DEF g
  <1>5. /\ Entering \in Engines /\ Entering.base = engine.next
        /\ Entering.next = engine.next /\ Entering.step = engine.step
        /\ Entering.data = engine.data /\ Entering.lease = Head(engine.leases)
        /\ Entering.leases = Tail(engine.leases) /\ Entering.global = g
    BY Zenon, <1>1, <1>2, <1>3, <1>4 DEF Engines
  <1>6. ASSUME NEW n \in Nat, n >= engine.next
        PROVE  Evaluating([Entering EXCEPT !.next = n])
    <2> DEFINE e == [Entering EXCEPT !.next = n]
    <2>1. /\ e \in Engines /\ e.base = engine.next /\ e.next = n
          /\ e.step = engine.step /\ e.data = engine.data
          /\ e.lease = Head(engine.leases) /\ e.leases = Tail(engine.leases)
          /\ e.global = g
      BY Zenon, <1>5 DEF Engines
    <2>2. e.base <= e.next
      BY Zenon, <1>1, <1>6, <2>1 DEF Engines
    <2> HIDE DEF e
    <2>3. Evaluating(e)
      BY Zenon, <1>1, <1>2, <2>1, <2>2 DEF Evaluating, g
    <2> QED BY Zenon, <2>3 DEF e
  <1> QED BY Zenon, <1>5, <1>6

-----------------------------------------------------------------------------
(* One lemma for each group of actions *)

(* An approval carries a completed prefix and the leases of what remains. *)
LEMMA IssueKeeps ==
    ASSUME EngineInv, NEW n, NEW d, NEW leases, Earned(n, d), leases = Leases(n + 1),
           Issue(Approval(n, d, leases))
    PROVE  EngineInv'
  <1>1. UNCHANGED <<style, engine, calls, held, saved, done>>
    BY Zenon DEF Issue
  <1>2. \A a \in approvals' :
           a \in approvals \/ (Earned(a.completed, a.data) /\ a.leases = Leases(a.completed + 1))
    BY DEF Issue, Approval
  <1>3. TokensInv'
    BY Zenon, <1>1, <1>2, TokensKeep DEF EngineInv
  <1>4. TypeInv'
    BY Zenon, <1>1 DEF EngineInv, TypeInv
  <1>5. ProgressInv'
    BY Zenon, <1>1 DEF EngineInv, ProgressInv, Earned, Dataflow, Leases
  <1>6. CallsInv'
    BY Zenon, <1>1 DEF EngineInv, CallsInv, QueuedCallsAreCurrent, Queued
  <1> QED BY Zenon, <1>3, <1>4, <1>5, <1>6 DEF EngineInv

(* approve, approve_dataflow, approve_resume, approve_dataflow_resume *)
LEMMA ApprovalsKeep ==
    ASSUME EngineInv, approve \/ approve_resume
    PROVE  EngineInv'
  <1>1. CASE approve
    <2>1. Earned(0, {})
      BY EngineAssumption DEF Earned, Contexts, Prefix
    <2> QED BY <1>1, <2>1, IssueKeeps DEF approve
  <1>2. CASE approve_resume
    <2>1. PICK c \in saved, first \in 1 .. NSteps + 1 :
             /\ LeaseCountHolds(Leases(first), c.completed)
             /\ style.leasing = "shared" => first = 1
             /\ Issue(Approval(c.completed, c.data, Leases(first)))
      BY Zenon, <1>2 DEF approve_resume
    <2>2. Earned(c.completed, c.data)
      BY Zenon DEF EngineInv, TokensInv
    <2>3. Leases(first) = Leases(c.completed + 1)
      <3>1. CASE style.leasing = "shared"
        BY Zenon, <3>1 DEF Leases
      <3>2. CASE style.leasing # "shared"
        <4>1. NSteps - first + 1 = NSteps - c.completed
          BY Zenon, <2>1, <3>2, LeasesType DEF LeaseCountHolds
        <4>2. first = c.completed + 1
          BY <2>2, <4>1, EngineAssumption DEF Earned
        <4> QED BY Zenon, <4>2
      <3> QED BY Zenon, <3>1, <3>2
    <2> QED BY Zenon, <2>1, <2>2, <2>3, IssueKeeps
  <1> QED BY Zenon, <1>1, <1>2

(* execute, execute_dataflow, resume, resume_dataflow *)
LEMMA ExecuteKeeps ==
    ASSUME EngineInv, NEW a \in approvals, execute(a)
    PROVE  EngineInv'
  <1>1. UNCHANGED <<style, calls, held, saved, done>> /\ approvals' \subseteq approvals
    BY Zenon DEF execute
  <1>2. TokensInv'
    BY Zenon, <1>1, TokensKeep DEF EngineInv
  <1>3. CASE engine' = engine
    <2>1. TypeInv' /\ ProgressInv'
      BY Zenon, <1>1, <1>3 DEF EngineInv, TypeInv, ProgressInv, Earned, Dataflow, Leases
    <2>2. CallsInv'
      BY Zenon, <1>1, <1>3 DEF EngineInv, CallsInv, QueuedCallsAreCurrent, Queued
    <2> QED BY Zenon, <1>2, <2>1, <2>2 DEF EngineInv
  <1>4. CASE engine' # engine
    <2>1. /\ engine.pc = "idle"
          /\ engine' = [engine EXCEPT !.pc = "running", !.step = a.completed,
                                      !.leases = a.leases, !.data = a.data,
                                      !.last = {}, !.reported = NoCount]
      BY Zenon, <1>4 DEF execute
    <2>2. Earned(a.completed, a.data) /\ a.leases = Leases(a.completed + 1)
      BY Zenon DEF EngineInv, TokensInv
    <2>3. a.completed \in 0 .. NSteps /\ a.data \in Contexts /\ NoCount \in Int
      BY <2>2 DEF Earned, NoCount
    <2>4. a.leases \in Seq(Int)
      <3>1. a.completed + 1 \in 1 .. NSteps + 1
        BY <2>3, EngineAssumption
      <3> QED BY Zenon, <2>2, <3>1, LeasesType
    <2>5. engine \in Engines /\ engine.base <= engine.next /\ calls \subseteq CallRecords
      BY Zenon DEF EngineInv, TypeInv
    <2>6. /\ engine' \in Engines /\ engine'.pc = "running"
          /\ engine'.step = a.completed /\ engine'.leases = a.leases
          /\ engine'.data = a.data
          /\ engine'.base = engine.base /\ engine'.next = engine.next
      BY Zenon, <2>1, <2>3, <2>4, <2>5 DEF Engines
    <2>7. TypeInv'
      BY Zenon, <1>1, <2>5, <2>6 DEF TypeInv, Engines, Contexts, CallRecords
    <2>8. ProgressInv'
      BY Zenon, <1>1, <2>2, <2>6 DEF ProgressInv, Earned, Dataflow, Leases
    <2>9. CallsInv'
      BY Zenon, <1>1, <2>1, <2>6 DEF EngineInv, CallsInv, QueuedCallsAreCurrent, Queued
    <2> QED BY Zenon, <1>2, <2>7, <2>8, <2>9 DEF EngineInv
  <1> QED BY Zenon, <1>3, <1>4

(* An execution that ends without another evaluation *)
LEMMA EndedKeeps ==
    ASSUME EngineInv, engine.pc = "running",
           NEW n \in {NoCount, engine.step}, engine' = Ended(engine, n),
           UNCHANGED <<style, calls, held, approvals, saved, done>>
    PROVE  EngineInv'
  <1> DEFINE last == IF Dataflow THEN {engine.data} ELSE engine.last
  <1>1. /\ engine \in Engines /\ engine.base <= engine.next /\ calls \subseteq CallRecords
        /\ Earned(engine.step, engine.data)
    BY Zenon DEF EngineInv, TypeInv, ProgressInv
  <1>2. /\ last \in SUBSET Contexts /\ {} \in SUBSET Contexts /\ <<>> \in Seq(Int)
        /\ n \in Int /\ NoLease \in Int
    BY <1>1 DEF Engines, NoCount, NoLease
  <1>3. engine' = [engine EXCEPT !.pc = "idle", !.lease = NoLease, !.leases = <<>>,
                                 !.last = last, !.global = {}, !.reported = n]
    BY Zenon DEF Ended
  <1> HIDE DEF last
  <1>4. /\ engine' \in Engines /\ engine'.pc = "idle" /\ engine'.reported = n
        /\ engine'.last = last /\ engine'.global = {}
        /\ engine'.base = engine.base /\ engine'.next = engine.next
    <2>1. engine \in Engines /\ n \in Int /\ NoLease \in Int
      BY Zenon, <1>1, <1>2
    <2>2. /\ engine'.pc = "idle" /\ engine'.reported = n
          /\ engine'.last = last /\ engine'.global = {}
          /\ engine'.base = engine.base /\ engine'.next = engine.next
      BY Zenon, <1>3, <2>1 DEF Engines
    <2>3. engine' \in Engines
      BY ZenonT(30), <1>2, <1>3, <2>1 DEF Engines
    <2> QED BY Zenon, <2>2, <2>3
  <1>5. TypeInv'
    BY Zenon, <1>1, <1>4 DEF TypeInv, Engines, Contexts, CallRecords
  <1>6. ProgressInv'
    BY Zenon, <1>1, <1>4 DEF ProgressInv, Earned, Dataflow, last
  <1>7. TokensInv'
    BY Zenon, TokensKeep DEF EngineInv
  <1>8. CallsInv'
    BY Zenon, <1>4 DEF EngineInv, CallsInv, QueuedCallsAreCurrent, Queued
  <1> QED BY Zenon, <1>5, <1>6, <1>7, <1>8 DEF EngineInv

(* The step loop: execute_from and execute_dataflow_from *)
LEMMA AdvanceKeeps ==
    ASSUME EngineInv, Advance
    PROVE  EngineInv'
  <1>1. UNCHANGED <<style, held, approvals, issued, saved>>
    BY Zenon DEF Advance
  <1>2. CASE Complete
    BY Zenon, <1>1, <1>2, EndedKeeps DEF Complete
  <1>3. CASE RefuseStep
    BY Zenon, <1>1, <1>3, EndedKeeps DEF RefuseStep
  <1>4. CASE RunStep
    <2>1. engine.pc = "running" /\ engine.step < NSteps
      BY Zenon, <1>4 DEF RunStep
    <2>2. PICK r \in Slices(Entering, calls) : Drive([Entering EXCEPT !.next = r.next], r)
      BY Zenon, <1>4 DEF RunStep
    <2>3. /\ Entering \in Engines
          /\ Entering.base = engine.next /\ Entering.next = engine.next
          /\ \A n \in Nat : n >= engine.next => Evaluating([Entering EXCEPT !.next = n])
      BY Zenon, <2>1, EnteringEvaluating
    <2>4. /\ CallsFit(Entering, "none", calls)
          /\ \A h \in held' : h.status = "suspended"
      BY Zenon, <1>1, <2>1 DEF EngineInv, TypeInv, CallsInv, QueuedCallsAreCurrent, Queued, CallsFit
    <2>5. Entering.base <= Entering.next
      BY <2>3 DEF Engines
    <2>6. /\ r.status \in Statuses /\ r.next \in Nat /\ r.next >= Entering.next
          /\ CallsFit(Entering, r.status, r.calls)
      BY Zenon, <2>3, <2>4, <2>5, SliceFits
    <2> DEFINE e == [Entering EXCEPT !.next = r.next]
    <2>7. Evaluating(e)
      BY Zenon, <2>3, <2>6
    <2>8. CallsFit(e, r.status, r.calls)
      <3>1. e.step = Entering.step /\ e.base = Entering.base
        BY Zenon, <2>3 DEF Engines
      <3> HIDE DEF e
      <3> QED BY Zenon, <2>6, <3>1 DEF CallsFit
    <2>9. Drive(e, r)
      BY Zenon, <2>2
    <2> HIDE DEF e
    <2> QED BY Zenon, <1>1, <2>4, <2>6, <2>7, <2>8, <2>9, DriveKeeps DEF EngineInv
  <1> QED BY Zenon, <1>2, <1>3, <1>4 DEF Advance

(* A step that changes neither the engine nor what the host holds, and leaves
   calls that fit a suspended step *)
LEMMA CallsKeep ==
    ASSUME EngineInv, UNCHANGED <<style, engine, held, approvals, saved, done>>,
           calls' \subseteq CallRecords,
           \A c \in calls' : \E d \in calls :
              /\ c.id = d.id /\ c.step = d.step
              /\ c.awaited = d.awaited
              /\ c.state = "queued" => d.state = "queued",
           \A c, d \in calls' : c.awaited /\ d.awaited => c = d
    PROVE  EngineInv'
  <1>1. TypeInv'
    BY Zenon DEF EngineInv, TypeInv, Engines, CallRecords, Contexts
  <1>2. ProgressInv'
    BY ZenonT(60) DEF EngineInv, ProgressInv, Earned, Dataflow, Leases, Contexts
  <1>3. TokensInv'
    BY Zenon, TokensKeep DEF EngineInv
  <1>4. QueuedCallsAreCurrent'
    BY Zenon DEF EngineInv, CallsInv, QueuedCallsAreCurrent, Queued
  <1>5. CallsInv'
    BY Zenon, <1>4 DEF EngineInv, CallsInv
  <1> QED BY Zenon, <1>1, <1>2, <1>3, <1>5 DEF EngineInv

(* A claim or a cancellation request changes one call's state. *)
LEMMA ReplaceKeeps ==
    ASSUME EngineInv, NEW c \in calls, NEW state \in {"claimed", "cancel_requested"},
           calls' = Replace(c, state),
           UNCHANGED <<style, engine, held, approvals, saved, done>>
    PROVE  EngineInv'
  <1> DEFINE x == [c EXCEPT !.state = state]
  <1>1. c \in CallRecords /\ calls \subseteq CallRecords
    BY Zenon DEF EngineInv, TypeInv
  <1>2. /\ x \in CallRecords /\ x.id = c.id /\ x.step = c.step /\ x.awaited = c.awaited
        /\ x.state # "queued"
    BY Zenon, <1>1 DEF CallRecords
  <1>3. calls' = (calls \ {c}) \cup {x}
    BY Zenon DEF Replace
  <1> HIDE DEF x
  <1>4. calls' \subseteq CallRecords
    BY Zenon, <1>1, <1>2, <1>3
  <1>5. \A b \in calls' : \E d \in calls :
           /\ b.id = d.id /\ b.step = d.step /\ b.awaited = d.awaited
           /\ b.state = "queued" => d.state = "queued"
    BY Zenon, <1>2, <1>3
  <1>6. \A b, d \in calls' : b.awaited /\ d.awaited => b = d
    BY Zenon, <1>2, <1>3 DEF EngineInv, CallsInv
  <1> QED BY Zenon, <1>4, <1>5, <1>6, CallsKeep

(* The evaluation that goes on when an awaited call is settled, whoever
   settles it *)
LEMMA SettledSlice ==
    ASSUME EngineInv, engine.pc # "running", NEW c \in calls, c.awaited,
           NEW r \in Slices(engine, calls \ {c})
    PROVE  /\ engine.pc = "suspended"
           /\ \A h \in held : h.status = "suspended"
           /\ r.status \in Statuses /\ r.next \in Nat /\ r.next >= engine.next
           /\ Evaluating([engine EXCEPT !.next = r.next])
           /\ CallsFit([engine EXCEPT !.next = r.next], r.status, r.calls)
           /\ CallsFit(engine, r.status, r.calls)
  <1>1. engine.pc = "suspended" /\ \A h \in held : h.status = "suspended"
    BY Zenon DEF EngineInv, CallsInv
  <1>2. engine \in Engines /\ engine.base <= engine.next
    BY Zenon DEF EngineInv, TypeInv
  <1>3. CallsFit(engine, "none", calls \ {c})
    BY Zenon DEF EngineInv, TypeInv, CallsInv, QueuedCallsAreCurrent, Queued, CallsFit
  <1>4. /\ r.status \in Statuses /\ r.next \in Nat /\ r.next >= engine.next
        /\ CallsFit(engine, r.status, r.calls)
    BY Zenon, <1>2, <1>3, SliceFits
  <1>5. Evaluating([engine EXCEPT !.next = r.next])
    BY Zenon, <1>1, <1>4, SuspendedEvaluating
  <1> DEFINE e == [engine EXCEPT !.next = r.next]
  <1>6. e.step = engine.step /\ e.base = engine.base
    BY Zenon, <1>2 DEF Engines
  <1> HIDE DEF e
  <1>7. CallsFit(e, r.status, r.calls)
    BY Zenon, <1>4, <1>6 DEF CallsFit
  <1> QED BY Zenon, <1>1, <1>4, <1>5, <1>7 DEF e

(* A settled call that nobody awaits is only dropped. *)
LEMMA DropKeeps ==
    ASSUME EngineInv, NEW c, calls' = calls \ {c},
           UNCHANGED <<style, engine, held, approvals, saved, done>>
    PROVE  EngineInv'
  <1>1. calls' \subseteq CallRecords
    BY Zenon DEF EngineInv, TypeInv
  <1>2. \A x \in calls' : \E d \in calls :
           /\ x.id = d.id /\ x.step = d.step /\ x.awaited = d.awaited
           /\ x.state = "queued" => d.state = "queued"
    BY Zenon
  <1>3. \A x, d \in calls' : x.awaited /\ d.awaited => x = d
    BY Zenon DEF EngineInv, CallsInv
  <1> QED BY Zenon, <1>1, <1>2, <1>3, CallsKeep

(* A call is settled and its evaluation goes on in the engine:
   complete_external_tool, cancel_external_tool,
   confirm_external_tool_cancellation, and a deadline that ends the call. *)
LEMMA ResumeKeeps ==
    ASSUME EngineInv, NEW c \in calls, Resume(c)
    PROVE  EngineInv'
  <1>1. engine.pc = "suspended" /\ UNCHANGED <<style, held, approvals, issued, saved>>
    BY Zenon DEF Resume
  <1>2. CASE ~c.awaited
    BY Zenon, <1>1, <1>2, DropKeeps DEF Resume
  <1>3. CASE c.awaited
    <2>1. PICK r \in Slices(engine, calls \ {c}) :
             Drive([engine EXCEPT !.next = r.next], r)
      BY Zenon, <1>3 DEF Resume
    <2> DEFINE e == [engine EXCEPT !.next = r.next]
    <2>2. /\ \A h \in held : h.status = "suspended"
          /\ r.status \in Statuses /\ Evaluating(e) /\ CallsFit(e, r.status, r.calls)
      BY Zenon, <1>1, <1>3, SettledSlice
    <2>3. Drive(e, r)
      BY Zenon, <2>1
    <2> HIDE DEF e
    <2> QED BY Zenon, <1>1, <2>2, <2>3, DriveKeeps DEF EngineInv
  <1> QED BY Zenon, <1>2, <1>3

(* A settlement in the runtime leaves the engine suspended, and what comes out
   of it in the host's hands. *)
LEMMA SettleInRuntimeKeeps ==
    ASSUME EngineInv, NEW c \in calls, SettleInRuntime(c)
    PROVE  EngineInv'
  <1>1. engine.pc # "running" /\ held = {} /\ UNCHANGED <<style, approvals, issued, saved, done>>
    BY Zenon DEF SettleInRuntime
  <1>2. CASE ~c.awaited
    BY Zenon, <1>1, <1>2, DropKeeps DEF SettleInRuntime
  <1>3. CASE c.awaited
    <2>1. PICK r \in Slices(engine, calls \ {c}) :
             /\ engine' = [engine EXCEPT !.next = r.next]
             /\ calls' = r.calls
             /\ held' = {[status |-> r.status, engine |-> engine.id]}
      BY Zenon, <1>3 DEF SettleInRuntime
    <2>2. /\ engine.pc = "suspended"
          /\ r.status \in Statuses /\ r.next \in Nat /\ r.next >= engine.next
          /\ Evaluating([engine EXCEPT !.next = r.next])
          /\ CallsFit(engine, r.status, r.calls)
      BY Zenon, <1>1, <1>3, SettledSlice
    <2>3. engine \in Engines
      BY Zenon DEF EngineInv, TypeInv
    <2>4. /\ engine'.pc = engine.pc /\ engine'.step = engine.step
          /\ engine'.lease = engine.lease /\ engine'.leases = engine.leases
          /\ engine'.data = engine.data /\ engine'.global = engine.global
          /\ engine'.reported = engine.reported /\ engine'.base = engine.base
      BY Zenon, <2>1, <2>3 DEF Engines
    <2>5. TypeInv'
      <3>1. engine' \in Engines /\ engine'.base <= engine'.next
        BY Zenon, <2>1, <2>2 DEF Evaluating
      <3> QED BY Zenon, <2>1, <2>2, <3>1 DEF TypeInv, CallsFit, Engines, CallRecords, Contexts
    <2>6. ProgressInv'
      BY Zenon, <1>1, <2>2, <2>4 DEF EngineInv, ProgressInv, Earned, Dataflow, Leases, Contexts
    <2>7. TokensInv'
      BY Zenon, <1>1, TokensKeep DEF EngineInv
    <2>8. QueuedCallsAreCurrent'
      BY Zenon, <2>1, <2>2, <2>4 DEF QueuedCallsAreCurrent, Queued, CallsFit
    <2>9. CallsInv'
      BY <2>1, <2>2, <2>4, <2>8 DEF CallsInv, CallsFit
    <2> QED BY Zenon, <2>5, <2>6, <2>7, <2>9 DEF EngineInv
  <1> QED BY <1>2, <1>3

(* continue_suspended_execution *)
LEMMA ContinueKeeps ==
    ASSUME EngineInv, continue_suspended_execution
    PROVE  EngineInv'
  <1>1. /\ engine.pc # "running" /\ held' = {}
        /\ UNCHANGED <<style, approvals, issued, saved>>
    BY Zenon DEF continue_suspended_execution
  <1>2. PICK h \in held :
           IF engine.pc = "suspended"
           THEN Drive(engine, [status |-> h.status, calls |-> calls])
           ELSE UNCHANGED <<engine, calls, done>>
    BY Zenon DEF continue_suspended_execution
  <1>3. CASE engine.pc = "suspended"
    <2> DEFINE r == [status |-> h.status, calls |-> calls]
    <2>1. r.status = h.status /\ r.calls = calls /\ Drive(engine, r)
      BY Zenon, <1>2, <1>3
    <2>2. r.status \in Statuses
      BY Zenon DEF EngineInv, CallsInv
    <2>3. Evaluating(engine)
      BY Zenon, <1>3 DEF EngineInv, TypeInv, ProgressInv, Evaluating
    <2>4. CallsFit(engine, r.status, r.calls)
      BY Zenon DEF EngineInv, TypeInv, CallsInv, QueuedCallsAreCurrent, Queued, CallsFit
    <2> HIDE DEF r
    <2> QED BY Zenon, <1>1, <2>1, <2>2, <2>3, <2>4, DriveKeeps DEF EngineInv
  <1>4. CASE engine.pc # "suspended"
    <2>1. UNCHANGED <<engine, calls, done>>
      BY Zenon, <1>2, <1>4
    <2>2. TypeInv' /\ ProgressInv'
      BY Zenon, <1>1, <2>1 DEF EngineInv, TypeInv, ProgressInv, Earned, Dataflow, Leases
    <2>3. TokensInv'
      BY Zenon, <1>1, <2>1, TokensKeep DEF EngineInv
    <2>4. CallsInv'
      BY Zenon, <1>1, <2>1 DEF EngineInv, CallsInv, QueuedCallsAreCurrent, Queued
    <2> QED BY Zenon, <2>2, <2>3, <2>4 DEF EngineInv
  <1> QED BY Zenon, <1>3, <1>4

(* checkpoint_after and dataflow_checkpoint_after *)
LEMMA CheckpointKeeps ==
    ASSUME EngineInv, checkpoint_after
    PROVE  EngineInv'
  <1>1. /\ engine.pc # "running" /\ engine.reported # NoCount
        /\ UNCHANGED <<style, engine, calls, held, approvals, issued, done>>
    BY Zenon DEF checkpoint_after
  <1>2. engine.reported \in 0 .. NSteps /\ Prefix(engine.reported) \subseteq done
    BY Zenon, <1>1 DEF EngineInv, ProgressInv
  <1>3. Prefix(engine.reported) \in Contexts /\ {} \in Contexts
    BY <1>2, EngineAssumption DEF Prefix, Contexts
  <1>4. \A c \in saved' : Earned(c.completed, c.data)
    <2>1. CASE Dataflow
      <3>1. PICK d : /\ validate_for_completed_prefix(d, engine.reported)
                     /\ saved' = {[completed |-> engine.reported, data |-> d]}
        BY Zenon, <2>1 DEF checkpoint_after
      <3>2. d = Prefix(engine.reported)
        BY Zenon, <3>1 DEF validate_for_completed_prefix
      <3> QED BY <1>2, <1>3, <3>1, <3>2 DEF Earned
    <2>2. CASE ~Dataflow
      <3>1. saved' = {[completed |-> engine.reported, data |-> {}]}
        BY Zenon, <2>2 DEF checkpoint_after
      <3> QED BY <1>2, <1>3, <2>2, <3>1 DEF Earned
    <2> QED BY Zenon, <2>1, <2>2
  <1>5. TokensInv'
    BY Zenon, <1>1, <1>4 DEF EngineInv, TokensInv, Earned, Dataflow, Leases, Contexts
  <1>6. TypeInv' /\ ProgressInv'
    BY Zenon, <1>1 DEF EngineInv, TypeInv, ProgressInv, Earned, Dataflow, Leases
  <1>7. CallsInv'
    BY Zenon, <1>1 DEF EngineInv, CallsInv, QueuedCallsAreCurrent, Queued
  <1> QED BY Zenon, <1>5, <1>6, <1>7 DEF EngineInv

(* take_dataflow_snapshot *)
LEMMA TakeKeeps ==
    ASSUME EngineInv, take_dataflow_snapshot
    PROVE  EngineInv'
  <1>1. /\ engine.pc = "idle" /\ UNCHANGED <<style, calls, held, approvals, issued, saved, done>>
        /\ engine' = [engine EXCEPT !.last = {}, !.reported = NoCount]
    BY Zenon DEF take_dataflow_snapshot
  <1>2. /\ engine \in Engines /\ engine.base <= engine.next /\ calls \subseteq CallRecords
        /\ NoCount \in Int
    BY DEF EngineInv, TypeInv, NoCount
  <1>3. /\ engine' \in Engines /\ engine'.pc = "idle" /\ engine'.reported = NoCount
        /\ engine'.global = engine.global
        /\ engine'.base = engine.base /\ engine'.next = engine.next
    BY Zenon, <1>1, <1>2 DEF Engines
  <1>4. TypeInv'
    BY Zenon, <1>1, <1>2, <1>3 DEF TypeInv, Engines, CallRecords, Contexts
  <1>5. ProgressInv'
    BY Zenon, <1>1, <1>3 DEF EngineInv, ProgressInv, Dataflow, NoCount
  <1>6. TokensInv'
    BY Zenon, <1>1, TokensKeep DEF EngineInv
  <1>7. CallsInv'
    BY Zenon, <1>1, <1>3 DEF EngineInv, CallsInv, QueuedCallsAreCurrent, Queued
  <1> QED BY Zenon, <1>4, <1>5, <1>6, <1>7 DEF EngineInv

(* A new engine has completed nothing and holds nothing. *)
LEMMA NewEngineFits ==
    ASSUME NEW n \in Nat
    PROVE  /\ NewEngine(n) \in Engines
           /\ NewEngine(n).pc = "idle" /\ NewEngine(n).reported = NoCount
           /\ NewEngine(n).global = {}
           /\ NewEngine(n).base <= NewEngine(n).next
  <1>1. 0 \in 0 .. NSteps /\ NoLease \in Int /\ NoCount \in Int
    BY EngineAssumption DEF NoLease, NoCount
  <1>2. {} \in Contexts /\ <<>> \in Seq(Int)
    BY DEF Contexts
  <1> QED BY <1>1, <1>2 DEF NewEngine, Engines

(* The engine is dropped with its runtime and a new one starts. *)
LEMMA RestartKeeps ==
    ASSUME EngineInv, Restart
    PROVE  EngineInv'
  <1>1. /\ engine' = NewEngine(engine.id + 1) /\ calls' = {} /\ held' = {}
        /\ approvals' \subseteq approvals /\ UNCHANGED <<style, issued, saved, done>>
    BY Zenon DEF Restart
  <1>2. engine.id + 1 \in Nat
    BY DEF EngineInv, TypeInv, Engines
  <1>3. /\ engine' \in Engines /\ engine'.pc = "idle" /\ engine'.reported = NoCount
        /\ engine'.global = {} /\ engine'.base <= engine'.next
    BY Zenon, <1>1, <1>2, NewEngineFits
  <1>4. TypeInv' /\ ProgressInv' /\ CallsInv'
    BY Zenon, <1>1, <1>3 DEF TypeInv, ProgressInv, CallsInv, QueuedCallsAreCurrent, Queued,
       Engines, Contexts
  <1>5. TokensInv'
    BY Zenon, <1>1, TokensKeep DEF EngineInv
  <1> QED BY Zenon, <1>4, <1>5 DEF EngineInv

-----------------------------------------------------------------------------
(* The invariant *)

(* A new engine with no approvals and no checkpoint satisfies it. *)
LEMMA InitEstablishes ==
    EngineInit => EngineInv
  <1> SUFFICES ASSUME EngineInit PROVE EngineInv
    BY Zenon
  <1>1. /\ engine \in Engines /\ engine.pc = "idle" /\ engine.reported = NoCount
        /\ engine.global = {} /\ engine.base <= engine.next
    BY Zenon, NewEngineFits DEF EngineInit
  <1>2. calls = {} /\ held = {} /\ approvals = {} /\ saved = {}
    BY Zenon DEF EngineInit
  <1> QED BY Zenon, <1>1, <1>2 DEF EngineInv, TypeInv, ProgressInv, TokensInv, CallsInv,
       QueuedCallsAreCurrent, Queued

(* Every call of the engine's interface and every crash keeps it. *)
LEMMA NextKeeps ==
    EngineInv /\ [EngineNext]_engineVars => EngineInv'
  <1> SUFFICES ASSUME EngineInv, [EngineNext]_engineVars PROVE EngineInv'
    BY Zenon
  <1>1. CASE approve \/ approve_resume
    BY Zenon, <1>1, ApprovalsKeep
  <1>2. ASSUME NEW a \in approvals, execute(a) PROVE EngineInv'
    BY Zenon, <1>2, ExecuteKeeps
  <1>3. CASE Advance
    BY Zenon, <1>3, AdvanceKeeps
  <1>4. CASE claim_next_external_tool
    <2>1. PICK c \in calls : calls' = Replace(c, "claimed")
      BY Zenon, <1>4 DEF claim_next_external_tool, NextQueued, Queued
    <2> QED BY Zenon, <1>4, <2>1, ReplaceKeeps DEF claim_next_external_tool
  <1>5. ASSUME NEW c \in calls, request_external_tool_cancellation(c) PROVE EngineInv'
    BY Zenon, <1>5, ReplaceKeeps DEF request_external_tool_cancellation
  <1>6. ASSUME NEW c \in calls, Settle(c) PROVE EngineInv'
    BY Zenon, <1>6, ResumeKeeps DEF Settle
  <1>7. ASSUME NEW c \in calls, SettleInRuntime(c) PROVE EngineInv'
    BY <1>7, SettleInRuntimeKeeps
  <1>8. CASE continue_suspended_execution
    BY <1>8, ContinueKeeps
  <1>9. CASE checkpoint_after
    BY <1>9, CheckpointKeeps
  <1>10. CASE take_dataflow_snapshot
    BY <1>10, TakeKeeps
  <1>11. CASE Restart
    BY <1>11, RestartKeeps
  <1>12. CASE UNCHANGED engineVars
    <2>1. UNCHANGED <<style, engine, calls, held, approvals, saved, done>>
      BY Zenon, <1>12 DEF engineVars
    <2>2. TokensInv'
      BY Zenon, <2>1, TokensKeep DEF EngineInv
    <2>3. TypeInv' /\ ProgressInv'
      BY Zenon, <2>1 DEF EngineInv, TypeInv, ProgressInv, Earned, Dataflow, Leases
    <2>4. CallsInv'
      BY Zenon, <2>1 DEF EngineInv, CallsInv, QueuedCallsAreCurrent, Queued
    <2> QED BY Zenon, <2>2, <2>3, <2>4 DEF EngineInv
  <1> QED BY Zenon, <1>1, <1>2, <1>3, <1>4, <1>5, <1>6, <1>7, <1>8, <1>9, <1>10, <1>11, <1>12
       DEF EngineNext

(* The inductive invariant holds in every reachable state of the engine,
   however approvals, crashes, settlements and held evaluations interleave. *)
THEOREM EngineInvariant ==
    EngineSpec => []EngineInv
  BY InitEstablishes, NextKeeps, PTL DEF EngineSpec

(* The lease that governs a step is always the one issued for it, and the
   leases left are those of the steps after it (WorkflowCapabilityLeases). *)
THEOREM LeasesAlwaysFit ==
    EngineSpec => []LeaseFitsStep
  <1>1. EngineInv => LeaseFitsStep
    BY Zenon DEF EngineInv, ProgressInv, LeaseFitsStep
  <1> QED BY <1>1, EngineInvariant, PTL

(* No step runs before every earlier one has succeeded, and no stored
   checkpoint says otherwise (execute_from, checkpoint_after). *)
THEOREM NoStepIsSkipped ==
    EngineSpec => []NoStepSkipped
  <1>1. EngineInv => NoStepSkipped
    BY Zenon DEF EngineInv, ProgressInv, TokensInv, Earned, NoStepSkipped
  <1> QED BY <1>1, EngineInvariant, PTL

(* The dataflow context the engine holds is that of the count it reported,
   and the script's global is cleared with it (drive_dataflow_step,
   clear_dataflow_context). *)
THEOREM SnapshotAlwaysFits ==
    EngineSpec => []SnapshotFitsReport
  <1>1. EngineInv => SnapshotFitsReport
    <2> SUFFICES ASSUME EngineInv, Dataflow, engine.pc # "running"
                 PROVE  /\ engine.reported # NoCount =>
                              dataflow_snapshot(engine) = {Prefix(engine.reported)}
                        /\ engine.global = IF engine.pc = "suspended" THEN {engine.data} ELSE {}
      BY Zenon DEF SnapshotFitsReport
    <2>1. engine.pc \in {"idle", "suspended"}
      BY Zenon DEF EngineInv, TypeInv, Engines
    <2>2. CASE engine.pc = "suspended"
      BY Zenon, <2>2 DEF EngineInv, ProgressInv, Earned, dataflow_snapshot
    <2>3. CASE engine.pc = "idle"
      BY Zenon, <2>3 DEF EngineInv, ProgressInv, dataflow_snapshot
    <2> QED BY Zenon, <2>1, <2>2, <2>3
  <1> QED BY <1>1, EngineInvariant, PTL

(* A call the host can claim is always one of the step that is suspended
   (cancel_unawaited_external_work). *)
THEOREM QueueIsAlwaysCurrent ==
    EngineSpec => []QueuedCallsAreCurrent
  <1>1. EngineInv => QueuedCallsAreCurrent
    BY Zenon DEF EngineInv, CallsInv
  <1> QED BY <1>1, EngineInvariant, PTL

=============================================================================
