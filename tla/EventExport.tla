---------------------------- MODULE EventExport ----------------------------
(***************************************************************************)
(* Telemetry from the bounded views of running engines and runtimes to     *)
(* durable journals.  Exporter tasks of the host read a view from their    *)
(* cursor and append the batch to a journal in the authenticated store:    *)
(* load, append, then create or replace at the loaded revision, retried a  *)
(* few times when the revision has moved.  `kind` says which store is in   *)
(* use; it never changes:                                                  *)
(*   "workflow"  WorkflowEventStore, both exporters serve one engine       *)
(*   "audit"     CapabilityAuditStore, both exporters serve one runtime    *)
(*   "cross"     CrossStreamTelemetryStore, each exporter its own source   *)
(*   "memory"    CrossStreamTelemetryAggregator, each its own source       *)
(* The authenticated store is an atomic compare-and-swap slot per record   *)
(* key, whose answer may be lost before or after the write.                *)
(***************************************************************************)
EXTENDS EventJournal

CONSTANTS
    Exporters,      \* the two exporter tasks
    Runtimes,       \* the two event sources
    Kinds,          \* the stores that are explored
    Capacities,     \* capacities a view may be given
    MaxEvents,      \* kind -> events each of its sources records
    MaxFailures,    \* storage errors
    MaxSegments,    \* segments a host opens for one source
    MaxAggregate,   \* max_events of the in-memory aggregator
    MaxAttempts     \* MAX_DURABLE_..._STORE_RETRIES

VARIABLES
    kind,       \* which store
    capacity,   \* source -> capacity of its view
    ring,       \* source -> its bounded view
    recorded,   \* source -> events recorded
    store,      \* record key -> revision and journal
    exporter,   \* exporter -> its task state
    segments,   \* source -> the starts of the segments the host opened
    failures,   \* storage errors so far
    aggregator, \* the in-memory aggregator
    cleared     \* events it had numbered or dropped when it was cleared

vars == <<kind, capacity, ring, recorded, store, exporter, segments, failures,
          aggregator, cleared>>

Absent == [revision |-> 0]

(* A single-stream journal has a record key per segment; all sources of a
   cross-stream journal share key 1. *)
Keys == 1..MaxSegments

Shared == kind \in {"cross", "memory"}

FirstRuntime == CHOOSE s \in Runtimes : TRUE

FirstExporter == CHOOSE e \in Exporters : TRUE

SourceOf(e) ==
    IF Shared /\ e # FirstExporter
    THEN CHOOSE s \in Runtimes : s # FirstRuntime
    ELSE FirstRuntime

KeyOf(e) == IF Shared THEN 1 ELSE exporter[e].segment

StreamOf(e) == <<SourceOf(e), exporter[e].segment>>

StartOf(stream) == segments[stream[1]][stream[2]]

Idle == [pc |-> "idle", segment |-> 1, cursor |-> 1, batch |-> <<>>, attempt |-> 0,
         revision |-> 0, candidate |-> <<>>]

Init ==
    /\ kind \in Kinds
    /\ \E n \in Capacities : capacity = [s \in Runtimes |-> n]
    /\ ring = [s \in Runtimes |-> NewRing]
    /\ recorded = [s \in Runtimes |-> 0]
    /\ store = [k \in Keys |-> Absent]
    /\ exporter = [e \in Exporters |-> Idle]
    /\ segments = [s \in Runtimes |-> <<1>>]
    /\ failures = 0
    /\ aggregator = [ring |-> NewRing, sources |-> <<>>]
    /\ cleared = 0

-----------------------------------------------------------------------------
(* The sources. *)

InUse(s) == \E e \in Exporters : SourceOf(e) = s

(* record_event, record_audit.  The mark is the event: the n-th this source
   records. *)
RecordEvent(s) ==
    /\ InUse(s)
    /\ recorded[s] < MaxEvents[kind]
    /\ recorded' = [recorded EXCEPT ![s] = @ + 1]
    /\ ring' = [ring EXCEPT ![s] =
                  record_event(@, [source |-> s, mark |-> recorded'[s]], capacity[s])]
    /\ UNCHANGED <<kind, capacity, store, exporter, segments, failures, aggregator, cleared>>

(* clear_events, clear_audit *)
ClearEvents(s) ==
    /\ ring[s].entries # <<>>
    /\ ring' = [ring EXCEPT ![s] = clear_events(@)]
    /\ UNCHANGED <<kind, capacity, recorded, store, exporter, segments, failures,
                   aggregator, cleared>>

(* set_max_audit_events: only the audit trail can be resized. *)
SetCapacity(s, n) ==
    /\ kind = "audit" /\ InUse(s)
    /\ n # capacity[s]
    /\ capacity' = [capacity EXCEPT ![s] = n]
    /\ ring' = [ring EXCEPT ![s] = Trim(@, n)]
    /\ UNCHANGED <<kind, recorded, store, exporter, segments, failures, aggregator, cleared>>

-----------------------------------------------------------------------------
(* The exporters. *)

OnlyExporter(e, new) ==
    /\ exporter' = [exporter EXCEPT ![e] = new]
    /\ UNCHANGED <<kind, capacity, ring, recorded, cleared>>

Batch(e) == events_since(ring[SourceOf(e)], exporter[e].cursor)

(* The host exports from its cursor, again after a storage error; there is
   nothing to do for an empty batch. *)
Export(e) ==
    /\ exporter[e].pc \in {"idle", "unsure"} /\ kind # "memory"
    /\ CursorError(ring[SourceOf(e)], exporter[e].cursor) = "none"
    /\ Batch(e).events # <<>>
    /\ OnlyExporter(e, [exporter[e] EXCEPT !.pc = "append", !.batch = Batch(e),
                                           !.attempt = 0])
    /\ UNCHANGED <<store, segments, failures, aggregator>>

(* load: the journal under this exporter's key, or a new one. *)
LoadedRevision(e) == store[KeyOf(e)].revision

Loaded(e) ==
    IF store[KeyOf(e)] # Absent THEN store[KeyOf(e)].journal
    ELSE IF kind = "cross" THEN NewTelemetryJournal
    ELSE NewJournal(StartOf(StreamOf(e)))

ValidStored(j) ==
    IF kind = "cross" THEN ValidTelemetryJournal(j) ELSE ValidJournal(kind, j)

(* The append or registration the exporter asks for, as an error and a result. *)
MutationError(e, j) ==
    LET b == exporter[e].batch
        s == StreamOf(e)
    IN  CASE ~ValidStored(j) -> "invalid"
          [] exporter[e].pc = "register" -> RegisterError(j, s)
          [] kind # "cross" -> AppendError(j, b)
          [] StartError(j, s, b) # "none" -> StartError(j, s, b)
          [] OTHER -> IngestError(Registered(j, s), s, b)

Mutated(e, j) ==
    LET b == exporter[e].batch
        s == StreamOf(e)
    IN  CASE exporter[e].pc = "register" -> register_source_at(j, s, StartOf(s))
          [] kind # "cross" -> IF b.next <= j.next THEN j ELSE append_batch(j, b)
          [] OTHER -> IF b.next <= Registered(j, s).sources[s].next
                      THEN j
                      ELSE ingest_source_records(Registered(j, s), s, b)

NextCursor(e, j) == IF kind = "cross" THEN j.sources[StreamOf(e)].next ELSE j.next

(* append_batch, mutate: one attempt up to the write.  A batch that is stored
   already is acknowledged from what was loaded. *)
Attempt(e) ==
    /\ exporter[e].pc \in {"append", "register"}
    /\ \E j \in {Loaded(e)} : \E error \in {MutationError(e, j)} :
          \/ /\ error # "none"
             /\ OnlyExporter(e, [exporter[e] EXCEPT !.pc = "failed", !.batch = <<>>])
          \/ /\ error = "none"
             /\ \E new \in {Mutated(e, j)} :
                   OnlyExporter(e,
                      IF new = j
                      THEN [exporter[e] EXCEPT !.pc = "idle", !.batch = <<>>,
                                               !.cursor = NextCursor(e, j)]
                      ELSE [exporter[e] EXCEPT
                              !.pc = IF @ = "append" THEN "write_append" ELSE "write_register",
                              !.revision = LoadedRevision(e),
                              !.candidate = new])
    /\ UNCHANGED <<store, segments, failures, aggregator>>

Writing(e) == exporter[e].pc \in {"write_append", "write_register"}

Put(e) ==
    store' = [store EXCEPT ![KeyOf(e)] =
                [revision |-> @.revision + 1, journal |-> exporter[e].candidate]]

(* create or replace at the loaded revision; the variant ignores the revision. *)
RevisionAny(e) == TRUE

RevisionHolds(e) == store[KeyOf(e)].revision = exporter[e].revision

Write(e) ==
    /\ Writing(e) /\ RevisionHolds(e)
    /\ Put(e)
    /\ OnlyExporter(e, [exporter[e] EXCEPT
                          !.pc = "idle", !.batch = <<>>, !.candidate = <<>>, !.revision = 0,
                          !.cursor = NextCursor(e, exporter[e].candidate)])
    /\ UNCHANGED <<segments, failures, aggregator>>

(* WriteConflict: load and append again, or give up as Contended. *)
Conflict(e) ==
    /\ Writing(e) /\ ~RevisionHolds(e)
    /\ LET last == exporter[e].attempt + 1 = MaxAttempts
           again == IF exporter[e].pc = "write_append" THEN "append" ELSE "register"
       IN  OnlyExporter(e, [exporter[e] EXCEPT
                              !.pc = IF last THEN "unsure" ELSE again,
                              !.batch = IF last THEN <<>> ELSE @,
                              !.attempt = IF last THEN 0 ELSE @ + 1,
                              !.candidate = <<>>, !.revision = 0])
    /\ UNCHANGED <<store, segments, failures, aggregator>>

(* Any other storage error ends the call, whether or not the write happened. *)
WriteFails(e) ==
    /\ Writing(e)
    /\ failures < MaxFailures
    /\ failures' = failures + 1
    /\ \/ RevisionHolds(e) /\ Put(e)
       \/ UNCHANGED store
    /\ OnlyExporter(e, [exporter[e] EXCEPT !.pc = "unsure", !.batch = <<>>, !.attempt = 0,
                                           !.candidate = <<>>, !.revision = 0])
    /\ UNCHANGED <<segments, aggregator>>

(* The task is started again, or recovers from an error: its cursor comes from
   the journal, and a segment that is not in it is registered again. *)
Known(e) ==
    /\ store[KeyOf(e)] # Absent
    /\ kind = "cross" => StreamOf(e) \in DOMAIN store[KeyOf(e)].journal.sources

JournalCursor(e) ==
    IF Known(e) THEN NextCursor(e, store[KeyOf(e)].journal) ELSE StartOf(StreamOf(e))

Resync(e) ==
    /\ exporter[e].pc \in {"idle", "unsure", "failed"} /\ kind # "memory"
    /\ exporter[e].pc # "idle" \/ JournalCursor(e) # exporter[e].cursor
    /\ ValidStored(Loaded(e))
    /\ OnlyExporter(e, [exporter[e] EXCEPT
                          !.pc = IF kind = "cross" /\ ~Known(e) /\ exporter[e].segment > 1
                                 THEN "register" ELSE "idle",
                          !.cursor = JournalCursor(e)])
    /\ UNCHANGED <<store, segments, failures, aggregator>>

(* The view has overtaken the cursor: the host records the loss by going on
   under a fresh identity from the first event that is left. *)
StartSegment(e) ==
    LET s == SourceOf(e)
    IN  /\ exporter[e].pc = "idle"
        /\ CursorError(ring[s], exporter[e].cursor) = "evicted"
        /\ kind # "workflow"
        /\ Len(segments[s]) < MaxSegments
        /\ segments' = [segments EXCEPT ![s] = Append(@, ring[s].first)]
        /\ OnlyExporter(e, [exporter[e] EXCEPT
                              !.segment = Len(segments'[s]),
                              !.cursor = ring[s].first,
                              !.pc = IF kind = "cross" THEN "register" ELSE "idle"])
        /\ IF kind = "memory"
           THEN aggregator' = register_source_at(aggregator, <<s, Len(segments'[s])>>, ring[s].first)
           ELSE UNCHANGED aggregator
        /\ UNCHANGED <<store, failures>>

-----------------------------------------------------------------------------
(* The in-memory aggregator. *)

(* advance_source accepts exactly the next number; record numbers what arrives. *)
AdvanceError(s, b) ==
    CASE StartError(aggregator, s, b) # "none" -> StartError(aggregator, s, b)
      [] b.first < Registered(aggregator, s).sources[s].next -> "replay"
      [] b.first > Registered(aggregator, s).sources[s].next -> "gap"
      [] OTHER -> "none"

(* record, for each record of the batch in turn: the events there is a number
   for take the next ones, the rest are only counted.  The variant forgets to
   count them. *)
Numbered(r, s, b) ==
    [i \in 1..Min2(MaxCursor - r.next, Len(b.events)) |->
       [number |-> r.next + i - 1, source |-> s, seq |-> b.first + i - 1,
        event |-> b.events[i]]]

RecordAllUncounted(r, s, b) ==
    LET new == Numbered(r, s, b)
    IN  Trim([r EXCEPT !.entries = @ \o new, !.next = @ + Len(new)], MaxAggregate)

RecordAll(r, s, b) ==
    LET new == Numbered(r, s, b)
    IN  Trim([r EXCEPT !.entries = @ \o new, !.next = @ + Len(new),
                       !.dropped = @ + (Len(b.events) - Len(new))],
             MaxAggregate)

Ingest(e) ==
    LET b == Batch(e)
        s == StreamOf(e)
    IN  /\ kind = "memory"
        /\ CursorError(ring[SourceOf(e)], exporter[e].cursor) = "none"
        /\ b.events # <<>>
        /\ AdvanceError(s, b) = "none"
        /\ aggregator' = [ring |-> RecordAll(aggregator.ring, s, b),
                          sources |-> [Registered(aggregator, s).sources
                                         EXCEPT ![s].next = b.next]]
        /\ OnlyExporter(e, [exporter[e] EXCEPT !.cursor = b.next])
        /\ UNCHANGED <<store, segments, failures>>

(* clear_events of the aggregator keeps the source cursors. *)
ClearAggregate ==
    /\ aggregator.ring.entries # <<>>
    /\ aggregator' = [aggregator EXCEPT !.ring = clear_events(@)]
    /\ cleared' = cleared + Len(aggregator.ring.entries) + aggregator.ring.dropped
    /\ UNCHANGED <<kind, capacity, ring, recorded, store, exporter, segments, failures>>

-----------------------------------------------------------------------------
Step(e) ==
    \/ Export(e) \/ Attempt(e) \/ Write(e) \/ Conflict(e) \/ StartSegment(e) \/ Ingest(e)
    \/ exporter[e].pc \in {"failed", "unsure"} /\ Resync(e)

Next ==
    \/ \E s \in Runtimes : RecordEvent(s) \/ ClearEvents(s)
    \/ \E s \in Runtimes, n \in Capacities : SetCapacity(s, n)
    \/ \E e \in Exporters : Step(e) \/ WriteFails(e) \/ Resync(e)
    \/ ClearAggregate

(* An exporter that has something to do goes on, and the host reloads the cursor
   after an error, or tries the same batch again. *)
Fairness == \A e \in Exporters : WF_(exporter[e])(Step(e))

Spec == Init /\ [][Next]_vars /\ Fairness

-----------------------------------------------------------------------------
Stored(k) == store[k] # Absent

Journals == IF kind = "memory" THEN {} ELSE {k \in Keys : Stored(k)}

(* The journal is the history: every retained event is the event its source
   recorded under that number, whatever was replayed, retried or merged, and
   validate accepts what the store itself wrote, with every number from the
   segment start to the cursor retained or counted as evicted (append_batch_inner,
   append_source_records, trim_to_limits). *)
JournalIsHistory ==
    \A k \in Journals :
        LET j == store[k].journal
        IN  /\ ValidStored(j)
            /\ IF kind = "cross"
               THEN \A i \in DOMAIN j.events :
                       j.events[i].event = [source |-> j.events[i].source[1],
                                            mark |-> j.events[i].seq]
               ELSE /\ j.first = j.start + j.dropped
                    /\ \A i \in DOMAIN j.events :
                          j.events[i] = [source |-> FirstRuntime, mark |-> j.first + i - 1]

(* An acknowledged cursor is covered: what a host has been told is stored stays
   stored or counted as evicted, through conflicts, lost answers and the other
   exporter's writes (the revision check of append_batch and mutate). *)
AcknowledgedIsStored ==
    kind # "memory" => \A e \in Exporters : exporter[e].cursor <= JournalCursor(e)

(* The merged order is settled: once a record has an aggregate number no later
   write gives that number to another record or brings an evicted one back
   (record and evict_oldest of the cross-stream journal, record of the
   aggregator). *)
SettledOrder(old, new) ==
    /\ new.first >= old.first /\ new.next >= old.next
    /\ \A n \in new.first..(old.next - 1) :
          new.entries[n - new.first + 1] = old.entries[n - old.first + 1]

AsRing(j) == [first |-> j.first, next |-> j.next, entries |-> j.events]

AggregateOrderSettled ==
    [][/\ SettledOrder(aggregator.ring, aggregator'.ring)
       /\ \A k \in Journals :
             SettledOrder(AsRing(store[k].journal), AsRing(store'[k].journal))]_vars

(* The timeline of the aggregator is complete.  Every event below a source's
   cursor is retained, was counted as dropped, for want of room or of numbers, or
   went when the host cleared the view, and none is counted twice; the retained
   records of a source are its own events, without a hole, up to its cursor as
   long as there are numbers to give (advance_source and record: the cursor moves
   for the whole batch before any record of it is numbered or evicted). *)
NextOfSource(es, i) ==
    {m \in DOMAIN es : /\ m > i /\ es[m].source = es[i].source
                       /\ \A k \in (i + 1)..(m - 1) : es[k].source # es[i].source}

TimelineIsComplete ==
    LET r == aggregator.ring
        es == r.entries
    IN  /\ Cardinality(Observed(aggregator)) = Len(es) + r.dropped + cleared
        /\ \A i \in DOMAIN es :
              /\ es[i].number = r.first + i - 1
              /\ es[i].event = [source |-> es[i].source[1], mark |-> es[i].seq]
              /\ \A m \in NextOfSource(es, i) : es[m].seq = es[i].seq + 1
              /\ NextOfSource(es, i) = {} /\ r.next < MaxCursor =>
                    aggregator.sources[es[i].source].next = es[i].seq + 1

(* Exporters catch up: when the sources have fallen silent, every exporter ends
   with its cursor at the end of its view, unless the view overtook it and the
   host has no segment left to open (a workflow event stream never has one), or
   what it still has to export is more than the merged journal has numbers for. *)
GapRemains(e) ==
    /\ CursorError(ring[SourceOf(e)], exporter[e].cursor) = "evicted"
    /\ kind = "workflow" \/ Len(segments[SourceOf(e)]) = MaxSegments

NumbersExhausted(e) ==
    /\ kind = "cross" /\ Stored(1)
    /\ CursorError(ring[SourceOf(e)], exporter[e].cursor) = "none"
    /\ store[1].journal.next + Len(Batch(e).events) > MaxCursor

CaughtUp(e) == exporter[e].cursor = ring[SourceOf(e)].next

ExportersCatchUp ==
    <>[](\A e \in Exporters : CaughtUp(e) \/ GapRemains(e) \/ NumbersExhausted(e))
=============================================================================
