---------------------------- MODULE EventJournal ----------------------------
(***************************************************************************)
(* The durable telemetry journals as pure functions of a journal and an    *)
(* exported batch: WorkflowEventJournal and CapabilityAuditJournal hold    *)
(* one stream, CrossStreamTelemetryJournal merges several sources in the   *)
(* order they arrive.  Encoded size is a weight per event; what a document *)
(* weighs besides its events is left out.                                  *)
(***************************************************************************)
EXTENDS EventRing, FiniteSets, TLC

CONSTANTS
    MaxRetained,   \* the journal's max_events
    MaxWeight,     \* MAX_DURABLE_..._JOURNAL_BYTES
    MaxSources,    \* MAX_CROSS_STREAM_TELEMETRY_SOURCES
    HeavyMarks     \* the events that weigh two units instead of one

Min2(a, b) == IF a < b THEN a ELSE b

encoded_len(es) == Len(es) + Cardinality({i \in DOMAIN es : es[i].mark \in HeavyMarks})

(* trim_to_limits: the oldest event goes as long as what is left is too much.  The
   last event is never evicted. *)
Fits(es) == Len(es) <= MaxRetained /\ encoded_len(es) <= MaxWeight

Suffix(es, n) == SubSeq(es, n + 1, Len(es))

Evictions(es) ==
    Cardinality({n \in 0..(Len(es) - 2) : \A kept \in {Suffix(es, n)} : ~Fits(kept)})

-----------------------------------------------------------------------------
(* One stream: WorkflowEventJournal (which always starts at 1) and
   CapabilityAuditJournal (which starts at its segment). *)

NewJournal(start) ==
    [start |-> start, first |-> start, next |-> start, dropped |-> 0, events |-> <<>>]

(* append_batch_inner: why a batch is refused. *)
Overlap(j, b) == b.first..(Min2(b.next, j.next) - 1)

AppendError(j, b) ==
    CASE b.first > j.next -> "gap"
      [] b.first < j.first -> "replay"
      [] \E q \in Overlap(j, b) :
            j.events[q - j.first + 1] # b.events[q - b.first + 1] -> "mismatch"
      [] OTHER -> "none"

(* ... and what it adds; the variant adds the overlap again. *)
AppendedAll(j, b) == IF b.next <= j.next THEN <<>> ELSE b.events

Appended(j, b) ==
    IF b.next <= j.next THEN <<>> ELSE Suffix(b.events, j.next - b.first)

append_batch(j, b) ==
    LET all == j.events \o Appended(j, b)
        n == Evictions(all)
    IN  [j EXCEPT !.events = Suffix(all, n),
                  !.first = @ + n,
                  !.dropped = @ + n,
                  !.next = b.next]

(* validate: what loading accepts.  Only the audit journal checks its evictions
   against its segment start. *)
ValidJournal(kind, j) ==
    /\ kind = "audit" => j.first = j.start + j.dropped
    /\ j.next = j.first + Len(j.events)
    /\ j.first > 0 /\ j.next <= MaxCursor
    /\ Len(j.events) <= MaxRetained
    /\ encoded_len(j.events) <= MaxWeight

-----------------------------------------------------------------------------
(* Several sources: CrossStreamTelemetryJournal. *)

NewTelemetryJournal ==
    [first |-> 1, next |-> 1, dropped |-> 0, sources |-> <<>>, events |-> <<>>]

(* register_source_at_inner *)
RegisterError(j, s) ==
    CASE s \in DOMAIN j.sources -> "registered"
      [] Cardinality(DOMAIN j.sources) = MaxSources -> "sources"
      [] OTHER -> "none"

register_source_at(j, s, start) ==
    [j EXCEPT !.sources = @ @@ (s :> [start |-> start, next |-> start])]

(* append_source_records: a source that is not registered may begin at 1. *)
Registered(j, s) ==
    IF s \in DOMAIN j.sources THEN j ELSE register_source_at(j, s, 1)

(* The variant wants every source registered. *)
StartErrorAlways(j, s, b) ==
    IF s \in DOMAIN j.sources THEN "none" ELSE "unregistered"

StartError(j, s, b) ==
    CASE s \in DOMAIN j.sources -> "none"
      [] b.first # 1 -> "unregistered"
      [] OTHER -> RegisterError(j, s)

Payloads(rs) == [i \in DOMAIN rs |-> rs[i].event]

Retained(j, s) == SelectSeq(j.events, LAMBDA r : r.source = s)

IngestError(j, s, b) ==
    LET next == j.sources[s].next
        kept == Retained(j, s)
    IN  CASE b.first > next -> "gap"
          [] b.first < next /\ kept = <<>> -> "replay"
          [] b.first < next /\ b.first < kept[1].seq -> "replay"
          [] b.first < next /\ \E q \in b.first..(Min2(b.next, next) - 1) :
                kept[q - kept[1].seq + 1].event # b.events[q - b.first + 1] -> "mismatch"
          [] b.next > next /\ j.next + b.next - next > MaxCursor -> "exhausted"
          [] OTHER -> "none"

(* record: the novel records take the next aggregate numbers. *)
NovelRecords(j, s, b) ==
    LET next == j.sources[s].next
    IN  IF b.next <= next
        THEN <<>>
        ELSE [i \in 1..(b.next - next) |->
                [number |-> j.next + i - 1, source |-> s, seq |-> next + i - 1,
                 event |-> b.events[next - b.first + i]]]

ingest_source_records(j, s, b) ==
    LET new == NovelRecords(j, s, b)
        all == j.events \o new
        n == Evictions(Payloads(all))
    IN  [j EXCEPT !.events = Suffix(all, n),
                  !.first = @ + n,
                  !.dropped = @ + n,
                  !.next = @ + Len(new),
                  !.sources[s].next = b.next]

(* What its sources were observed to say, as source and number *)
Observed(j) ==
    UNION {{s} \X (j.sources[s].start..(j.sources[s].next - 1)) : s \in DOMAIN j.sources}

(* validate: aggregate numbers are contiguous, each source's records are the
   end of what it was observed to say, and the evictions add up. *)
ValidTelemetryJournal(j) ==
    LET source(i) == j.events[i].source
        seq(i) == j.events[i].seq
        none(s, first, last) == \A i \in first..last : source(i) # s
    IN  /\ j.first = j.dropped + 1
        /\ j.next = j.first + Len(j.events)
        /\ j.next <= MaxCursor
        /\ Cardinality(DOMAIN j.sources) <= MaxSources
        /\ Len(j.events) <= MaxRetained
        /\ encoded_len(Payloads(j.events)) <= MaxWeight
        /\ \A s \in DOMAIN j.sources : j.sources[s].start \in 1..j.sources[s].next
        /\ \A i \in DOMAIN j.events :
              /\ j.events[i].number = j.first + i - 1
              /\ source(i) \in DOMAIN j.sources
              /\ seq(i) >= j.sources[source(i)].start
              /\ none(source(i), i + 1, Len(j.events)) => j.sources[source(i)].next = seq(i) + 1
              /\ \A m \in (i + 1)..Len(j.events) :
                    source(m) = source(i) /\ none(source(i), i + 1, m - 1) => seq(m) = seq(i) + 1
        /\ j.dropped = Cardinality(Observed(j)) - Len(j.events)
=============================================================================
