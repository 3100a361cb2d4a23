----------------------------- MODULE EventRing -----------------------------
(***************************************************************************)
(* The bounded in-memory event views: WorkflowEngine.events, the audit     *)
(* trail of CapabilityRuntime, and the entries of the in-memory            *)
(* CrossStreamTelemetryAggregator.  Each is a queue that evicts its oldest *)
(* entry and numbers its entries with a sequence that never restarts.      *)
(***************************************************************************)
EXTENDS Naturals, Sequences

CONSTANT MaxCursor   \* u64::MAX: a cursor, never the number of an event

NewRing == [first |-> 1, next |-> 1, dropped |-> 0, entries |-> <<>>]

(* The n oldest entries are evicted and counted. *)
Evict(r, n) ==
    [r EXCEPT !.entries = SubSeq(@, n + 1, Len(@)),
              !.first = @ + n,
              !.dropped = @ + n]

Excess(r, capacity) ==
    IF Len(r.entries) > capacity THEN Len(r.entries) - capacity ELSE 0

(* trim_audit_to_capacity *)
Trim(r, capacity) == Evict(r, Excess(r, capacity))

(* record_event, record_audit: the cursor never wraps, so events beyond its end
   are dropped. *)
record_event(r, e, capacity) ==
    IF r.next = MaxCursor
    THEN [r EXCEPT !.dropped = @ + 1]
    ELSE Trim([r EXCEPT !.entries = Append(@, e), !.next = @ + 1], capacity)

(* events_since, audit_since: why a cursor is refused, or the exported batch. *)
CursorError(r, cursor) ==
    CASE cursor = 0 -> "invalid"
      [] cursor < r.first -> "evicted"
      [] cursor > r.next -> "ahead"
      [] OTHER -> "none"

events_since(r, cursor) ==
    [first |-> cursor,
     next |-> r.next,
     events |-> SubSeq(r.entries, cursor - r.first + 1, Len(r.entries))]

(* clear_events, clear_audit: the sequence goes on.  The variant numbers from
   the beginning again. *)
clear_events_renumbers(r) == NewRing

clear_events(r) == [r EXCEPT !.entries = <<>>, !.dropped = 0, !.first = r.next]
=============================================================================
