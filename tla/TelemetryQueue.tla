--------------------------- MODULE TelemetryQueue ---------------------------
(***************************************************************************)
(* The bounded span processor of observability.py: product threads end     *)
(* spans without ever waiting, one exporter thread drains the queue in     *)
(* batches, another thread flushes, and shutdown joins the exporter thread *)
(* for a second only.  The counters are plain attributes: "x += n" reads   *)
(* and writes them in two steps, and two threads may interleave there.     *)
(***************************************************************************)
EXTENDS Integers, FiniteSets

CONSTANTS
    MaxSpans,   \* bound: the spans that product threads end, named in that order
    Producers,  \* those threads
    Capacity,   \* maxsize of the queue
    MaxBatch,
    None

ASSUME TelemetryConstants ==
    /\ MaxSpans \in Nat /\ Capacity \in Nat \ {0} /\ MaxBatch \in 1 .. Capacity
    /\ None \notin Nat \cup BOOLEAN
    /\ {"exporter", "closer"} \cap Producers = {}

VARIABLES
    fate,      \* where each span is
    endedLate, \* the spans ended after stop_event was set
    counter,   \* exported_spans, export_failures, dropped_spans
    reading,   \* by thread: the counter value it has read and not yet written
    worker,    \* the exporter thread's place in _run
    active,    \* active_batches
    stop,      \* stop_event
    closer,    \* shutdown's place
    flusher    \* force_flush's place, the spans ended before it, its answer

Spans == 1 .. MaxSpans
vars == <<fate, endedLate, counter, reading, worker, active, stop, closer, flusher>>

Threads == Producers \cup {"exporter", "closer"}
In(place) == {s \in Spans : fate[s] = place}
Oldest(place) == CHOOSE s \in In(place) : \A o \in In(place) : s <= o

Init ==
    /\ fate = [s \in Spans |-> "open"]
    /\ endedLate = {}
    /\ counter = [exported |-> 0, failures |-> 0, dropped |-> 0]
    /\ reading = [t \in Threads |-> None]
    /\ worker = "loop" /\ active = 0 /\ stop = FALSE
    /\ closer = "idle"
    /\ flusher = [at |-> "idle", before |-> {}, answer |-> None]

Read(t, c) == reading' = [reading EXCEPT ![t] = counter[c]]
Write(t, c, n) ==
    /\ counter' = [counter EXCEPT ![c] = reading[t] + n]
    /\ reading' = [reading EXCEPT ![t] = None]

-----------------------------------------------------------------------------
(* on_end: put_nowait, or count the drop.                                  *)
EndSpan(p) ==
    /\ reading[p] = None /\ In("open") # {}
    /\ \/ /\ Cardinality(In("queued")) < Capacity
          /\ fate' = [fate EXCEPT ![Oldest("open")] = "queued"]
          /\ UNCHANGED reading
       \/ /\ Cardinality(In("queued")) = Capacity
          /\ fate' = [fate EXCEPT ![Oldest("open")] = "dropped"]
          /\ Read(p, "dropped")
    /\ endedLate' = IF stop THEN endedLate \cup {Oldest("open")} ELSE endedLate
    /\ UNCHANGED <<counter, worker, active, stop, closer, flusher>>

CountDrop(p) ==
    /\ reading[p] # None
    /\ Write(p, "dropped", 1)
    /\ UNCHANGED <<fate, endedLate, worker, active, stop, closer, flusher>>

-----------------------------------------------------------------------------
(* _run.                                                                   *)
TakeFirst ==
    /\ worker = "loop" /\ In("queued") # {}
    /\ fate' = [fate EXCEPT ![Oldest("queued")] = "batch"]
    /\ worker' = "filling"
    /\ UNCHANGED <<endedLate, counter, reading, active, stop, closer, flusher>>

TakeMore ==
    /\ worker = "filling" /\ Cardinality(In("batch")) < MaxBatch /\ In("queued") # {}
    /\ fate' = [fate EXCEPT ![Oldest("queued")] = "batch"]
    /\ UNCHANGED <<endedLate, counter, reading, worker, active, stop, closer, flusher>>

(* The batch is full or get_nowait found nothing.                          *)
BeginExport ==
    /\ worker = "filling"
    /\ Cardinality(In("batch")) = MaxBatch \/ In("queued") = {}
    /\ active' = active + 1
    /\ worker' = "exporting"
    /\ UNCHANGED <<fate, endedLate, counter, reading, stop, closer, flusher>>

(* export answers SUCCESS, or anything else, or raises.                    *)
Export ==
    /\ worker = "exporting"
    /\ \E c \in {"exported", "failures"} :
           /\ closer = "closed" => c = "failures"
           /\ Read("exporter", c) /\ worker' = c
    /\ UNCHANGED <<fate, endedLate, counter, active, stop, closer, flusher>>

CountBatch ==
    /\ worker \in {"exported", "failures"}
    /\ Write("exporter", worker, Cardinality(In("batch")))
    /\ fate' = [s \in Spans |-> IF fate[s] = "batch" THEN worker ELSE fate[s]]
    /\ active' = active - 1
    /\ worker' = "loop"
    /\ UNCHANGED <<endedLate, stop, closer, flusher>>

\* Mutant of ExporterEnds: the thread ends as soon as it is told to stop.
ExporterEndsAtOnce ==
    /\ worker = "loop" /\ stop
    /\ worker' = "ended"
    /\ UNCHANGED <<fate, endedLate, counter, reading, active, stop, closer, flusher>>

ExporterEnds ==
    /\ worker = "loop" /\ stop /\ In("queued") = {}
    /\ worker' = "ended"
    /\ UNCHANGED <<fate, endedLate, counter, reading, active, stop, closer, flusher>>

-----------------------------------------------------------------------------
(* shutdown follows the flush: the join gives up after a second, the       *)
(* exporter is closed under a batch that may still be on its way, and a    *)
(* failed close is counted as one more failed span.                        *)
Stop ==
    /\ closer = "idle" /\ flusher.at = "done"
    /\ stop' = TRUE /\ closer' = "joining"
    /\ UNCHANGED <<fate, endedLate, counter, reading, worker, active, flusher>>

(* join: returns when the thread has ended or when the timeout expires.    *)
Close ==
    /\ closer = "joining"
    /\ \/ closer' = "closed" /\ UNCHANGED reading
       \/ closer' = "failed" /\ Read("closer", "failures")
    /\ UNCHANGED <<fate, endedLate, counter, worker, active, stop, flusher>>

CountFailedClose ==
    /\ closer = "failed"
    /\ Write("closer", "failures", 1)
    /\ closer' = "closed"
    /\ UNCHANGED <<fate, endedLate, worker, active, stop, flusher>>

-----------------------------------------------------------------------------
(* force_flush: the wait loop reads both conditions again on return, the   *)
(* queue before the active batches; its deadline may come at any time.     *)
FlushCall ==
    /\ flusher.at = "idle"
    /\ flusher' = [at |-> "queue", before |-> {s \in Spans : fate[s] # "open"}, answer |-> None]
    /\ UNCHANGED <<fate, endedLate, counter, reading, worker, active, stop, closer>>

\* Mutant of FlushReadsQueue: only the active batches are waited for.
FlushSkipsQueue ==
    /\ flusher.at = "queue"
    /\ flusher' = [flusher EXCEPT !.at = "active"]
    /\ UNCHANGED <<fate, endedLate, counter, reading, worker, active, stop, closer>>

FlushReadsQueue ==
    /\ flusher.at = "queue"
    /\ flusher' = IF In("queued") = {} THEN [flusher EXCEPT !.at = "active"]
                  ELSE [flusher EXCEPT !.at = "done", !.answer = FALSE]
    /\ UNCHANGED <<fate, endedLate, counter, reading, worker, active, stop, closer>>

FlushReadsActive ==
    /\ flusher.at = "active"
    /\ flusher' = [flusher EXCEPT !.at = "done", !.answer = (active = 0)]
    /\ UNCHANGED <<fate, endedLate, counter, reading, worker, active, stop, closer>>

Exporter == TakeFirst \/ TakeMore \/ BeginExport \/ Export \/ CountBatch \/ ExporterEnds

Next ==
    \/ \E p \in Producers : EndSpan(p) \/ CountDrop(p)
    \/ Exporter
    \/ Stop \/ Close \/ CountFailedClose
    \/ FlushCall \/ FlushReadsQueue \/ FlushReadsActive

(* The exporter is a thread of its own: the operating system runs it; an   *)
(* export call has a timeout and therefore returns.                        *)
Spec == Init /\ [][Next]_vars /\ WF_vars(Exporter)

-----------------------------------------------------------------------------
(* Every span is in one place; only the exporter has a batch.              *)
TelemetryTypeOK ==
    /\ fate \in [Spans -> {"open", "queued", "batch", "exported", "failures", "dropped"}]
    /\ Cardinality(In("queued")) <= Capacity /\ Cardinality(In("batch")) <= MaxBatch
    /\ active \in 0 .. 1
    /\ worker \in {"loop", "ended"} => In("batch") = {} /\ active = 0

(* The diagnostics never claim more than happened: exported_spans is exact *)
(* whenever the exporter is between batches, and dropped_spans, which loses *)
(* updates when two threads drop at once, never exceeds the drops.         *)
DiagnosticsAreHonest ==
    /\ worker \notin {"exported"} => counter.exported = Cardinality(In("exported"))
    /\ counter.dropped <= Cardinality(In("dropped"))
    /\ counter.failures <= Cardinality(In("failures")) + 1

(* A drop is a health signal: once no thread is in the middle of counting, *)
(* the counter shows that something was dropped, however many updates were *)
(* lost.                                                                   *)
DropIsVisible ==
    In("dropped") # {} /\ (\A p \in Producers : reading[p] = None) => counter.dropped > 0

(* A flush that answers TRUE left no span queued that was ended before it  *)
(* was called; the last batch may still be on its way to the exporter.     *)
FlushEmptiesQueue ==
    flusher.answer = TRUE => \A s \in flusher.before : fate[s] # "queued"

(* Telemetry accounts for every span: the queue, the counters and what a   *)
(* flush answers.                                                          *)
TelemetryInv ==
    /\ TelemetryTypeOK
    /\ DiagnosticsAreHonest
    /\ DropIsVisible
    /\ FlushEmptiesQueue

(* A span ended before shutdown began is exported, failed or dropped in the *)
(* end, even when shutdown gave up waiting for the exporter.               *)
EarlySpansAreSettled ==
    \A s \in Spans : (fate[s] = "queued" /\ s \notin endedLate) ~> fate[s] \in {"exported", "failures"}
=============================================================================
