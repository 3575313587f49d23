-------------------------- MODULE MCTelemetryQueue --------------------------
(* Four spans, two product threads and a queue of two: the queue overflows *)
(* while a batch is out, and two threads can count a drop at once.         *)
EXTENDS TelemetryQueue
=============================================================================
