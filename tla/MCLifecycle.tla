---------------------------- MODULE MCLifecycle ----------------------------
(* A small instance of Lifecycle for TLC. *)
EXTENDS Lifecycle

\* The streamer is off, as it is by default.
SomeParts == [store |-> 1, gatherers |-> 1, hunters |-> 2, streamer |-> 0, webhooks |-> 1]
=============================================================================
