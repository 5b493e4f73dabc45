------------------------------ MODULE MCStream ------------------------------
(***************************************************************************)
(* Stream on small instances: a ring of three packets, batches of two,     *)
(* and a handful of packets, so that the ring wraps, players are           *)
(* overrun and GOPs expire.                                                *)
(***************************************************************************)
EXTENDS Stream

(* Timestamps that run backwards as well, for the run with audio. *)
AVDeltas == {-1, 2}

=============================================================================
