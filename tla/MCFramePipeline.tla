--------------------------- MODULE MCFramePipeline ---------------------------
(* Instances of FramePipeline for TLC. *)
EXTENDS FramePipeline, TLC

\* Buffers and clients are interchangeable; used in the runs without liveness.
Symmetric == Permutations(Buffers) \cup Permutations(Clients)
==============================================================================
