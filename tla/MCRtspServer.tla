---------------------------- MODULE MCRtspServer ----------------------------
(* RtspServer with symmetric clients, for the runs without liveness. *)
EXTENDS RtspServer, TLC

Symmetric == Permutations(Clients)
=============================================================================
