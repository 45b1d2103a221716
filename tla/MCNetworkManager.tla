-------------------------- MODULE MCNetworkManager --------------------------
(* NetworkManager with the constants of include/config.h:198-202, in seconds. *)
EXTENDS NetworkManager

MCBackoff == <<1, 2, 4>>
=============================================================================
