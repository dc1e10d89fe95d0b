------------------------------ MODULE MCLease ------------------------------
(* Three generations of the plugin: an original and two hot reloads. *)
EXTENDS Lease

MCInstance == 1 .. 3
=============================================================================
