----------------------------- MODULE MCStartup -----------------------------
(* Two pods, as during a rolling update. *)
EXTENDS Startup

CONSTANTS p1, p2

=============================================================================
