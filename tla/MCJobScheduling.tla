--------------------------- MODULE MCJobScheduling ---------------------------
(* Small instances of JobScheduling. *)
EXTENDS JobScheduling

EveryTick == {1}
AllGates == {"open", "login_failed", "no_session", "expired", "renewable"}
=============================================================================
