------------------------- MODULE MCChargingSessions -------------------------
(* ChargingSessions for two drivers who share a charger. *)
EXTENDS ChargingSessions, TLC

\* The unit tests' wiring, and docker-compose's with and without Supabase.
MCBuilds == {<<"single", "memory">>, <<"split", "memory">>, <<"split", "supabase">>}
MCComposed == {<<"split", "supabase">>}
=============================================================================
