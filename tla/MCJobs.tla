-------------------------------- MODULE MCJobs --------------------------------
(* Small instances of Jobs for TLC. *)
EXTENDS JobsProperties

CONSTANTS c1, m1

(* Everything is watched, everybody has the same reminders. *)
MCInit ==
    /\ Init
    /\ watched = Certs
    /\ settings.webhook
    /\ settings.dailyWhenExpired

MCSpec == MCInit /\ [][Next]_vars

OneList == {{1}}
AroundToday == {-1, 0}
NoOrOneList == {{}, {1}}
=============================================================================
