------------------------------ MODULE MCSchedule ------------------------------
(* Small instances of Schedule for TLC. *)
EXTENDS Schedule

CONSTANT c1

MCInit ==
    /\ ScheduleInit
    /\ watched = Certs
    /\ \A c \in Certs : thresholds[c] = {1} /\ \A d \in ExpiryDays : notAfter[c] <= d
    /\ settings.webhook
    /\ settings.dailyWhenExpired

(* Bound: people change one thing. *)
MCNext == ScheduleNext /\ (dataVars' # dataVars => calm = 0)

MCSpec == MCInit /\ [][MCNext]_allVars
MCFairSpec == MCSpec /\ \A r \in Slots : WF_allVars(RunStep(r))

OneList == {{1}}
NoOrOneList == {{}, {1}}

(* One hour ahead all the time; two hours until the clocks go back.        *)
Ahead == [h \in 0 .. MaxHour |-> 1]
ClocksGoBack == [h \in 0 .. MaxHour |-> IF h < 4 THEN 2 ELSE 1]
=============================================================================
