------------------------------ MODULE MCJobsHeard ------------------------------
(* Jobs with a history of the days on which somebody heard about each record. *)
EXTENDS MCJobs

VARIABLE heard

HeardInit == MCInit /\ heard = {}

HeardNext ==
    /\ Next
    /\ heard' = heard \union
         {<<msg[r].cert, DayOf(hour)>> : r \in {s \in Slots : ~ pc[s] = "accepted" /\ pc'[s] = "accepted"}}

HeardSpec == HeardInit /\ [][HeardNext]_<<vars, heard>>

(* jobs.py, plan_for: "the day a certificate stops working is the one day   *)
(* nobody should hear nothing".  When a daily run ends without a failure,   *)
(* somebody has heard, that day, about every record it listed that expires  *)
(* that day.                                                               *)
ExpiryDayIsHeard ==
    [][\A r \in Slots \ {"escalation"}, c \in WithRecipients :
        /\ pc[r] # "idle" /\ pc'[r] = "idle" /\ run[r].failures = 0
        /\ Reference(r) = DayOf(hour)
        /\ c \in run[r].listed \intersect watched
        /\ notAfter[c] = DayOf(hour)
        => <<c, DayOf(hour)>> \in heard]_<<vars, heard>>
=============================================================================
