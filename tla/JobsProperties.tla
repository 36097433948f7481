---------------------------- MODULE JobsProperties ----------------------------
(***************************************************************************)
(* What the notification jobs must get right, over the module Jobs.        *)
(***************************************************************************)
EXTENDS Jobs

RunRecords ==
    [id : 0 .. MaxRuns, hour : 0 .. MaxHour, every : Intervals \union {0},
     channels : SUBSET Channels, due : SUBSET Channels,
     listed : SUBSET Certs, todo : SUBSET Certs, failures : Nat]

(* Every variable keeps its type, and what a run has in hand fits where the *)
(* run is: a message exactly while it is in notify_expiry, a row in the     *)
(* job_run table exactly while it is running.                              *)
TypeOK ==
    /\ hour \in 0 .. MaxHour
    /\ watched \subseteq Certs
    /\ notAfter \in [Certs -> ExpiryDays]
    /\ thresholds \in [Certs -> ThresholdSets]
    /\ settings \in [webhook : BOOLEAN, every : Intervals, dailyWhenExpired : BOOLEAN]
    /\ log \in [Messages -> Statuses]
    /\ jobRuns \in Seq([slot : Slots, started : 0 .. MaxHour, finished : BOOLEAN, ok : BOOLEAN])
    /\ Len(jobRuns) <= MaxRuns
    /\ pc \in [Slots -> {"idle", "plan", "check", "sending", "accepted"}]
    /\ run \in [Slots -> RunRecords]
    /\ msg \in [Slots -> Messages \union {Nothing}]
    /\ found \in [Slots -> {"none", "error"}]
    /\ tries \in [Slots -> 0 .. MaxTries]
    /\ copies \in [Messages -> Nat]
    /\ \A r \in Slots : pc[r] \in {"idle", "plan"} <=> msg[r] = Nothing
    /\ \A r \in Slots : pc[r] # "idle" => run[r].id \in DOMAIN jobRuns

-----------------------------------------------------------------------------
(* The log.                                                                *)

(* A row that says "sent" is never wrong about it: somebody received the   *)
(* message, whichever of several overlapping runs wrote the row, and from   *)
(* whatever stale row it had read (_deliver, _upsert_log).                  *)
SentWasReceived == \A m \in Messages : log[m] = "sent" => copies[m] > 0

(* A settled row is final.  A run that read the row before its send, and    *)
(* fails after another run succeeded, must not turn it back into an error   *)
(* that the next run would retry.                                          *)
SettledStays == [][\A m \in Messages : Settled(m) => log'[m] = log[m]]_vars

(* The log implements the promise of Delivery, however many runs overlap,   *)
(* crash or fail.                                                          *)
D == INSTANCE Delivery WITH
        Attempts <- Slots,
        settled  <- {m \in Messages : Settled(m)},
        underway <- [r \in Slots |-> IF InFlight(r) THEN msg[r] ELSE Nothing]

PromiseKept == D!Spec

(* Nobody receives a message again once it is settled and no run is in the  *)
(* middle of sending it.                                                   *)
QuietForGood == D!QuietForGood

(* Each message is sent exactly once, ever: README.md, notifier.py and      *)
(* models.py claim it of every execution.  It holds of the scheduled jobs   *)
(* when the process does not stop and providers answer.                    *)
AtMostOnce == \A m \in Messages : copies[m] <= 1

-----------------------------------------------------------------------------
(* The runs.                                                               *)

Handled(r, c) ==
    /\ c \in run[r].listed \ run[r].todo
    /\ pc[r] = "plan" \/ (pc[r] # "idle" /\ c # msg[r].cert)

(* A run without failures left nothing behind: for every certificate it is  *)
(* done with, what was due by email is settled in the log, whether this run *)
(* or an overlapping one settled it.  The job_run row says ok only then.    *)
(* Stated for a record whose expiry and reminders stay as the run read them. *)
CleanRunSettles ==
    \A r \in Slots, c \in WithRecipients :
        /\ r # "escalation" /\ EmailConfigured
        /\ Handled(r, c)
        /\ run[r].failures = 0
        => \A p \in Plan(r, c) :
              Settled([cert |-> c, channel |-> "email", key |-> p.key])

(* Reminders only come nearer: after one was sent, no run tries a farther   *)
(* threshold of that certificate on that channel for the first time, not    *)
(* even a run that started on an earlier day and is still going: that is    *)
(* what mark_superseded is for.  (A farther one that had failed before may  *)
(* be retried by such a run.)                                              *)
NeverFarther ==
    [][\A r \in Slots :
        (~ InFlight(r) /\ InFlight(r)' /\ found'[r] = "none" /\ msg[r].key.kind = "t") =>
            \A t \in 0 .. MaxThreshold :
                t < msg[r].key.n => log[[msg[r] EXCEPT !.key = ThresholdKey(t)]] # "sent"]_vars

(* A run that started comes to its end, whatever fails on the way. *)
RunsFinish == \A r \in Slots : pc[r] # "idle" ~> pc[r] = "idle"

(* What /healthz calls degraded: email is not set up, or the newest row,    *)
(* of whichever job, is not ok.                                            *)
Degraded ==
    \/ ~ EmailConfigured
    \/ jobRuns # <<>> /\ ~ jobRuns[Len(jobRuns)].ok

IsDaily(i) == jobRuns[i].slot # "escalation"

(* README.md: failures are shown on /healthz.  A daily run that failed      *)
(* shows there until a later daily run succeeds.                           *)
FailureShows ==
    (\E i \in DOMAIN jobRuns :
        /\ IsDaily(i) /\ ~ jobRuns[i].ok
        /\ \A j \in DOMAIN jobRuns : j > i /\ IsDaily(j) => ~ jobRuns[j].ok)
    => Degraded
=============================================================================
