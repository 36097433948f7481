------------------------------ MODULE Reminders ------------------------------
(***************************************************************************)
(* What is due for one certificate on one day, and the key it is recorded  *)
(* under: plan_for in app/jobs.py and the dedupe keys of app/notifier.py.  *)
(* A dedupe key is the string "t30", "expired:2027-04-08" or               *)
(* "expired:2027-04-08T06" in the code; here it is a record that keeps what *)
(* the string tells apart: its kind, and the threshold, day or hour in it. *)
(***************************************************************************)
EXTENDS Integers

CONSTANT HoursPerDay        \* 24; smaller in the model-checked instances

ASSUME HoursPerDayAssumption == HoursPerDay \in Nat \ {0}

DayOf(hour) == hour \div HoursPerDay

ThresholdKey(t) == [kind |-> "t", n |-> t]
ExpiredKey(day) == [kind |-> "expired", n |-> day]

(* The hour of the day, floored to the interval; the key names the hour the *)
(* slot starts at.                                                          *)
SlotStart(hour, every) ==
    LET interval  == IF every > 1 THEN every ELSE 1
        hourOfDay == hour % HoursPerDay
    IN  DayOf(hour) * HoursPerDay + hourOfDay - (hourOfDay % interval)

ExpiredHourKey(hour, every) == [kind |-> "slot", n |-> SlotStart(hour, every)]

(* Zero is always a threshold, whatever the configured list says. *)
Crossed(days, thresholds) == {t \in thresholds \union {0} : days <= t}

Nearest(C) == {t \in C : \A u \in C : t <= u}

(* plan_for: the empty set for None, otherwise a set with the one plan. *)
PlanFor(days, thresholds, day, notifyWhenExpired) ==
    IF days < 0
    THEN IF notifyWhenExpired
         THEN {[key |-> ExpiredKey(day), superseded |-> {}]}
         ELSE {}
    ELSE LET C == Crossed(days, thresholds)
         IN  {[key |-> ThresholdKey(t), superseded |-> C \ {t}] : t \in Nearest(C)}
=============================================================================
