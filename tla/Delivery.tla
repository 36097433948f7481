------------------------------- MODULE Delivery -------------------------------
(***************************************************************************)
(* What the notification log promises, apart from how the jobs keep it.    *)
(* Somebody may be trying to send a message; once a message is settled (it *)
(* is recorded as sent, or as overtaken by a nearer one) nobody starts     *)
(* sending it again, and it stays settled through restarts.  An attempt    *)
(* that was already under way may still reach people: the promise is not   *)
(* "at most one copy", it is "nothing new once settled".                   *)
(***************************************************************************)
EXTENDS Naturals

CONSTANTS Messages,         \* what can be sent: certificate, channel and key
          Attempts,         \* who can be sending
          Nothing           \* what an attempt that sends nothing is sending

VARIABLES settled,          \* messages recorded as done
          underway,         \* what each attempt is sending
          copies            \* how many times people received each message

vars == <<settled, underway, copies>>

Init == /\ settled = {}
        /\ underway = [a \in Attempts |-> Nothing]
        /\ copies = [m \in Messages |-> 0]

Begin(a, m) == /\ underway[a] = Nothing
               /\ m \notin settled
               /\ underway' = [underway EXCEPT ![a] = m]
               /\ UNCHANGED <<settled, copies>>

Hand(a) == /\ underway[a] # Nothing
           /\ copies' = [copies EXCEPT ![underway[a]] = @ + 1]
           /\ UNCHANGED <<settled, underway>>

Settle(a) == /\ underway[a] # Nothing
             /\ settled' = settled \union {underway[a]}
             /\ underway' = [underway EXCEPT ![a] = Nothing]
             /\ UNCHANGED copies

GiveUp(a) == /\ underway[a] # Nothing
             /\ underway' = [underway EXCEPT ![a] = Nothing]
             /\ UNCHANGED <<settled, copies>>

(* Other messages may be settled without being sent. *)
Supersede == /\ settled' \in SUBSET Messages
             /\ settled \subseteq settled'
             /\ UNCHANGED <<underway, copies>>

Restart == /\ underway' = [a \in Attempts |-> Nothing]
           /\ UNCHANGED <<settled, copies>>

Next == \/ \E a \in Attempts, m \in Messages : Begin(a, m)
        \/ \E a \in Attempts : Hand(a) \/ Settle(a) \/ GiveUp(a)
        \/ Supersede
        \/ Restart

Spec == Init /\ [][Next]_vars

(* A message that is settled, and that nobody is in the middle of sending, *)
(* never reaches anyone again and never becomes unsettled.                 *)
Quiet(m) == m \in settled /\ \A a \in Attempts : underway[a] # m

QuietForGood == [][\A m \in Messages : Quiet(m) => Quiet(m)' /\ copies'[m] = copies[m]]_vars
=============================================================================
