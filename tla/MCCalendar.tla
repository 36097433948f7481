------------------------------ MODULE MCCalendar ------------------------------
(* Small instances of Calendar for TLC. *)
EXTENDS CalendarProperties, TLC

CONSTANTS f1, f2, p1, p2, r1, r2, t1, t2, d1, d2

FileDay == [f \in Files |-> IF f = f1 THEN d1 ELSE d2]
OnlyP1 == {{p1}}
P1OrNobody == {{p1}, {}}
P1OrP2 == {{p1}, {p2}}
NoOwner == {{}}

(* Timings are only compared, and so are files and days when the two files  *)
(* change places together with the days they state.                        *)
SameFiles == [x \in {f1, f2, d1, d2} |-> x]
OtherFiles == f1 :> f2 @@ f2 :> f1 @@ d1 :> d2 @@ d2 :> d1
Alike == {timings @@ files : timings \in Permutations({t1, t2}), files \in {SameFiles, OtherFiles}}
=============================================================================
