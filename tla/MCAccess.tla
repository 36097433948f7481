------------------------------- MODULE MCAccess -------------------------------
(* A small instance of Access for TLC: two sessions of one editor, who are  *)
(* counted together, and one of a person who may only look.                *)
EXTENDS Access

CONSTANTS r1, r2, laptop, phone, guest, editor, viewer

Owner == [s \in Sessions |-> IF s = guest THEN viewer ELSE editor]
=============================================================================
