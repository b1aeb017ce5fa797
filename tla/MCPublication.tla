--------------------------- MODULE MCPublication ---------------------------
(* The instance that publication.cfg checks. *)
EXTENDS Publication

CONSTANTS c1, c2

(* The last session of a month and the first of the next one. *)
MCMonthOf == <<1, 2>>

(* Two selections without a company in common. *)
MCSelections == {{c1}, {c2}}
=============================================================================
