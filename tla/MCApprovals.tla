---------------------------- MODULE MCApprovals ----------------------------
(* Two synths.  A handler asks about a site for s1; a command is asked about *)
(* for s2 as the shell does it ("always" is all that is remembered).  What   *)
(* asks ahead of time, as permission.request, is a3, where a configuration   *)
(* has it; MCEnds has both.                                                  *)
EXTENDS Approvals

CONSTANTS s1, s2, site, command, a1, a2, a3

MCAskKey == [a \in Asks |-> IF a = a1 THEN <<s1, site>> ELSE <<s2, command>>]
MCAskRemember == [a \in Asks |-> IF a = a2 THEN "always" ELSE "any"]
MCAskAhead == Asks \cap {a3}
=============================================================================
