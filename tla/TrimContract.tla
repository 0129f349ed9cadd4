---------------------------- MODULE TrimContract ----------------------------
(***************************************************************************)
(* What every trimmer promises.  The survivors of a round are exactly the  *)
(* edges of the round before that had a mate on the round's side.  Any     *)
(* number of arenas, parts, overflows and fallbacks may lie between two    *)
(* rounds.  A trimmer that has lost count says so, and then promises       *)
(* nothing more.                                                           *)
(***************************************************************************)
EXTENDS CuckatooGraph

CONSTANT Edges

VARIABLES ends, survivors, round, sound

vars == <<ends, survivors, round, sound>>

Init == survivors = Edges /\ round = 0 /\ sound = TRUE

Trim ==
    /\ survivors' = TrimSide(ends, survivors, round % 2)
    /\ round' = round + 1

\* A verdict that was inconclusive starts the nonce's trimming again.
Restart == survivors' = Edges /\ round' = 0

Next == UNCHANGED ends /\ (sound' => sound /\ (Trim \/ Restart))

Spec == Init /\ [][Next]_vars
=============================================================================
