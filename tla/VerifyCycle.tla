---------------------------- MODULE VerifyCycle ----------------------------
(***************************************************************************)
(* verify_cycle of src/verify.rs, the check every proof passes before      *)
(* it can be submitted.  A proof that is sorted and distinct is the set of *)
(* its edges; `length' edges in it means that none occurred twice.         *)
(***************************************************************************)
EXTENDS CuckatooGraph

\* The edges of P that meet e.
MatesIn(ends, P, e, side) == {f \in P \ {e} : Meets(ends, e, f, side)}

\* Mutant of OneMate: a surplus mate is overlooked.
OneMateAtLeast(ends, P) == \A e \in P, side \in Sides : MatesIn(ends, P, e, side) # {}

\* Exactly one complementary mate at each endpoint, or EndpointDegree.
OneMate(ends, P) ==
    \A e \in P, side \in Sides : Cardinality(MatesIn(ends, P, e, side)) = 1

\* The walk from mate to mate, on alternating sides: where it is after n steps.
Walk(ends, P, start, length) ==
    LET mate == [e \in P |-> [side \in Sides |->
                    CHOOSE f \in MatesIn(ends, P, e, side) : TRUE]]
        at[n \in 0..length] == IF n = 0 THEN start ELSE mate[at[n - 1]][(n - 1) % 2]
    IN  at

\* The walk visits every edge once and is back after the last, on side 0, or
\* NotSingleCycle.  It begins at the proof's first nonce, here at any.
SingleCycle(ends, P, length) ==
    \E start \in P :
       LET at == Walk(ends, P, start, length)
       IN  /\ \A m, n \in 0..(length - 1) : at[m] = at[n] => m = n
           /\ at[length] = start
           /\ length % 2 = 0

\* verify_cycle(proof).is_ok()
Verify(ends, P, length) ==
    /\ Cardinality(P) = length
    /\ OneMate(ends, P)
    /\ SingleCycle(ends, P, length)
=============================================================================
