--------------------------- MODULE MinerContract ---------------------------
(***************************************************************************)
(* What the miner promises its node, with every mechanism left out: it     *)
(* works on one template at a time, from the first nonce upwards without   *)
(* skipping, and sends at most one share for a nonce, whose proof was found*)
(* on the header and nonce the share names.  After a share is sent, or     *)
(* while the miner is suspended (reconnecting, or stopped), nothing more is*)
(* sent before the nonce advances or a template is adopted.                *)
(***************************************************************************)
EXTENDS Naturals

CONSTANTS Templates, First, Last

VARIABLES template, nonce, phase, shares

cvars == <<template, nonce, phase, shares>>

Init ==
    /\ template \notin Templates
    /\ nonce = First
    /\ phase = "suspended"
    /\ shares = {}

Adopt ==
    /\ phase \in {"open", "suspended"}
    /\ template' \in Templates
    /\ nonce' = First
    /\ phase' = "open"
    /\ UNCHANGED shares

Advance ==
    /\ phase \in {"open", "sent"}
    /\ nonce < Last
    /\ nonce' = nonce + 1
    /\ phase' = "open"
    /\ UNCHANGED <<template, shares>>

Send ==
    /\ phase = "open"
    /\ phase' = "sent"
    /\ shares' = shares \union {[id |-> template, nonce |-> nonce,
                                 header |-> template, solved |-> nonce]}
    /\ UNCHANGED <<template, nonce>>

Suspend ==
    /\ phase # "suspended"
    /\ phase' = "suspended"
    /\ UNCHANGED <<template, nonce, shares>>

Next == Adopt \/ Advance \/ Send \/ Suspend

Spec == Init /\ [][Next]_cvars
=============================================================================
