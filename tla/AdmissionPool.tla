---------------------------- MODULE AdmissionPool ----------------------------
(***************************************************************************)
(* What bounded admission promises its callers, with no queue, clock or    *)
(* signal in sight: a pool of Capacity slots, each request holding a slot  *)
(* at most once in its life, and no slot handed out once the pool is shut. *)
(***************************************************************************)
EXTENDS Naturals, FiniteSets

CONSTANTS Requests, Capacity

VARIABLES
    holders,    \* requests that hold a slot now
    past,       \* requests whose slot has been taken back
    open

vars == <<holders, past, open>>

Init == holders = {} /\ past = {} /\ open = TRUE

\* One step may take several slots back and hand several out: a shutdown
\* aside, freeing a slot and refilling it is one indivisible step.
Turnover ==
    /\ \E back \in SUBSET holders, fresh \in SUBSET (Requests \ (holders \cup past)) :
        /\ fresh # {} => open
        /\ holders' = (holders \ back) \cup fresh
        /\ past' = past \cup back
    /\ Cardinality(holders') <= Capacity
    /\ UNCHANGED open

Shut ==
    /\ open
    /\ open' = FALSE
    /\ UNCHANGED <<holders, past>>

Next == Turnover \/ Shut

Spec == Init /\ [][Next]_vars
=============================================================================
