---------------------------- MODULE TopUpContract ----------------------------
(***************************************************************************)
(* What the wallet promises about top-ups, and all it promises: a credit   *)
(* follows a payment, each payment is credited at most once however often  *)
(* its confirmation is delivered, and no credit is ever taken back.        *)
(***************************************************************************)
EXTENDS Naturals

CONSTANT TopUps

VARIABLES paid,    \* top-ups the payment provider has taken the money for
          credits  \* number of ledger entries of each

vars == <<paid, credits>>

Init == paid = {} /\ credits = [i \in TopUps |-> 0]

Pay(i) ==
    /\ i \notin paid
    /\ paid' = paid \cup {i}
    /\ UNCHANGED credits

Credit(i) ==
    /\ i \in paid /\ credits[i] = 0
    /\ credits' = [credits EXCEPT ![i] = 1]
    /\ UNCHANGED paid

Next == \E i \in TopUps : Pay(i) \/ Credit(i)

Spec == Init /\ [][Next]_vars
=============================================================================
