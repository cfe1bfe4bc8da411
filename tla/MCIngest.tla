------------------------------ MODULE MCIngest ------------------------------
(* What chargers report and what becomes of it: transactions on two sockets of *)
(* one charger (the old connection, still inside a handler, and the one it     *)
(* retries on), and the events of statuses on their way to roaming partners.   *)
(* The two share no state, so each behaviour follows one of them.              *)
EXTENDS ChargeTransactions, EventDelivery, TLC

CONSTANT h1

VARIABLE part   \* the component that moves

MCChargerOf == [s \in Sockets |-> h1]

IngestInit ==
    /\ part \in {"transactions", "events"}
    /\ Init /\ EdInit
    /\ part = "events" => backend = "memory"
    /\ part = "transactions" => bus = "memory" /\ client = "memory"

IngestNext ==
    /\ UNCHANGED part
    /\ IF part = "transactions" THEN Next ELSE UNCHANGED vars
    /\ IF part = "events" THEN EdNext ELSE UNCHANGED edVars

IngestSpec == IngestInit /\ [][IngestNext]_<<part, vars, edVars>>

IngestSymmetry == Permutations(Sockets) \cup Permutations(Txns) \cup Permutations(Tasks)
=============================================================================
