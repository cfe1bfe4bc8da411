---------------------------- MODULE MCEventually ----------------------------
(* The components with something that must come about in the end: an API       *)
(* client's rate limit is lifted, a gone charger is noticed, a confirmed       *)
(* top-up is credited.  They share no state, so each behaviour follows one of  *)
(* them, and has the fairness of that one.                                     *)
EXTENDS ApiGateway, ChargerPresence, WalletBilling

CONSTANTS a, b, t1   \* two clients, of the first tenant or of one each

VARIABLE part   \* the component that moves

allVars == <<part, agVars, cpVars, vars>>

EventuallyInit ==
    /\ part \in {"gateway", "presence", "wallet"}
    /\ AgInit /\ CpInit /\ Init
    /\ tenant[a] = t1
    /\ part = "gateway" \/ (limiter = "memory" /\ tenant[b] = t1)
    /\ part = "wallet" \/ (backend = "memory" /\ route = "internal" /\ walletRow /\ method = "wallet_balance")

EventuallyNext ==
    /\ UNCHANGED part
    /\ IF part = "gateway" THEN AgNext ELSE UNCHANGED agVars
    /\ IF part = "presence" THEN CpNext ELSE UNCHANGED cpVars
    /\ IF part = "wallet" THEN Next ELSE UNCHANGED vars

\* The fairness of each component's own specification, for the one that moves.
EventuallySpec ==
    /\ EventuallyInit /\ [][EventuallyNext]_allVars
    /\ SF_agVars(part = "gateway" /\ AgTick)
    /\ \A c \in Clients : WF_agVars(part = "gateway" /\ Incr(c)) /\ WF_agVars(part = "gateway" /\ Expire(c))
    /\ \A x \in Actors : WF_cpVars(part = "presence" /\ TaskStep(x))
    /\ WF_cpVars(part = "presence" /\ Tick)
    /\ \A w \in Workers : WF_vars(part = "wallet" /\ WorkerStep(w))
    /\ \A i \in TopUps : WF_vars(part = "wallet" /\ \E w \in Workers : TopupWebhook(w, i))
=============================================================================
