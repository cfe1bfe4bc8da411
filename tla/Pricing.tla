------------------------------- MODULE Pricing -------------------------------
(* What a session costs: the tariff version active at its start                *)
(* (InMemoryTariffVersionStore), the cost of its components                    *)
(* (calculate_session_cost) and a promo code's discount (redeem_promo_code,    *)
(* apply_discount).  The stores are in memory and never suspend.  Money is in  *)
(* minor units, energy in tenths of a kWh; quotients are exact here and        *)
(* floating point in the code.                                                 *)
EXTENDS Integers, FiniteSetsExt

CONSTANTS
    PricedSessions,  \* session ids
    UseOf,           \* what each session took: [energy, time, idle], in tenths
    ComponentsOf,    \* of each version: components [type, price, step, grace]
    StepUnit,        \* a common multiple of the step sizes
    PromoOf,         \* the promotion of each promo code
    MaxPriceClock    \* bound: ticks

\* A percent's value is in basis points, a flat one's in minor units; limit is -1
\* where usage_limit is None.
Promotion == [kind: {"percent", "flat"}, value: Nat, from: Nat, to: Nat, limit: Nat \cup {-1}]

TariffComponent == [type: {"energy", "time", "flat", "idle"}, price: Nat, step: Nat \ {0}, grace: Nat]

ASSUME PricingAssumption ==
    /\ {StepUnit, MaxPriceClock} \subseteq Nat \ {0}
    /\ \A p \in DOMAIN PromoOf : PromoOf[p] \in Promotion
    /\ 1 \in DOMAIN ComponentsOf
    /\ \A v \in DOMAIN ComponentsOf :
          /\ v \in Nat /\ IsFiniteSet(ComponentsOf[v])
          /\ \A c \in ComponentsOf[v] : c \in TariffComponent /\ StepUnit % c.step = 0
    /\ UseOf \in [PricedSessions -> [energy: Nat, time: Nat, idle: Nat]]

VARIABLES
    pclock,     \* time
    versions,   \* TariffVersionRecord: [no, from, to], to = -1 for none
    priced,     \* the sessions: [pc, start, shown, amount]
    backdated,  \* sessions a version added since their start reaches back to
    promoUsed   \* InMemoryPromotionRedemptionStore: the sessions of each code

prVars == <<pclock, versions, priced, backdated, promoUsed>>

Unpriced == [pc |-> "new", start |-> 0, shown |-> 0, amount |-> 0]

PrTypeOK ==
    /\ pclock \in 0..MaxPriceClock
    /\ versions \subseteq [no: DOMAIN ComponentsOf, from: 0..MaxPriceClock, to: -1..MaxPriceClock + 1]
    /\ priced \in [PricedSessions -> [pc: {"new", "charging", "billed"}, start: 0..MaxPriceClock,
                                      shown: 0..Cardinality(DOMAIN ComponentsOf), amount: Nat]]
    /\ backdated \subseteq PricedSessions /\ promoUsed \in [DOMAIN PromoOf -> SUBSET PricedSessions]

PrInit ==
    /\ pclock = 0
    /\ versions = {[no |-> 1, from |-> 0, to |-> -1]}
    /\ priced = [s \in PricedSessions |-> Unpriced]
    /\ backdated = {} /\ promoUsed = [p \in DOMAIN PromoOf |-> {}]

------------------------------------------------------------------------------
\* get_active_version: the newest effective_from of those in force, the first
\* added of two that share it; 0 for none.
ActiveVersion(at) ==
    LET inForce == {v \in versions : v.from <= at /\ (v.to = -1 \/ at < v.to)}
    IN  IF inForce = {} THEN 0
        ELSE (CHOOSE v \in inForce : \A w \in inForce : w.from < v.from \/ (w.from = v.from /\ w.no >= v.no)).no

\* Python's round, of n/d.
RoundHalfEven(n, d) ==
    LET q == n \div d
        r == n % d
    IN  IF 2 * r < d THEN q ELSE IF 2 * r > d THEN q + 1 ELSE q + (q % 2)

\* _proportional_cost of a quantity given in tenths.
ProportionalCost(tenths, step, price) == RoundHalfEven(tenths * price, 10 * step)

\* What a component is priced by: idle time counts after the grace period.
Quantity(c, use) ==
    CASE c.type = "energy" -> use.energy
      [] c.type = "time" -> use.time
      [] c.type = "flat" -> 10 * c.step
      [] c.type = "idle" -> IF use.idle > 10 * c.grace THEN use.idle - 10 * c.grace ELSE 0

\* calculate_session_cost: each component is rounded by itself, a flat one being whole.
SessionCost(v, use) ==
    LET cost == [c \in ComponentsOf[v] |-> ProportionalCost(Quantity(c, use), c.step, c.price)]
    IN  MapThenSumSet(LAMBDA c : cost[c], ComponentsOf[v])

\* apply_discount.
Discounted(cost, p) ==
    LET discount == IF PromoOf[p].kind = "percent" THEN RoundHalfEven(cost * PromoOf[p].value, 10000)
                    ELSE PromoOf[p].value
    IN  IF discount > cost THEN 0 ELSE cost - discount

\* is_promo_within_validity_window, and usage_limit, where there is one, not reached.
Redeemable(p) ==
    /\ PromoOf[p].from <= pclock /\ pclock <= PromoOf[p].to
    /\ PromoOf[p].limit # -1 => Cardinality(promoUsed[p]) < PromoOf[p].limit

\* add_version; nothing keeps effective_from from being in the past.
AddVersion(no, from, to) ==
    /\ \A v \in versions : v.no < no
    /\ versions' = versions \cup {[no |-> no, from |-> from, to |-> to]}
    /\ backdated' = backdated \cup {s \in PricedSessions : priced[s].pc # "new" /\ priced[s].start >= from}
    /\ UNCHANGED <<pclock, priced, promoUsed>>

SessionBegins(s) ==
    /\ priced[s].pc = "new" /\ ActiveVersion(pclock) # 0
    /\ priced' = [priced EXCEPT ![s].pc = "charging", ![s].start = pclock, ![s].shown = ActiveVersion(pclock)]
    /\ UNCHANGED <<pclock, versions, backdated, promoUsed>>

\* Variant: the session is billed by the version active when it is priced.
VersionWhenPriced(s) == ActiveVersion(pclock)

\* at is the session's start_timestamp.
BilledVersion(s) == ActiveVersion(priced[s].start)

Bill(s, amount) ==
    /\ priced[s].pc = "charging" /\ BilledVersion(s) # 0
    /\ priced' = [priced EXCEPT ![s].pc = "billed", ![s].amount = amount]
    /\ UNCHANGED <<pclock, versions, backdated>>

SessionIsPriced(s) ==
    /\ Bill(s, SessionCost(BilledVersion(s), UseOf[s]))
    /\ UNCHANGED promoUsed

\* redeem_promo_code counts the use before the discount is applied.
SessionIsPricedWithPromo(s, p) ==
    /\ Redeemable(p)
    /\ Bill(s, Discounted(SessionCost(BilledVersion(s), UseOf[s]), p))
    /\ promoUsed' = [promoUsed EXCEPT ![p] = @ \cup {s}]

PriceTick ==
    /\ pclock < MaxPriceClock /\ pclock' = pclock + 1
    /\ UNCHANGED <<versions, priced, backdated, promoUsed>>

PrNext ==
    \/ PriceTick
    \/ \E no \in DOMAIN ComponentsOf, from \in 0..MaxPriceClock : AddVersion(no, from, -1) \/ AddVersion(no, from, from + 1)
    \/ \E s \in PricedSessions : SessionBegins(s) \/ SessionIsPriced(s)
    \/ \E s \in PricedSessions, p \in DOMAIN PromoOf : SessionIsPricedWithPromo(s, p)

PrSpec == PrInit /\ [][PrNext]_prVars

------------------------------------------------------------------------------
(* BilledAsShown: versions are added while sessions charge, and a session is    *)
(* priced at its end as of its start (tariff_versioning.py:45-52).  Unless a    *)
(* version added since reaches back to its start, the bill is within half a     *)
(* minor unit for each component but the flat ones of the exact price under the *)
(* version it began under, though each is rounded by itself, half to even       *)
(* (tariff_calculator.py:31-52); a promo code, of either kind, only lowers it,  *)
(* and for as many sessions as its usage_limit, if any, allows                  *)
(* (promotions.py:70-103).                                                      *)
BilledAsShown ==
    /\ \A p \in DOMAIN PromoOf : PromoOf[p].limit # -1 => Cardinality(promoUsed[p]) <= PromoOf[p].limit
    /\ \A s \in PricedSessions \ backdated : priced[s].pc = "billed" =>
           LET shown == ComponentsOf[priced[s].shown]
               price == [c \in shown |-> Quantity(c, UseOf[s]) * c.price * (StepUnit \div c.step)]
               exact == MapThenSumSet(LAMBDA c : price[c], shown)
               off == 10 * StepUnit * priced[s].amount - exact
               slack == 5 * StepUnit * Cardinality({c \in shown : c.type # "flat"})
           IN  off <= slack /\ ((\A p \in DOMAIN PromoOf : s \notin promoUsed[p]) => off >= -slack)
==============================================================================
