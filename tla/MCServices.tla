----------------------------- MODULE MCServices -----------------------------
(* The services around charging itself: what roaming partners and drivers are  *)
(* offered, who may use it, what it costs and how it is reported.  They share  *)
(* no state with each other, so each behaviour follows one of them, chosen in  *)
(* the initial state: the reachable states add up instead of multiplying.      *)
(* Charging preferences and profile requests have only the sessions' bindings  *)
(* in common, approvals and firmware updates only the charger's sockets: they  *)
(* are followed apart in the same way.                                         *)
EXTENDS DriverAuth, SmartCharging, Reservations, RoamingTokens, RoamingPartners, CdrExchange,
        TariffCatalogue, SessionIdentity, Tenancy, ChargerOnboarding, Pricing, Invoicing,
        FleetTeams, FleetReports, CarbonIntensity, TLC

CONSTANTS s1, s2, d1, d2, t1, t2, c1, c2, c3

VARIABLE part   \* the service that moves

allVars == <<part, vars, scVars, rvVars, rtVars, rpVars, ceVars, tcVars, siVars, teVars,
             obVars, prVars, inVars, ftVars, frVars, ciVars>>

ServicesInit ==
    /\ part \in {"signin", "profiles", "preferences", "reservations", "tokens", "partners", "cdrs", "tariffs",
                 "identity", "tenancy", "onboarding", "firmware", "pricing", "invoicing", "teams", "reports", "carbon"}
    /\ Init /\ ScInit /\ RvInit /\ RtInit /\ RpInit /\ CeInit /\ TcInit /\ SiInit
    /\ TeInit /\ ObInit /\ PrInit /\ InInit /\ FtInit /\ FrInit /\ CiInit
    /\ part = "tariffs" \/ store = "memory"
    /\ part = "onboarding" \/ registry = "memory"
    /\ running = CHOOSE v \in Versions : TRUE

ServicesNext ==
    /\ UNCHANGED part
    /\ IF part = "signin" THEN Next ELSE UNCHANGED vars
    /\ IF part \in {"profiles", "preferences"} THEN ScNext ELSE UNCHANGED scVars
    /\ part = "profiles" => UNCHANGED preferred
    /\ part = "preferences" => UNCHANGED pcall
    /\ IF part = "reservations" THEN RvNext ELSE UNCHANGED rvVars
    /\ IF part = "tokens" THEN RtNext ELSE UNCHANGED rtVars
    /\ IF part = "partners" THEN RpNext ELSE UNCHANGED rpVars
    /\ IF part = "cdrs" THEN CeNext ELSE UNCHANGED ceVars
    /\ IF part = "tariffs" THEN TcNext ELSE UNCHANGED tcVars
    /\ IF part = "identity" THEN SiNext ELSE UNCHANGED siVars
    /\ IF part = "tenancy" THEN TeNext ELSE UNCHANGED teVars
    /\ IF part \in {"onboarding", "firmware"} THEN ObNext ELSE UNCHANGED obVars
    /\ part = "onboarding" => UNCHANGED started
    /\ part = "firmware" => UNCHANGED approved
    /\ IF part = "pricing" THEN PrNext ELSE UNCHANGED prVars
    /\ IF part = "invoicing" THEN InNext ELSE UNCHANGED inVars
    /\ IF part = "teams" THEN FtNext ELSE UNCHANGED ftVars
    /\ IF part = "reports" THEN FrNext ELSE UNCHANGED frVars
    /\ IF part = "carbon" THEN CiNext ELSE UNCHANGED ciVars

ServicesSpec == ServicesInit /\ [][ServicesNext]_allVars

\* Two sessions, in tenths of a kWh and of a minute; two versions of a tariff.
MCUseOf == (s1 :> [energy |-> 5, time |-> 15, idle |-> 0]) @@ (s2 :> [energy |-> 15, time |-> 300, idle |-> 120])
MCComponent(type, price, step, grace) == [type |-> type, price |-> price, step |-> step, grace |-> grace]
MCComponentsOf ==
    << {MCComponent("energy", 3, 1, 0), MCComponent("idle", 2, 1, 10)},
       {MCComponent("energy", 5, 2, 0), MCComponent("time", 1, 1, 0), MCComponent("flat", 4, 1, 0)} >>

\* Half off for one session, and ten minor units off for any number.
MCPromoOf == <<[kind |-> "percent", value |-> 5000, from |-> 1, to |-> 2, limit |-> 1],
               [kind |-> "flat", value |-> 10, from |-> 0, to |-> 3, limit |-> -1]>>

\* One preference that can be planned for, and four that cannot.
MCPreferences == [type: {"CHEAP"}, departure: BOOLEAN, energy: BOOLEAN] \cup [type: {"ECO"}, departure: {TRUE}, energy: {TRUE}]

\* Two drivers of two tenants; certificates with an account and one without.
MCTenantOf == (d1 :> t1) @@ (d2 :> t2)
MCEmaidDriver == (c1 :> d1) @@ (c2 :> d2) @@ (c3 :> NoDriver)

\* a1 and a2 stand for interchangeable requests, calls, sockets or sessions of each
\* service, b1 and b2 for interchangeable things they are about.
ServicesSymmetry == Permutations(RoamingSessions) \cup Permutations(ProfileCalls)
=============================================================================
