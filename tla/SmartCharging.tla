---------------------------- MODULE SmartCharging ----------------------------
(* Roaming partners' sessions, their charging profiles and preferences:        *)
(* OcpiCommandService, ChargingProfileService, ChargingPreferencesService and  *)
(* the SessionChargerMap they share.  A session is a partner's handle on a     *)
(* charger; the profile shown for it is stored once                            *)
(* the charger's answer has come back, and the charger goes by one TxProfile   *)
(* (chargingProfileId 1, stackLevel 0), whichever session it was sent for.     *)
(* How a command travels to its charger is module RemoteCommands; here it is a *)
(* call.  "accepted" is any CallResult (nats_command_transport.py:131-132), the *)
(* charger's {"status": "Rejected"} included; "refused" is an offline charger,  *)
(* a CallError or a timeout, after which the charger may still do as told.      *)
EXTENDS Naturals, FiniteSets

CONSTANTS
    Locations,         \* location ids, each standing for its charger
    RoamingSessions,  \* the OCPI session ids a run may mint
    Watts,            \* limits a partner asks for
    MaxWatts,         \* InMemoryConnectorCapacityProvider's answer
    Preferences,      \* preferences a partner sends: [type, departure, energy], the last two being given or not
    ProfileCalls,     \* requests that may be under way at once
    MaxOverdue,       \* bound: timed-out profiles still on their way; any more are lost
    NoOne

ASSUME SmartChargingAssumption ==
    /\ Watts \subseteq Nat /\ MaxWatts \in Nat /\ MaxOverdue \in Nat
    /\ Preferences \subseteq [type: STRING, departure: BOOLEAN, energy: BOOLEAN]
    /\ NoOne \notin Locations \cup RoamingSessions \cup Watts \cup Preferences

VARIABLES
    binding,   \* InMemorySessionChargerMap: the charger of each session
    active,    \* InMemoryActiveChargingProfileStore: the limit shown for each session
    preferred, \* InMemoryChargingPreferencesStore
    charging,  \* the charger has an active transaction
    applied,   \* the TxProfile the charger goes by
    pcall,     \* the requests under way
    overdue,   \* profiles on their way to a charger whose requests have timed out
    lastSet    \* the session a charger's profile was last set for, by a request nothing crossed

scVars == <<binding, active, preferred, charging, applied, pcall, overdue, lastSet>>

NoPcall == [cmd |-> "none", charger |-> NoOne, session |-> NoOne, limit |-> NoOne,
           answer |-> "none", crossed |-> FALSE]

ScTypeOK ==
    /\ binding \in [RoamingSessions -> Locations \cup {NoOne}]
    /\ active \in [RoamingSessions -> Watts \cup {NoOne}]
    /\ preferred \in [RoamingSessions -> Preferences \cup {NoOne}]
    /\ charging \in [Locations -> BOOLEAN]
    /\ applied \in [Locations -> Watts \cup {NoOne}]
    /\ pcall \in [ProfileCalls -> [cmd: {"none", "start", "stop", "profile"},
                                   charger: Locations \cup {NoOne}, session: RoamingSessions \cup {NoOne},
                                   limit: Watts \cup {NoOne}, answer: {"none", "accepted", "refused"},
                                   crossed: BOOLEAN]]
    /\ overdue \subseteq Locations \X Watts
    /\ lastSet \in [Locations -> RoamingSessions \cup {NoOne}]

ScInit ==
    /\ binding = [s \in RoamingSessions |-> NoOne]
    /\ active = [s \in RoamingSessions |-> NoOne]
    /\ preferred = [s \in RoamingSessions |-> NoOne]
    /\ charging = [c \in Locations |-> FALSE]
    /\ applied = [c \in Locations |-> NoOne]
    /\ pcall = [q \in ProfileCalls |-> NoPcall]
    /\ overdue = {}
    /\ lastSet = [c \in Locations |-> NoOne]

------------------------------------------------------------------------------
ProfileRequests(c) == {q \in ProfileCalls : pcall[q].cmd = "profile" /\ pcall[q].charger = c}

\* The calls once every profile request for c is marked as crossed by another event.
Crossed(calls, c) ==
    [q \in ProfileCalls |-> IF q \in ProfileRequests(c) THEN [calls[q] EXCEPT !.crossed = TRUE] ELSE calls[q]]

\* InMemorySessionChargerMap: a session is known once it is bound.
Bound(s) == binding[s] # NoOne

\* get_active_profile: nothing for an unknown session or one no profile was stored for.
ActiveProfile(s) == IF Bound(s) THEN active[s] ELSE NoOne

\* _to_ocpp_set_charging_profile_payload: the one TxProfile, id 1 at level 0, takes the
\* place of the charger's earlier one; its largest period stands for its schedule.
TxProfile(profiles, c, w) == [profiles EXCEPT ![c] = w]

\* send_command, up to the wait: an offline charger is a refusal at once.
Call(q, cmd, c, s, w) ==
    /\ pcall[q] = NoPcall
    /\ \E a \in {"none", "refused"} :
           pcall' = Crossed([pcall EXCEPT ![q] =
                       [cmd |-> cmd, charger |-> c, session |-> s, limit |-> w, answer |-> a,
                        crossed |-> cmd = "profile" /\ ProfileRequests(c) # {}]],
                       IF cmd = "profile" THEN c ELSE NoOne)
    /\ UNCHANGED <<binding, active, preferred, charging, applied, overdue, lastSet>>

\* POST START_SESSION: location_id is the charger's id.
StartSession(q, c) == Call(q, "start", c, NoOne, NoOne)

\* POST STOP_SESSION: an unknown session and an idle charger are refused.
StopSession(q, s) ==
    /\ Bound(s) /\ charging[binding[s]]
    /\ Call(q, "stop", binding[s], s, NoOne)

\* send_set_charging_profile: more than the connector can carry is refused.
WithinCapacity(w) == w <= MaxWatts

\* PUT chargingprofiles/{session_id}, up to the charger's answer.
SetChargingProfile(q, s, w) ==
    /\ Bound(s)
    /\ WithinCapacity(w)
    /\ Call(q, "profile", binding[s], s, w)

\* The charger answers.  Three answers: it does as told; it declines in a CallResult,
\* which no caller looks into; a CallError.  What a declined request stores is known
\* not to be applied, so it counts as crossed.  A stop ends the transaction later, with
\* the charger's own StopTransaction.
ProfileAnswered(q) ==
    /\ pcall[q].cmd # "none" /\ pcall[q].answer = "none"
    /\ \/ /\ pcall' = [pcall EXCEPT ![q].answer = "accepted"]
          /\ applied' = IF pcall[q].cmd = "profile"
                        THEN TxProfile(applied, pcall[q].charger, pcall[q].limit) ELSE applied
       \/ /\ pcall' = [pcall EXCEPT ![q].answer = "accepted", ![q].crossed = (pcall[q].cmd = "profile")]
          /\ UNCHANGED applied
       \/ /\ pcall' = [pcall EXCEPT ![q].answer = "refused"]
          /\ UNCHANGED applied
    /\ UNCHANGED <<binding, active, preferred, charging, overdue, lastSet>>

\* TIMED_OUT, whether or not the charger did as it was told; callers take it for a
\* refusal, and a profile the charger has not answered may still reach it.
TimesOut(q) ==
    /\ pcall[q].cmd # "none" /\ pcall[q].answer # "refused"
    /\ pcall' = [pcall EXCEPT ![q].answer = "refused"]
    /\ lastSet' = IF pcall[q].cmd = "profile" THEN [lastSet EXCEPT ![pcall[q].charger] = NoOne] ELSE lastSet
    /\ overdue' = IF pcall[q].cmd = "profile" /\ pcall[q].answer = "none" /\ Cardinality(overdue) < MaxOverdue
                  THEN overdue \cup {<<pcall[q].charger, pcall[q].limit>>} ELSE overdue
    /\ UNCHANGED <<binding, active, preferred, charging, applied>>

\* The charger applies a profile whose request has timed out.
AppliesLate(c, w) ==
    /\ <<c, w>> \in overdue
    /\ overdue' = overdue \ {<<c, w>>}
    /\ applied' = TxProfile(applied, c, w)
    /\ pcall' = Crossed(pcall, c)
    /\ lastSet' = [lastSet EXCEPT ![c] = NoOne]
    /\ UNCHANGED <<binding, active, preferred, charging>>

\* start_session with its answer: a session is minted only once a CallResult came back.
FinishStart(q) ==
    /\ pcall[q].cmd = "start" /\ pcall[q].answer # "none"
    /\ IF pcall[q].answer = "accepted"
       THEN \E s \in RoamingSessions : ~Bound(s) /\ binding' = [binding EXCEPT ![s] = pcall[q].charger]
       ELSE UNCHANGED binding
    /\ pcall' = [pcall EXCEPT ![q] = NoPcall]
    /\ UNCHANGED <<active, preferred, charging, applied, overdue, lastSet>>

\* stop_session with its answer reports it; the binding stays.
FinishStop(q) ==
    /\ pcall[q].cmd = "stop" /\ pcall[q].answer # "none"
    /\ pcall' = [pcall EXCEPT ![q] = NoPcall]
    /\ UNCHANGED <<binding, active, preferred, charging, applied, overdue, lastSet>>

\* Variant: the profile is stored whatever the charger answered.
StoredUnasked(q) == [active EXCEPT ![pcall[q].session] = pcall[q].limit]

\* What the store shows once the answer is in.
StoredProfile(q) ==
    IF pcall[q].answer = "accepted" THEN [active EXCEPT ![pcall[q].session] = pcall[q].limit] ELSE active

\* set_charging_profile with its answer.
FinishProfile(q) ==
    LET c == pcall[q].charger
        s == pcall[q].session
    IN  /\ pcall[q].cmd = "profile" /\ pcall[q].answer # "none"
        /\ active' = StoredProfile(q)
        /\ lastSet' = IF pcall[q].answer = "accepted"
                      THEN [d \in Locations |-> IF d = c THEN (IF pcall[q].crossed THEN NoOne ELSE s)
                                               ELSE IF lastSet[d] = s THEN NoOne ELSE lastSet[d]]
                      ELSE lastSet
        /\ pcall' = [pcall EXCEPT ![q] = NoPcall]
        /\ UNCHANGED <<binding, preferred, charging, applied, overdue>>

\* POST /admin/ocpi/sessions/{session_id}/binding: known or new, the session is at c.
BindSessionToCharger(s, c) ==
    /\ binding' = [binding EXCEPT ![s] = c]
    /\ UNCHANGED <<active, preferred, charging, applied, pcall, overdue, lastSet>>

ProfileTypes == {"CHEAP", "FAST", "GREEN", "REGULAR"}

\* What set_charging_preferences asks of a preference: all but FAST need a
\* departure time, and CHEAP an energy target too.
Plannable(p) ==
    /\ p.type \in ProfileTypes
    /\ p.type # "FAST" => p.departure
    /\ p.type = "CHEAP" => p.energy

\* PUT sessions/{session_id}/charging_preferences; otherwise it is refused and the
\* earlier one stays.
SetChargingPreferences(s, p) ==
    /\ Bound(s) /\ Plannable(p)
    /\ preferred' = [preferred EXCEPT ![s] = p]
    /\ UNCHANGED <<binding, active, charging, applied, pcall, overdue, lastSet>>

\* The charger's transaction starts or ends; its TxProfile ends with it.
TransactionToggles(c) ==
    /\ charging' = [charging EXCEPT ![c] = ~@]
    /\ applied' = [applied EXCEPT ![c] = NoOne]
    /\ pcall' = Crossed(pcall, c)
    /\ lastSet' = [lastSet EXCEPT ![c] = NoOne]
    /\ UNCHANGED <<binding, active, preferred, overdue>>

ScNext ==
    \/ \E q \in ProfileCalls :
          \/ \E c \in Locations : StartSession(q, c)
          \/ \E s \in RoamingSessions : StopSession(q, s)
          \/ \E s \in RoamingSessions, w \in Watts : SetChargingProfile(q, s, w)
          \/ ProfileAnswered(q) \/ TimesOut(q)
          \/ FinishStart(q) \/ FinishStop(q) \/ FinishProfile(q)
    \/ \E s \in RoamingSessions, c \in Locations : BindSessionToCharger(s, c)
    \/ \E s \in RoamingSessions, p \in Preferences : SetChargingPreferences(s, p)
    \/ \E c \in Locations : TransactionToggles(c) \/ \E w \in Watts : AppliesLate(c, w)

ScSpec == ScInit /\ [][ScNext]_scVars

------------------------------------------------------------------------------
(* ProfileShownIsApplied: get_active_profile answers from a store written       *)
(* after the charger's answer was awaited (charging_profiles.py:203) and keyed  *)
(* by session, while the charger knows one profile, whichever session sent it.  *)
(* What is shown for the session set last is what the charger applies, through  *)
(* rebinding, later refusals and other chargers' sessions; the code promises it *)
(* only if the charger did not decline in its CallResult, no other request      *)
(* overlapped, none timed out or was applied late, and the transaction lasts.   *)
(* A preference on record belongs to a session that is still bound, and states  *)
(* what a planner needs (charging_preferences.py:88-107).                       *)
ProfileShownIsApplied ==
    /\ \A c \in Locations :
          lastSet[c] # NoOne /\ ProfileRequests(c) = {} => ActiveProfile(lastSet[c]) = applied[c]
    /\ \A s \in RoamingSessions : preferred[s] # NoOne =>
          Bound(s) /\ (preferred[s].departure \/ preferred[s].type = "FAST") /\ (preferred[s].type = "CHEAP" => preferred[s].energy)
==============================================================================
