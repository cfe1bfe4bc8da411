---------------------------- MODULE Reservations ----------------------------
(* Reservations of a charger's connector: a driver's, which                   *)
(* DriverReservationService lists once the charger has accepted them, and a   *)
(* roaming partner's, which OcpiCommandService passes on without remembering  *)
(* them.  "accepted" is any CallResult (nats_command_transport.py:131-132),    *)
(* {"status": "Occupied"} and {"status": "Rejected"} included; "refused" is an *)
(* offline charger, a CallError or a timeout, after which the charger may      *)
(* still do as told.  The charger (external) keeps one reservation at a time,  *)
(* declines to cancel one it does not keep, and drops one that expires.        *)
EXTENDS Naturals, FiniteSets

CONSTANTS
    ReservationIds,   \* ids a driver's request mints (uuid4)
    PartnerIds,       \* ids a partner chooses
    Drivers,
    Places,           \* chargers
    ReservationCalls, \* requests that may be under way at once
    MaxStraying,      \* bound: timed-out commands still on their way; any more are lost
    Nobody

ASSUME ReservationsAssumption ==
    /\ ReservationIds \cap PartnerIds = {} /\ MaxStraying \in Nat
    /\ Nobody \notin ReservationIds \cup PartnerIds \cup Drivers \cup Places

VARIABLES
    owner,      \* _owner: the driver of each listed reservation
    place,      \* _reservations: the charger of each listed reservation
    minted,     \* ids in use
    kept,       \* the reservation each charger keeps
    rcall,      \* the requests under way
    straying,   \* commands that timed out before the charger answered: <<command, id, charger>>
    unsure,     \* ids a charger declined, whose request timed out, or that expired
    keyErrors   \* ids cancel deleted when they were gone

rvVars == <<owner, place, minted, kept, rcall, straying, unsure, keyErrors>>

Ids == ReservationIds \cup PartnerIds
NoRcall == [cmd |-> "none", id |-> Nobody, by |-> Nobody, at |-> Nobody, answer |-> "none"]

RvTypeOK ==
    /\ owner \in [ReservationIds -> Drivers \cup {Nobody}]
    /\ place \in [ReservationIds -> Places \cup {Nobody}]
    /\ minted \subseteq Ids /\ unsure \subseteq Ids
    /\ kept \in [Places -> Ids \cup {Nobody}]
    /\ rcall \in [ReservationCalls -> [cmd: {"none", "ReserveNow", "CancelReservation", "UnlockConnector"},
                                       id: Ids \cup {Nobody}, by: Drivers \cup {Nobody},
                                       at: Places \cup {Nobody}, answer: {"none", "accepted", "refused"}]]
    /\ straying \subseteq {"ReserveNow", "CancelReservation"} \X Ids \X Places
    /\ keyErrors \subseteq ReservationIds

RvInit ==
    /\ owner = [r \in ReservationIds |-> Nobody] /\ place = [r \in ReservationIds |-> Nobody]
    /\ minted = {} /\ straying = {} /\ unsure = {} /\ keyErrors = {}
    /\ kept = [c \in Places |-> Nobody]
    /\ rcall = [q \in ReservationCalls |-> NoRcall]

-----------------------------------------------------------------------------
\* _dispatch, up to the charger's answer; an offline charger is a refusal at once.
DispatchCommand(q, cmd, r, d, c) ==
    /\ rcall[q] = NoRcall
    /\ \E a \in {"none", "refused"} :
           rcall' = [rcall EXCEPT ![q] = [cmd |-> cmd, id |-> r, by |-> d, at |-> c, answer |-> a]]
    /\ UNCHANGED <<owner, place, kept, straying, unsure, keyErrors>>

\* POST /driver/reservations, up to the charger's answer.
Reserve(q, r, d, c) ==
    /\ r \in ReservationIds \ minted
    /\ minted' = minted \cup {r}
    /\ DispatchCommand(q, "ReserveNow", r, d, c)

\* cancel finds the reservation and its owner; otherwise 404.
MayCancel(r, d) == owner[r] = d /\ place[r] # Nobody

\* DELETE /driver/reservations/{id}, up to the charger's answer.
Cancel(q, r, d) ==
    /\ MayCancel(r, d)
    /\ DispatchCommand(q, "CancelReservation", r, d, place[r])
    /\ UNCHANGED minted

\* A partner's RESERVE_NOW: the id is the partner's, and nothing is stored.
PartnerReserves(q, r, c) ==
    /\ r \in PartnerIds /\ minted' = minted \cup {r}
    /\ DispatchCommand(q, "ReserveNow", r, Nobody, c)

PartnerCancels(q, r, c) ==
    /\ r \in PartnerIds \cap minted
    /\ DispatchCommand(q, "CancelReservation", r, Nobody, c)
    /\ UNCHANGED minted

PartnerUnlocks(q, c) ==
    /\ DispatchCommand(q, "UnlockConnector", Nobody, Nobody, c)
    /\ UNCHANGED minted

\* The commands a charger carries out, and what it keeps then.
CarriesOut(cmd, r, c) ==
    /\ cmd = "ReserveNow" => kept[c] \in {Nobody, r}
    /\ cmd = "CancelReservation" => kept[c] = r

KeptAfter(cmd, r, c) ==
    CASE cmd = "ReserveNow" -> [kept EXCEPT ![c] = r]
      [] cmd = "CancelReservation" -> [kept EXCEPT ![c] = Nobody]
      [] OTHER -> kept

\* The charger answers, in one of three ways: it does as told; it declines in a
\* CallResult, which no caller looks into; a CallError.
ReservationAnswered(q) ==
    LET call == rcall[q]
    IN  /\ call.cmd # "none" /\ call.answer = "none"
        /\ \/ /\ CarriesOut(call.cmd, call.id, call.at)
              /\ kept' = KeptAfter(call.cmd, call.id, call.at)
              /\ rcall' = [rcall EXCEPT ![q].answer = "accepted"]
              /\ UNCHANGED unsure
           \/ /\ rcall' = [rcall EXCEPT ![q].answer = "accepted"]
              /\ unsure' = unsure \cup ({call.id} \ {Nobody})
              /\ UNCHANGED kept
           \/ /\ rcall' = [rcall EXCEPT ![q].answer = "refused"]
              /\ UNCHANGED <<kept, unsure>>
        /\ UNCHANGED <<owner, place, minted, straying, keyErrors>>

\* TIMED_OUT is a refusal to the service, whatever the charger did or will do.
ReservationTimesOut(q) ==
    LET call == rcall[q]
    IN  /\ call.cmd # "none" /\ call.answer # "refused"
        /\ rcall' = [rcall EXCEPT ![q].answer = "refused"]
        /\ unsure' = unsure \cup ({call.id} \ {Nobody})
        /\ straying' = IF call.cmd # "UnlockConnector" /\ call.answer = "none" /\ Cardinality(straying) < MaxStraying
                       THEN straying \cup {<<call.cmd, call.id, call.at>>} ELSE straying
        /\ UNCHANGED <<owner, place, minted, kept, keyErrors>>

\* The charger carries out a command that has timed out.
CarriedOutLate(cmd, r, c) ==
    /\ <<cmd, r, c>> \in straying
    /\ CarriesOut(cmd, r, c)
    /\ kept' = KeptAfter(cmd, r, c)
    /\ straying' = straying \ {<<cmd, r, c>>}
    /\ UNCHANGED <<owner, place, minted, rcall, unsure, keyErrors>>

\* Variant: the reservation is listed whatever the charger answered.
ListedUnasked(q) == TRUE

Confirmed(q) == rcall[q].answer = "accepted"

FinishReserve(q) ==
    LET r == rcall[q].id
    IN  /\ rcall[q].cmd = "ReserveNow" /\ rcall[q].by # Nobody /\ rcall[q].answer # "none"
        /\ owner' = IF Confirmed(q) THEN [owner EXCEPT ![r] = rcall[q].by] ELSE owner
        /\ place' = IF Confirmed(q) THEN [place EXCEPT ![r] = rcall[q].at] ELSE place
        /\ rcall' = [rcall EXCEPT ![q] = NoRcall]
        /\ UNCHANGED <<minted, kept, straying, unsure, keyErrors>>

Cancelled(q) == rcall[q].answer = "accepted"

\* cancel with its answer; deleting a key that is gone is a KeyError.
FinishCancel(q) ==
    LET r == rcall[q].id
    IN  /\ rcall[q].cmd = "CancelReservation" /\ rcall[q].by # Nobody /\ rcall[q].answer # "none"
        /\ owner' = IF Cancelled(q) THEN [owner EXCEPT ![r] = Nobody] ELSE owner
        /\ place' = IF Cancelled(q) THEN [place EXCEPT ![r] = Nobody] ELSE place
        /\ keyErrors' = IF Cancelled(q) /\ place[r] = Nobody THEN keyErrors \cup {r} ELSE keyErrors
        /\ rcall' = [rcall EXCEPT ![q] = NoRcall]
        /\ UNCHANGED <<minted, kept, straying, unsure>>

\* A partner's command with its answer, which goes back inline.
FinishPartner(q) ==
    /\ rcall[q].cmd # "none" /\ rcall[q].by = Nobody /\ rcall[q].answer # "none"
    /\ rcall' = [rcall EXCEPT ![q] = NoRcall]
    /\ UNCHANGED <<owner, place, minted, kept, straying, unsure, keyErrors>>

\* expiryDate is the charger's to watch; the service keeps listing the reservation.
Expires(c) ==
    /\ kept[c] # Nobody
    /\ unsure' = unsure \cup {kept[c]}
    /\ kept' = [kept EXCEPT ![c] = Nobody]
    /\ UNCHANGED <<owner, place, minted, rcall, straying, keyErrors>>

RvNext ==
    \/ \E q \in ReservationCalls :
          \/ \E r \in ReservationIds, d \in Drivers : (\E c \in Places : Reserve(q, r, d, c)) \/ Cancel(q, r, d)
          \/ \E r \in PartnerIds, c \in Places : PartnerReserves(q, r, c) \/ PartnerCancels(q, r, c)
          \/ \E c \in Places : PartnerUnlocks(q, c)
          \/ ReservationAnswered(q) \/ ReservationTimesOut(q)
          \/ FinishReserve(q) \/ FinishCancel(q) \/ FinishPartner(q)
    \/ \E c \in Places :
          \/ Expires(c)
          \/ \E cmd \in {"ReserveNow", "CancelReservation"}, r \in Ids : CarriedOutLate(cmd, r, c)

RvSpec == RvInit /\ [][RvNext]_rvVars

-----------------------------------------------------------------------------
(* ReservationsAgree: the list a driver sees is written after the charger's     *)
(* answer was awaited (reservations.py:65-66, 85-86).  A reservation none of    *)
(* whose requests is under way, that no charger declined, that no request timed *)
(* out for and that has not expired is listed exactly if the charger it was     *)
(* asked of keeps it, whatever drivers and partners did to the others; and two  *)
(* overlapping cancels make the second delete meet a missing key only for a     *)
(* reservation its charger declined to cancel, lost or answered late.           *)
ReservationsAgree ==
    /\ keyErrors \subseteq unsure
    /\ \A r \in ReservationIds \ unsure :
          (\A q \in ReservationCalls : rcall[q].id # r) =>
              /\ (place[r] # Nobody) <=> (owner[r] # Nobody)
              /\ \A c \in Places : (place[r] = c) <=> (kept[c] = r)
=============================================================================
