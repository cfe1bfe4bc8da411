--------------------------- MODULE ChargingSessions ---------------------------
(***************************************************************************)
(* A driver's charging session, from the app's start request to the reward *)
(* for its stop: SessionStartService in the process evagg.main, the        *)
(* charger, and the OCPP handlers in the process evagg.edge_app.           *)
(*                                                                         *)
(* Each process builds its own services.  What edge_app's handlers write,  *)
(* main reads only if the store is shared: transactions in Supabase are;   *)
(* the in-memory repository and the latest meter readings are not.         *)
(* Deployment "single" is the wiring of the unit tests, where one set of   *)
(* stores serves everybody; "split" is docker-compose's.                   *)
(*                                                                         *)
(* The remote command is RemoteCommands seen from outside: the charger     *)
(* agrees or declines, and the answer may be lost on its way back.  Either  *)
(* answer is a CallResult, which serve_commands reports as ACCEPTED, and   *)
(* nobody looks at the payload.                                            *)
(***************************************************************************)
EXTENDS Naturals, FiniteSets

CONSTANTS Drivers, Chargers, Sessions, Txns, Requests,
          Nobody, NoTxn, NoCharger, NoSession,
          Builds,       \* the deployments and repositories to consider
          Accepted,     \* drivers whose id_tag the Authorizer accepts
          Award,        \* POINTS_PER_COMPLETED_SESSION
          Costs,        \* points_cost of the REWARD_CATALOG items
          MaxReading,   \* bound on the meter readings, of all transactions
          MaxStops      \* bound on stop requests for a session

ASSUME SessionsAssumption ==
    /\ Builds \subseteq {"single", "split"} \X {"memory", "supabase"}
    /\ Accepted \subseteq Drivers
    /\ Award \in Nat /\ Costs \subseteq Nat /\ MaxReading \in Nat /\ MaxStops \in Nat
    /\ Nobody \notin Drivers /\ NoTxn \notin Txns /\ NoCharger \notin Chargers

VARIABLES
    deployment, backend,  \* how the processes were built
    owner,      \* _session_owner
    binding,    \* the session's charger in the SessionChargerMap
    request,    \* what each request handler in main is doing
    status,     \* transaction records
    charger, starter,
    slot,       \* _active of the in-memory repository
    latest,     \* latest energy reading of each transaction
    cue,        \* driver for whom a charger is about to start, by its id_tag
    charging,   \* the transaction a charger is really in
    stopping,   \* transactions a charger has agreed to stop
    started,    \* <<charger, driver>>: remote starts chargers have agreed to
    answered,   \* <<charger, driver>> and <<charger, transaction>>: starts and stops answered
    points,     \* rewards balance
    spent,
    history,    \* <<session, txn, energy>> of SessionHistoryStore
    stops       \* stop requests for each session

vars == <<deployment, backend, owner, binding, request, status, charger, starter, slot, latest, cue, charging,
          stopping, started, answered, points, spent, history, stops>>
built       == <<deployment, backend>>
sessionVars == <<owner, binding>>
recordVars  == <<status, charger, starter, slot, latest>>
chargerVars == <<cue, charging, stopping, started, answered>>
rewardVars  == <<points, spent, history>>

Idle == [pc |-> "idle", driver |-> Nobody, charger |-> NoCharger, session |-> NoSession,
         txn |-> NoTxn, energy |-> 0]

Init ==
    /\ \E b \in Builds : deployment = b[1] /\ backend = b[2]
    /\ owner = [s \in Sessions |-> Nobody]
    /\ binding = [s \in Sessions |-> NoCharger]
    /\ request = [r \in Requests |-> Idle]
    /\ status = [t \in Txns |-> "none"]
    /\ charger = [t \in Txns |-> NoCharger]
    /\ starter = [t \in Txns |-> Nobody]
    /\ slot = [h \in Chargers |-> NoTxn]
    /\ latest = [t \in Txns |-> 0]
    /\ cue = [h \in Chargers |-> Nobody]
    /\ charging = [h \in Chargers |-> NoTxn]
    /\ stopping = {} /\ started = {} /\ answered = {}
    /\ points = [d \in Drivers |-> 0] /\ spent = [d \in Drivers |-> 0]
    /\ history = {}
    /\ stops = [s \in Sessions |-> 0]

-----------------------------------------------------------------------------
(* What main sees of the stores edge_app writes *)

\* get_active_transaction(charger_id): with Supabase the first of the active
\* rows in no particular order.
ActiveSeen(h) ==
    IF backend = "supabase" THEN {t \in Txns : status[t] = "active" /\ charger[t] = h}
    ELSE IF deployment = "single" THEN {slot[h]} \ {NoTxn}
    ELSE {}

\* InMemoryLatestMeterReadingStore.get_latest; no reading counts as 0.0.
ReadingSeen(t) == IF deployment = "single" THEN latest[t] ELSE 0

\* get_live_status of an owned session: what a driver may be shown.
LiveStatus(s) ==
    LET seen == ActiveSeen(binding[s])
    IN  IF seen = {} THEN {[status |-> "finished", energy |-> 0]}
        ELSE {[status |-> "charging", energy |-> ReadingSeen(t)] : t \in seen}

-----------------------------------------------------------------------------
(* Starting: start_via_qr, _app, _autocharge, _plug_and_charge *)

\* Bounds: an id is left for the session, for the transaction.
SessionIdsLeft ==
    Cardinality({r \in Requests : request[r].pc \in {"starting", "started"}})
      < Cardinality({s \in Sessions : owner[s] = Nobody})
TxnIdsLeft ==
    Cardinality({h \in Chargers : cue[h] # Nobody}) < Cardinality({t \in Txns : status[t] = "none"})

Begin(r, d, h) ==
    /\ request[r] = Idle /\ SessionIdsLeft
    /\ request' = [request EXCEPT ![r] = [Idle EXCEPT !.pc = "starting", !.driver = d, !.charger = h]]

\* start_via_app, _qr, _autocharge and _plug_and_charge.  A token or
\* certificate that does not verify, or a driver without a plug-and-charge
\* vehicle, is refused and nothing changes.
StartRequest(r, d, h) ==
    /\ Begin(r, d, h)
    /\ UNCHANGED <<sessionVars, recordVars, chargerVars, rewardVars, built, stops>>

\* The charger answers RemoteStartTransaction with a CallResult.
AnswerStart(r) ==
    /\ request[r].pc = "starting"
    /\ answered' = answered \cup {<<request[r].charger, request[r].driver>>}
    /\ request' = [request EXCEPT ![r].pc = "started"]
    /\ UNCHANGED <<sessionVars, recordVars, charging, stopping, rewardVars, built, stops>>

\* A charger that is free may agree to start.
StartAgreed(r) ==
    LET h == request[r].charger IN
    /\ AnswerStart(r)
    /\ cue[h] = Nobody /\ charging[h] = NoTxn /\ TxnIdsLeft
    /\ cue' = [cue EXCEPT ![h] = request[r].driver]
    /\ started' = started \cup {<<h, request[r].driver>>}

\* Any charger may decline: {"status": "Rejected"}.
StartDeclined(r) ==
    /\ AnswerStart(r)
    /\ UNCHANGED <<cue, started>>

\* The rest of _dispatch_remote_start: bind and own a new session, whatever
\* the CallResult says.
StartReturns(r, s) ==
    /\ request[r].pc = "started"
    /\ owner[s] = Nobody
    /\ owner' = [owner EXCEPT ![s] = request[r].driver]
    /\ binding' = [binding EXCEPT ![s] = request[r].charger]
    /\ request' = [request EXCEPT ![r] = Idle]
    /\ UNCHANGED <<recordVars, chargerVars, rewardVars, built, stops>>

-----------------------------------------------------------------------------
(* stop_session *)

\* _owned_binding, get_active_transaction and _compute_live_snapshot; without
\* an owned session or an active transaction an error is raised and nothing
\* changes.
StopRequest(r, s, d) ==
    /\ request[r] = Idle /\ stops[s] < MaxStops
    /\ owner[s] = d
    /\ stops' = [stops EXCEPT ![s] = @ + 1]
    /\ \E t \in ActiveSeen(binding[s]) :
        request' = [request EXCEPT ![r] =
            [pc |-> "stopping", driver |-> d, charger |-> binding[s], session |-> s,
             txn |-> t, energy |-> ReadingSeen(t)]]
    /\ UNCHANGED <<sessionVars, recordVars, chargerVars, rewardVars, built>>

\* The charger answers RemoteStopTransaction with a CallResult.
AnswerStop(r) ==
    /\ request[r].pc = "stopping"
    /\ answered' = answered \cup {<<request[r].charger, request[r].txn>>}
    /\ request' = [request EXCEPT ![r].pc = "stopped"]
    /\ UNCHANGED <<sessionVars, recordVars, cue, charging, started, rewardVars, built, stops>>

\* It agrees to stop the transaction it is in, also when it is about to.
StopAgreed(r) ==
    /\ AnswerStop(r)
    /\ charging[request[r].charger] = request[r].txn
    /\ stopping' = stopping \cup {request[r].txn}

\* It declines: a transaction it is not in, or one it will not stop.
StopDeclined(r) ==
    /\ AnswerStop(r)
    /\ UNCHANGED stopping

\* Variant: the stop is recorded without looking at the command's status.
StopReturnsUnanswered(r) ==
    LET d == request[r].driver
        s == request[r].session IN
    /\ request[r].pc \in {"stopping", "stopped"}
    /\ points' = [points EXCEPT ![d] = @ + Award]
    /\ history' = history \cup {<<s, request[r].txn, request[r].energy>>}
    /\ request' = [request EXCEPT ![r] = Idle]
    /\ UNCHANGED <<sessionVars, recordVars, chargerVars, spent, built, stops>>

\* Any CallResult will do; award_for_completed_session and record do not
\* suspend.
StopReturns(r) ==
    LET d == request[r].driver
        s == request[r].session IN
    /\ request[r].pc = "stopped"
    /\ points' = [points EXCEPT ![d] = @ + Award]
    /\ history' = history \cup {<<s, request[r].txn, request[r].energy>>}
    /\ request' = [request EXCEPT ![r] = Idle]
    /\ UNCHANGED <<sessionVars, recordVars, chargerVars, spent, built, stops>>

\* Offline, rejected, timed out, or the charger's answer is lost: the service
\* raises SessionStartError, whatever the charger has done.
CommandFails(r) ==
    /\ request[r].pc # "idle"
    /\ request' = [request EXCEPT ![r] = Idle]
    /\ UNCHANGED <<sessionVars, recordVars, chargerVars, rewardVars, built, stops>>

-----------------------------------------------------------------------------
(* The charger, and edge_app's handlers of its frames *)

\* A driver starts at the charger, with a card.
PresentCard(h, d) ==
    /\ cue[h] = Nobody /\ charging[h] = NoTxn /\ TxnIdsLeft
    /\ cue' = [cue EXCEPT ![h] = d]
    /\ UNCHANGED <<sessionVars, request, recordVars, charging, stopping, started, answered, rewardVars, built, stops>>

\* start_transaction of either repository.
Record(h, d, t) ==
    /\ status[t] = "none"
    /\ status' = [status EXCEPT ![t] = "active"]
    /\ charger' = [charger EXCEPT ![t] = h]
    /\ starter' = [starter EXCEPT ![t] = d]
    /\ slot' = [slot EXCEPT ![h] = t]
    /\ charging' = [charging EXCEPT ![h] = t]
    /\ UNCHANGED latest

StartTransaction(h, t) ==
    /\ cue[h] \in Accepted
    /\ Record(h, cue[h], t)
    /\ cue' = [cue EXCEPT ![h] = Nobody]
    /\ UNCHANGED <<sessionVars, request, stopping, started, answered, rewardVars, built, stops>>

\* Variant: the local store is not asked.
StartInvalidAnybody(h) ==
    /\ cue[h] \in Drivers
    /\ cue' = [cue EXCEPT ![h] = Nobody]
    /\ UNCHANGED <<sessionVars, request, recordVars, charging, stopping, started, answered, rewardVars, built, stops>>

\* An id_tag unknown to the local store and to the roaming checker: Invalid,
\* no record, and the charger does not charge.
StartInvalid(h) ==
    /\ cue[h] \in Drivers \ Accepted
    /\ cue' = [cue EXCEPT ![h] = Nobody]
    /\ UNCHANGED <<sessionVars, request, recordVars, charging, stopping, started, answered, rewardVars, built, stops>>

\* The charger did not see the answer and repeats the frame: a second record.
StartRetried(h, t) ==
    /\ TxnIdsLeft
    /\ charging[h] # NoTxn /\ charging[h] \notin stopping
    /\ Record(h, starter[charging[h]], t)
    /\ UNCHANGED <<sessionVars, request, cue, stopping, started, answered, rewardVars, built, stops>>

MeterValues(h) ==
    /\ charging[h] # NoTxn /\ \A t \in Txns : latest[t] < MaxReading
    /\ latest' = [latest EXCEPT ![charging[h]] = @ + 1]
    /\ UNCHANGED <<sessionVars, request, status, charger, starter, slot, chargerVars, rewardVars, built, stops>>

\* Variant: the slot is left as it is.
SlotKept(h) == slot

\* stop_transaction clears the slot if it shows this transaction.
SlotAfter(h) == IF slot[h] = charging[h] THEN [slot EXCEPT ![h] = NoTxn] ELSE slot

\* Variant: the slot is cleared and the record stays open.
StopTransactionUnrecorded(h) ==
    /\ charging[h] # NoTxn
    /\ slot' = SlotAfter(h)
    /\ charging' = [charging EXCEPT ![h] = NoTxn]
    /\ UNCHANGED <<sessionVars, request, status, charger, starter, latest, cue, stopping, started, answered, rewardVars, built, stops>>

\* StopTransaction: the driver unplugs, or the charger does as it was told.
StopTransaction(h) ==
    /\ charging[h] # NoTxn
    /\ status' = [status EXCEPT ![charging[h]] = "completed"]
    /\ slot' = SlotAfter(h)
    /\ charging' = [charging EXCEPT ![h] = NoTxn]
    /\ UNCHANGED <<sessionVars, request, charger, starter, latest, cue, stopping, started, answered, rewardVars, built, stops>>

-----------------------------------------------------------------------------
(* Rewards *)

Deduct(d, cost) ==
    /\ points' = [points EXCEPT ![d] = @ - cost]
    /\ spent' = [spent EXCEPT ![d] = @ + cost]

\* RewardsService.redeem.
Redeem(d, cost) ==
    /\ points[d] >= cost
    /\ Deduct(d, cost)
    /\ UNCHANGED <<built, sessionVars, request, recordVars, chargerVars, history, stops>>

Next ==
    \/ \E r \in Requests :
        \/ \E d \in Drivers, h \in Chargers : StartRequest(r, d, h)
        \/ \E s \in Sessions : StartReturns(r, s) \/ \E d \in Drivers : StopRequest(r, s, d)
        \/ StartAgreed(r) \/ StartDeclined(r) \/ StopAgreed(r) \/ StopDeclined(r)
        \/ StopReturns(r) \/ CommandFails(r)
    \/ \E h \in Chargers :
        \/ \E d \in Drivers : PresentCard(h, d)
        \/ \E t \in Txns : StartTransaction(h, t) \/ StartRetried(h, t)
        \/ StartInvalid(h) \/ MeterValues(h) \/ StopTransaction(h)
    \/ \E d \in Drivers :
        \E cost \in Costs : Redeem(d, cost)

Spec == Init /\ [][Next]_vars

\* A charger does what it has agreed to: it sends StartTransaction after it
\* agreed to a start, and StopTransaction after it agreed to a stop.
FairSpec ==
    /\ Spec
    /\ \A h \in Chargers :
        /\ WF_vars(StartInvalid(h) \/ \E t \in Txns : StartTransaction(h, t))
        /\ WF_vars(charging[h] \in stopping /\ StopTransaction(h))

-----------------------------------------------------------------------------
\* Every variable has the shape the code gives it, in both processes.
TypeOK ==
    /\ <<deployment, backend>> \in Builds
    /\ owner \in [Sessions -> Drivers \cup {Nobody}]
    /\ binding \in [Sessions -> Chargers \cup {NoCharger}]
    /\ status \in [Txns -> {"none", "active", "completed"}]
    /\ charger \in [Txns -> Chargers \cup {NoCharger}]
    /\ starter \in [Txns -> Drivers \cup {Nobody}]
    /\ \A h \in Chargers : cue[h] \in Drivers \cup {Nobody} /\ {slot[h], charging[h]} \subseteq Txns \cup {NoTxn}
    /\ points \in [Drivers -> Nat] /\ spent \in [Drivers -> Nat]
    /\ latest \in [Txns -> 0..MaxReading]
    /\ \A e \in history : e[1] \in Sessions /\ e[2] \in Txns /\ e[3] \in 0..MaxReading

\* A session exists only if its charger has answered a remote start for the
\* driver who owns it: a command that failed leaves no session behind.
SessionsAreAnswered ==
    \A s \in Sessions : owner[s] # Nobody => <<binding[s], owner[s]>> \in answered

\* A stop that failed is not recorded and pays nothing: what was recorded is
\* the stop of a transaction of the session's own charger, one the charger has
\* answered, with an energy that the charger had reported by then, whatever
\* the charger, the driver and other stop requests did while it was asked.
RecordedStopsAreAnswered ==
    \A e \in history :
        /\ owner[e[1]] # Nobody /\ binding[e[1]] = charger[e[2]]
        /\ <<charger[e[2]], e[2]>> \in answered /\ status[e[2]] # "none"
        /\ e[3] <= latest[e[2]]

\* A session is an answered one, and the app shows its owner what the charger
\* does.  With stores that main and edge_app share in memory: no transaction
\* when the charger is in none, else that transaction with the energy reported
\* last.  With Supabase, in one process or two: never that it is over while
\* the charger charges.  (In two processes the energy shown is always 0.0, and
\* without Supabase every session is shown as finished.)
LiveStatusIsReal ==
    /\ SessionsAreAnswered
    /\ \A s \in {x \in Sessions : owner[x] # Nobody} :
        LET t == charging[binding[s]] IN
        /\ deployment = "single" /\ backend = "memory" =>
              LiveStatus(s) = {IF t = NoTxn THEN [status |-> "finished", energy |-> 0]
                               ELSE [status |-> "charging", energy |-> latest[t]]}
        /\ backend = "supabase" /\ t # NoTxn => \A l \in LiveStatus(s) : l.status = "charging"

\* A stop that was recorded as a completed session is a stop of a transaction
\* the session's own driver started: the point where the driver "actually
\* charged here".  (The code does not have this.)
StopsOwnTransaction ==
    \A e \in history : starter[e[2]] = owner[e[1]]

\* "Points are earned per completed charging session": no driver has more
\* awards than transactions.  (The code does not have this: a transaction can
\* be stopped twice before the charger's StopTransaction closes it.)
PointsArePerSession ==
    \A d \in Drivers :
        points[d] + spent[d] <= Award * Cardinality({t \in Txns : starter[t] = d})

\* Starting is not a no-op that only looks as if it worked: the driver of a
\* session whose start the charger agreed to gets a transaction there, if the
\* Authorizer knows the driver's id_tag.
StartedSessionCharges ==
    \A s \in Sessions :
        (owner[s] \in Accepted /\ <<binding[s], owner[s]>> \in started)
          ~> (\E t \in Txns : starter[t] = owner[s] /\ charger[t] = binding[s])

\* What was recorded as a completed session does end, if the charger agreed.
RecordedStopHappens ==
    \A t \in Txns : (t \in stopping /\ \E e \in history : e[2] = t) ~> (status[t] = "completed")
=============================================================================
