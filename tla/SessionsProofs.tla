--------------------------- MODULE SessionsProofs ----------------------------
(* What holds of ChargingSessions for any number of drivers, chargers,          *)
(* sessions, transactions and requests, in either deployment and with either    *)
(* repository: where sessions come from, what the app is shown of them, and     *)
(* what the stops that were recorded rest on.                                   *)
EXTENDS ChargingSessions, TLAPS

RequestSet ==
    [pc : {"idle", "starting", "started", "stopping", "stopped"}, driver : Drivers \cup {Nobody},
     charger : Chargers \cup {NoCharger}, session : Sessions \cup {NoSession},
     txn : Txns \cup {NoTxn}, energy : 0..MaxReading]

\* The state of SessionStartService, rewards and history in main.
MainTypes ==
    /\ owner \in [Sessions -> Drivers \cup {Nobody}]
    /\ binding \in [Sessions -> Chargers \cup {NoCharger}]
    /\ request \in [Requests -> RequestSet]
    /\ points \in [Drivers -> Nat] /\ spent \in [Drivers -> Nat]
    /\ history \subseteq Sessions \X Txns \X (0..MaxReading)
    /\ stops \in [Sessions -> Nat]

\* The chargers and what edge_app's handlers keep of them.  The slot shows what
\* the charger is in, and that is an active record of the charger: every frame
\* that changes the one changes the others.
EdgeTypes ==
    /\ <<deployment, backend>> \in Builds
    /\ status \in [Txns -> {"none", "active", "completed"}]
    /\ charger \in [Txns -> Chargers \cup {NoCharger}]
    /\ starter \in [Txns -> Drivers \cup {Nobody}]
    /\ latest \in [Txns -> 0..MaxReading]
    /\ cue \in [Chargers -> Drivers \cup {Nobody}]
    /\ charging \in [Chargers -> Txns \cup {NoTxn}] /\ slot = charging
    /\ \A h \in Chargers : charging[h] # NoTxn =>
          status[charging[h]] = "active" /\ charger[charging[h]] = h

\* A start under way is a driver's at a charger, and "started" means that the
\* charger has answered it; a session comes from one of those.
Confirmed ==
    /\ \A r \in Requests :
          /\ request[r].pc \in {"starting", "started"} => request[r].driver \in Drivers /\ request[r].charger \in Chargers
          /\ request[r].pc = "started" => <<request[r].charger, request[r].driver>> \in answered
    /\ \A s \in Sessions : owner[s] # Nobody => binding[s] \in Chargers /\ <<binding[s], owner[s]>> \in answered

\* The stop of t for s, with energy e, is one of a transaction that was begun
\* at the charger s is bound to, and e was reported.
Grounded(s, t, e) ==
    /\ owner[s] # Nobody /\ binding[s] = charger[t] /\ status[t] # "none" /\ e <= latest[t]

Ends(r) == request[r].pc \in {"stopping", "stopped"}

\* A stop under way is such a stop; "stopped" means that it was answered.
StopsAreGrounded ==
    \A r \in Requests : Ends(r) =>
        /\ request[r].session \in Sessions /\ request[r].txn \in Txns /\ request[r].driver \in Drivers
        /\ request[r].charger = charger[request[r].txn]
        /\ Grounded(request[r].session, request[r].txn, request[r].energy)
        /\ request[r].pc = "stopped" => <<charger[request[r].txn], request[r].txn>> \in answered

CsInv == MainTypes /\ EdgeTypes /\ Confirmed /\ StopsAreGrounded /\ RecordedStopsAreAnswered

LEMMA IdleRequest == Idle \in RequestSet /\ Idle.pc = "idle"
  BY SessionsAssumption DEF Idle, RequestSet

LEMMA CsInvInit == Init => CsInv
  <1> SUFFICES ASSUME Init PROVE CsInv
    OBVIOUS
  <1> USE SessionsAssumption DEF Init
  <1>1. \A r \in Requests : request[r] = Idle
    OBVIOUS
  <1>2. MainTypes
    BY IdleRequest DEF MainTypes
  <1>3. EdgeTypes
    <2>1. PICK b \in Builds : deployment = b[1] /\ backend = b[2]
      OBVIOUS
    <2>2. <<deployment, backend>> = b
      BY <2>1
    <2> QED
      BY <2>2 DEF EdgeTypes
  <1>4. Confirmed /\ StopsAreGrounded
    BY <1>1, IdleRequest DEF Confirmed, StopsAreGrounded, Ends
  <1>5. RecordedStopsAreAnswered
    BY DEF RecordedStopsAreAnswered
  <1> QED
    BY <1>2, <1>3, <1>4, <1>5 DEF CsInv

\* One request is replaced by q.
LEMMA OneRequest ==
    ASSUME MainTypes, NEW r \in Requests, NEW q \in RequestSet, request' = [request EXCEPT ![r] = q]
    PROVE  request' \in [Requests -> RequestSet] /\ request'[r] = q /\ \A x \in Requests : x # r => request'[x] = request[x]
  BY DEF MainTypes

\* What every step keeps: a transaction that was begun stays at its charger and
\* its reading does not fall, a session keeps its owner and its charger, and an
\* answer stays given.
Kept ==
    /\ latest' \in [Txns -> 0..MaxReading] /\ answered \subseteq answered'
    /\ \A t \in Txns : status[t] # "none" =>
          charger'[t] = charger[t] /\ status'[t] # "none" /\ latest[t] <= latest'[t]
    /\ \A s \in Sessions : owner[s] # Nobody => owner'[s] = owner[s] /\ binding'[s] = binding[s]

LEMMA GroundedStays ==
    ASSUME CsInv, Kept, NEW s \in Sessions, NEW t \in Txns, NEW e \in 0..MaxReading, Grounded(s, t, e)
    PROVE  /\ Grounded(s, t, e)' /\ charger'[t] = charger[t]
           /\ <<charger[t], t>> \in answered => <<charger'[t], t>> \in answered'
  <1>1. charger'[t] = charger[t] /\ status'[t] # "none" /\ latest[t] <= latest'[t]
    BY DEF Kept, Grounded
  <1>2. owner'[s] # Nobody /\ binding'[s] = charger'[t]
    BY <1>1 DEF Kept, Grounded
  <1>3. e <= latest'[t]
    <2>1. latest[t] \in Nat /\ latest'[t] \in Nat /\ e \in Nat /\ e <= latest[t]
      BY SessionsAssumption DEF CsInv, EdgeTypes, Grounded, Kept
    <2> QED
      BY <1>1, <2>1
  <1> QED
    BY <1>1, <1>2, <1>3 DEF Grounded, Kept

LEMMA HistoryStays ==
    ASSUME CsInv, Kept, NEW e \in history
    PROVE  /\ owner'[e[1]] # Nobody /\ binding'[e[1]] = charger'[e[2]]
           /\ <<charger'[e[2]], e[2]>> \in answered' /\ status'[e[2]] # "none"
           /\ e[3] <= latest'[e[2]]
  <1>1. PICK s \in Sessions, t \in Txns, n \in 0..MaxReading : s = e[1] /\ t = e[2] /\ n = e[3]
    BY DEF CsInv, MainTypes
  <1>2. Grounded(s, t, n) /\ <<charger[t], t>> \in answered
    BY <1>1 DEF CsInv, RecordedStopsAreAnswered, Grounded
  <1>3. Grounded(s, t, n)' /\ <<charger'[t], t>> \in answered'
    BY <1>2, GroundedStays
  <1> QED
    BY <1>1, <1>3 DEF Grounded

LEMMA StopsStay ==
    ASSUME CsInv, Kept, \A x \in Requests : Ends(x)' => Ends(x) /\ request'[x] = request[x]
    PROVE  StopsAreGrounded'
  <1> SUFFICES ASSUME NEW x \in Requests, Ends(x)'
               PROVE  /\ request'[x].session \in Sessions /\ request'[x].txn \in Txns /\ request'[x].driver \in Drivers
                      /\ request'[x].charger = charger'[request'[x].txn]
                      /\ Grounded(request[x].session, request[x].txn, request[x].energy)'
                      /\ request'[x].pc = "stopped" => <<charger'[request'[x].txn], request'[x].txn>> \in answered'
    BY DEF StopsAreGrounded
  <1>1. Ends(x) /\ request'[x] = request[x]
    OBVIOUS
  <1>2. PICK s \in Sessions, t \in Txns, n \in 0..MaxReading :
            /\ s = request[x].session /\ t = request[x].txn /\ n = request[x].energy
            /\ request[x].charger = charger[t] /\ Grounded(s, t, n) /\ request[x].driver \in Drivers
            /\ request[x].pc = "stopped" => <<charger[t], t>> \in answered
    BY <1>1 DEF CsInv, MainTypes, RequestSet, StopsAreGrounded
  <1>3. Grounded(s, t, n)' /\ charger'[t] = charger[t] /\ (<<charger[t], t>> \in answered => <<charger'[t], t>> \in answered')
    BY <1>2, GroundedStays
  <1>4. Grounded(request[x].session, request[x].txn, request[x].energy)'
    BY <1>1, <1>2, <1>3 DEF Grounded
  <1> QED
    BY <1>1, <1>2, <1>3, <1>4

\* A new record: the charger is in it.
LEMMA CsRecord ==
    ASSUME CsInv, NEW h \in Chargers, NEW d \in Drivers \cup {Nobody}, NEW t \in Txns, Record(h, d, t),
           cue' \in [Chargers -> Drivers \cup {Nobody}], UNCHANGED <<deployment, backend>>
    PROVE  EdgeTypes'
  <1> USE SessionsAssumption
  <1>1. /\ status' \in [Txns -> {"none", "active", "completed"}] /\ charger' \in [Txns -> Chargers \cup {NoCharger}]
        /\ starter' \in [Txns -> Drivers \cup {Nobody}] /\ latest' \in [Txns -> 0..MaxReading]
        /\ charging' \in [Chargers -> Txns \cup {NoTxn}] /\ slot' = charging'
    BY DEF Record, CsInv, EdgeTypes
  <1>2. ASSUME NEW g \in Chargers, charging'[g] # NoTxn
        PROVE  status'[charging'[g]] = "active" /\ charger'[charging'[g]] = g
    <2>1. CASE g = h
      BY <2>1 DEF Record, CsInv, EdgeTypes
    <2>2. CASE g # h
      <3>1. charging'[g] = charging[g] /\ charging[g] \in Txns
        BY <1>2, <2>2 DEF Record, CsInv, EdgeTypes
      <3>2. status[charging[g]] = "active" /\ charger[charging[g]] = g
        BY <1>2, <3>1 DEF CsInv, EdgeTypes
      <3>3. charging[g] # t
        BY <3>2 DEF Record
      <3> QED
        BY <3>1, <3>2, <3>3 DEF Record, CsInv, EdgeTypes
    <2> QED
      BY <2>1, <2>2
  <1> QED
    BY <1>1, <1>2 DEF CsInv, EdgeTypes

\* A record ends: the charger is in none.
LEMMA CsEnds ==
    ASSUME CsInv, NEW h \in Chargers, StopTransaction(h)
    PROVE  EdgeTypes'
  <1> USE SessionsAssumption
  <1>1. PICK t \in Txns : t = charging[h]
    BY DEF StopTransaction, CsInv, EdgeTypes
  <1>2. /\ status' = [status EXCEPT ![t] = "completed"] /\ charging' = [charging EXCEPT ![h] = NoTxn]
        /\ slot' = [slot EXCEPT ![h] = NoTxn] /\ charger[t] = h
        /\ UNCHANGED <<deployment, backend, charger, starter, latest, cue>>
    BY <1>1 DEF StopTransaction, SlotAfter, CsInv, EdgeTypes, built
  <1>3. ASSUME NEW g \in Chargers, charging'[g] # NoTxn
        PROVE  status'[charging'[g]] = "active" /\ charger'[charging'[g]] = g
    <2>1. g # h /\ charging'[g] = charging[g] /\ charging[g] \in Txns
      BY <1>2, <1>3 DEF CsInv, EdgeTypes
    <2>2. status[charging[g]] = "active" /\ charger[charging[g]] = g
      BY <1>3, <2>1 DEF CsInv, EdgeTypes
    <2>3. charging[g] # t
      BY <1>2, <2>1, <2>2
    <2> QED
      BY <1>2, <2>1, <2>2, <2>3 DEF CsInv, EdgeTypes
  <1> QED
    BY <1>2, <1>3 DEF CsInv, EdgeTypes

\* Frames of a charger, and cards: main's own state is left alone.
LEMMA CsFrames ==
    ASSUME CsInv, NEW h \in Chargers,
           \/ \E d \in Drivers : PresentCard(h, d)
           \/ \E t \in Txns : StartTransaction(h, t) \/ StartRetried(h, t)
           \/ StartInvalid(h) \/ MeterValues(h) \/ StopTransaction(h)
    PROVE  CsInv'
  <1> USE SessionsAssumption
  <1>a. UNCHANGED <<deployment, backend, owner, binding, request, answered, points, spent, history, stops>>
    BY DEF PresentCard, StartTransaction, StartRetried, StartInvalid, MeterValues, StopTransaction, Record,
           built, sessionVars, recordVars, chargerVars, rewardVars
  <1>1. EdgeTypes' /\ Kept
    <2>1. CASE \E d \in Drivers : PresentCard(h, d)
      BY <1>a, <2>1 DEF PresentCard, CsInv, EdgeTypes, recordVars, Kept
    <2>2. ASSUME NEW t \in Txns, NEW d, Record(h, d, t) PROVE Kept
      BY <1>a, <2>2 DEF Record, CsInv, EdgeTypes, Kept
    <2>3. ASSUME NEW t \in Txns, StartTransaction(h, t) PROVE EdgeTypes' /\ Kept
      <3>1. cue[h] \in Drivers \cup {Nobody} /\ cue' \in [Chargers -> Drivers \cup {Nobody}] /\ Record(h, cue[h], t)
        BY <2>3 DEF StartTransaction, CsInv, EdgeTypes
      <3> QED
        BY <1>a, <2>2, <3>1, CsRecord
    <2>4. ASSUME NEW t \in Txns, StartRetried(h, t) PROVE EdgeTypes' /\ Kept
      <3>1. /\ starter[charging[h]] \in Drivers \cup {Nobody} /\ cue' \in [Chargers -> Drivers \cup {Nobody}]
            /\ Record(h, starter[charging[h]], t)
        BY <2>4 DEF StartRetried, CsInv, EdgeTypes
      <3> QED
        BY <1>a, <2>2, <3>1, CsRecord
    <2>5. CASE StartInvalid(h)
      BY <1>a, <2>5 DEF StartInvalid, CsInv, EdgeTypes, recordVars, Kept
    <2>6. CASE MeterValues(h)
      <3>1. charging[h] \in Txns /\ latest[charging[h]] \in 0..MaxReading /\ latest[charging[h]] < MaxReading
        BY <2>6 DEF MeterValues, CsInv, EdgeTypes
      <3>2. latest[charging[h]] + 1 \in 0..MaxReading
        BY <3>1
      <3>3. latest' = [latest EXCEPT ![charging[h]] = latest[charging[h]] + 1]
        BY <2>6 DEF MeterValues
      <3>4. latest' \in [Txns -> 0..MaxReading] /\ \A t \in Txns : latest[t] <= latest'[t]
        BY <3>1, <3>2, <3>3 DEF CsInv, EdgeTypes
      <3>5. UNCHANGED <<status, charger, starter, slot, cue, charging>>
        BY <2>6 DEF MeterValues, chargerVars
      <3> QED
        BY <1>a, <3>4, <3>5 DEF CsInv, EdgeTypes, Kept
    <2>7. CASE StopTransaction(h)
      <3>1. Kept
        BY <1>a, <2>7 DEF StopTransaction, CsInv, EdgeTypes, Kept
      <3> QED
        BY <2>7, <3>1, CsEnds
    <2> QED
      BY <2>1, <2>3, <2>4, <2>5, <2>6, <2>7
  <1>2. MainTypes' /\ Confirmed'
    BY <1>a DEF CsInv, MainTypes, Confirmed
  <1>3. StopsAreGrounded'
    <2>1. \A x \in Requests : Ends(x)' => Ends(x) /\ request'[x] = request[x]
      BY <1>a DEF Ends
    <2> QED
      BY <1>1, <2>1, StopsStay
  <1>4. RecordedStopsAreAnswered'
    BY <1>a, <1>1, HistoryStays DEF RecordedStopsAreAnswered
  <1> QED
    BY <1>1, <1>2, <1>3, <1>4 DEF CsInv

\* A start begins, or the charger answers it: no stop is concerned.
LEMMA CsStarts ==
    ASSUME CsInv, NEW r \in Requests,
           (\E d \in Drivers, h \in Chargers : StartRequest(r, d, h)) \/ StartAgreed(r) \/ StartDeclined(r)
    PROVE  CsInv'
  <1> USE SessionsAssumption
  <1>a. UNCHANGED <<deployment, backend, owner, binding, status, charger, starter, slot, latest, charging, points, spent, history, stops>>
    BY DEF StartRequest, StartAgreed, StartDeclined, AnswerStart, built, sessionVars, recordVars, chargerVars, rewardVars
  <1>b. PICK q \in RequestSet : /\ request' = [request EXCEPT ![r] = q] /\ q.pc \in {"starting", "started"}
                                /\ q.driver \in Drivers /\ q.charger \in Chargers
                                /\ q.pc = "started" => <<q.charger, q.driver>> \in answered'
    <2>1. ASSUME NEW d \in Drivers, NEW h \in Chargers, StartRequest(r, d, h)
          PROVE  \E q \in RequestSet : /\ request' = [request EXCEPT ![r] = q] /\ q.pc \in {"starting", "started"}
                                       /\ q.driver \in Drivers /\ q.charger \in Chargers
                                       /\ q.pc = "started" => <<q.charger, q.driver>> \in answered'
      <3>1. PICK q : q = [Idle EXCEPT !.pc = "starting", !.driver = d, !.charger = h]
        OBVIOUS
      <3>a. PICK i : i = Idle /\ i \in RequestSet
        BY IdleRequest
      <3>b. q = [i EXCEPT !.pc = "starting", !.driver = d, !.charger = h]
        BY <3>1, <3>a
      <3>2. q \in RequestSet /\ q.pc = "starting" /\ q.driver = d /\ q.charger = h
        BY <3>a, <3>b DEF RequestSet
      <3>3. request' = [request EXCEPT ![r] = q]
        BY <2>1, <3>1 DEF StartRequest, Begin
      <3> QED
        BY <3>2, <3>3
    <2>2. CASE AnswerStart(r)
      <3>1. PICK q : q = [request[r] EXCEPT !.pc = "started"]
        OBVIOUS
      <3>2. request[r] \in RequestSet /\ request[r].driver \in Drivers /\ request[r].charger \in Chargers
        BY <2>2 DEF AnswerStart, CsInv, MainTypes, Confirmed
      <3>3. q \in RequestSet /\ q.pc = "started" /\ q.driver = request[r].driver /\ q.charger = request[r].charger
        BY <3>1, <3>2 DEF RequestSet
      <3>4. request' = [request EXCEPT ![r] = q]
        BY <2>2, <3>1 DEF AnswerStart
      <3>5. <<request[r].charger, request[r].driver>> \in answered'
        BY <2>2 DEF AnswerStart
      <3> QED
        BY <3>2, <3>3, <3>4, <3>5
    <2> QED
      BY <2>1, <2>2 DEF StartAgreed, StartDeclined
  <1>c. answered \subseteq answered' /\ ~Ends(r)
    BY IdleRequest DEF StartRequest, Begin, StartAgreed, StartDeclined, AnswerStart, chargerVars, Ends
  <1>d. request' \in [Requests -> RequestSet] /\ request'[r] = q /\ \A x \in Requests : x # r => request'[x] = request[x]
    BY <1>b, OneRequest DEF CsInv
  <1>e. \A x \in Requests : Ends(x)' => Ends(x) /\ request'[x] = request[x]
    BY <1>b, <1>c, <1>d DEF Ends
  <1>f. Kept
    BY <1>a, <1>c DEF Kept, CsInv, EdgeTypes
  <1>1. MainTypes'
    BY <1>a, <1>d DEF CsInv, MainTypes
  <1>2. EdgeTypes'
    <2>1. cue' \in [Chargers -> Drivers \cup {Nobody}]
      <3>1. CASE UNCHANGED cue
        BY <3>1 DEF CsInv, EdgeTypes
      <3>2. CASE StartAgreed(r)
        BY <3>2 DEF StartAgreed, AnswerStart, CsInv, EdgeTypes, Confirmed
      <3> QED
        BY <3>1, <3>2 DEF StartRequest, StartDeclined, chargerVars
    <2> QED
      BY <1>a, <2>1 DEF CsInv, EdgeTypes
  <1>3. Confirmed'
    BY <1>a, <1>b, <1>c, <1>d DEF CsInv, Confirmed
  <1>4. StopsAreGrounded'
    BY <1>e, <1>f, StopsStay
  <1>5. RecordedStopsAreAnswered'
    BY <1>a, <1>f, HistoryStays DEF RecordedStopsAreAnswered
  <1> QED
    BY <1>1, <1>2, <1>3, <1>4, <1>5 DEF CsInv

\* A request ends.
LEMMA RequestEnds ==
    ASSUME CsInv, NEW r \in Requests, request' = [request EXCEPT ![r] = Idle]
    PROVE  /\ request' \in [Requests -> RequestSet] /\ request'[r] = Idle
           /\ \A x \in Requests : x # r => request'[x] = request[x]
           /\ \A x \in Requests : Ends(x)' => Ends(x) /\ request'[x] = request[x]
  <1>1. /\ request' \in [Requests -> RequestSet] /\ request'[r] = Idle
        /\ \A x \in Requests : x # r => request'[x] = request[x]
    BY IdleRequest, OneRequest DEF CsInv
  <1> QED
    BY <1>1, IdleRequest DEF Ends

\* _dispatch_remote_start returns: a session nobody owned gets its owner.
LEMMA CsStartReturns ==
    ASSUME CsInv, NEW r \in Requests, NEW s \in Sessions, StartReturns(r, s)
    PROVE  CsInv'
  <1> USE SessionsAssumption
  <1>a. /\ UNCHANGED <<deployment, backend, status, charger, starter, slot, latest, cue, charging, answered, points, spent, history, stops>>
        /\ request[r].pc = "started" /\ owner[s] = Nobody /\ request' = [request EXCEPT ![r] = Idle]
        /\ owner' = [owner EXCEPT ![s] = request[r].driver] /\ binding' = [binding EXCEPT ![s] = request[r].charger]
    BY DEF StartReturns, built, recordVars, chargerVars, rewardVars
  <1>b. request[r].driver \in Drivers /\ request[r].charger \in Chargers /\ <<request[r].charger, request[r].driver>> \in answered
    BY <1>a DEF CsInv, Confirmed
  <1>c. /\ request' \in [Requests -> RequestSet] /\ request'[r] = Idle
        /\ \A x \in Requests : x # r => request'[x] = request[x]
        /\ \A x \in Requests : Ends(x)' => Ends(x) /\ request'[x] = request[x]
    BY <1>a, RequestEnds
  <1>d. /\ owner'[s] = request[r].driver /\ binding'[s] = request[r].charger
        /\ \A v \in Sessions : v # s => owner'[v] = owner[v] /\ binding'[v] = binding[v]
    BY <1>a DEF CsInv, MainTypes
  <1>e. Kept
    BY <1>a, <1>d DEF Kept, CsInv, EdgeTypes
  <1>1. MainTypes'
    BY <1>a, <1>b, <1>c DEF CsInv, MainTypes
  <1>2. EdgeTypes'
    BY <1>a DEF CsInv, EdgeTypes
  <1>3. Confirmed'
    BY <1>a, <1>b, <1>c, <1>d, IdleRequest DEF CsInv, Confirmed
  <1>4. StopsAreGrounded'
    BY <1>c, <1>e, StopsStay
  <1>5. RecordedStopsAreAnswered'
    BY <1>a, <1>e, HistoryStays DEF RecordedStopsAreAnswered
  <1> QED
    BY <1>1, <1>2, <1>3, <1>4, <1>5 DEF CsInv

\* A command fails: its request leaves no trace.
LEMMA CsFails ==
    ASSUME CsInv, NEW r \in Requests, CommandFails(r)
    PROVE  CsInv'
  <1>a. /\ UNCHANGED <<deployment, backend, owner, binding, status, charger, starter, slot, latest, cue, charging, answered, points, spent, history, stops>>
        /\ request' = [request EXCEPT ![r] = Idle]
    BY DEF CommandFails, built, sessionVars, recordVars, chargerVars, rewardVars
  <1>b. /\ request' \in [Requests -> RequestSet] /\ request'[r] = Idle
        /\ \A x \in Requests : x # r => request'[x] = request[x]
        /\ \A x \in Requests : Ends(x)' => Ends(x) /\ request'[x] = request[x]
    BY <1>a, RequestEnds
  <1>c. Kept
    BY <1>a, SessionsAssumption DEF Kept, CsInv, EdgeTypes
  <1>1. MainTypes' /\ EdgeTypes'
    BY <1>a, <1>b DEF CsInv, MainTypes, EdgeTypes
  <1>2. Confirmed'
    BY <1>a, <1>b, IdleRequest DEF CsInv, Confirmed
  <1>3. StopsAreGrounded'
    BY <1>b, <1>c, StopsStay
  <1>4. RecordedStopsAreAnswered'
    BY <1>a, <1>c, HistoryStays DEF RecordedStopsAreAnswered
  <1> QED
    BY <1>1, <1>2, <1>3, <1>4 DEF CsInv

\* What main sees of a charger is an active record of it, and a reading.
LEMMA SeenIsReal ==
    ASSUME CsInv, NEW h \in Chargers, NEW t \in ActiveSeen(h)
    PROVE  t \in Txns /\ charger[t] = h /\ status[t] = "active" /\ ReadingSeen(t) \in 0..MaxReading /\ ReadingSeen(t) <= latest[t]
  <1> USE SessionsAssumption
  <1>1. t \in Txns /\ charger[t] = h /\ status[t] = "active"
    BY DEF ActiveSeen, CsInv, EdgeTypes
  <1>2. latest[t] \in 0..MaxReading
    BY <1>1 DEF CsInv, EdgeTypes
  <1> QED
    BY <1>1, <1>2 DEF ReadingSeen

\* A request r becomes the stop q of an owned session: one that is grounded.
LEMMA CsStopSet ==
    ASSUME CsInv, Kept, NEW r \in Requests, NEW q \in RequestSet, request' = [request EXCEPT ![r] = q],
           q.pc \in {"stopping", "stopped"}, q.session \in Sessions, q.txn \in Txns, q.driver \in Drivers,
           q.charger = charger'[q.txn], Grounded(q.session, q.txn, q.energy),
           q.pc = "stopped" => <<charger'[q.txn], q.txn>> \in answered'
    PROVE  request' \in [Requests -> RequestSet] /\ StopsAreGrounded' /\ (UNCHANGED <<owner, binding>> => Confirmed')
  <1>1. request' \in [Requests -> RequestSet] /\ request'[r] = q /\ \A x \in Requests : x # r => request'[x] = request[x]
    BY OneRequest DEF CsInv
  <1>2. q.energy \in 0..MaxReading
    BY DEF RequestSet
  <1>3. Grounded(q.session, q.txn, q.energy)'
    BY <1>2, GroundedStays
  <1>4. ASSUME NEW x \in Requests, Ends(x)'
        PROVE  /\ request'[x].session \in Sessions /\ request'[x].txn \in Txns /\ request'[x].driver \in Drivers
               /\ request'[x].charger = charger'[request'[x].txn]
               /\ Grounded(request[x].session, request[x].txn, request[x].energy)'
               /\ request'[x].pc = "stopped" => <<charger'[request'[x].txn], request'[x].txn>> \in answered'
    <2>1. CASE x = r
      BY <1>1, <1>3, <2>1 DEF Grounded
    <2>2. CASE x # r
      <3>1. Ends(x) /\ request'[x] = request[x]
        BY <1>1, <1>4, <2>2 DEF Ends
      <3>2. PICK s \in Sessions, t \in Txns, n \in 0..MaxReading :
                /\ s = request[x].session /\ t = request[x].txn /\ n = request[x].energy
                /\ request[x].charger = charger[t] /\ Grounded(s, t, n) /\ request[x].driver \in Drivers
                /\ request[x].pc = "stopped" => <<charger[t], t>> \in answered
        BY <3>1 DEF CsInv, MainTypes, RequestSet, StopsAreGrounded
      <3>3. Grounded(s, t, n)' /\ charger'[t] = charger[t] /\ (<<charger[t], t>> \in answered => <<charger'[t], t>> \in answered')
        BY <3>2, GroundedStays
      <3>4. Grounded(request[x].session, request[x].txn, request[x].energy)'
        BY <3>1, <3>2, <3>3 DEF Grounded
      <3> QED
        BY <3>1, <3>2, <3>3, <3>4
    <2> QED
      BY <2>1, <2>2
  <1>5. StopsAreGrounded'
    BY <1>4 DEF StopsAreGrounded
  <1>6. ASSUME UNCHANGED <<owner, binding>> PROVE Confirmed'
    <2>1. answered \subseteq answered'
      BY DEF Kept
    <2> QED
      BY <1>1, <1>6, <2>1 DEF CsInv, Confirmed
  <1> QED
    BY <1>1, <1>5, <1>6

\* The charger answers a stop.
LEMMA CsStopAnswered ==
    ASSUME CsInv, NEW r \in Requests, StopAgreed(r) \/ StopDeclined(r)
    PROVE  CsInv'
  <1>a. /\ UNCHANGED <<deployment, backend, owner, binding, status, charger, starter, slot, latest, cue, charging, points, spent, history, stops>>
        /\ request[r].pc = "stopping" /\ request' = [request EXCEPT ![r].pc = "stopped"]
        /\ answered' = answered \cup {<<request[r].charger, request[r].txn>>}
    BY DEF StopAgreed, StopDeclined, AnswerStop, built, sessionVars, recordVars, rewardVars
  <1>b. Kept
    BY <1>a, SessionsAssumption DEF Kept, CsInv, EdgeTypes
  <1>c. /\ request[r] \in RequestSet /\ request[r].session \in Sessions /\ request[r].txn \in Txns /\ request[r].driver \in Drivers
        /\ request[r].charger = charger[request[r].txn]
        /\ Grounded(request[r].session, request[r].txn, request[r].energy)
    BY <1>a DEF CsInv, MainTypes, StopsAreGrounded, Ends
  <1>d. PICK q : q = [request[r] EXCEPT !.pc = "stopped"]
    OBVIOUS
  <1>e. /\ q \in RequestSet /\ q.pc = "stopped" /\ q.session = request[r].session /\ q.txn = request[r].txn
        /\ q.driver = request[r].driver /\ q.charger = request[r].charger /\ q.energy = request[r].energy
    BY <1>c, <1>d DEF RequestSet
  <1>f. request' = [request EXCEPT ![r] = q]
    BY <1>a, <1>d
  <1>g. q.charger = charger'[q.txn] /\ <<charger'[q.txn], q.txn>> \in answered' /\ Grounded(q.session, q.txn, q.energy)
    BY <1>a, <1>c, <1>e
  <1>1. request' \in [Requests -> RequestSet] /\ StopsAreGrounded' /\ Confirmed'
    BY <1>a, <1>b, <1>c, <1>e, <1>f, <1>g, CsStopSet
  <1>2. MainTypes' /\ EdgeTypes'
    BY <1>a, <1>1 DEF CsInv, MainTypes, EdgeTypes
  <1>3. RecordedStopsAreAnswered'
    BY <1>a, <1>b, HistoryStays DEF RecordedStopsAreAnswered
  <1> QED
    BY <1>1, <1>2, <1>3 DEF CsInv

\* A stop is asked for: of a transaction main sees as active.
LEMMA CsStopRequest ==
    ASSUME CsInv, NEW r \in Requests, NEW s \in Sessions, NEW d \in Drivers, StopRequest(r, s, d)
    PROVE  CsInv'
  <1> USE SessionsAssumption
  <1>a. /\ UNCHANGED <<deployment, backend, owner, binding, status, charger, starter, slot, latest, cue, charging, answered, points, spent, history>>
        /\ owner[s] = d /\ stops' = [stops EXCEPT ![s] = stops[s] + 1]
    BY DEF StopRequest, built, sessionVars, recordVars, chargerVars, rewardVars
  <1>b. Kept
    BY <1>a DEF Kept, CsInv, EdgeTypes
  <1>c. binding[s] \in Chargers /\ owner[s] # Nobody
    BY <1>a DEF CsInv, Confirmed
  <1>d. PICK t \in ActiveSeen(binding[s]) :
            request' = [request EXCEPT ![r] =
                [pc |-> "stopping", driver |-> d, charger |-> binding[s], session |-> s,
                 txn |-> t, energy |-> ReadingSeen(t)]]
    BY DEF StopRequest
  <1>e. /\ t \in Txns /\ charger[t] = binding[s] /\ status[t] = "active"
        /\ ReadingSeen(t) \in 0..MaxReading /\ ReadingSeen(t) <= latest[t]
    BY <1>c, SeenIsReal
  <1>f. PICK e \in 0..MaxReading : e = ReadingSeen(t)
    BY <1>e
  <1>g. PICK q : q = [pc |-> "stopping", driver |-> d, charger |-> binding[s], session |-> s, txn |-> t, energy |-> e]
    OBVIOUS
  <1>h. /\ q \in RequestSet /\ q.pc = "stopping" /\ q.session = s /\ q.txn = t /\ q.driver = d
        /\ q.charger = binding[s] /\ q.energy = e
    BY <1>c, <1>e, <1>g DEF RequestSet
  <1>i. request' = [request EXCEPT ![r] = q]
    BY <1>d, <1>f, <1>g
  <1>j. Grounded(q.session, q.txn, q.energy) /\ q.charger = charger'[q.txn]
    BY <1>a, <1>c, <1>e, <1>f, <1>h DEF Grounded
  <1>1. request' \in [Requests -> RequestSet] /\ StopsAreGrounded' /\ Confirmed'
    BY <1>a, <1>b, <1>e, <1>h, <1>i, <1>j, CsStopSet
  <1>2. MainTypes' /\ EdgeTypes'
    BY <1>a, <1>1 DEF CsInv, MainTypes, EdgeTypes
  <1>3. RecordedStopsAreAnswered'
    BY <1>a, <1>b, HistoryStays DEF RecordedStopsAreAnswered
  <1> QED
    BY <1>1, <1>2, <1>3 DEF CsInv

\* A stop is recorded and awarded.
LEMMA CsStopReturns ==
    ASSUME CsInv, NEW r \in Requests, StopReturns(r)
    PROVE  CsInv'
  <1> USE SessionsAssumption
  <1>a. PICK s \in Sessions, d \in Drivers, t \in Txns, n \in 0..MaxReading :
            /\ s = request[r].session /\ d = request[r].driver /\ t = request[r].txn /\ n = request[r].energy
            /\ Grounded(s, t, n) /\ <<charger[t], t>> \in answered
    BY DEF StopReturns, CsInv, StopsAreGrounded, Ends, MainTypes, RequestSet
  <1>b. /\ UNCHANGED <<deployment, backend, owner, binding, status, charger, starter, slot, latest, cue, charging, answered, spent, stops>>
        /\ request' = [request EXCEPT ![r] = Idle]
        /\ points' = [points EXCEPT ![d] = points[d] + Award]
        /\ history' = history \cup {<<s, t, n>>}
    BY <1>a DEF StopReturns, built, sessionVars, recordVars, chargerVars
  <1>c. /\ request' \in [Requests -> RequestSet] /\ request'[r] = Idle
        /\ \A x \in Requests : x # r => request'[x] = request[x]
        /\ \A x \in Requests : Ends(x)' => Ends(x) /\ request'[x] = request[x]
    BY <1>b, RequestEnds
  <1>d. Kept
    BY <1>b DEF Kept, CsInv, EdgeTypes
  <1>1. MainTypes'
    BY <1>b, <1>c DEF CsInv, MainTypes
  <1>2. EdgeTypes'
    BY <1>b DEF CsInv, EdgeTypes
  <1>3. Confirmed'
    BY <1>b, <1>c, IdleRequest DEF CsInv, Confirmed
  <1>4. StopsAreGrounded'
    BY <1>c, <1>d, StopsStay
  <1>5. RecordedStopsAreAnswered'
    <2>1. Grounded(s, t, n)' /\ <<charger'[t], t>> \in answered'
      BY <1>a, <1>d, GroundedStays
    <2>2. ASSUME NEW e \in history'
          PROVE  /\ owner'[e[1]] # Nobody /\ binding'[e[1]] = charger'[e[2]]
                 /\ <<charger'[e[2]], e[2]>> \in answered' /\ status'[e[2]] # "none"
                 /\ e[3] <= latest'[e[2]]
      <3>1. CASE e \in history
        BY <1>d, <3>1, HistoryStays
      <3>2. CASE e = <<s, t, n>>
        BY <2>1, <3>2 DEF Grounded
      <3> QED
        BY <1>b, <3>1, <3>2
    <2> QED
      BY <2>2 DEF RecordedStopsAreAnswered
  <1> QED
    BY <1>1, <1>2, <1>3, <1>4, <1>5 DEF CsInv

\* A redemption moves points to what was spent.
LEMMA CsRedeems ==
    ASSUME CsInv, NEW d \in Drivers, NEW cost \in Costs, Redeem(d, cost)
    PROVE  CsInv'
  <1> USE SessionsAssumption
  <1>a. /\ UNCHANGED <<deployment, backend, owner, binding, request, status, charger, starter, slot, latest, cue, charging, answered, history, stops>>
        /\ points[d] >= cost /\ points' = [points EXCEPT ![d] = points[d] - cost] /\ spent' = [spent EXCEPT ![d] = spent[d] + cost]
    BY DEF Redeem, Deduct, built, sessionVars, recordVars, chargerVars
  <1>b. cost \in Nat /\ points[d] \in Nat /\ spent[d] \in Nat /\ points[d] - cost \in Nat
    BY <1>a DEF CsInv, MainTypes
  <1>1. MainTypes' /\ EdgeTypes'
    BY <1>a, <1>b DEF CsInv, MainTypes, EdgeTypes
  <1>2. Confirmed' /\ StopsAreGrounded' /\ RecordedStopsAreAnswered'
    BY <1>a DEF CsInv, Confirmed, StopsAreGrounded, Ends, Grounded, RecordedStopsAreAnswered
  <1> QED
    BY <1>1, <1>2 DEF CsInv

LEMMA CsInvNext == CsInv /\ [Next]_vars => CsInv'
  <1> SUFFICES ASSUME CsInv, [Next]_vars PROVE CsInv'
    OBVIOUS
  <1>1. CASE UNCHANGED vars
    BY <1>1 DEF vars, CsInv, MainTypes, EdgeTypes, Confirmed, StopsAreGrounded, Grounded, Ends, RecordedStopsAreAnswered
  <1> QED
    BY <1>1, CsFrames, CsStarts, CsStartReturns, CsFails, CsStopAnswered, CsStopRequest, CsStopReturns, CsRedeems DEF Next

LEMMA CsInvAlways == Spec => []CsInv
  BY CsInvInit, CsInvNext, PTL DEF Spec

(* TypeOK for any sets of drivers, chargers, sessions, transactions and         *)
(* requests: both processes keep the shape session_start.py, rewards.py and the *)
(* repositories give their state.                                               *)
THEOREM SessionsTypeCorrect == Spec => []TypeOK
  <1>1. CsInv => TypeOK
    BY DEF CsInv, MainTypes, EdgeTypes, TypeOK
  <1> QED
    BY <1>1, CsInvAlways, PTL

(* RecordedStopsAreAnswered, for any number of drivers, sessions, transactions  *)
(* and overlapping requests: stop_session records and rewards only what the     *)
(* charger has answered, of a transaction of the session's own charger, with a  *)
(* reading taken before the await that the record has not fallen below since.   *)
THEOREM StopsRestOnAnswers == Spec => []RecordedStopsAreAnswered
  <1>1. CsInv => RecordedStopsAreAnswered
    BY DEF CsInv
  <1> QED
    BY <1>1, CsInvAlways, PTL

(* LiveStatusIsReal, for any number of drivers, chargers and sessions and in    *)
(* either deployment: _dispatch_remote_start binds a session only after its     *)
(* charger answered the start; where stores are shared and in memory the slot   *)
(* get_live_status reads follows the charger through retried frames and stops,  *)
(* whoever asked for them; and with Supabase a charging charger is never shown  *)
(* as finished.                                                                 *)
THEOREM StatusShownIsReal == Spec => []LiveStatusIsReal
  <1>1. CsInv => LiveStatusIsReal
    <2> SUFFICES ASSUME CsInv PROVE LiveStatusIsReal
      OBVIOUS
    <2>1. SessionsAreAnswered
      BY DEF CsInv, Confirmed, SessionsAreAnswered
    <2>2. ASSUME NEW s \in Sessions, owner[s] # Nobody, NEW t, t = charging[binding[s]]
          PROVE  /\ deployment = "single" /\ backend = "memory" =>
                       LiveStatus(s) = {IF t = NoTxn THEN [status |-> "finished", energy |-> 0]
                                        ELSE [status |-> "charging", energy |-> latest[t]]}
                 /\ backend = "supabase" /\ t # NoTxn => \A l \in LiveStatus(s) : l.status = "charging"
      <3>1. binding[s] \in Chargers /\ slot[binding[s]] = t
        BY <2>2 DEF CsInv, Confirmed, EdgeTypes
      <3>2. CASE deployment = "single" /\ backend = "memory"
        <4>1. ActiveSeen(binding[s]) = {t} \ {NoTxn}
          BY <3>1, <3>2 DEF ActiveSeen
        <4>2. CASE t = NoTxn
          BY <3>2, <4>1, <4>2 DEF LiveStatus
        <4>3. CASE t # NoTxn
          <5>1. ActiveSeen(binding[s]) = {t}
            BY <4>1, <4>3
          <5>2. ReadingSeen(t) = latest[t]
            BY <3>2 DEF ReadingSeen
          <5>3. LiveStatus(s) = {[status |-> "charging", energy |-> ReadingSeen(x)] : x \in {t}}
            BY <5>1 DEF LiveStatus
          <5> QED
            BY <3>2, <4>3, <5>2, <5>3
        <4> QED
          BY <4>2, <4>3
      <3>3. CASE backend = "supabase" /\ t # NoTxn
        <4>1. t \in ActiveSeen(binding[s])
          BY <2>2, <3>1, <3>3 DEF ActiveSeen, CsInv, EdgeTypes
        <4>2. LiveStatus(s) = {[status |-> "charging", energy |-> ReadingSeen(x)] : x \in ActiveSeen(binding[s])}
          BY <4>1 DEF LiveStatus
        <4> QED
          BY <3>3, <4>2
      <3> QED
        BY <3>2, <3>3
    <2> QED
      BY <2>1, <2>2 DEF LiveStatusIsReal
  <1> QED
    BY <1>1, CsInvAlways, PTL
==============================================================================
