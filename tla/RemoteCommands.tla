--------------------------- MODULE RemoteCommands ---------------------------
(***************************************************************************)
(* Server-initiated OCPP calls: RemoteCommandService.send_command (REST    *)
(* process) -> NatsCommandTransport.send (NATS request/reply) ->           *)
(* serve_commands (gateway node) -> LiveConnection.send_call (WebSocket)   *)
(* -> the charger's CallResult or CallError -> resolve / reject -> the     *)
(* reply -> the command log.                                               *)
(*                                                                         *)
(* A node's subscription callback is awaited by the NATS client for one    *)
(* message at a time, so a node works on one command while the others sit  *)
(* in its queue.  Timers count down; a Tick stands for a time step that is *)
(* long compared with a message hop or an event-loop turn.                 *)
(***************************************************************************)
EXTENDS Naturals, Sequences, FiniteSets

CONSTANTS Commands,          \* command ids (uuid4), also the ids of the calls
          Chargers, Nodes,
          Conns,             \* LiveConnection objects, each used once
          NoConn,
          NodeTimeout,       \* send_call's timeout_seconds (25 s)
          SendTimeout,       \* default_timeout_seconds of the service (30 s)
          MaxUnsent          \* bound on the answers NATS does not carry

ASSUME TimeoutAssumption ==
    /\ NodeTimeout \in Nat \ {0}
    /\ SendTimeout \in Nat \ {0}
    /\ MaxUnsent \in Nat

ASSUME ConnAssumption == NoConn \notin Conns

VARIABLES
    log,        \* command log: status of each record, "none" before create
    sender,     \* the coroutine in send_command
    sendTimer,  \* ticks left of nc.request's timeout
    target,     \* [charger, node] a command is addressed to
    queue,      \* requests a node's subscription holds
    job,        \* the command a node's _handle is awaiting, with its connection
    nodeTimer,  \* ticks left of wait_for in send_call
    future,     \* state of the future made by send_call
    pending,    \* LiveConnection._pending
    reply,      \* the answer in the requester's inbox
    conn,       \* the WebSockets
    live,       \* LiveConnectionRegistry of every node
    up,         \* nodes that are running
    received,   \* <<conn, command>>: CALL frames a charger has received
    answer,     \* what the charger made of the command
    alone,      \* commands that met an idle node that has not crashed since
    unsent      \* commands for which a msg.respond has raised

vars == <<log, sender, sendTimer, target, queue, job, nodeTimer, future,
          pending, reply, conn, live, up, received, answer, alone, unsent>>

senderVars  == <<log, sender, sendTimer, target>>
serveVars   == <<queue, job, nodeTimer, future, pending, reply, unsent>>
socketVars  == <<conn, live, up>>

Outcomes == {"accepted", "rejected", "timed_out"}

\* A charger that agrees and one that declines both send a CallResult: the
\* refusal ({"status": "Rejected"}, "Occupied", ...) is in the payload, which
\* neither serve_commands nor the transport looks at.  "error" is a CallError.
CallResults == {"agreed", "declined"}
Answers == CallResults \cup {"error"}

Idle == [cmd |-> "idle", conn |-> NoConn]
Unset == [charger |-> "unset", node |-> "unset"]

-----------------------------------------------------------------------------
Init ==
    /\ log = [k \in Commands |-> "none"]
    /\ sender = [k \in Commands |-> "idle"]
    /\ sendTimer = [k \in Commands |-> 0]
    /\ target = [k \in Commands |-> Unset]
    /\ queue = [n \in Nodes |-> <<>>]
    /\ job = [n \in Nodes |-> Idle]
    /\ nodeTimer = [n \in Nodes |-> 0]
    /\ future = [k \in Commands |-> "none"]
    /\ pending = [c \in Conns |-> {}]
    /\ reply = [k \in Commands |-> "none"]
    /\ conn = [c \in Conns |-> [state |-> "unused", charger |-> "unset", node |-> "unset"]]
    /\ live = [n \in Nodes |-> [h \in Chargers |-> NoConn]]
    /\ up = [n \in Nodes |-> TRUE]
    /\ received = {}
    /\ answer = [k \in Commands |-> "none"]
    /\ alone = {}
    /\ unsent = {}

-----------------------------------------------------------------------------
(* The sender: send_command and NatsCommandTransport.send.                 *)

\* Presence says the charger is offline (or says nothing): the record is
\* created and rejected at once, and ChargerOfflineError is raised.
SendOffline(k) ==
    /\ log[k] = "none"
    /\ log' = [log EXCEPT ![k] = "rejected"]
    /\ sender' = [sender EXCEPT ![k] = "done"]
    /\ UNCHANGED <<sendTimer, target, serveVars, socketVars, received, answer, alone>>

\* Presence names a node.  Which one is any node: the record may be stale.
\* A node that is down has no subscription: NoRespondersError.
SendCommand(k, h, n) ==
    /\ log[k] = "none"
    /\ target' = [target EXCEPT ![k] = [charger |-> h, node |-> n]]
    /\ \/ /\ up[n]
          /\ log' = [log EXCEPT ![k] = "pending"]
          /\ sender' = [sender EXCEPT ![k] = "waiting"]
          /\ sendTimer' = [sendTimer EXCEPT ![k] = SendTimeout]
          /\ queue' = [queue EXCEPT ![n] = Append(@, k)]
          /\ alone' = IF queue[n] = <<>> /\ job[n] = Idle THEN alone \cup {k} ELSE alone
       \/ /\ ~up[n]
          /\ log' = [log EXCEPT ![k] = "rejected"]
          /\ sender' = [sender EXCEPT ![k] = "done"]
          /\ UNCHANGED <<sendTimer, queue, alone>>
    /\ UNCHANGED <<job, nodeTimer, future, pending, reply, unsent, socketVars, received, answer>>

\* mark_responded(command_id, status) and the return to the caller.
MarkResponded(k, status) ==
    /\ log' = [log EXCEPT ![k] = status]
    /\ sender' = [sender EXCEPT ![k] = "done"]
    /\ UNCHANGED <<sendTimer, target, serveVars, socketVars, received, answer, alone>>

\* Variant: the reply is applied whether or not the requester still waits.
ReceiveReplyLate(k) ==
    /\ reply[k] # "none" /\ reply[k] # log[k]
    /\ MarkResponded(k, reply[k])

\* The reply arrives while the requester still listens on its inbox.
ReceiveReply(k) ==
    /\ sender[k] = "waiting"
    /\ reply[k] # "none"
    /\ MarkResponded(k, reply[k])

\* nats.errors.TimeoutError.
RequestTimesOut(k) ==
    /\ sender[k] = "waiting"
    /\ sendTimer[k] = 0
    /\ MarkResponded(k, "timed_out")

\* Any other exception of nc.request leaves send() and send_command.
RequestRaises(k) ==
    /\ sender[k] = "waiting"
    /\ sender' = [sender EXCEPT ![k] = "raised"]
    /\ UNCHANGED <<log, sendTimer, target, serveVars, socketVars, received, answer, alone>>

-----------------------------------------------------------------------------
(* The gateway node: serve_commands._handle and LiveConnection.send_call.  *)

Uncarried(k) ==
    /\ Cardinality(unsent) < MaxUnsent
    /\ unsent' = unsent \cup {k}

\* msg.respond, which raises when NATS refuses to carry the answer (its
\* payload limit, a closed connection): then nothing reaches the requester.
Respond(k, status) ==
    \/ reply' = [reply EXCEPT ![k] = status] /\ UNCHANGED unsent
    \/ Uncarried(k) /\ UNCHANGED reply

\* No live connection here: "charger not connected on this node".
HandleNoConnection(n) ==
    /\ up[n] /\ job[n] = Idle /\ queue[n] # <<>>
    /\ LET k == Head(queue[n]) IN
        /\ live[n][target[k].charger] = NoConn
        /\ Respond(k, "rejected")
    /\ queue' = [queue EXCEPT ![n] = Tail(@)]
    /\ UNCHANGED <<senderVars, job, nodeTimer, future, pending, socketVars,
                   received, answer, alone>>

\* Variant: send_call waits as long as the requester does.
HandleSendCallUnbounded(n) ==
    /\ up[n] /\ job[n] = Idle /\ queue[n] # <<>>
    /\ LET k == Head(queue[n])
           c == live[n][target[k].charger] IN
        /\ c # NoConn
        /\ job' = [job EXCEPT ![n] = [cmd |-> k, conn |-> c]]
        /\ future' = [future EXCEPT ![k] = "waiting"]
        /\ pending' = [pending EXCEPT ![c] = @ \cup {k}]
        /\ received' = IF conn[c].state = "open" THEN received \cup {<<c, k>>} ELSE received
    /\ queue' = [queue EXCEPT ![n] = Tail(@)]
    /\ nodeTimer' = [nodeTimer EXCEPT ![n] = SendTimeout]
    /\ UNCHANGED <<senderVars, reply, unsent, socketVars, answer, alone>>

\* send_call: the future is registered, the CALL frame sent, wait_for begins.
\* A frame sent to a peer that has silently gone is lost.
HandleSendCall(n) ==
    /\ up[n] /\ job[n] = Idle /\ queue[n] # <<>>
    /\ LET k == Head(queue[n])
           c == live[n][target[k].charger] IN
        /\ c # NoConn
        /\ job' = [job EXCEPT ![n] = [cmd |-> k, conn |-> c]]
        /\ future' = [future EXCEPT ![k] = "waiting"]
        /\ pending' = [pending EXCEPT ![c] = @ \cup {k}]
        /\ received' = IF conn[c].state = "open" THEN received \cup {<<c, k>>} ELSE received
    /\ queue' = [queue EXCEPT ![n] = Tail(@)]
    /\ nodeTimer' = [nodeTimer EXCEPT ![n] = NodeTimeout]
    /\ UNCHANGED <<senderVars, reply, unsent, socketVars, answer, alone>>

\* send_json raises on a peer that has gone: the entry is popped again and
\* the catch-all answers "internal error".
HandleSendFails(n) ==
    /\ up[n] /\ job[n] = Idle /\ queue[n] # <<>>
    /\ LET k == Head(queue[n])
           c == live[n][target[k].charger] IN
        /\ c # NoConn
        /\ conn[c].state = "gone"
        /\ Respond(k, "rejected")
    /\ queue' = [queue EXCEPT ![n] = Tail(@)]
    /\ UNCHANGED <<senderVars, job, nodeTimer, future, pending, socketVars,
                   received, answer, alone>>

\* Variant: send_call without its finally.
FinishJobKeepingEntry(n) ==
    /\ job' = [job EXCEPT ![n] = Idle]
    /\ nodeTimer' = [nodeTimer EXCEPT ![n] = 0]
    /\ UNCHANGED <<senderVars, queue, future, pending, socketVars, received, answer, alone>>

\* The end of send_call (its finally pops the entry) and of _handle.
FinishJob(n) ==
    /\ pending' = [pending EXCEPT ![job[n].conn] = @ \ {job[n].cmd}]
    /\ job' = [job EXCEPT ![n] = Idle]
    /\ nodeTimer' = [nodeTimer EXCEPT ![n] = 0]
    /\ UNCHANGED <<senderVars, queue, future, socketVars, received, answer, alone>>

\* The awaited future is done: any CallResult is answered "accepted".
HandleAnswered(n) ==
    /\ job[n] # Idle
    /\ future[job[n].cmd] \in Answers
    /\ Respond(job[n].cmd, IF future[job[n].cmd] \in CallResults THEN "accepted" ELSE "rejected")
    /\ FinishJob(n)

\* The respond of a CallResult is inside the try: when it raises, the
\* catch-all answers "internal error" instead.
HandleResultUncarried(n) ==
    /\ job[n] # Idle
    /\ future[job[n].cmd] \in CallResults
    /\ reply' = [reply EXCEPT ![job[n].cmd] = "rejected"]
    /\ Uncarried(job[n].cmd)
    /\ FinishJob(n)

\* wait_for times out: the task is cancelled, also when the future was set
\* in the same turn and the task has not run yet.
HandleTimesOut(n) ==
    /\ job[n] # Idle
    /\ nodeTimer[n] = 0
    /\ Respond(job[n].cmd, "timed_out")
    /\ FinishJob(n)

-----------------------------------------------------------------------------
(* The charger and its sockets.                                            *)

\* ocpp_endpoint after an accepted handshake: accept, register (overwrites).
Connect(c, h, n) ==
    /\ conn[c].state = "unused"
    /\ up[n]
    /\ conn' = [conn EXCEPT ![c] = [state |-> "open", charger |-> h, node |-> n]]
    /\ live' = [live EXCEPT ![n][h] = c]
    /\ UNCHANGED <<senderVars, serveVars, up, received, answer, alone>>

\* The peer vanishes without a close frame; the node does not know yet.
PeerVanishes(c) ==
    /\ conn[c].state = "open"
    /\ conn' = [conn EXCEPT ![c].state = "gone"]
    /\ UNCHANGED <<senderVars, serveVars, live, up, received, answer, alone>>

\* LiveConnectionRegistry.unregister: only if it is still this connection.
Unregister(n, h, c) ==
    IF live[n][h] = c THEN [live EXCEPT ![n][h] = NoConn] ELSE live

\* WebSocketDisconnect and the endpoint's finally.  Futures that wait on the
\* connection are left to their timeout.
SocketCloses(c) ==
    /\ conn[c].state \in {"open", "gone"}
    /\ conn' = [conn EXCEPT ![c].state = "closed"]
    /\ live' = Unregister(conn[c].node, conn[c].charger, c)
    /\ UNCHANGED <<senderVars, serveVars, up, received, answer, alone>>

\* Variant: a frame completes whatever call the connection waits for.
ResolveAnyPending(c, k, kind) ==
    future' = [j \in Commands |-> IF j \in pending[c] /\ future[j] = "waiting"
                                  THEN kind ELSE future[j]]

\* resolve / reject: ignored when the id is not pending on THIS connection or
\* its future is done.
Resolve(c, k, kind) ==
    future' = IF k \in pending[c] /\ future[k] = "waiting"
              THEN [future EXCEPT ![k] = kind] ELSE future

\* A CALL_RESULT (of either kind) or CALL_ERROR frame.  The charger does
\* not change its mind, but may answer late, repeatedly, or on a connection
\* opened after the one that carried the call.
ChargerAnswers(c, k, kind) ==
    /\ conn[c].state = "open"
    /\ \E d \in Conns : <<d, k>> \in received /\ conn[d].charger = conn[c].charger
    /\ answer[k] \in {"none", kind}
    /\ answer' = [answer EXCEPT ![k] = kind]
    /\ Resolve(c, k, kind)
    /\ UNCHANGED <<senderVars, queue, job, nodeTimer, pending, reply, unsent, socketVars,
                   received, alone>>

-----------------------------------------------------------------------------
(* Node failure and time.                                                  *)

\* The process dies: its queue, its job and its sockets are gone.
NodeStops(n) ==
    /\ up[n]
    /\ up' = [up EXCEPT ![n] = FALSE]
    /\ queue' = [queue EXCEPT ![n] = <<>>]
    /\ job' = [job EXCEPT ![n] = Idle]
    /\ nodeTimer' = [nodeTimer EXCEPT ![n] = 0]
    /\ pending' = [c \in Conns |-> IF conn[c].node = n THEN {} ELSE pending[c]]
    /\ conn' = [c \in Conns |-> IF conn[c].node = n THEN [conn[c] EXCEPT !.state = "closed"]
                                ELSE conn[c]]
    /\ live' = [live EXCEPT ![n] = [h \in Chargers |-> NoConn]]
    /\ alone' = {k \in alone : target[k].node # n}
    /\ UNCHANGED <<senderVars, future, reply, unsent, received, answer>>

NodeStarts(n) ==
    /\ ~up[n]
    /\ up' = [up EXCEPT ![n] = TRUE]
    /\ UNCHANGED <<senderVars, serveVars, conn, live, received, answer, alone>>

\* Something the event loops and the broker do within a time step, or a timer
\* that has run out.
Urgent ==
    \/ \E n \in Nodes : \/ up[n] /\ job[n] = Idle /\ queue[n] # <<>>
                        \/ job[n] # Idle /\ (nodeTimer[n] = 0 \/ future[job[n].cmd] # "waiting")
    \/ \E k \in Commands : sender[k] = "waiting" /\ (sendTimer[k] = 0 \/ reply[k] # "none")

Dec(t) == IF t > 0 THEN t - 1 ELSE 0

Tick ==
    /\ ~Urgent
    /\ \/ \E n \in Nodes : job[n] # Idle
       \/ \E k \in Commands : sender[k] = "waiting"
    /\ sendTimer' = [k \in Commands |-> IF sender[k] = "waiting" THEN Dec(sendTimer[k]) ELSE 0]
    /\ nodeTimer' = [n \in Nodes |-> Dec(nodeTimer[n])]
    /\ UNCHANGED <<log, sender, target, queue, job, future, pending, reply, unsent, socketVars,
                   received, answer, alone>>

-----------------------------------------------------------------------------
SenderStep(k) == ReceiveReply(k) \/ RequestTimesOut(k)

NodeStep(n) ==
    \/ HandleNoConnection(n) \/ HandleSendCall(n) \/ HandleSendFails(n)
    \/ HandleAnswered(n) \/ HandleResultUncarried(n) \/ HandleTimesOut(n)

Next ==
    \/ \E k \in Commands : \/ SendOffline(k) \/ SenderStep(k) \/ RequestRaises(k)
                           \/ \E h \in Chargers, n \in Nodes : SendCommand(k, h, n)
    \/ \E n \in Nodes : NodeStep(n) \/ NodeStops(n) \/ NodeStarts(n)
    \/ \E c \in Conns : \/ PeerVanishes(c) \/ SocketCloses(c)
                        \/ \E h \in Chargers, n \in Nodes : Connect(c, h, n)
                        \/ \E k \in Commands, kind \in Answers :
                              ChargerAnswers(c, k, kind)
    \/ Tick

Spec == Init /\ [][Next]_vars

-----------------------------------------------------------------------------
Sockets == [state : {"unused", "open", "gone", "closed"},
            charger : Chargers \cup {"unset"}, node : Nodes \cup {"unset"}]

\* Every variable has the shape the code gives it; timers stay within the
\* configured timeouts.
TypeOK ==
    /\ log \in [Commands -> Outcomes \cup {"none", "pending"}]
    /\ sender \in [Commands -> {"idle", "waiting", "raised", "done"}]
    /\ sendTimer \in [Commands -> 0..SendTimeout]
    /\ target \in [Commands -> [charger : Chargers, node : Nodes] \cup {Unset}]
    /\ queue \in [Nodes -> Seq(Commands)]
    /\ job \in [Nodes -> [cmd : Commands, conn : Conns] \cup {Idle}]
    /\ nodeTimer \in [Nodes -> 0..NodeTimeout]
    /\ future \in [Commands -> Answers \cup {"none", "waiting"}]
    /\ pending \in [Conns -> SUBSET Commands]
    /\ reply \in [Commands -> Outcomes \cup {"none"}]
    /\ conn \in [Conns -> Sockets]
    /\ live \in [Nodes -> [Chargers -> Conns \cup {NoConn}]]
    /\ up \in [Nodes -> BOOLEAN]
    /\ received \in SUBSET (Conns \X Commands)
    /\ answer \in [Commands -> Answers \cup {"none"}]
    /\ alone \in SUBSET Commands
    /\ unsent \in SUBSET Commands

\* The log never turns what the charger sent into its opposite: a command is
\* logged accepted only if the charger it was addressed to answered that very
\* call with a CallResult, and one so answered is logged rejected only if the
\* node could not get the CallResult through NATS.
VerdictIsTheChargers ==
    \A k \in Commands :
        /\ log[k] = "accepted" =>
              /\ answer[k] \in CallResults
              /\ \E c \in Conns : <<c, k>> \in received /\ conn[c].charger = target[k].charger
        /\ log[k] = "rejected" => answer[k] \notin CallResults \/ k \in unsent

\* A charger's refusal is an outcome of its own: nats_command_transport.py
\* names "a charger declining" among the REJECTED outcomes, and the session
\* start's unit test gives a declined RemoteStart that status.  (The code
\* does not have this: the declined command is logged accepted.)
DeclinedIsNotAccepted ==
    \A k \in Commands : answer[k] = "declined" => log[k] # "accepted"

\* LiveConnection._pending holds nothing but the call the connection's node is
\* working on: every exit of send_call (answer, error, timeout, failed send)
\* pops its entry, so no late frame can reach a forgotten future.
NoLeakedPending ==
    \A c \in Conns : \A k \in pending[c] : \E n \in Nodes : job[n] = [cmd |-> k, conn |-> c]

\* send_call's 25 s run out before the service's 30 s: a command that found
\* its node idle, and whose answer NATS carried, gets the node's own verdict,
\* whatever the charger does.  (One that queued behind a silent charger's
\* command need not.)
NodeAnswersFirst ==
    \A k \in alone \ unsent : log[k] = "timed_out" => reply[k] = "timed_out"

\* A logged outcome is never overwritten by a late reply.
OutcomeIsFinal ==
    [][\A k \in Commands : log[k] \in Outcomes => log'[k] = log[k]]_vars
=============================================================================
