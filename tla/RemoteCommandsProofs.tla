------------------------ MODULE RemoteCommandsProofs ------------------------
(***************************************************************************)
(* What holds of RemoteCommands for every number of commands, chargers,    *)
(* nodes and connections and for all timeouts.                             *)
(***************************************************************************)
EXTENDS RemoteCommands, TLAPS

\* A queued request was addressed by send_command to a node and a charger.
QueueOK ==
    \A n \in Nodes : \A i \in 1..Len(queue[n]) :
        /\ target[queue[n][i]] \in [charger : Chargers, node : Nodes]
        /\ log[queue[n][i]] # "none"

\* A registry entry is a connection of that charger to that node.
LiveOK ==
    \A n \in Nodes, h \in Chargers :
        live[n][h] # NoConn =>
            /\ conn[live[n][h]].node = n
            /\ conn[live[n][h]].charger = h
            /\ conn[live[n][h]].state # "unused"

\* A node works on a connection of its own.
JobOK ==
    \A n \in Nodes :
        job[n] # Idle => /\ conn[job[n].conn].node = n
                         /\ conn[job[n].conn].state # "unused"

Base == TypeOK /\ QueueOK /\ LiveOK /\ JobOK

USE DEF Outcomes, CallResults, Answers

LEMMA QueueTail ==
    ASSUME NEW S, NEW s \in Seq(S), s # <<>>
    PROVE  /\ Head(s) \in S /\ Tail(s) \in Seq(S)
           /\ Head(s) = s[1] /\ 1 \in 1..Len(s)
           /\ \A i \in 1..Len(Tail(s)) : i + 1 \in 1..Len(s) /\ Tail(s)[i] = s[i+1]
  OBVIOUS

LEMMA QueueAppend ==
    ASSUME NEW S, NEW s \in Seq(S), NEW e \in S
    PROVE  /\ Append(s, e) \in Seq(S)
           /\ \A i \in 1..Len(Append(s, e)) :
                 (i \in 1..Len(s) /\ Append(s, e)[i] = s[i]) \/ Append(s, e)[i] = e
           /\ \A i \in 1..Len(s) : i \in 1..Len(Append(s, e)) /\ Append(s, e)[i] = s[i]
  OBVIOUS

LEMMA JobType ==
    ASSUME TypeOK, NEW n \in Nodes, job[n] # Idle
    PROVE  job[n].cmd \in Commands /\ job[n].conn \in Conns /\ job[n] \in [cmd : Commands, conn : Conns]
  BY DEF TypeOK

LEMMA BaseInit == Init => Base
  <1> SUFFICES ASSUME Init PROVE Base
    OBVIOUS
  <1>1. TypeOK
    BY TimeoutAssumption, ConnAssumption DEF Init, TypeOK, Sockets, Idle, Unset
  <1>2. QueueOK /\ LiveOK /\ JobOK
    BY DEF Init, QueueOK, LiveOK, JobOK
  <1> QED BY <1>1, <1>2 DEF Base

LEMMA SenderBase ==
    ASSUME Base, NEW k \in Commands,
           SendOffline(k) \/ SenderStep(k) \/ RequestRaises(k)
    PROVE  Base'
  <1>1. /\ log' \in [Commands -> Outcomes \cup {"none", "pending"}]
        /\ sender' \in [Commands -> {"idle", "waiting", "raised", "done"}]
        /\ \A j \in Commands : log[j] # "none" => log'[j] # "none"
        /\ UNCHANGED <<sendTimer, target, serveVars, socketVars, received, answer, alone>>
    <2>1. CASE SendOffline(k)
      BY <2>1 DEF Base, TypeOK, SendOffline
    <2>2. CASE RequestRaises(k)
      BY <2>2 DEF Base, TypeOK, RequestRaises
    <2>3. CASE SenderStep(k)
      <3>1. PICK v \in Outcomes : MarkResponded(k, v)
        BY <2>3 DEF Base, TypeOK, SenderStep, ReceiveReply, RequestTimesOut
      <3> QED BY <3>1 DEF Base, TypeOK, MarkResponded
    <2> QED BY <2>1, <2>2, <2>3
  <1>2. TypeOK'
    BY <1>1 DEF Base, TypeOK, serveVars, socketVars
  <1>3. QueueOK'
    BY <1>1 DEF Base, TypeOK, QueueOK, serveVars
  <1>4. LiveOK' /\ JobOK'
    BY <1>1 DEF Base, LiveOK, JobOK, serveVars, socketVars
  <1> QED BY <1>2, <1>3, <1>4 DEF Base

LEMMA SendCommandBase ==
    ASSUME Base, NEW k \in Commands, NEW h \in Chargers, NEW n \in Nodes, SendCommand(k, h, n)
    PROVE  Base'
  <1>1. target' = [target EXCEPT ![k] = [charger |-> h, node |-> n]]
        /\ target' \in [Commands -> [charger : Chargers, node : Nodes] \cup {Unset}]
    BY DEF Base, TypeOK, SendCommand
  <1>2. UNCHANGED <<job, nodeTimer, future, pending, reply, conn, live, up, received, answer, unsent>>
    BY DEF SendCommand, socketVars
  <1>3. /\ log' \in [Commands -> Outcomes \cup {"none", "pending"}]
        /\ sender' \in [Commands -> {"idle", "waiting", "raised", "done"}]
        /\ \A j \in Commands : log[j] # "none" \/ j = k => log'[j] # "none"
    <2>1. CASE log' = [log EXCEPT ![k] = "pending"] /\ sender' = [sender EXCEPT ![k] = "waiting"]
      BY <2>1 DEF Base, TypeOK
    <2>2. CASE log' = [log EXCEPT ![k] = "rejected"] /\ sender' = [sender EXCEPT ![k] = "done"]
      BY <2>2 DEF Base, TypeOK
    <2> QED BY <2>1, <2>2, Zenon DEF SendCommand
  <1>4. sendTimer' \in [Commands -> 0..SendTimeout]
    <2>1. CASE sendTimer' = [sendTimer EXCEPT ![k] = SendTimeout]
      BY <2>1, TimeoutAssumption DEF Base, TypeOK
    <2>2. CASE sendTimer' = sendTimer
      BY <2>2 DEF Base, TypeOK
    <2> QED BY <2>1, <2>2, Zenon DEF SendCommand
  <1>5. alone' \in SUBSET Commands
    BY DEF Base, TypeOK, SendCommand
  <1>6. /\ queue' \in [Nodes -> Seq(Commands)]
        /\ \A m \in Nodes : \A i \in 1..Len(queue'[m]) :
              (i \in 1..Len(queue[m]) /\ queue'[m][i] = queue[m][i]) \/ queue'[m][i] = k
    <2> DEFINE q == Append(queue[n], k)
    <2>1. queue[n] \in Seq(Commands)
      BY DEF Base, TypeOK
    <2>2. /\ q \in Seq(Commands)
          /\ \A i \in 1..Len(q) : (i \in 1..Len(queue[n]) /\ q[i] = queue[n][i]) \/ q[i] = k
      BY <2>1, QueueAppend
    <2>3. CASE queue' = [queue EXCEPT ![n] = q]
      <3> HIDE DEF q
      <3> QED BY <2>2, <2>3 DEF Base, TypeOK
    <2>4. CASE queue' = queue
      BY <2>4 DEF Base, TypeOK
    <2> QED BY <2>3, <2>4 DEF SendCommand
  <1>7. TypeOK'
    BY <1>1, <1>2, <1>3, <1>4, <1>5, <1>6 DEF Base, TypeOK
  <1>8. QueueOK'
    <2> SUFFICES ASSUME NEW m \in Nodes, NEW i \in 1..Len(queue'[m])
                 PROVE  /\ target'[queue'[m][i]] \in [charger : Chargers, node : Nodes]
                        /\ log'[queue'[m][i]] # "none"
      BY DEF QueueOK
    <2>1. CASE queue'[m][i] = k
      BY <1>1, <1>3, <2>1 DEF Base, TypeOK
    <2>2. CASE i \in 1..Len(queue[m]) /\ queue'[m][i] = queue[m][i]
      <3>1. queue[m][i] \in Commands
        BY <2>2 DEF Base, TypeOK
      <3> QED BY <1>1, <1>3, <2>2, <3>1 DEF Base, TypeOK, QueueOK
    <2> QED BY <1>6, <2>1, <2>2
  <1>9. LiveOK' /\ JobOK'
    BY <1>2 DEF Base, LiveOK, JobOK
  <1> QED BY <1>7, <1>8, <1>9 DEF Base

\* Taking the head off a queue leaves QueueOK to the rest of it.
LEMMA DequeueBase ==
    ASSUME Base, NEW n \in Nodes, queue[n] # <<>>,
           queue' = [queue EXCEPT ![n] = Tail(@)], UNCHANGED <<log, target>>
    PROVE  /\ Head(queue[n]) \in Commands
           /\ target[Head(queue[n])].charger \in Chargers
           /\ queue' \in [Nodes -> Seq(Commands)]
           /\ QueueOK'
  <1> DEFINE q == Tail(queue[n])
  <1>1. queue[n] \in Seq(Commands)
    BY DEF Base, TypeOK
  <1>2. /\ Head(queue[n]) \in Commands /\ q \in Seq(Commands)
        /\ Head(queue[n]) = queue[n][1] /\ 1 \in 1..Len(queue[n])
        /\ \A i \in 1..Len(q) : i + 1 \in 1..Len(queue[n]) /\ q[i] = queue[n][i+1]
    BY <1>1, QueueTail
  <1>3. target[Head(queue[n])].charger \in Chargers
    BY <1>2 DEF Base, QueueOK
  <1>4. queue' = [queue EXCEPT ![n] = q]
    OBVIOUS
  <1> HIDE DEF q
  <1>5. queue' \in [Nodes -> Seq(Commands)]
    BY <1>2, <1>4 DEF Base, TypeOK
  <1>6. QueueOK'
    <2> SUFFICES ASSUME NEW m \in Nodes, NEW i \in 1..Len(queue'[m])
                 PROVE  /\ target[queue'[m][i]] \in [charger : Chargers, node : Nodes]
                        /\ log[queue'[m][i]] # "none"
      BY DEF QueueOK
    <2>1. CASE m = n
      <3>1. queue'[m] = q
        BY <1>4, <2>1 DEF Base, TypeOK
      <3> QED BY SMTT(40), <1>2, <2>1, <3>1 DEF Base, QueueOK
    <2>2. CASE m # n
      <3>1. queue'[m] = queue[m]
        BY <1>4, <2>2 DEF Base, TypeOK
      <3> QED BY <3>1 DEF Base, QueueOK
    <2> QED BY <2>1, <2>2
  <1> QED BY <1>2, <1>3, <1>5, <1>6

\* What a respond leaves in the requester's inbox: v, which is the old content
\* when NATS did not carry the answer.
ReplyStep(k, v) ==
    /\ v \in Outcomes \cup {"none"}
    /\ reply' = [reply EXCEPT ![k] = v]
    /\ unsent' \in {unsent, unsent \cup {k}}

LEMMA RespondFacts ==
    ASSUME TypeOK, NEW k \in Commands, NEW v \in Outcomes, Respond(k, v)
    PROVE  \E w : ReplyStep(k, w) /\ (w = v \/ (w = reply[k] /\ k \in unsent'))
  <1>1. CASE reply' = [reply EXCEPT ![k] = v] /\ unsent' = unsent
    BY <1>1 DEF ReplyStep
  <1>2. CASE unsent' = unsent \cup {k} /\ reply' = reply
    <2>1. reply[k] \in Outcomes \cup {"none"} /\ reply' = [reply EXCEPT ![k] = reply[k]]
      BY <1>2 DEF TypeOK
    <2> QED BY <1>2, <2>1 DEF ReplyStep
  <1> QED BY <1>1, <1>2 DEF Respond, Uncarried

LEMMA ReplyTypes ==
    ASSUME TypeOK, NEW k \in Commands, NEW v, ReplyStep(k, v)
    PROVE  /\ reply' \in [Commands -> Outcomes \cup {"none"}] /\ unsent' \in SUBSET Commands
           /\ reply'[k] = v /\ \A j \in Commands : j # k => reply'[j] = reply[j]
           /\ unsent \subseteq unsent' /\ \A j \in unsent' : j # k => j \in unsent
  BY DEF TypeOK, ReplyStep

\* The ends of a job.
Finishes(n) == HandleAnswered(n) \/ HandleResultUncarried(n) \/ HandleTimesOut(n)

LEMMA HandleRefusedBase ==
    ASSUME Base, NEW n \in Nodes, HandleNoConnection(n) \/ HandleSendFails(n)
    PROVE  Base'
  <1>1. /\ queue[n] # <<>> /\ queue' = [queue EXCEPT ![n] = Tail(@)]
        /\ Respond(Head(queue[n]), "rejected")
        /\ UNCHANGED <<log, sender, sendTimer, target, job, nodeTimer, future, pending,
                       conn, live, up, received, answer, alone>>
    BY DEF HandleNoConnection, HandleSendFails, senderVars, socketVars
  <1>2. Head(queue[n]) \in Commands /\ queue' \in [Nodes -> Seq(Commands)] /\ QueueOK'
    BY <1>1, DequeueBase
  <1>3. PICK w : ReplyStep(Head(queue[n]), w)
    BY <1>1, <1>2, RespondFacts DEF Base
  <1>4. reply' \in [Commands -> Outcomes \cup {"none"}] /\ unsent' \in SUBSET Commands
    BY <1>2, <1>3, ReplyTypes DEF Base
  <1>5. TypeOK'
    BY <1>1, <1>2, <1>4 DEF Base, TypeOK
  <1>6. LiveOK' /\ JobOK'
    BY <1>1 DEF Base, LiveOK, JobOK
  <1> QED BY <1>2, <1>5, <1>6 DEF Base

\* The request a node takes next, and the connection it finds for it.
NextCmd(n) == Head(queue[n])
NextConn(n) == live[n][target[NextCmd(n)].charger]

\* What send_call finds: a connection of the target charger to this node.
LEMMA SendCallFacts ==
    ASSUME Base, NEW n \in Nodes, HandleSendCall(n),
           NEW k, NEW c, k = NextCmd(n), c = NextConn(n)
    PROVE  /\ k \in Commands /\ c \in Conns /\ c # NoConn /\ job[n] = Idle
           /\ target[k].charger \in Chargers
           /\ conn[c].node = n /\ conn[c].charger = target[k].charger
           /\ conn[c].state # "unused"
           /\ queue[n] # <<>> /\ queue' = [queue EXCEPT ![n] = Tail(@)]
           /\ queue' \in [Nodes -> Seq(Commands)] /\ QueueOK'
           /\ job' = [job EXCEPT ![n] = [cmd |-> k, conn |-> c]]
           /\ future' = [future EXCEPT ![k] = "waiting"]
           /\ pending' = [pending EXCEPT ![c] = @ \cup {k}]
           /\ received' \in {received, received \cup {<<c, k>>}}
           /\ nodeTimer' = [nodeTimer EXCEPT ![n] = NodeTimeout]
           /\ UNCHANGED <<log, sender, sendTimer, target, reply, conn, live, up, answer, alone, unsent>>
  <1>1. /\ c # NoConn /\ job[n] = Idle
        /\ queue[n] # <<>> /\ queue' = [queue EXCEPT ![n] = Tail(@)]
        /\ job' = [job EXCEPT ![n] = [cmd |-> k, conn |-> c]]
        /\ future' = [future EXCEPT ![k] = "waiting"]
        /\ pending' = [pending EXCEPT ![c] = @ \cup {k}]
        /\ received' \in {received, received \cup {<<c, k>>}}
        /\ nodeTimer' = [nodeTimer EXCEPT ![n] = NodeTimeout]
        /\ UNCHANGED <<log, sender, sendTimer, target, reply, conn, live, up, answer, alone, unsent>>
    BY Zenon DEF HandleSendCall, NextCmd, NextConn, senderVars, socketVars
  <1>2. /\ k \in Commands /\ target[k].charger \in Chargers
        /\ queue' \in [Nodes -> Seq(Commands)] /\ QueueOK'
    BY <1>1, DequeueBase DEF NextCmd
  <1>3. c \in Conns
    <2>1. \A h \in Chargers : live[n][h] \in Conns \cup {NoConn}
      BY DEF Base, TypeOK
    <2> QED BY <1>1, <1>2, <2>1 DEF NextConn
  <1>4. conn[c].node = n /\ conn[c].charger = target[k].charger /\ conn[c].state # "unused"
    BY SMTT(40), <1>1, <1>2 DEF Base, LiveOK, NextConn
  <1> QED BY <1>1, <1>2, <1>3, <1>4

LEMMA HandleSendCallBase ==
    ASSUME Base, NEW n \in Nodes, HandleSendCall(n)
    PROVE  Base'
  <1> DEFINE k == NextCmd(n)
             c == NextConn(n)
  <1>1. /\ k \in Commands /\ c \in Conns /\ c # NoConn /\ job[n] = Idle
        /\ conn[c].node = n /\ conn[c].state # "unused"
        /\ queue' \in [Nodes -> Seq(Commands)] /\ QueueOK'
        /\ job' = [job EXCEPT ![n] = [cmd |-> k, conn |-> c]]
        /\ future' = [future EXCEPT ![k] = "waiting"]
        /\ pending' = [pending EXCEPT ![c] = @ \cup {k}]
        /\ received' \in {received, received \cup {<<c, k>>}}
        /\ nodeTimer' = [nodeTimer EXCEPT ![n] = NodeTimeout]
        /\ UNCHANGED <<log, sender, sendTimer, target, reply, conn, live, up, answer, alone, unsent>>
    BY SendCallFacts
  <1> HIDE DEF k, c
  <1>2. received' \in SUBSET (Conns \X Commands)
    BY <1>1 DEF Base, TypeOK
  <1>3. /\ job' \in [Nodes -> [cmd : Commands, conn : Conns] \cup {Idle}]
        /\ future' \in [Commands -> Answers \cup {"none", "waiting"}]
    BY <1>1 DEF Base, TypeOK
  <1>4. nodeTimer' \in [Nodes -> 0..NodeTimeout] /\ pending' \in [Conns -> SUBSET Commands]
    BY <1>1, TimeoutAssumption DEF Base, TypeOK
  <1>5. TypeOK'
    BY <1>1, <1>2, <1>3, <1>4 DEF Base, TypeOK
  <1>6. LiveOK'
    BY <1>1 DEF Base, LiveOK
  <1>7. JobOK'
    BY <1>1 DEF Base, TypeOK, JobOK
  <1> QED BY <1>1, <1>5, <1>6, <1>7 DEF Base

\* A reply says what the future says, unless NATS did not carry it.
Honest(k, v) ==
    /\ v \in Outcomes
    /\ v = "accepted" => future[k] \in CallResults
    /\ v = "rejected" => future[k] = "error" \/ k \in unsent'

\* The job a node finishes, and what finishing it does.
LEMMA FinishFacts ==
    ASSUME Base, NEW n \in Nodes, Finishes(n)
    PROVE  /\ job[n] # Idle /\ job[n] \in [cmd : Commands, conn : Conns]
           /\ \E v : /\ ReplyStep(job[n].cmd, v)
                     /\ Honest(job[n].cmd, v) \/ (v = reply[job[n].cmd] /\ job[n].cmd \in unsent')
           /\ pending' = [pending EXCEPT ![job[n].conn] = @ \ {job[n].cmd}]
           /\ job' = [job EXCEPT ![n] = Idle]
           /\ nodeTimer' = [nodeTimer EXCEPT ![n] = 0]
           /\ UNCHANGED <<log, sender, sendTimer, target, queue, future, conn, live, up,
                          received, answer, alone>>
  <1>1. job[n] # Idle
    BY DEF Finishes, HandleAnswered, HandleResultUncarried, HandleTimesOut
  <1>2. job[n] \in [cmd : Commands, conn : Conns]
    BY <1>1 DEF Base, TypeOK
  <1>3. PICK k \in Commands : k = job[n].cmd
    BY <1>2
  <1>4. \E v : /\ ReplyStep(k, v)
               /\ Honest(k, v) \/ (v = reply[k] /\ k \in unsent')
    <2>1. ASSUME NEW v \in Outcomes, Respond(k, v),
                 v = "accepted" => future[k] \in CallResults, v = "rejected" => future[k] = "error"
          PROVE  \E w : ReplyStep(k, w) /\ (Honest(k, w) \/ (w = reply[k] /\ k \in unsent'))
      <3>1. PICK w : ReplyStep(k, w) /\ (w = v \/ (w = reply[k] /\ k \in unsent'))
        BY <2>1, RespondFacts DEF Base
      <3>2. w = v => Honest(k, w)
        BY <2>1 DEF Honest
      <3> QED BY <3>1, <3>2
    <2>2. CASE HandleAnswered(n)
      BY <1>3, <2>1, <2>2 DEF HandleAnswered
    <2>3. CASE HandleTimesOut(n)
      BY <1>3, <2>1, <2>3 DEF HandleTimesOut
    <2>4. CASE HandleResultUncarried(n)
      <3>1. reply' = [reply EXCEPT ![k] = "rejected"] /\ unsent' = unsent \cup {k}
        BY <1>3, <2>4 DEF HandleResultUncarried, Uncarried
      <3>2. ReplyStep(k, "rejected") /\ Honest(k, "rejected")
        BY <3>1 DEF ReplyStep, Honest
      <3> QED BY <3>2
    <2> QED BY <2>2, <2>3, <2>4 DEF Finishes
  <1>5. FinishJob(n)
    BY DEF Finishes, HandleAnswered, HandleResultUncarried, HandleTimesOut
  <1>6. /\ pending' = [pending EXCEPT ![job[n].conn] = @ \ {job[n].cmd}]
        /\ job' = [job EXCEPT ![n] = Idle]
        /\ nodeTimer' = [nodeTimer EXCEPT ![n] = 0]
        /\ UNCHANGED <<log, sender, sendTimer, target, queue, future, conn, live, up,
                       received, answer, alone>>
    BY <1>5, ZenonT(60) DEF FinishJob, senderVars, socketVars
  <1> QED BY <1>1, <1>2, <1>3, <1>4, <1>6, Zenon

LEMMA FinishBase ==
    ASSUME Base, NEW n \in Nodes, Finishes(n)
    PROVE  Base'
  <1>1. PICK v : ReplyStep(job[n].cmd, v)
    BY FinishFacts
  <1>2. /\ job[n] \in [cmd : Commands, conn : Conns]
        /\ pending' = [pending EXCEPT ![job[n].conn] = @ \ {job[n].cmd}]
        /\ job' = [job EXCEPT ![n] = Idle]
        /\ nodeTimer' = [nodeTimer EXCEPT ![n] = 0]
        /\ UNCHANGED <<log, sender, sendTimer, target, queue, future, conn, live, up,
                       received, answer, alone>>
    BY FinishFacts
  <1>3. /\ reply' \in [Commands -> Outcomes \cup {"none"}] /\ unsent' \in SUBSET Commands
        /\ job' \in [Nodes -> [cmd : Commands, conn : Conns] \cup {Idle}]
    <2>1. job[n].cmd \in Commands
      BY <1>2
    <2>2. reply' \in [Commands -> Outcomes \cup {"none"}] /\ unsent' \in SUBSET Commands
      BY <1>1, <2>1, ReplyTypes DEF Base
    <2> QED BY <1>2, <2>2 DEF Base, TypeOK
  <1>4. /\ pending' \in [Conns -> SUBSET Commands]
        /\ nodeTimer' \in [Nodes -> 0..NodeTimeout]
    BY <1>2, TimeoutAssumption DEF Base, TypeOK
  <1>5. TypeOK'
    BY <1>2, <1>3, <1>4 DEF Base, TypeOK
  <1>6. QueueOK' /\ LiveOK'
    BY <1>2 DEF Base, QueueOK, LiveOK
  <1>7. JobOK'
    BY <1>2 DEF Base, TypeOK, JobOK
  <1> QED BY <1>5, <1>6, <1>7 DEF Base

LEMMA ConnectBase ==
    ASSUME Base, NEW c \in Conns, NEW h \in Chargers, NEW n \in Nodes, Connect(c, h, n)
    PROVE  Base'
  <1>1. /\ conn[c].state = "unused"
        /\ conn' = [conn EXCEPT ![c] = [state |-> "open", charger |-> h, node |-> n]]
        /\ live' = [live EXCEPT ![n][h] = c]
        /\ UNCHANGED <<log, sender, sendTimer, target, queue, job, nodeTimer, future, pending,
                       reply, up, received, answer, alone, unsent>>
    BY DEF Connect, senderVars, serveVars
  <1>2. /\ conn' \in [Conns -> Sockets]
        /\ live' \in [Nodes -> [Chargers -> Conns \cup {NoConn}]]
    BY <1>1 DEF Base, TypeOK, Sockets
  <1>3. TypeOK'
    BY <1>1, <1>2 DEF Base, TypeOK
  <1>4. QueueOK'
    BY <1>1 DEF Base, QueueOK
  <1>5. \A d \in Conns : conn[d].state # "unused" => conn'[d] = conn[d]
    BY <1>1 DEF Base, TypeOK
  <1>6. conn'[c] = [state |-> "open", charger |-> h, node |-> n]
    BY <1>1 DEF Base, TypeOK
  <1>7. LiveOK'
    <2> SUFFICES ASSUME NEW m \in Nodes, NEW g \in Chargers, live'[m][g] # NoConn
                 PROVE  /\ conn'[live'[m][g]].node = m
                        /\ conn'[live'[m][g]].charger = g
                        /\ conn'[live'[m][g]].state # "unused"
      BY DEF LiveOK
    <2>1. CASE m = n /\ g = h
      <3>1. live'[m][g] = c
        BY <1>1, <2>1 DEF Base, TypeOK
      <3> QED BY <1>6, <2>1, <3>1
    <2>2. CASE ~(m = n /\ g = h)
      <3>1. live'[m][g] = live[m][g] /\ live[m][g] \in Conns \cup {NoConn}
        BY <1>1, <2>2 DEF Base, TypeOK
      <3> QED BY <1>5, <3>1 DEF Base, LiveOK
    <2> QED BY <2>1, <2>2
  <1>8. JobOK'
    BY <1>1, <1>5 DEF Base, TypeOK, JobOK
  <1> QED BY <1>3, <1>4, <1>7, <1>8 DEF Base

\* Emptying a registry entry, also one no registry has.
LEMMA EmptyEntry ==
    ASSUME live \in [Nodes -> [Chargers -> Conns \cup {NoConn}]], NEW x, NEW y,
           live' = [live EXCEPT ![x][y] = NoConn]
    PROVE  /\ live' \in [Nodes -> [Chargers -> Conns \cup {NoConn}]]
           /\ \A m \in Nodes, g \in Chargers : live'[m][g] \in {live[m][g], NoConn}
  <1>1. \A m \in Nodes : /\ m = x => live'[m] = [live[m] EXCEPT ![y] = NoConn]
                         /\ m # x => live'[m] = live[m]
    OBVIOUS
  <1>2. \A m \in Nodes : /\ live'[m] \in [Chargers -> Conns \cup {NoConn}]
                         /\ \A g \in Chargers : live'[m][g] \in {live[m][g], NoConn}
    <2> TAKE m \in Nodes
    <2>1. CASE m = x
      <3> DEFINE f == live[m]
      <3>1. f \in [Chargers -> Conns \cup {NoConn}] /\ live'[m] = [f EXCEPT ![y] = NoConn]
        BY <1>1, <2>1
      <3> HIDE DEF f
      <3>2. /\ live'[m] \in [Chargers -> Conns \cup {NoConn}]
            /\ \A g \in Chargers : live'[m][g] \in {f[g], NoConn}
        BY <3>1
      <3> QED BY <3>2 DEF f
    <2>2. CASE m # x
      BY <1>1, <2>2
    <2> QED BY <2>1, <2>2
  <1>3. live' = [m \in Nodes |-> live'[m]]
    OBVIOUS
  <1> QED BY <1>2, <1>3

\* Steps that change at most the state of one used connection.
LEMMA SocketBase ==
    ASSUME Base, NEW c \in Conns, PeerVanishes(c) \/ SocketCloses(c)
    PROVE  Base'
  <1>1. /\ conn[c].state # "unused"
        /\ UNCHANGED <<log, sender, sendTimer, target, queue, job, nodeTimer, future, pending,
                       reply, up, received, answer, alone, unsent>>
    BY DEF PeerVanishes, SocketCloses, senderVars, serveVars
  <1>2. PICK v \in {"gone", "closed"} : conn' = [conn EXCEPT ![c].state = v]
    BY DEF PeerVanishes, SocketCloses
  <1>3. /\ conn' \in [Conns -> Sockets]
        /\ \A d \in Conns : /\ conn'[d].node = conn[d].node
                            /\ conn'[d].charger = conn[d].charger
                            /\ conn[d].state # "unused" => conn'[d].state # "unused"
    <2>1. \A d \in Conns : conn[d] \in Sockets
      BY DEF Base, TypeOK
    <2>2. /\ conn' = [d \in Conns |-> conn'[d]]
          /\ \A d \in Conns : conn'[d] \in {conn[d], [conn[d] EXCEPT !.state = v]}
      BY <1>2 DEF Base, TypeOK
    <2>3. ASSUME NEW d \in Conns
          PROVE  /\ conn'[d] \in Sockets
                 /\ conn'[d].node = conn[d].node
                 /\ conn'[d].charger = conn[d].charger
                 /\ conn[d].state # "unused" => conn'[d].state # "unused"
      <3>1. CASE conn'[d] = conn[d]
        BY <2>1, <3>1
      <3>2. CASE conn'[d] = [conn[d] EXCEPT !.state = v]
        <4> DEFINE r == conn[d]
        <4>1. r \in Sockets /\ conn'[d] = [r EXCEPT !.state = v]
          BY <2>1, <3>2
        <4> HIDE DEF r
        <4>2. conn'[d] \in Sockets /\ conn'[d].node = r.node /\ conn'[d].charger = r.charger
              /\ conn'[d].state = v
          BY <4>1 DEF Sockets
        <4> QED BY <4>2 DEF r
      <3> QED BY <2>2, <3>1, <3>2
    <2> QED BY <2>2, <2>3
  <1>4. /\ live' \in [Nodes -> [Chargers -> Conns \cup {NoConn}]]
        /\ \A m \in Nodes, g \in Chargers : live'[m][g] \in {live[m][g], NoConn}
    <2>1. CASE live' = live
      BY <2>1 DEF Base, TypeOK
    <2>2. CASE live' = [live EXCEPT ![conn[c].node][conn[c].charger] = NoConn]
      BY <2>2, EmptyEntry DEF Base, TypeOK
    <2> QED BY <2>1, <2>2 DEF PeerVanishes, SocketCloses, Unregister
  <1>5. TypeOK'
    BY <1>1, <1>3, <1>4 DEF Base, TypeOK
  <1>6. QueueOK'
    BY <1>1 DEF Base, QueueOK
  <1>7. LiveOK'
    <2> SUFFICES ASSUME NEW m \in Nodes, NEW g \in Chargers, live'[m][g] # NoConn
                 PROVE  /\ conn'[live'[m][g]].node = m
                        /\ conn'[live'[m][g]].charger = g
                        /\ conn'[live'[m][g]].state # "unused"
      BY DEF LiveOK
    <2>1. live'[m][g] = live[m][g]
      BY <1>4
    <2>2. live[m][g] \in Conns \cup {NoConn}
      BY DEF Base, TypeOK
    <2> QED BY <1>3, <2>1, <2>2 DEF Base, LiveOK
  <1>8. JobOK'
    BY <1>1, <1>3, JobType DEF Base, JobOK
  <1> QED BY <1>5, <1>6, <1>7, <1>8 DEF Base

LEMMA ChargerAnswersBase ==
    ASSUME Base, NEW c \in Conns, NEW k \in Commands, NEW kind \in Answers,
           ChargerAnswers(c, k, kind)
    PROVE  Base'
  <1>1. /\ answer' = [answer EXCEPT ![k] = kind]
        /\ UNCHANGED <<log, sender, sendTimer, target, queue, job, nodeTimer, pending, reply,
                       conn, live, up, received, alone, unsent>>
    BY DEF ChargerAnswers, senderVars, socketVars
  <1>2. future' \in [Commands -> Answers \cup {"none", "waiting"}]
    BY DEF Base, TypeOK, ChargerAnswers, Resolve
  <1>3. TypeOK'
    BY <1>1, <1>2 DEF Base, TypeOK
  <1>4. QueueOK' /\ LiveOK' /\ JobOK'
    BY <1>1 DEF Base, QueueOK, LiveOK, JobOK
  <1> QED BY <1>3, <1>4 DEF Base

LEMMA NodeStopsBase ==
    ASSUME Base, NEW n \in Nodes, NodeStops(n)
    PROVE  Base'
  <1>1. /\ up' = [up EXCEPT ![n] = FALSE]
        /\ queue' = [queue EXCEPT ![n] = <<>>]
        /\ job' = [job EXCEPT ![n] = Idle]
        /\ nodeTimer' = [nodeTimer EXCEPT ![n] = 0]
        /\ live' = [live EXCEPT ![n] = [h \in Chargers |-> NoConn]]
        /\ alone' \subseteq alone
        /\ UNCHANGED <<log, sender, sendTimer, target, future, reply, received, answer, unsent>>
    BY DEF NodeStops, senderVars
  <1>2. /\ conn' \in [Conns -> Sockets]
        /\ \A d \in Conns : /\ conn'[d].node = conn[d].node
                            /\ conn'[d].charger = conn[d].charger
                            /\ conn[d].state # "unused" => conn'[d].state # "unused"
    <2>1. \A d \in Conns : conn[d] \in Sockets
      BY DEF Base, TypeOK
    <2>2. /\ conn' = [d \in Conns |-> conn'[d]]
          /\ \A d \in Conns : conn'[d] \in {conn[d], [conn[d] EXCEPT !.state = "closed"]}
      BY DEF NodeStops
    <2>3. ASSUME NEW d \in Conns
          PROVE  /\ conn'[d] \in Sockets
                 /\ conn'[d].node = conn[d].node
                 /\ conn'[d].charger = conn[d].charger
                 /\ conn[d].state # "unused" => conn'[d].state # "unused"
      <3>1. CASE conn'[d] = conn[d]
        BY <2>1, <3>1
      <3>2. CASE conn'[d] = [conn[d] EXCEPT !.state = "closed"]
        <4> DEFINE r == conn[d]
        <4>1. r \in Sockets /\ conn'[d] = [r EXCEPT !.state = "closed"]
          BY <2>1, <3>2
        <4> HIDE DEF r
        <4>2. conn'[d] \in Sockets /\ conn'[d].node = r.node /\ conn'[d].charger = r.charger
              /\ conn'[d].state = "closed"
          BY <4>1 DEF Sockets
        <4> QED BY <4>2 DEF r
      <3> QED BY <2>2, <3>1, <3>2
    <2> QED BY <2>2, <2>3
  <1>3. pending' \in [Conns -> SUBSET Commands]
    BY DEF Base, TypeOK, NodeStops
  <1>4. up' \in [Nodes -> BOOLEAN]
    BY <1>1 DEF Base, TypeOK
  <1>5. /\ queue' \in [Nodes -> Seq(Commands)]
        /\ job' \in [Nodes -> [cmd : Commands, conn : Conns] \cup {Idle}]
        /\ live' \in [Nodes -> [Chargers -> Conns \cup {NoConn}]]
    BY <1>1 DEF Base, TypeOK
  <1>6. nodeTimer' \in [Nodes -> 0..NodeTimeout]
    BY <1>1, TimeoutAssumption DEF Base, TypeOK
  <1>7. TypeOK'
    BY <1>1, <1>2, <1>3, <1>4, <1>5, <1>6 DEF Base, TypeOK
  <1>8. QueueOK'
    <2> SUFFICES ASSUME NEW m \in Nodes, NEW i \in 1..Len(queue'[m])
                 PROVE  /\ target[queue'[m][i]] \in [charger : Chargers, node : Nodes]
                        /\ log[queue'[m][i]] # "none"
      BY <1>1 DEF QueueOK
    <2>1. queue'[m] = queue[m]
      BY <1>1 DEF Base, TypeOK
    <2> QED BY <2>1 DEF Base, QueueOK
  <1>9. LiveOK'
    <2> SUFFICES ASSUME NEW m \in Nodes, NEW g \in Chargers, live'[m][g] # NoConn
                 PROVE  /\ conn'[live'[m][g]].node = m
                        /\ conn'[live'[m][g]].charger = g
                        /\ conn'[live'[m][g]].state # "unused"
      BY DEF LiveOK
    <2>1. live'[m][g] = live[m][g] /\ live[m][g] \in Conns \cup {NoConn}
      BY <1>1 DEF Base, TypeOK
    <2> QED BY <1>2, <2>1 DEF Base, LiveOK
  <1>10. JobOK'
    <2> SUFFICES ASSUME NEW m \in Nodes, job'[m] # Idle
                 PROVE  /\ conn'[job'[m].conn].node = m
                        /\ conn'[job'[m].conn].state # "unused"
      BY DEF JobOK
    <2>1. job'[m] = job[m]
      BY <1>1 DEF Base, TypeOK
    <2>2. job[m].conn \in Conns
      BY <2>1, JobType DEF Base
    <2> QED BY <1>2, <2>1, <2>2 DEF Base, JobOK
  <1> QED BY <1>7, <1>8, <1>9, <1>10 DEF Base

LEMMA NodeStartsBase ==
    ASSUME Base, NEW n \in Nodes, NodeStarts(n)
    PROVE  Base'
  <1>1. /\ up' = [up EXCEPT ![n] = TRUE]
        /\ UNCHANGED <<log, sender, sendTimer, target, queue, job, nodeTimer, future, pending,
                       reply, conn, live, received, answer, alone, unsent>>
    BY DEF NodeStarts, senderVars, serveVars
  <1>2. TypeOK'
    BY <1>1 DEF Base, TypeOK
  <1>3. QueueOK' /\ LiveOK' /\ JobOK'
    BY <1>1 DEF Base, QueueOK, LiveOK, JobOK
  <1> QED BY <1>2, <1>3 DEF Base

LEMMA TickBase ==
    ASSUME Base, Tick
    PROVE  Base'
  <1>1. UNCHANGED <<log, sender, target, queue, job, future, pending, reply, conn, live, up,
                    received, answer, alone, unsent>>
    BY DEF Tick, socketVars
  <1>2. /\ sendTimer' \in [Commands -> 0..SendTimeout]
        /\ nodeTimer' \in [Nodes -> 0..NodeTimeout]
    BY TimeoutAssumption DEF Base, TypeOK, Tick, Dec
  <1>3. TypeOK'
    BY <1>1, <1>2 DEF Base, TypeOK
  <1>4. QueueOK' /\ LiveOK' /\ JobOK'
    BY <1>1 DEF Base, QueueOK, LiveOK, JobOK
  <1> QED BY <1>3, <1>4 DEF Base

LEMMA BaseStutters == ASSUME Base, UNCHANGED vars PROVE Base'
  BY DEF Base, TypeOK, QueueOK, LiveOK, JobOK, vars

LEMMA BaseNext == Base /\ [Next]_vars => Base'
  <1> SUFFICES ASSUME Base, [Next]_vars PROVE Base'
    OBVIOUS
  <1>1. ASSUME NEW k \in Commands, SendOffline(k) \/ SenderStep(k) \/ RequestRaises(k)
        PROVE  Base'
    BY <1>1, SenderBase
  <1>2. ASSUME NEW k \in Commands, NEW h \in Chargers, NEW n \in Nodes, SendCommand(k, h, n)
        PROVE  Base'
    BY <1>2, SendCommandBase
  <1>3. ASSUME NEW n \in Nodes, NodeStep(n) PROVE Base'
    BY <1>3, HandleRefusedBase, HandleSendCallBase, FinishBase DEF NodeStep, Finishes
  <1>4. ASSUME NEW n \in Nodes, NodeStops(n) \/ NodeStarts(n) PROVE Base'
    BY <1>4, NodeStopsBase, NodeStartsBase
  <1>5. ASSUME NEW c \in Conns, PeerVanishes(c) \/ SocketCloses(c) PROVE Base'
    BY <1>5, SocketBase
  <1>6. ASSUME NEW c \in Conns, NEW h \in Chargers, NEW n \in Nodes, Connect(c, h, n)
        PROVE  Base'
    BY <1>6, ConnectBase
  <1>7. ASSUME NEW c \in Conns, NEW k \in Commands, NEW kind \in Answers,
               ChargerAnswers(c, k, kind)
        PROVE  Base'
    BY <1>7, ChargerAnswersBase
  <1>8. CASE Tick
    BY <1>8, TickBase
  <1>9. CASE UNCHANGED vars
    BY <1>9, BaseStutters
  <1> QED BY <1>1, <1>2, <1>3, <1>4, <1>5, <1>6, <1>7, <1>8, <1>9 DEF Next

\* Every state variable keeps its type: timers never run out of range, a job
\* is a command on a connection, and the registries hold connections.
THEOREM TypeCorrect == Spec => []TypeOK
  <1>1. Spec => []Base
    BY BaseInit, BaseNext, PTL DEF Spec
  <1>2. Base => TypeOK
    BY DEF Base
  <1> QED BY <1>1, <1>2, PTL

LEMMA BaseAlways == Spec => []Base
  BY BaseInit, BaseNext, PTL DEF Spec

-----------------------------------------------------------------------------
(* No future outlives its send_call. *)

LEMMA NoLeakNext == Base /\ NoLeakedPending /\ [Next]_vars => NoLeakedPending'
  <1> SUFFICES ASSUME Base, NoLeakedPending, [Next]_vars,
                      NEW c \in Conns, NEW k \in pending'[c]
               PROVE  \E n \in Nodes : job'[n] = [cmd |-> k, conn |-> c]
    BY DEF NoLeakedPending
  <1>1. CASE UNCHANGED <<pending, job>>
    BY <1>1 DEF NoLeakedPending
  <1>2. ASSUME NEW n \in Nodes, HandleSendCall(n)
        PROVE  \E m \in Nodes : job'[m] = [cmd |-> k, conn |-> c]
    <2> DEFINE j == NextCmd(n)
               d == NextConn(n)
    <2>1. /\ j \in Commands /\ d \in Conns /\ job[n] = Idle
          /\ job' = [job EXCEPT ![n] = [cmd |-> j, conn |-> d]]
          /\ pending' = [pending EXCEPT ![d] = @ \cup {j}]
      BY <1>2, SendCallFacts
    <2> HIDE DEF j, d
    <2>2. CASE c = d /\ k = j
      <3>1. job'[n] = [cmd |-> k, conn |-> c]
        BY <2>1, <2>2 DEF Base, TypeOK
      <3> QED BY <3>1
    <2>3. CASE ~(c = d /\ k = j)
      <3>1. k \in pending[c]
        BY <2>1, <2>3 DEF Base, TypeOK
      <3>2. PICK m \in Nodes : job[m] = [cmd |-> k, conn |-> c]
        BY <3>1 DEF NoLeakedPending
      <3>3. m # n
        BY <2>1, <3>2, ConnAssumption DEF Idle
      <3>4. job'[m] = job[m]
        BY <2>1, <3>3 DEF Base, TypeOK
      <3> QED BY <3>2, <3>4
    <2> QED BY <2>2, <2>3
  <1>3. ASSUME NEW n \in Nodes, Finishes(n)
        PROVE  \E m \in Nodes : job'[m] = [cmd |-> k, conn |-> c]
    <2>1. /\ job[n] \in [cmd : Commands, conn : Conns]
          /\ pending' = [pending EXCEPT ![job[n].conn] = @ \ {job[n].cmd}]
          /\ job' = [job EXCEPT ![n] = Idle]
      BY <1>3, FinishFacts
    <2>2. k \in pending[c] /\ ~(c = job[n].conn /\ k = job[n].cmd)
      BY <2>1 DEF Base, TypeOK
    <2>3. PICK m \in Nodes : job[m] = [cmd |-> k, conn |-> c]
      BY <2>2 DEF NoLeakedPending
    <2>4. m # n
      BY <2>2, <2>3
    <2>5. job'[m] = job[m]
      BY <2>1, <2>4 DEF Base, TypeOK
    <2> QED BY <2>3, <2>5
  <1>4. ASSUME NEW n \in Nodes, NodeStops(n)
        PROVE  \E m \in Nodes : job'[m] = [cmd |-> k, conn |-> c]
    <2>1. /\ job' = [job EXCEPT ![n] = Idle]
          /\ pending' = [d \in Conns |-> IF conn[d].node = n THEN {} ELSE pending[d]]
      BY <1>4 DEF NodeStops
    <2>2. conn[c].node # n /\ k \in pending[c]
      BY <2>1
    <2>3. PICK m \in Nodes : job[m] = [cmd |-> k, conn |-> c]
      BY <2>2 DEF NoLeakedPending
    <2>4. m # n
      BY <2>2, <2>3, ConnAssumption DEF Base, JobOK, Idle
    <2>5. job'[m] = job[m]
      BY <2>1, <2>4 DEF Base, TypeOK
    <2> QED BY <2>3, <2>5
  <1>5. \/ UNCHANGED <<pending, job>>
        \/ \E n \in Nodes : \/ HandleSendCall(n) \/ Finishes(n)
                            \/ NodeStops(n)
    BY ZenonT(40) DEF Next, vars, SendOffline, SenderStep, RequestRaises, ReceiveReply, RequestTimesOut,
           MarkResponded, SendCommand, NodeStep, Finishes, HandleNoConnection, HandleSendFails,
           NodeStarts, Connect, PeerVanishes, SocketCloses, ChargerAnswers, Tick, serveVars
  <1> QED BY <1>1, <1>2, <1>3, <1>4, <1>5

\* LiveConnection._pending holds only calls that a node is waiting for: no exit
\* of send_call, no close and no crash leaves an entry behind.
THEOREM PendingNeverLeaks == Spec => []NoLeakedPending
  <1>1. Init => NoLeakedPending
    BY DEF Init, NoLeakedPending
  <1> QED BY <1>1, NoLeakNext, BaseAlways, PTL DEF Spec

-----------------------------------------------------------------------------
(* A logged outcome is final. *)

\* Whoever still waits for the reply finds the record pending.
SenderOK == \A k \in Commands : sender[k] = "waiting" => log[k] = "pending"

\* The steps that touch the log or the sender's state.
LogStep ==
    \E k \in Commands :
        \/ SendOffline(k) \/ RequestRaises(k) \/ ReceiveReply(k) \/ RequestTimesOut(k)
        \/ \E h \in Chargers, n \in Nodes : SendCommand(k, h, n)

LEMMA LogSteps == [Next]_vars => LogStep \/ UNCHANGED <<log, sender>>
  BY ZenonT(40) DEF Next, vars, LogStep, SenderStep, NodeStep, HandleNoConnection, HandleSendCall,
         HandleSendFails, HandleAnswered, HandleResultUncarried, HandleTimesOut, FinishJob, NodeStops, NodeStarts,
         Connect, PeerVanishes, SocketCloses, ChargerAnswers, Tick, senderVars

LEMMA FinalStep ==
    ASSUME TypeOK, SenderOK, [Next]_vars
    PROVE  SenderOK' /\ \A k \in Commands : log[k] \in Outcomes => log'[k] = log[k]
  <1>1. CASE UNCHANGED <<log, sender>>
    BY <1>1 DEF SenderOK
  <1>2. ASSUME NEW k \in Commands, NEW v, NEW w, w # "waiting" \/ v = "pending",
               log[k] \notin Outcomes,
               log' = [log EXCEPT ![k] = v], sender' = [sender EXCEPT ![k] = w]
        PROVE  SenderOK' /\ \A j \in Commands : log[j] \in Outcomes => log'[j] = log[j]
    BY <1>2 DEF SenderOK, TypeOK
  <1>3. ASSUME NEW k \in Commands, RequestRaises(k)
        PROVE  SenderOK' /\ \A j \in Commands : log[j] \in Outcomes => log'[j] = log[j]
    BY <1>3 DEF SenderOK, TypeOK, RequestRaises
  <1>4. ASSUME NEW k \in Commands, SendOffline(k)
        PROVE  SenderOK' /\ \A j \in Commands : log[j] \in Outcomes => log'[j] = log[j]
    BY <1>2, <1>4 DEF SendOffline
  <1>5. ASSUME NEW k \in Commands, ReceiveReply(k) \/ RequestTimesOut(k)
        PROVE  SenderOK' /\ \A j \in Commands : log[j] \in Outcomes => log'[j] = log[j]
    <2>1. PICK v : MarkResponded(k, v)
      BY <1>5 DEF ReceiveReply, RequestTimesOut
    <2>2. log[k] = "pending"
      BY <1>5 DEF SenderOK, ReceiveReply, RequestTimesOut
    <2> QED BY <1>2, <2>1, <2>2 DEF MarkResponded
  <1>6. ASSUME NEW k \in Commands, NEW h \in Chargers, NEW n \in Nodes, SendCommand(k, h, n)
        PROVE  SenderOK' /\ \A j \in Commands : log[j] \in Outcomes => log'[j] = log[j]
    <2>1. log[k] = "none"
      BY <1>6 DEF SendCommand
    <2>2. CASE log' = [log EXCEPT ![k] = "pending"] /\ sender' = [sender EXCEPT ![k] = "waiting"]
      BY <1>2, <2>1, <2>2
    <2>3. CASE log' = [log EXCEPT ![k] = "rejected"] /\ sender' = [sender EXCEPT ![k] = "done"]
      BY <1>2, <2>1, <2>3
    <2> QED BY <1>6, <2>2, <2>3, Zenon DEF SendCommand
  <1> QED BY <1>1, <1>3, <1>4, <1>5, <1>6, LogSteps, Zenon DEF LogStep

\* mark_responded runs at most once per record: whatever replies, timeouts,
\* retries and crashes follow, a logged outcome stays.
THEOREM OutcomesAreFinal == Spec => OutcomeIsFinal
  <1>1. Init => SenderOK
    BY DEF Init, SenderOK
  <1>2. TypeOK /\ SenderOK /\ [Next]_vars => SenderOK'
    BY FinalStep
  <1>3. TypeOK /\ SenderOK /\ [Next]_vars =>
            [\A k \in Commands : log[k] \in Outcomes => log'[k] = log[k]]_vars
    BY FinalStep
  <1> QED BY <1>1, <1>2, <1>3, TypeCorrect, PTL DEF Spec, OutcomeIsFinal

-----------------------------------------------------------------------------
(* The status a command is logged with is the charger's own verdict.  The     *)
(* invariant follows a command from the log through a queue and a job to its  *)
(* reply.                                                                     *)

USE DEF Outcomes, CallResults, Answers

\* No node has worked on k and no charger has seen it.
Untouched(k) ==
    /\ reply[k] = "none" /\ future[k] = "none" /\ answer[k] = "none"
    /\ \A c \in Conns : <<c, k>> \notin received
    /\ \A n \in Nodes : job[n] # Idle => job[n].cmd # k

\* k may be logged rejected: the charger answered with an error, or will not
\* see the call, or NATS did not carry the answer.
Refusable(k) == future[k] = "error" \/ k \in unsent \/ \A c \in Conns : <<c, k>> \notin received

Open == {"pending", "timed_out"}

FreshOK == \A k \in Commands : log[k] = "none" => Untouched(k)

QueuedOK ==
    \A n \in Nodes : \A i \in 1..Len(queue[n]) : Untouched(queue[n][i]) /\ log[queue[n][i]] \in Open

QueuedOnce ==
    \A n, m \in Nodes : \A i \in 1..Len(queue[n]), j \in 1..Len(queue[m]) :
        queue[n][i] = queue[m][j] => n = m /\ i = j

WorkingOK ==
    \A n \in Nodes : job[n] # Idle => reply[job[n].cmd] = "none" /\ log[job[n].cmd] \in Open

WorkedOnce ==
    \A n, m \in Nodes : job[n] # Idle /\ job[m] # Idle /\ job[n].cmd = job[m].cmd => n = m

AnswersOK ==
    \A k \in Commands :
        /\ future[k] \in Answers => answer[k] = future[k]
        /\ answer[k] # "none" => \E c \in Conns : <<c, k>> \in received

ReceiptsOK ==
    \A c \in Conns, k \in Commands :
        <<c, k>> \in received => conn[c].state # "unused" /\ conn[c].charger = target[k].charger

RepliesOK ==
    \A k \in Commands :
        /\ reply[k] = "accepted" => future[k] \in CallResults
        /\ reply[k] = "rejected" => Refusable(k)

LoggedOK ==
    \A k \in Commands :
        /\ log[k] = "accepted" => reply[k] = "accepted"
        /\ log[k] = "rejected" => Refusable(k)

Journey ==
    /\ FreshOK /\ QueuedOK /\ QueuedOnce /\ WorkingOK /\ WorkedOnce
    /\ AnswersOK /\ ReceiptsOK /\ RepliesOK /\ LoggedOK

LEMMA JourneyInit == Init => Journey
  BY DEF Init, Journey, FreshOK, QueuedOK, QueuedOnce, WorkingOK, WorkedOnce, AnswersOK,
         ReceiptsOK, RepliesOK, LoggedOK, Untouched, Refusable

\* Steps that leave commands alone and keep what is known of used sockets.
LEMMA JourneySockets ==
    ASSUME Journey, UNCHANGED <<log, target, queue, job, future, reply, received, answer, unsent>>,
           \A d \in Conns : conn[d].state # "unused" =>
               conn'[d].state # "unused" /\ conn'[d].charger = conn[d].charger
    PROVE  Journey'
  <1>1. FreshOK' /\ QueuedOK'
    BY DEF Journey, FreshOK, QueuedOK, Untouched
  <1>2. QueuedOnce' /\ WorkingOK' /\ WorkedOnce'
    BY DEF Journey, QueuedOnce, WorkingOK, WorkedOnce
  <1>3. AnswersOK' /\ RepliesOK' /\ LoggedOK'
    BY DEF Journey, AnswersOK, RepliesOK, LoggedOK, Refusable
  <1>4. ReceiptsOK'
    BY DEF Journey, ReceiptsOK
  <1> QED BY <1>1, <1>2, <1>3, <1>4 DEF Journey

\* A record gets its outcome: k, whose record was none (and it is rejected) or
\* pending (and it is the reply, or timed_out).
LEMMA JourneyMark ==
    ASSUME Base, Journey, NEW k \in Commands, NEW v \in Outcomes,
           log[k] \in {"none", "pending"},
           log[k] = "none" => v = "rejected",
           log[k] = "pending" => v = "timed_out" \/ (v = reply[k]),
           log' = [log EXCEPT ![k] = v],
           UNCHANGED <<target, queue, job, future, reply, received, answer, conn, unsent>>
    PROVE  Journey'
  <1>1. \A j \in Commands : j # k => log'[j] = log[j]
    BY DEF Base, TypeOK
  <1>2. log'[k] = v
    BY DEF Base, TypeOK
  <1>3. FreshOK'
    BY <1>1, <1>2 DEF Journey, FreshOK, Untouched
  <1>4. QueuedOK'
    <2> SUFFICES ASSUME NEW n \in Nodes, NEW i \in 1..Len(queue[n])
                 PROVE  Untouched(queue[n][i])' /\ log'[queue[n][i]] \in Open
      BY DEF QueuedOK
    <2>1. /\ queue[n][i] \in Commands /\ Untouched(queue[n][i]) /\ log[queue[n][i]] \in Open
          /\ log[queue[n][i]] # "none"
      BY DEF Base, TypeOK, QueueOK, Journey, QueuedOK
    <2>2. Untouched(queue[n][i])'
      BY <2>1 DEF Untouched
    <2>3. log'[queue[n][i]] \in Open
      BY <1>1, <1>2, <2>1 DEF Untouched, Open
    <2> QED BY <2>2, <2>3
  <1>5. WorkingOK'
    <2> SUFFICES ASSUME NEW n \in Nodes, job[n] # Idle
                 PROVE  reply[job[n].cmd] = "none" /\ log'[job[n].cmd] \in Open
      BY DEF WorkingOK
    <2>1. job[n].cmd \in Commands
      BY JobType DEF Base
    <2>2. reply[job[n].cmd] = "none" /\ log[job[n].cmd] \in Open
      BY DEF Journey, WorkingOK
    <2> QED BY <1>1, <1>2, <2>1, <2>2 DEF Open
  <1>6. QueuedOnce' /\ WorkedOnce' /\ AnswersOK' /\ ReceiptsOK'
    BY DEF Journey, QueuedOnce, WorkedOnce, AnswersOK, ReceiptsOK
  <1>7. RepliesOK'
    BY DEF Journey, RepliesOK, Refusable
  <1>8. LoggedOK'
    <2>1. \A j \in Commands : Refusable(j)' <=> Refusable(j)
      BY DEF Refusable
    <2>2. v = "rejected" => Refusable(k)
      BY DEF Journey, FreshOK, Untouched, RepliesOK, Refusable
    <2>3. v = "accepted" => reply[k] = "accepted"
      OBVIOUS
    <2> QED BY <1>1, <1>2, <2>1, <2>2, <2>3 DEF Journey, LoggedOK
  <1> QED BY <1>3, <1>4, <1>5, <1>6, <1>7, <1>8 DEF Journey

LEMMA JourneySender ==
    ASSUME Base, SenderOK, Journey, NEW k \in Commands,
           SendOffline(k) \/ SenderStep(k) \/ RequestRaises(k)
    PROVE  Journey'
  <1>1. UNCHANGED <<target, queue, job, future, reply, received, answer, conn, unsent>>
    BY DEF SendOffline, SenderStep, RequestRaises, ReceiveReply, RequestTimesOut,
           MarkResponded, serveVars, socketVars
  <1>2. CASE RequestRaises(k)
    <2>1. UNCHANGED log
      BY <1>2 DEF RequestRaises
    <2> QED BY <1>1, <2>1, JourneySockets
  <1>3. CASE SendOffline(k)
    <2>1. log[k] = "none" /\ log' = [log EXCEPT ![k] = "rejected"]
      BY <1>3 DEF SendOffline
    <2> QED BY <1>1, <2>1, JourneyMark
  <1>4. CASE ReceiveReply(k)
    <2>1. log[k] = "pending" /\ log' = [log EXCEPT ![k] = reply[k]] /\ reply[k] \in Outcomes
      BY <1>4 DEF ReceiveReply, MarkResponded, SenderOK, Base, TypeOK
    <2> QED BY <1>1, <2>1, JourneyMark
  <1>5. CASE RequestTimesOut(k)
    <2>1. log[k] = "pending" /\ log' = [log EXCEPT ![k] = "timed_out"]
      BY <1>5 DEF RequestTimesOut, MarkResponded, SenderOK
    <2> QED BY <1>1, <2>1, JourneyMark
  <1> QED BY <1>2, <1>3, <1>4, <1>5 DEF SenderStep

\* send_command addresses a fresh command to a node that is up.
LEMMA JourneyEnqueue ==
    ASSUME Base, Journey, NEW k \in Commands, NEW h \in Chargers, NEW n \in Nodes,
           SendCommand(k, h, n), log' = [log EXCEPT ![k] = "pending"],
           queue' = [queue EXCEPT ![n] = Append(@, k)]
    PROVE  Journey'
  <1>1. /\ log[k] = "none"
        /\ target' = [target EXCEPT ![k] = [charger |-> h, node |-> n]]
        /\ UNCHANGED <<job, future, reply, conn, received, answer, unsent>>
    BY DEF SendCommand, socketVars
  <1>2. Untouched(k)
    BY <1>1 DEF Journey, FreshOK
  <1>3. /\ log'[k] = "pending"
        /\ \A j \in Commands : j # k => log'[j] = log[j] /\ target'[j] = target[j]
    BY <1>1 DEF Base, TypeOK
  <1>4. \A j \in Commands : /\ Untouched(j) => Untouched(j)'
                            /\ Refusable(j)' <=> Refusable(j)
    BY <1>1 DEF Untouched, Refusable
  <1>5. \A m \in Nodes : \A i \in 1..Len(queue[m]) : queue[m][i] \in Commands /\ queue[m][i] # k
    BY <1>1 DEF Base, TypeOK, QueueOK
  <1>6. /\ queue'[n] = Append(queue[n], k) /\ queue[n] \in Seq(Commands)
        /\ \A m \in Nodes : m # n => queue'[m] = queue[m]
    BY DEF Base, TypeOK
  <1>7. /\ Len(queue'[n]) = Len(queue[n]) + 1 /\ Len(queue[n]) \in Nat
        /\ queue'[n][Len(queue[n]) + 1] = k
        /\ \A i \in 1..Len(queue[n]) : queue'[n][i] = queue[n][i]
    BY <1>6
  <1>8. \A m \in Nodes : \A i \in 1..Len(queue'[m]) :
            \/ i \in 1..Len(queue[m]) /\ queue'[m][i] = queue[m][i]
            \/ m = n /\ i = Len(queue[n]) + 1 /\ queue'[m][i] = k
    BY <1>6, <1>7
  <1>9. FreshOK'
    BY <1>3, <1>4 DEF Journey, FreshOK
  <1>10. QueuedOK'
    <2> SUFFICES ASSUME NEW m \in Nodes, NEW i \in 1..Len(queue'[m])
                 PROVE  (Untouched(queue[m][i]) /\ log[queue[m][i]] \in Open)'
      BY DEF QueuedOK
    <2>1. PICK j \in Commands : j = queue'[m][i] /\ Untouched(j) /\ log'[j] \in Open
      <3>1. CASE queue'[m][i] = k
        BY <1>2, <1>3, <3>1 DEF Open
      <3>2. CASE i \in 1..Len(queue[m]) /\ queue'[m][i] = queue[m][i]
        BY <1>3, <1>5, <3>2 DEF Journey, QueuedOK
      <3> QED BY <1>8, <3>1, <3>2
    <2> QED BY <1>1, <2>1 DEF Untouched
  <1>11. QueuedOnce'
    <2> SUFFICES ASSUME NEW a \in Nodes, NEW b \in Nodes, NEW i \in 1..Len(queue'[a]),
                        NEW j \in 1..Len(queue'[b]), queue'[a][i] = queue'[b][j]
                 PROVE  a = b /\ i = j
      BY DEF QueuedOnce
    <2>1. CASE queue'[a][i] = k
      BY <1>5, <1>8, <2>1
    <2>2. CASE queue'[a][i] # k
      <3>1. /\ i \in 1..Len(queue[a]) /\ queue'[a][i] = queue[a][i]
            /\ j \in 1..Len(queue[b]) /\ queue'[b][j] = queue[b][j]
        BY <1>8, <2>2
      <3> QED BY <3>1 DEF Journey, QueuedOnce
    <2> QED BY <2>1, <2>2
  <1>12. WorkingOK'
    <2> SUFFICES ASSUME NEW m \in Nodes, job[m] # Idle
                 PROVE  reply[job[m].cmd] = "none" /\ log'[job[m].cmd] \in Open
      BY <1>1 DEF WorkingOK
    <2>1. job[m].cmd \in Commands /\ job[m].cmd # k
      BY <1>2, JobType DEF Base, Untouched
    <2> QED BY <1>3, <2>1 DEF Journey, WorkingOK
  <1>13. WorkedOnce' /\ AnswersOK'
    BY <1>1 DEF Journey, WorkedOnce, AnswersOK
  <1>14. ReceiptsOK'
    BY <1>1, <1>2, <1>3 DEF Journey, ReceiptsOK, Untouched
  <1>15. RepliesOK' /\ LoggedOK'
    BY <1>1, <1>3, <1>4 DEF Journey, RepliesOK, LoggedOK
  <1> QED BY <1>9, <1>10, <1>11, <1>12, <1>13, <1>14, <1>15 DEF Journey

LEMMA JourneySend ==
    ASSUME Base, Journey, NEW k \in Commands, NEW h \in Chargers, NEW n \in Nodes,
           SendCommand(k, h, n)
    PROVE  Journey'
  <1>1. CASE log' = [log EXCEPT ![k] = "pending"] /\ queue' = [queue EXCEPT ![n] = Append(@, k)]
    BY <1>1, JourneyEnqueue
  <1>2. CASE log' = [log EXCEPT ![k] = "rejected"] /\ queue' = queue
    <2>1. /\ log[k] = "none"
          /\ target' = [target EXCEPT ![k] = [charger |-> h, node |-> n]]
          /\ UNCHANGED <<job, future, reply, conn, received, answer, unsent>>
      BY DEF SendCommand, socketVars
    <2>2. Untouched(k)
      BY <2>1 DEF Journey, FreshOK
    <2>3. /\ log'[k] = "rejected"
          /\ \A j \in Commands : j # k => log'[j] = log[j] /\ target'[j] = target[j]
      BY <1>2, <2>1 DEF Base, TypeOK
    <2>4. \A j \in Commands : /\ Untouched(j) => Untouched(j)'
                              /\ Refusable(j)' <=> Refusable(j)
      BY <2>1 DEF Untouched, Refusable
    <2>5. \A m \in Nodes : \A i \in 1..Len(queue[m]) : queue[m][i] \in Commands /\ queue[m][i] # k
      BY <2>1 DEF Base, TypeOK, QueueOK
    <2>6. FreshOK' /\ QueuedOK' /\ QueuedOnce'
      BY <1>2, <2>3, <2>4, <2>5 DEF Journey, FreshOK, QueuedOK, QueuedOnce
    <2>7. WorkingOK'
      <3> SUFFICES ASSUME NEW m \in Nodes, job[m] # Idle
                   PROVE  reply[job[m].cmd] = "none" /\ log'[job[m].cmd] \in Open
        BY <2>1 DEF WorkingOK
      <3>1. job[m].cmd \in Commands /\ job[m].cmd # k
        BY <2>2, JobType DEF Base, Untouched
      <3> QED BY <2>3, <3>1 DEF Journey, WorkingOK
    <2>8. WorkedOnce' /\ AnswersOK'
      BY <2>1 DEF Journey, WorkedOnce, AnswersOK
    <2>9. ReceiptsOK'
      BY <2>1, <2>2, <2>3 DEF Journey, ReceiptsOK, Untouched
    <2>10. RepliesOK' /\ LoggedOK'
      BY <2>1, <2>2, <2>3, <2>4 DEF Journey, RepliesOK, LoggedOK, Untouched, Refusable
    <2> QED BY <2>6, <2>7, <2>8, <2>9, <2>10 DEF Journey
  <1> QED BY <1>1, <1>2, Zenon DEF SendCommand

\* What is left of the queues once the head of one is taken: older entries
\* only, none of them the head.
LEMMA JourneyDequeue ==
    ASSUME Base, Journey, NEW n \in Nodes, queue[n] # <<>>,
           queue' = [queue EXCEPT ![n] = Tail(@)]
    PROVE  /\ NextCmd(n) \in Commands /\ Untouched(NextCmd(n)) /\ log[NextCmd(n)] \in Open
           /\ \A m \in Nodes : \A i \in 1..Len(queue'[m]) :
                 /\ queue'[m][i] \in Commands /\ queue'[m][i] # NextCmd(n)
                 /\ Untouched(queue'[m][i]) /\ log[queue'[m][i]] \in Open
           /\ QueuedOnce'
  <1>1. queue[n] \in Seq(Commands)
    BY DEF Base, TypeOK
  <1> DEFINE q == Tail(queue[n])
  <1>2. /\ NextCmd(n) \in Commands /\ NextCmd(n) = queue[n][1] /\ 1 \in 1..Len(queue[n])
        /\ \A i \in 1..Len(q) : i + 1 # 1 /\ i + 1 \in 1..Len(queue[n]) /\ q[i] = queue[n][i+1]
    BY <1>1, QueueTail DEF NextCmd
  <1>3. queue'[n] = q /\ \A m \in Nodes : m # n => queue'[m] = queue[m]
    BY DEF Base, TypeOK
  <1> HIDE DEF q
  <1>4. \A m \in Nodes : \A i \in 1..Len(queue'[m]) :
            \E j \in 1..Len(queue[m]) :
                /\ queue'[m][i] = queue[m][j]
                /\ IF m = n THEN j = i + 1 ELSE j = i
                /\ ~(m = n /\ j = 1)
    <2> TAKE m \in Nodes
    <2> TAKE i \in 1..Len(queue'[m])
    <2>1. CASE m = n
      <3>1. i + 1 \in 1..Len(queue[m]) /\ queue'[m][i] = queue[m][i+1] /\ i + 1 # 1
        BY <1>2, <1>3, <2>1
      <3> QED BY <2>1, <3>1
    <2>2. CASE m # n
      BY <1>3, <2>2
    <2> QED BY <2>1, <2>2
  <1>5. \A m \in Nodes : \A j \in 1..Len(queue[m]) : queue[m][j] \in Commands
    BY DEF Base, TypeOK
  <1>6. Untouched(NextCmd(n)) /\ log[NextCmd(n)] \in Open
    BY <1>2 DEF Journey, QueuedOK
  <1>7. ASSUME NEW m \in Nodes, NEW i \in 1..Len(queue'[m])
        PROVE  /\ queue'[m][i] \in Commands /\ queue'[m][i] # NextCmd(n)
               /\ Untouched(queue'[m][i]) /\ log[queue'[m][i]] \in Open
    <2>1. PICK j \in 1..Len(queue[m]) : queue'[m][i] = queue[m][j] /\ ~(m = n /\ j = 1)
      BY <1>4
    <2>2. queue[m][j] # NextCmd(n)
      BY <1>2, <2>1 DEF Journey, QueuedOnce
    <2> QED BY <1>5, <2>1, <2>2 DEF Journey, QueuedOK
  <1>8. QueuedOnce'
    <2> SUFFICES ASSUME NEW a \in Nodes, NEW b \in Nodes, NEW i \in 1..Len(queue'[a]),
                        NEW j \in 1..Len(queue'[b]), queue'[a][i] = queue'[b][j]
                 PROVE  a = b /\ i = j
      BY DEF QueuedOnce
    <2>1. PICK x \in 1..Len(queue[a]) :
              queue'[a][i] = queue[a][x] /\ IF a = n THEN x = i + 1 ELSE x = i
      BY <1>4
    <2>2. PICK y \in 1..Len(queue[b]) :
              queue'[b][j] = queue[b][y] /\ IF b = n THEN y = j + 1 ELSE y = j
      BY <1>4
    <2>3. a = b /\ x = y
      BY <2>1, <2>2 DEF Journey, QueuedOnce
    <2> QED BY <2>1, <2>2, <2>3
  <1> QED BY <1>2, <1>6, <1>7, <1>8

\* "not connected on this node" and "internal error": the command is refused
\* before the charger could see it.
LEMMA JourneyRefused ==
    ASSUME Base, Journey, NEW n \in Nodes, HandleNoConnection(n) \/ HandleSendFails(n)
    PROVE  Journey'
  <1> DEFINE k == NextCmd(n)
  <1>1. /\ queue[n] # <<>> /\ queue' = [queue EXCEPT ![n] = Tail(@)]
        /\ Respond(k, "rejected")
        /\ UNCHANGED <<log, target, job, future, conn, received, answer>>
    BY DEF HandleNoConnection, HandleSendFails, senderVars, socketVars, NextCmd
  <1>2. /\ k \in Commands /\ Untouched(k) /\ log[k] \in Open
        /\ \A m \in Nodes : \A i \in 1..Len(queue'[m]) :
              /\ queue'[m][i] \in Commands /\ queue'[m][i] # k
              /\ Untouched(queue'[m][i]) /\ log[queue'[m][i]] \in Open
        /\ QueuedOnce'
    BY <1>1, JourneyDequeue
  <1> HIDE DEF k
  <1>3. /\ reply'[k] \in {"none", "rejected"} /\ \A j \in Commands : j # k => reply'[j] = reply[j]
        /\ unsent \subseteq unsent'
    <2>1. PICK w : ReplyStep(k, w) /\ (w = "rejected" \/ w = reply[k])
      BY <1>1, <1>2, RespondFacts DEF Base
    <2>2. /\ reply'[k] = w /\ \A j \in Commands : j # k => reply'[j] = reply[j]
          /\ unsent \subseteq unsent'
      BY <1>2, <2>1, ReplyTypes DEF Base
    <2> QED BY <1>2, <2>1, <2>2 DEF Untouched
  <1>4. FreshOK'
    BY <1>1, <1>2, <1>3 DEF Journey, FreshOK, Untouched, Open
  <1>5. QueuedOK'
    <2> SUFFICES ASSUME NEW m \in Nodes, NEW i \in 1..Len(queue'[m])
                 PROVE  (Untouched(queue[m][i]) /\ log[queue[m][i]] \in Open)'
      BY DEF QueuedOK
    <2>1. PICK j \in Commands : j = queue'[m][i] /\ j # k /\ Untouched(j) /\ log[j] \in Open
      BY <1>2
    <2> QED BY <1>1, <1>3, <2>1 DEF Untouched
  <1>6. WorkingOK'
    <2> SUFFICES ASSUME NEW m \in Nodes, job[m] # Idle
                 PROVE  reply'[job[m].cmd] = "none" /\ log[job[m].cmd] \in Open
      BY <1>1 DEF WorkingOK
    <2>1. job[m].cmd \in Commands /\ job[m].cmd # k
      BY <1>2, JobType DEF Base, Untouched
    <2> QED BY <1>3, <2>1 DEF Journey, WorkingOK
  <1>7. WorkedOnce' /\ AnswersOK' /\ ReceiptsOK'
    BY <1>1 DEF Journey, WorkedOnce, AnswersOK, ReceiptsOK
  <1>8. RepliesOK'
    BY <1>1, <1>2, <1>3 DEF Journey, RepliesOK, Refusable, Untouched
  <1>9. LoggedOK'
    BY <1>1, <1>2, <1>3 DEF Journey, LoggedOK, Refusable, Open
  <1> QED BY <1>2, <1>4, <1>5, <1>6, <1>7, <1>8, <1>9 DEF Journey

\* send_call hands the command to a connection of its own charger.
LEMMA JourneySendCall ==
    ASSUME Base, Journey, NEW n \in Nodes, HandleSendCall(n)
    PROVE  Journey'
  <1> DEFINE k == NextCmd(n)
             c == NextConn(n)
  <1>1. /\ c \in Conns /\ job[n] = Idle
        /\ conn[c].charger = target[k].charger /\ conn[c].state # "unused"
        /\ queue[n] # <<>> /\ queue' = [queue EXCEPT ![n] = Tail(@)]
        /\ job' = [job EXCEPT ![n] = [cmd |-> k, conn |-> c]]
        /\ future' = [future EXCEPT ![k] = "waiting"]
        /\ received' \in {received, received \cup {<<c, k>>}}
        /\ UNCHANGED <<log, target, reply, conn, answer, unsent>>
    BY SendCallFacts
  <1>2. /\ k \in Commands /\ Untouched(k) /\ log[k] \in Open
        /\ \A m \in Nodes : \A i \in 1..Len(queue'[m]) :
              /\ queue'[m][i] \in Commands /\ queue'[m][i] # k
              /\ Untouched(queue'[m][i]) /\ log[queue'[m][i]] \in Open
        /\ QueuedOnce'
    BY <1>1, JourneyDequeue
  <1> HIDE DEF k, c
  <1>3. future'[k] = "waiting" /\ \A j \in Commands : j # k => future'[j] = future[j]
    BY <1>1, <1>2 DEF Base, TypeOK
  <1>4. job'[n] = [cmd |-> k, conn |-> c] /\ \A m \in Nodes : m # n => job'[m] = job[m]
    BY <1>1 DEF Base, TypeOK
  <1>5. /\ \A d \in Conns, j \in Commands : <<d, j>> \in received => <<d, j>> \in received'
        /\ \A d \in Conns, j \in Commands :
              <<d, j>> \in received' => <<d, j>> \in received \/ (d = c /\ j = k)
    BY <1>1
  <1>6. ASSUME NEW j \in Commands, j # k, Untouched(j) PROVE Untouched(j)'
    BY <1>1, <1>3, <1>4, <1>5, <1>6 DEF Untouched
  <1>7. ASSUME NEW j \in Commands, j # k, Refusable(j) PROVE Refusable(j)'
    BY <1>1, <1>3, <1>5, <1>7 DEF Refusable
  <1>8. FreshOK'
    BY <1>1, <1>2, <1>6 DEF Journey, FreshOK, Open
  <1>9. QueuedOK'
    <2> SUFFICES ASSUME NEW m \in Nodes, NEW i \in 1..Len(queue'[m])
                 PROVE  (Untouched(queue[m][i]) /\ log[queue[m][i]] \in Open)'
      BY DEF QueuedOK
    <2>1. PICK j \in Commands : j = queue'[m][i] /\ j # k /\ Untouched(j) /\ log[j] \in Open
      BY <1>2
    <2>2. Untouched(j)'
      BY <1>6, <2>1
    <2> QED BY <1>1, <2>1, <2>2 DEF Untouched
  <1>10. WorkingOK'
    BY <1>1, <1>2, <1>4 DEF Journey, WorkingOK, Untouched
  <1>11. WorkedOnce'
    BY <1>2, <1>4 DEF Journey, WorkedOnce, Untouched
  <1>12. AnswersOK'
    BY <1>1, <1>2, <1>3, <1>5 DEF Journey, AnswersOK, Untouched
  <1>13. ReceiptsOK'
    BY <1>1, <1>5 DEF Journey, ReceiptsOK
  <1>14. RepliesOK'
    BY <1>1, <1>2, <1>3, <1>7 DEF Journey, RepliesOK, Untouched
  <1>15. LoggedOK'
    BY <1>1, <1>2, <1>7 DEF Journey, LoggedOK, Open
  <1> QED BY <1>2, <1>8, <1>9, <1>10, <1>11, <1>12, <1>13, <1>14, <1>15 DEF Journey

\* send_call ends and the node replies.
LEMMA JourneyFinish ==
    ASSUME Base, Journey, NEW n \in Nodes, Finishes(n)
    PROVE  Journey'
  <1> DEFINE k == job[n].cmd
  <1>1. PICK v : /\ ReplyStep(k, v)
                 /\ Honest(k, v) \/ (v = reply[k] /\ k \in unsent')
    BY FinishFacts
  <1>2. /\ job[n] # Idle /\ k \in Commands
        /\ job' = [job EXCEPT ![n] = Idle]
        /\ UNCHANGED <<log, target, queue, future, conn, received, answer>>
    BY FinishFacts
  <1> HIDE DEF k
  <1>3. /\ reply'[k] = v /\ \A j \in Commands : j # k => reply'[j] = reply[j]
        /\ unsent \subseteq unsent'
    BY <1>1, <1>2, ReplyTypes DEF Base
  <1>4. job'[n] = Idle /\ \A m \in Nodes : m # n => job'[m] = job[m]
    BY <1>2 DEF Base, TypeOK
  <1>5. ASSUME NEW j \in Commands, Untouched(j) PROVE Untouched(j)'
    <2>1. j # k
      BY <1>2, <1>5 DEF Untouched, k
    <2> QED BY <1>2, <1>3, <1>4, <1>5, <2>1 DEF Untouched
  <1>6. FreshOK'
    BY <1>2, <1>5 DEF Journey, FreshOK
  <1>7. QueuedOK'
    <2> SUFFICES ASSUME NEW m \in Nodes, NEW i \in 1..Len(queue[m])
                 PROVE  Untouched(queue[m][i])' /\ log[queue[m][i]] \in Open
      BY <1>2 DEF QueuedOK
    <2>1. PICK j \in Commands : j = queue[m][i] /\ Untouched(j) /\ log[j] \in Open
      BY DEF Base, TypeOK, Journey, QueuedOK
    <2>2. Untouched(j)'
      BY <1>5, <2>1
    <2> QED BY <1>2, <2>1, <2>2 DEF Untouched
  <1>8. WorkingOK' /\ WorkedOnce'
    <2> SUFFICES ASSUME NEW m \in Nodes, job'[m] # Idle
                 PROVE  /\ m # n /\ job'[m] = job[m]
                        /\ reply'[job[m].cmd] = "none" /\ log[job[m].cmd] \in Open
      BY <1>2 DEF Journey, WorkedOnce, WorkingOK
    <2>1. m # n /\ job'[m] = job[m]
      BY <1>4
    <2>2. job[m].cmd \in Commands /\ job[m].cmd # k
      BY <1>2, <2>1, JobType DEF Base, Journey, WorkedOnce, k
    <2> QED BY <1>3, <2>1, <2>2 DEF Journey, WorkingOK
  <1>9. QueuedOnce' /\ AnswersOK' /\ ReceiptsOK'
    BY <1>2 DEF Journey, QueuedOnce, AnswersOK, ReceiptsOK
  <1>10. RepliesOK'
    <2>1. Honest(k, v) \/ v = "none"
      BY <1>1, <1>2 DEF Journey, WorkingOK, k
    <2> QED BY <1>2, <1>3, <2>1 DEF Journey, RepliesOK, Refusable, Honest
  <1>11. LoggedOK'
    <2>1. log[k] \in Open
      BY <1>2 DEF Journey, WorkingOK, k
    <2> QED BY <1>2, <1>3, <2>1 DEF Journey, LoggedOK, Refusable, Open
  <1> QED BY <1>6, <1>7, <1>8, <1>9, <1>10, <1>11 DEF Journey

\* A CALL_RESULT or CALL_ERROR frame.
LEMMA JourneyAnswer ==
    ASSUME Base, Journey, NEW c \in Conns, NEW k \in Commands, NEW kind \in Answers,
           ChargerAnswers(c, k, kind)
    PROVE  Journey'
  <1>1. /\ answer' = [answer EXCEPT ![k] = kind] /\ answer[k] \in {"none", kind}
        /\ UNCHANGED <<log, target, queue, job, reply, conn, received, unsent>>
    BY DEF ChargerAnswers, senderVars, socketVars
  <1>2. PICK d \in Conns : <<d, k>> \in received
    BY DEF ChargerAnswers
  <1>3. answer'[k] = kind /\ \A j \in Commands : j # k => answer'[j] = answer[j]
    BY <1>1 DEF Base, TypeOK
  <1>4. /\ future'[k] = future[k] \/ (future[k] = "waiting" /\ future'[k] = kind)
        /\ \A j \in Commands : j # k => future'[j] = future[j]
    BY DEF ChargerAnswers, Resolve, Base, TypeOK
  <1>5. ASSUME NEW j \in Commands, Untouched(j) PROVE Untouched(j)'
    <2>1. j # k
      BY <1>2, <1>5 DEF Untouched
    <2> QED BY <1>1, <1>3, <1>4, <1>5, <2>1 DEF Untouched
  <1>6. FreshOK'
    BY <1>1, <1>5 DEF Journey, FreshOK
  <1>7. QueuedOK'
    <2> SUFFICES ASSUME NEW m \in Nodes, NEW i \in 1..Len(queue[m])
                 PROVE  Untouched(queue[m][i])' /\ log[queue[m][i]] \in Open
      BY <1>1 DEF QueuedOK
    <2>1. PICK j \in Commands : j = queue[m][i] /\ Untouched(j) /\ log[j] \in Open
      BY DEF Base, TypeOK, Journey, QueuedOK
    <2>2. Untouched(j)'
      BY <1>5, <2>1
    <2> QED BY <1>1, <2>1, <2>2 DEF Untouched
  <1>8. QueuedOnce' /\ WorkingOK' /\ WorkedOnce' /\ ReceiptsOK'
    BY <1>1 DEF Journey, QueuedOnce, WorkingOK, WorkedOnce, ReceiptsOK
  <1>9. AnswersOK'
    BY <1>1, <1>2, <1>3, <1>4 DEF Journey, AnswersOK
  <1>10. RepliesOK' /\ LoggedOK'
    BY <1>1, <1>4 DEF Journey, RepliesOK, LoggedOK, Refusable
  <1> QED BY <1>6, <1>7, <1>8, <1>9, <1>10 DEF Journey

\* A node dies with its queue and its job.
LEMMA JourneyStops ==
    ASSUME Base, Journey, NEW n \in Nodes, NodeStops(n)
    PROVE  Journey'
  <1>1. /\ queue' = [queue EXCEPT ![n] = <<>>] /\ job' = [job EXCEPT ![n] = Idle]
        /\ UNCHANGED <<log, target, future, reply, received, answer, unsent>>
    BY DEF NodeStops, senderVars
  <1>2. \A d \in Conns : conn[d].state # "unused" =>
            conn'[d].state # "unused" /\ conn'[d].charger = conn[d].charger
    <2> TAKE d \in Conns
    <2>1. conn[d] \in Sockets /\ conn'[d] \in {conn[d], [conn[d] EXCEPT !.state = "closed"]}
      BY DEF NodeStops, Base, TypeOK
    <2> QED BY <2>1 DEF Sockets
  <1>3. queue'[n] = <<>> /\ \A m \in Nodes : m # n => queue'[m] = queue[m]
    BY <1>1 DEF Base, TypeOK
  <1>4. job'[n] = Idle /\ \A m \in Nodes : m # n => job'[m] = job[m]
    BY <1>1 DEF Base, TypeOK
  <1>5. \A m \in Nodes : \A i \in 1..Len(queue'[m]) : m # n /\ queue'[m] = queue[m]
    BY <1>3
  <1>6. ASSUME NEW j, Untouched(j) PROVE Untouched(j)'
    BY <1>1, <1>4, <1>6 DEF Untouched
  <1>7. FreshOK'
    BY <1>1, <1>6 DEF Journey, FreshOK
  <1>8. QueuedOK'
    <2> SUFFICES ASSUME NEW m \in Nodes, NEW i \in 1..Len(queue'[m])
                 PROVE  (Untouched(queue[m][i]) /\ log[queue[m][i]] \in Open)'
      BY DEF QueuedOK
    <2>1. PICK j : j = queue'[m][i] /\ Untouched(j) /\ log[j] \in Open
      BY <1>5 DEF Journey, QueuedOK
    <2>2. Untouched(j)'
      BY <1>6, <2>1
    <2> QED BY <1>1, <2>1, <2>2 DEF Untouched
  <1>9. QueuedOnce'
    BY <1>5 DEF Journey, QueuedOnce
  <1>10. WorkingOK' /\ WorkedOnce'
    BY <1>1, <1>4 DEF Journey, WorkingOK, WorkedOnce
  <1>11. AnswersOK' /\ RepliesOK' /\ LoggedOK'
    BY <1>1 DEF Journey, AnswersOK, RepliesOK, LoggedOK, Refusable
  <1>12. ReceiptsOK'
    BY <1>1, <1>2 DEF Journey, ReceiptsOK
  <1> QED BY <1>7, <1>8, <1>9, <1>10, <1>11, <1>12 DEF Journey

LEMMA JourneyQuiet ==
    ASSUME Base, Journey,
           \/ Tick \/ UNCHANGED vars
           \/ \E n \in Nodes : NodeStarts(n)
           \/ \E c \in Conns : \/ PeerVanishes(c) \/ SocketCloses(c)
                               \/ \E h \in Chargers, n \in Nodes : Connect(c, h, n)
    PROVE  Journey'
  <1>1. UNCHANGED <<log, target, queue, job, future, reply, received, answer, unsent>>
    BY DEF Tick, vars, NodeStarts, PeerVanishes, SocketCloses, Connect, senderVars, serveVars
  <1>2. ASSUME NEW d \in Conns, conn[d].state # "unused"
        PROVE  conn'[d].state # "unused" /\ conn'[d].charger = conn[d].charger
    <2>1. CASE conn' = conn
      BY <1>2, <2>1
    <2>2. ASSUME NEW c \in Conns, NEW v \in {"gone", "closed"}, conn' = [conn EXCEPT ![c].state = v]
          PROVE  conn'[d].state # "unused" /\ conn'[d].charger = conn[d].charger
      <3>1. conn[d] \in Sockets /\ conn'[d] \in {conn[d], [conn[d] EXCEPT !.state = v]}
        BY <2>2 DEF Base, TypeOK
      <3> QED BY <1>2, <3>1 DEF Sockets
    <2>3. ASSUME NEW c \in Conns, NEW h \in Chargers, NEW n \in Nodes, Connect(c, h, n)
          PROVE  conn'[d].state # "unused" /\ conn'[d].charger = conn[d].charger
      BY <1>2, <2>3 DEF Connect, Base, TypeOK
    <2> QED BY <2>1, <2>2, <2>3
            DEF Tick, vars, NodeStarts, PeerVanishes, SocketCloses, socketVars
  <1> QED BY <1>1, <1>2, JourneySockets

LEMMA JourneyNext == Base /\ SenderOK /\ Journey /\ [Next]_vars => Journey'
  <1> SUFFICES ASSUME Base, SenderOK, Journey, [Next]_vars PROVE Journey'
    OBVIOUS
  <1>1. ASSUME NEW k \in Commands, SendOffline(k) \/ SenderStep(k) \/ RequestRaises(k)
        PROVE  Journey'
    BY <1>1, JourneySender
  <1>2. ASSUME NEW k \in Commands, NEW h \in Chargers, NEW n \in Nodes, SendCommand(k, h, n)
        PROVE  Journey'
    BY <1>2, JourneySend
  <1>3. ASSUME NEW n \in Nodes, NodeStep(n) PROVE Journey'
    BY <1>3, JourneyRefused, JourneySendCall, JourneyFinish DEF NodeStep, Finishes
  <1>4. ASSUME NEW n \in Nodes, NodeStops(n) PROVE Journey'
    BY <1>4, JourneyStops
  <1>5. ASSUME NEW c \in Conns, NEW k \in Commands, NEW kind \in Answers,
               ChargerAnswers(c, k, kind)
        PROVE  Journey'
    BY <1>5, JourneyAnswer
  <1> QED BY <1>1, <1>2, <1>3, <1>4, <1>5, JourneyQuiet DEF Next

LEMMA JourneyAlways == Spec => [](SenderOK /\ Journey)
  <1>1. Init => SenderOK
    BY DEF Init, SenderOK
  <1>2. TypeOK /\ SenderOK /\ [Next]_vars => SenderOK'
    BY FinalStep
  <1> QED BY <1>1, <1>2, JourneyInit, JourneyNext, TypeCorrect, BaseAlways, PTL DEF Spec

\* The command log never turns an answer into its opposite: accepted means
\* that the very charger the command was sent to answered that very call with
\* a CallResult, and a command so answered is logged rejected only if its
\* msg.respond raised, through stale presence records, node crashes,
\* reconnects, late and duplicate frames.
THEOREM LogIsTheChargersVerdict == Spec => []VerdictIsTheChargers
  <1>1. Journey => VerdictIsTheChargers
    BY DEF Journey, LoggedOK, RepliesOK, AnswersOK, ReceiptsOK, Refusable, VerdictIsTheChargers
  <1> QED BY <1>1, JourneyAlways, PTL

-----------------------------------------------------------------------------
(* A node that was free answers before the requester gives up. *)

\* k is next on the node it was sent to, and no time has passed since.
NextInLine(k, n) ==
    queue[n] # <<>> /\ NextCmd(n) = k /\ job[n] = Idle /\ sendTimer[k] = SendTimeout

\* The node works on k and will give up before the requester does.
WorkedInTime(k, n) == job[n] # Idle /\ job[n].cmd = k /\ sendTimer[k] > nodeTimer[n]

InTime(k) ==
    /\ log[k] # "none" /\ target[k] \in [charger : Chargers, node : Nodes] /\ up[target[k].node]
    /\ log[k] = "timed_out" => reply[k] = "timed_out"
    /\ sender[k] = "waiting" =>
          /\ sendTimer[k] > 0
          /\ reply[k] # "none" \/ NextInLine(k, target[k].node) \/ WorkedInTime(k, target[k].node)

AloneInTime == \A k \in alone \ unsent : InTime(k)

\* Nothing that k depends on changes.
LEMMA InTimeStays ==
    ASSUME NEW k, InTime(k), NEW n, n = target[k].node,
           log'[k] = log[k], target'[k] = target[k], sender'[k] = sender[k], sendTimer'[k] = sendTimer[k],
           reply'[k] = reply[k], up'[n] = up[n], job'[n] = job[n], nodeTimer'[n] = nodeTimer[n],
           queue[n] # <<>> => queue'[n] # <<>> /\ Head(queue'[n]) = Head(queue[n])
    PROVE  InTime(k)'
  BY DEF InTime, NextInLine, WorkedInTime, NextCmd

\* Sockets come and go, chargers answer, nodes start.
LEMMA InTimeSockets ==
    ASSUME AloneInTime, UNCHANGED <<log, target, sender, sendTimer, reply, job, nodeTimer, queue, alone, unsent>>,
           \A n \in Nodes : up[n] => up'[n]
    PROVE  AloneInTime'
  BY DEF AloneInTime, InTime, NextInLine, WorkedInTime, NextCmd

\* The requester's own steps: one that is alone never runs into its timeout.
LEMMA InTimeSender ==
    ASSUME Base, SenderOK, AloneInTime, NEW k \in Commands, SendOffline(k) \/ SenderStep(k) \/ RequestRaises(k)
    PROVE  AloneInTime'
  <1>1. UNCHANGED <<target, sendTimer, reply, job, nodeTimer, queue, up, alone, unsent>>
    BY DEF SendOffline, SenderStep, RequestRaises, ReceiveReply, RequestTimesOut, MarkResponded, serveVars, socketVars
  <1>2. \A j \in Commands : j # k => log'[j] = log[j] /\ sender'[j] = sender[j]
    BY DEF SendOffline, SenderStep, RequestRaises, ReceiveReply, RequestTimesOut, MarkResponded, Base, TypeOK
  <1>3. ASSUME NEW j \in alone \ unsent PROVE InTime(j)'
    <2>1. j \in Commands /\ InTime(j)
      BY DEF AloneInTime, Base, TypeOK
    <2>2. CASE j # k
      BY <1>1, <1>2, <2>1, <2>2 DEF InTime, NextInLine, WorkedInTime, NextCmd
    <2>3. CASE j = k
      <3>1. sender'[k] # "waiting"
        BY DEF SendOffline, SenderStep, RequestRaises, ReceiveReply, RequestTimesOut, MarkResponded, Base, TypeOK
      <3>2. log'[k] # "none" /\ (log'[k] = "timed_out" => reply[k] = "timed_out")
        <4>1. CASE SendOffline(k)
          BY <2>1, <2>3, <4>1 DEF SendOffline, InTime
        <4>2. CASE RequestRaises(k)
          BY <2>1, <2>3, <4>2 DEF RequestRaises, InTime
        <4>3. CASE ReceiveReply(k)
          BY <4>3 DEF ReceiveReply, MarkResponded, Base, TypeOK
        <4>4. CASE RequestTimesOut(k)
          BY <2>1, <2>3, <4>4 DEF RequestTimesOut, InTime
        <4> QED BY <4>1, <4>2, <4>3, <4>4 DEF SenderStep
      <3> QED BY <1>1, <2>1, <2>3, <3>1, <3>2 DEF InTime
    <2> QED BY <2>2, <2>3
  <1> QED BY <1>1, <1>3 DEF AloneInTime

\* A command that meets a free node is next in line there.
LEMMA InTimeSend ==
    ASSUME Base, AloneInTime, NEW k \in Commands, NEW h \in Chargers, NEW n \in Nodes, SendCommand(k, h, n)
    PROVE  AloneInTime'
  <1>1. /\ log[k] = "none" /\ target' = [target EXCEPT ![k] = [charger |-> h, node |-> n]]
        /\ UNCHANGED <<reply, job, nodeTimer, up, unsent>>
    BY DEF SendCommand, socketVars
  <1>2. k \notin alone \ unsent
    BY <1>1 DEF AloneInTime, InTime
  <1>3. CASE /\ up[n] /\ log' = [log EXCEPT ![k] = "pending"] /\ sender' = [sender EXCEPT ![k] = "waiting"]
             /\ sendTimer' = [sendTimer EXCEPT ![k] = SendTimeout] /\ queue' = [queue EXCEPT ![n] = Append(@, k)]
             /\ alone' = IF queue[n] = <<>> /\ job[n] = Idle THEN alone \cup {k} ELSE alone
    <2>1. queue[n] \in Seq(Commands) /\ queue'[n] = Append(queue[n], k) /\ \A m \in Nodes : m # n => queue'[m] = queue[m]
      BY <1>3 DEF Base, TypeOK
    <2>2. /\ \A m \in Nodes : queue[m] # <<>> => queue'[m] # <<>> /\ Head(queue'[m]) = Head(queue[m])
          /\ queue[n] = <<>> => queue'[n] # <<>> /\ Head(queue'[n]) = k
      BY <2>1
    <2>3. ASSUME NEW j \in alone \ unsent PROVE InTime(j)'
      <3>1. j \in Commands /\ j # k /\ InTime(j) /\ target[j].node \in Nodes
        BY <1>2 DEF AloneInTime, InTime, Base, TypeOK
      <3>2. log'[j] = log[j] /\ target'[j] = target[j] /\ sender'[j] = sender[j] /\ sendTimer'[j] = sendTimer[j]
        BY <1>1, <1>3, <3>1 DEF Base, TypeOK
      <3> QED BY <1>1, <2>2, <3>1, <3>2, InTimeStays
    <2>4. CASE queue[n] = <<>> /\ job[n] = Idle
      <3>1. /\ log'[k] = "pending" /\ target'[k] = [charger |-> h, node |-> n] /\ sendTimer'[k] = SendTimeout
            /\ up'[n] /\ job'[n] = Idle /\ queue'[n] # <<>> /\ Head(queue'[n]) = k
        BY <1>1, <1>3, <2>2, <2>4 DEF Base, TypeOK
      <3>2. InTime(k)'
        BY <3>1, TimeoutAssumption DEF InTime, NextInLine, NextCmd
      <3> QED BY <1>1, <1>3, <2>3, <3>2 DEF AloneInTime
    <2>5. CASE ~(queue[n] = <<>> /\ job[n] = Idle)
      BY <1>1, <1>3, <2>3, <2>5 DEF AloneInTime
    <2> QED BY <2>4, <2>5
  <1>4. CASE log' = [log EXCEPT ![k] = "rejected"] /\ sender' = [sender EXCEPT ![k] = "done"] /\ UNCHANGED <<sendTimer, queue, alone>>
    <2>1. ASSUME NEW j \in alone \ unsent PROVE InTime(j)'
      <3>1. j \in Commands /\ j # k /\ InTime(j)
        BY <1>2 DEF AloneInTime, Base, TypeOK
      <3>2. log'[j] = log[j] /\ target'[j] = target[j] /\ sender'[j] = sender[j]
        BY <1>1, <1>4, <3>1 DEF Base, TypeOK
      <3> QED BY <1>1, <1>4, <3>1, <3>2, InTimeStays
    <2> QED BY <1>1, <1>4, <2>1 DEF AloneInTime
  <1> QED BY <1>3, <1>4, Zenon DEF SendCommand

\* A reply to k, which was unanswered, ends its wait on the node.
LEMMA InTimeReplies ==
    ASSUME Base, AloneInTime, NEW n \in Nodes, NEW k \in Commands, NEW v,
           reply[k] = "none", ReplyStep(k, v), v \in Outcomes \/ k \in unsent',
           UNCHANGED <<log, sender, sendTimer, target, up, alone>>,
           \A m \in Nodes : m # n => job'[m] = job[m] /\ queue'[m] = queue[m] /\ nodeTimer'[m] = nodeTimer[m],
           \A j : j # k => ~NextInLine(j, n) /\ ~WorkedInTime(j, n)
    PROVE  AloneInTime'
  <1>0. /\ reply'[k] = v /\ \A j \in Commands : j # k => reply'[j] = reply[j]
        /\ unsent \subseteq unsent'
    BY ReplyTypes DEF Base
  <1>1. ASSUME NEW j \in alone \ unsent' PROVE InTime(j)'
    <2>1. j \in Commands /\ InTime(j) /\ target[j].node \in Nodes
      BY <1>0 DEF AloneInTime, InTime, Base, TypeOK
    <2>2. CASE j = k
      <3>1. reply'[k] # "none" /\ log[k] # "timed_out"
        BY <1>0, <1>1, <2>1, <2>2 DEF InTime
      <3> QED BY <2>1, <2>2, <3>1 DEF InTime
    <2>3. CASE j # k /\ target[j].node = n
      <3>1. reply'[j] = reply[j] /\ (sender[j] = "waiting" => reply[j] # "none")
        BY <1>0, <2>1, <2>3 DEF InTime
      <3> QED BY <2>1, <3>1 DEF InTime
    <2>4. CASE j # k /\ target[j].node # n
      <3>1. reply'[j] = reply[j]
        BY <1>0, <2>1, <2>4
      <3> QED BY <2>1, <2>4, <3>1, InTimeStays
    <2> QED BY <2>2, <2>3, <2>4
  <1> QED BY <1>1 DEF AloneInTime

LEMMA InTimeRefused ==
    ASSUME Base, Journey, AloneInTime, NEW n \in Nodes, HandleNoConnection(n) \/ HandleSendFails(n)
    PROVE  AloneInTime'
  <1> DEFINE k == NextCmd(n)
  <1>1. /\ queue[n] # <<>> /\ job[n] = Idle /\ queue' = [queue EXCEPT ![n] = Tail(@)]
        /\ Respond(k, "rejected")
        /\ UNCHANGED <<log, sender, sendTimer, target, job, nodeTimer, up, alone>>
    BY DEF HandleNoConnection, HandleSendFails, senderVars, socketVars, NextCmd
  <1>2. k \in Commands /\ Untouched(k)
    BY <1>1, JourneyDequeue
  <1>3. \A j : j # k => ~NextInLine(j, n) /\ ~WorkedInTime(j, n)
    BY <1>1 DEF NextInLine, WorkedInTime
  <1>4. \A m \in Nodes : m # n => job'[m] = job[m] /\ queue'[m] = queue[m] /\ nodeTimer'[m] = nodeTimer[m]
    BY <1>1 DEF Base, TypeOK
  <1>5. PICK w : ReplyStep(k, w) /\ (w = "rejected" \/ k \in unsent')
    BY <1>1, <1>2, RespondFacts DEF Base
  <1>6. reply[k] = "none"
    BY <1>2 DEF Untouched
  <1> HIDE DEF k
  <1> QED BY <1>1, <1>2, <1>3, <1>4, <1>5, <1>6, InTimeReplies

\* send_call starts with the whole of its own, shorter, timeout.
LEMMA InTimeSendCall ==
    ASSUME NodeTimeout < SendTimeout, Base, Journey, AloneInTime, NEW n \in Nodes, HandleSendCall(n)
    PROVE  AloneInTime'
  <1> DEFINE k == NextCmd(n)
             c == NextConn(n)
  <1>1. /\ job[n] = Idle /\ queue[n] # <<>> /\ queue' = [queue EXCEPT ![n] = Tail(@)]
        /\ k \in Commands /\ c \in Conns
        /\ job' = [job EXCEPT ![n] = [cmd |-> k, conn |-> c]]
        /\ nodeTimer' = [nodeTimer EXCEPT ![n] = NodeTimeout]
        /\ UNCHANGED <<log, sender, sendTimer, target, reply, up, alone, unsent>>
    BY SendCallFacts
  <1> HIDE DEF k, c
  <1>2. job'[n] = [cmd |-> k, conn |-> c] /\ nodeTimer'[n] = NodeTimeout
    BY <1>1 DEF Base, TypeOK
  <1>3. job'[n] # Idle /\ job'[n].cmd = k
    <2>1. c # NoConn
      BY <1>1, ConnAssumption
    <2> QED BY <1>2, <2>1 DEF Idle
  <1>4. ASSUME NEW j \in alone \ unsent PROVE InTime(j)'
    <2>1. j \in Commands /\ InTime(j) /\ target[j].node \in Nodes
      BY DEF AloneInTime, InTime, Base, TypeOK
    <2>2. CASE target[j].node # n
      <3>1. \A m \in Nodes : m # n => job'[m] = job[m] /\ queue'[m] = queue[m] /\ nodeTimer'[m] = nodeTimer[m]
        BY <1>1 DEF Base, TypeOK
      <3> QED BY <1>1, <2>1, <2>2, <3>1, InTimeStays
    <2>3. CASE target[j].node = n /\ j = k
      <3>1. sender[j] = "waiting" => reply[j] # "none" \/ sendTimer[j] = SendTimeout
        BY <1>1, <2>1, <2>3 DEF InTime, NextInLine, WorkedInTime
      <3>2. sendTimer[j] = SendTimeout => WorkedInTime(j, n)'
        BY <1>1, <1>2, <1>3, <2>3, TimeoutAssumption DEF WorkedInTime
      <3> QED BY <1>1, <2>1, <2>3, <3>1, <3>2 DEF InTime
    <2>4. CASE target[j].node = n /\ j # k
      <3>1. sender[j] = "waiting" => reply[j] # "none"
        BY <1>1, <2>1, <2>4 DEF InTime, NextInLine, WorkedInTime, k
      <3> QED BY <1>1, <2>1, <3>1 DEF InTime
    <2> QED BY <2>2, <2>3, <2>4
  <1> QED BY <1>1, <1>4 DEF AloneInTime

LEMMA InTimeFinish ==
    ASSUME Base, Journey, AloneInTime, NEW n \in Nodes, Finishes(n)
    PROVE  AloneInTime'
  <1>1. /\ job[n] # Idle /\ job[n] \in [cmd : Commands, conn : Conns]
        /\ job' = [job EXCEPT ![n] = Idle] /\ nodeTimer' = [nodeTimer EXCEPT ![n] = 0]
        /\ UNCHANGED <<log, sender, sendTimer, target, queue, up, alone>>
    BY FinishFacts
  <1>2. PICK v : ReplyStep(job[n].cmd, v) /\ (v \in Outcomes \/ job[n].cmd \in unsent')
    BY FinishFacts DEF Honest
  <1>3. PICK k \in Commands : k = job[n].cmd
    BY <1>1
  <1>4. reply[k] = "none"
    BY <1>1, <1>3 DEF Journey, WorkingOK
  <1>5. \A j : j # k => ~NextInLine(j, n) /\ ~WorkedInTime(j, n)
    BY <1>1, <1>3 DEF NextInLine, WorkedInTime
  <1>6. \A m \in Nodes : m # n => job'[m] = job[m] /\ queue'[m] = queue[m] /\ nodeTimer'[m] = nodeTimer[m]
    BY <1>1 DEF Base, TypeOK
  <1> QED BY <1>1, <1>2, <1>3, <1>4, <1>5, <1>6, InTimeReplies

LEMMA InTimeStops ==
    ASSUME Base, AloneInTime, NEW n \in Nodes, NodeStops(n)
    PROVE  AloneInTime'
  <1>1. /\ UNCHANGED <<log, sender, sendTimer, target, reply, unsent>>
        /\ \A j \in alone' \ unsent' : j \in alone \ unsent /\ target[j].node # n
    BY DEF NodeStops, senderVars
  <1>2. \A m \in Nodes : m # n => job'[m] = job[m] /\ queue'[m] = queue[m] /\ nodeTimer'[m] = nodeTimer[m] /\ up'[m] = up[m]
    BY DEF NodeStops, Base, TypeOK
  <1>3. ASSUME NEW j \in alone' \ unsent' PROVE InTime(j)'
    <2>1. InTime(j) /\ target[j].node \in Nodes /\ target[j].node # n
      BY <1>1 DEF AloneInTime, InTime
    <2> QED BY <1>1, <1>2, <2>1, InTimeStays
  <1> QED BY <1>3 DEF AloneInTime

\* Time passes for both timers at once, and not before the loops have run.
LEMMA InTimeTick ==
    ASSUME Base, AloneInTime, Tick
    PROVE  AloneInTime'
  <1>1. /\ ~Urgent /\ UNCHANGED <<log, sender, target, queue, job, reply, up, alone, unsent>>
        /\ sendTimer' = [k \in Commands |-> IF sender[k] = "waiting" THEN Dec(sendTimer[k]) ELSE 0]
        /\ nodeTimer' = [n \in Nodes |-> Dec(nodeTimer[n])]
    BY DEF Tick, socketVars
  <1>2. ASSUME NEW k \in alone \ unsent PROVE InTime(k)'
    <2>1. k \in Commands /\ InTime(k) /\ target[k].node \in Nodes
      BY DEF AloneInTime, InTime, Base, TypeOK
    <2>2. CASE sender[k] # "waiting"
      BY <1>1, <2>1, <2>2 DEF InTime
    <2>3. CASE sender[k] = "waiting"
      <3>1. PICK n \in Nodes : n = target[k].node
        BY <2>1
      <3>2. reply[k] = "none" /\ ~NextInLine(k, n)
        BY <1>1, <2>1, <2>3, <3>1 DEF Urgent, InTime, NextInLine
      <3>3. WorkedInTime(k, n) /\ nodeTimer[n] # 0
        BY <1>1, <2>1, <2>3, <3>1, <3>2 DEF Urgent, InTime, WorkedInTime
      <3>4. sendTimer[k] \in Nat /\ nodeTimer[n] \in Nat
        BY <2>1, TimeoutAssumption DEF Base, TypeOK
      <3>5. sendTimer'[k] = sendTimer[k] - 1 /\ nodeTimer'[n] = nodeTimer[n] - 1
        BY <1>1, <2>1, <2>3, <3>3, <3>4 DEF Dec, WorkedInTime
      <3>6. sendTimer'[k] > 0 /\ sendTimer'[k] > nodeTimer'[n]
        BY <3>3, <3>4, <3>5 DEF WorkedInTime
      <3> QED BY <1>1, <2>1, <3>1, <3>3, <3>6 DEF InTime, WorkedInTime
    <2> QED BY <2>2, <2>3
  <1> QED BY <1>1, <1>2 DEF AloneInTime

LEMMA InTimeNext ==
    ASSUME NodeTimeout < SendTimeout, Base, SenderOK, Journey, AloneInTime, [Next]_vars
    PROVE  AloneInTime'
  <1>1. ASSUME NEW c \in Conns, \/ PeerVanishes(c) \/ SocketCloses(c)
                                \/ \E h \in Chargers, n \in Nodes : Connect(c, h, n)
                                \/ \E k \in Commands, kind \in Answers : ChargerAnswers(c, k, kind)
        PROVE  AloneInTime'
    <2>1. UNCHANGED <<log, target, sender, sendTimer, reply, job, nodeTimer, queue, alone, up, unsent>>
      BY <1>1 DEF PeerVanishes, SocketCloses, Connect, ChargerAnswers, senderVars, serveVars, socketVars
    <2> QED BY <2>1, InTimeSockets
  <1>2. ASSUME NEW n \in Nodes, NodeStarts(n) PROVE AloneInTime'
    <2>1. UNCHANGED <<log, target, sender, sendTimer, reply, job, nodeTimer, queue, alone, unsent>> /\ \A m \in Nodes : up[m] => up'[m]
      BY <1>2 DEF NodeStarts, senderVars, serveVars, Base, TypeOK
    <2> QED BY <2>1, InTimeSockets
  <1>3. CASE UNCHANGED vars
    BY <1>3, InTimeSockets DEF vars
  <1>4. ASSUME NEW n \in Nodes, NodeStep(n) PROVE AloneInTime'
    BY <1>4, InTimeRefused, InTimeSendCall, InTimeFinish DEF NodeStep, Finishes
  <1> QED BY <1>1, <1>2, <1>3, <1>4, InTimeSender, InTimeSend, InTimeStops, InTimeTick DEF Next

\* NodeAnswersFirst, for any number of commands and nodes: send_call's timeout
\* is enough, being the shorter one (25 s against the service's 30 s), for a
\* command that found its node idle to be logged with that node's own verdict,
\* whatever queues up behind it and whatever the charger does.
THEOREM FreeNodeAnswersFirst == NodeTimeout < SendTimeout => (Spec => []NodeAnswersFirst)
  <1> SUFFICES ASSUME NodeTimeout < SendTimeout PROVE Spec => []NodeAnswersFirst
    OBVIOUS
  <1>1. Init => AloneInTime
    BY DEF Init, AloneInTime
  <1>2. Base /\ SenderOK /\ Journey /\ AloneInTime /\ [Next]_vars => AloneInTime'
    BY InTimeNext
  <1>3. AloneInTime => NodeAnswersFirst
    BY DEF AloneInTime, InTime, NodeAnswersFirst
  <1> QED BY <1>1, <1>2, <1>3, JourneyAlways, BaseAlways, PTL DEF Spec
=============================================================================
