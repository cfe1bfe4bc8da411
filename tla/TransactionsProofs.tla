------------------------- MODULE TransactionsProofs --------------------------
(* What holds of ChargeTransactions for any number of sockets, chargers,        *)
(* transactions and readings, any batch size and either repository: handlers    *)
(* that interleave in MeterValueBuffer.flush neither lose nor repeat a reading, *)
(* and in memory a stop closes a transaction out once.                          *)
EXTENDS ChargeTransactions, FiniteSetTheorems, TLAPS

TaskSet == [pc : {"receive", "flushing", "stopping", "patching", "publishing", "closed"},
            txn : Txns \cup {NoTxn}, rows : SUBSET Readings, then : {"receive", "latest", "stop"},
            reading : Readings \cup {0}]

\* TypeOK, and the shape of what it leaves out.
Types ==
    /\ backend \in Backends /\ failed \in BOOLEAN
    /\ task \in [Sockets -> TaskSet]
    /\ status \in [Txns -> {"none", "active", "completed"}]
    /\ charger \in [Txns -> Chargers \cup {"unset"}]
    /\ newest \in [Chargers -> Txns \cup {NoTxn}] /\ active \in [Chargers -> Txns \cup {NoTxn}]
    /\ buffer \subseteq Readings /\ lost \subseteq Readings
    /\ readingOf \in [Readings -> Txns \cup {NoTxn}] /\ written \in [Readings -> Nat]
    /\ stopping \subseteq Txns /\ trailing \in [Txns -> SUBSET Readings]
    /\ closeOuts \in [Txns -> Nat] /\ stopEvents \in [Txns -> Nat]

\* A task's batch is gone when it leaves the flush, and in memory at once; a
\* task in or before the stop handler works for a transaction that is stopping.
TaskOK(q) ==
    /\ q.pc # "flushing" => q.rows = {}
    /\ q.pc \in {"stopping", "patching", "publishing"} => q.txn \in stopping
    /\ q.pc = "patching" => status[q.txn] # "none"
    /\ q.pc = "flushing" => q.txn \in Txns /\ (q.then = "stop" => q.txn \in stopping)
    /\ backend = "memory" => q.rows = {} /\ q.pc # "patching"

TasksOK ==
    /\ \A s \in Sockets : TaskOK(task[s])
    /\ backend = "memory" => lost = {}
    /\ \A t \in Txns : status[t] # "none" => charger[t] \in Chargers

Holds(s, r) == r \in task[s].rows

\* A reading that was taken in is in one place, one that was not is in none.
Placed(r) ==
    /\ written[r] \in {0, 1}
    /\ r \in buffer => written[r] = 0 /\ r \notin lost /\ \A s \in Sockets : ~Holds(s, r)
    /\ r \in lost => written[r] = 0 /\ \A s \in Sockets : ~Holds(s, r)
    /\ \A s \in Sockets : Holds(s, r) => written[r] = 0 /\ \A u \in Sockets : Holds(u, r) => u = s
    /\ readingOf[r] = NoTxn => r \notin buffer /\ r \notin lost /\ written[r] = 0 /\ \A s \in Sockets : ~Holds(s, r)
    /\ readingOf[r] # NoTxn => r \in buffer \/ r \in lost \/ written[r] = 1 \/ \E s \in Sockets : Holds(s, r)

PlacedOnce == \A r \in Readings : Placed(r)

\* What was accepted before a stop has left the buffer and does not come back.
TrailingLeft ==
    /\ \A t \in Txns : closeOuts[t] > 0 => t \in stopping
    /\ \A t \in stopping : \A r \in trailing[t] :
          readingOf[r] # NoTxn /\ r \notin buffer /\ (backend = "memory" => written[r] > 0)

\* In memory a transaction is closed out when it becomes completed, and its one
\* event is published by the task that did it.
ClosedOnce ==
    backend = "memory" =>
        \A t \in Txns :
            /\ closeOuts[t] <= 1 /\ stopEvents[t] <= 1
            /\ status[t] # "completed" => closeOuts[t] = 0
            /\ closeOuts[t] = 0 => stopEvents[t] = 0
            /\ \A s \in Sockets : task[s].pc = "publishing" /\ task[s].txn = t =>
                  /\ closeOuts[t] > 0 /\ stopEvents[t] = 0
                  /\ \A u \in Sockets : task[u].pc = "publishing" /\ task[u].txn = t => u = s

SlotShowsNewest ==
    backend = "memory" =>
        \A h \in Chargers, t \in Txns : newest[h] = t /\ status[t] = "active" => active[h] = t

\* The newest transaction of a charger has been started.
NewestStarted == \A h \in Chargers : newest[h] \in Txns => status[newest[h]] # "none"

CtInv == Types /\ TasksOK /\ PlacedOnce /\ TrailingLeft /\ ClosedOnce /\ SlotShowsNewest /\ NewestStarted

LEMMA RestingTasks ==
    /\ Receiving \in TaskSet /\ Receiving.pc = "receive" /\ Receiving.rows = {} /\ TaskOK(Receiving)
    /\ Closed \in TaskSet /\ Closed.pc = "closed" /\ Closed.rows = {} /\ TaskOK(Closed)
  <1>1. Receiving \in TaskSet /\ Receiving.pc = "receive" /\ Receiving.rows = {}
    BY DEF Receiving, TaskSet
  <1>2. Closed \in TaskSet /\ Closed.pc = "closed" /\ Closed.rows = {}
    BY <1>1 DEF Closed, TaskSet
  <1> QED
    BY <1>1, <1>2 DEF TaskOK

LEMMA CtInvInit == Init => CtInv
  <1> SUFFICES ASSUME Init PROVE CtInv
    OBVIOUS
  <1> USE DEF Init
  <1>1. \A s \in Sockets : task[s] = Receiving
    OBVIOUS
  <1>2. Types
    BY RestingTasks DEF Types
  <1>3. TasksOK
    BY <1>1, RestingTasks DEF TasksOK
  <1>4. PlacedOnce
    BY <1>1, RestingTasks DEF PlacedOnce, Placed, Holds
  <1>5. TrailingLeft /\ ClosedOnce /\ SlotShowsNewest /\ NewestStarted
    BY <1>1, RestingTasks, TransactionsAssumption DEF TrailingLeft, ClosedOnce, SlotShowsNewest, NewestStarted
  <1> QED
    BY <1>2, <1>3, <1>4, <1>5 DEF CtInv

\* One task is replaced by q.
LEMMA OneTask ==
    ASSUME Types, NEW s \in Sockets, NEW q \in TaskSet, task' = [task EXCEPT ![s] = q]
    PROVE  task' \in [Sockets -> TaskSet] /\ task'[s] = q /\ \A u \in Sockets : u # s => task'[u] = task[u]
  BY DEF Types

\* A reading stays placed when nothing that places it changes.
LEMMA StaysPlaced ==
    ASSUME NEW r, Placed(r), written'[r] = written[r], (readingOf'[r] = NoTxn) <=> (readingOf[r] = NoTxn),
           (r \in buffer') <=> (r \in buffer), (r \in lost') <=> (r \in lost),
           \A u \in Sockets : (r \in task'[u].rows) <=> (r \in task[u].rows)
    PROVE  Placed(r)'
  BY DEF Placed, Holds

\* No reading moves while the batches, the buffer and the sink stay as they are.
LEMMA NothingMoves ==
    ASSUME PlacedOnce, UNCHANGED <<buffer, readingOf, written, lost>>,
           \A u \in Sockets : task'[u].rows = task[u].rows
    PROVE  PlacedOnce'
  <1>1. ASSUME NEW r \in Readings PROVE Placed(r)'
    BY StaysPlaced DEF PlacedOnce
  <1> QED
    BY <1>1 DEF PlacedOnce

\* A batch B leaves the buffer for a task or, in memory, for the sink.
LEMMA BatchMoves ==
    ASSUME CtInv, NEW s \in Sockets, NEW B \in SUBSET Readings,
           \A p \in B : p \in buffer \/ readingOf[p] = NoTxn, buffer \subseteq B, buffer' = {}, lost' = lost,
           task[s].rows = {}, task'[s].rows = (IF backend = "memory" THEN {} ELSE B),
           \A u \in Sockets : u # s => task'[u] = task[u],
           \A p \in Readings : written'[p] = IF backend = "memory" /\ p \in B THEN written[p] + 1 ELSE written[p],
           \A p \in Readings : (readingOf'[p] = NoTxn) <=> (readingOf[p] = NoTxn /\ p \notin B)
    PROVE  PlacedOnce'
  <1>1. ASSUME NEW p \in Readings PROVE Placed(p)'
    <2>1. Placed(p) /\ (backend = "memory" => p \notin lost)
      BY DEF CtInv, PlacedOnce, TasksOK
    <2>2. CASE p \notin B
      <3>1. p \notin buffer /\ p \notin buffer' /\ written'[p] = written[p]
        BY <2>2
      <3>2. \A u \in Sockets : (p \in task'[u].rows) <=> (p \in task[u].rows)
        BY <2>2
      <3> QED
        BY <2>1, <2>2, <3>1, <3>2, StaysPlaced
    <2>3. CASE p \in B
      <3>1. p \notin lost /\ written[p] = 0 /\ \A u \in Sockets : p \notin task[u].rows
        BY <2>1, <2>3 DEF Placed, Holds
      <3>2. p \notin buffer' /\ p \notin lost' /\ readingOf'[p] # NoTxn
        BY <2>3, <3>1
      <3>3. CASE backend = "memory"
        <4>1. written'[p] = 1 /\ \A u \in Sockets : p \notin task'[u].rows
          BY <2>3, <3>1, <3>3
        <4> QED
          BY <3>2, <4>1 DEF Placed, Holds
      <3>4. CASE backend # "memory"
        <4>1. written'[p] = 0 /\ p \in task'[s].rows /\ \A u \in Sockets : p \in task'[u].rows => u = s
          BY <2>3, <3>1, <3>4
        <4> QED
          BY <3>2, <4>1 DEF Placed, Holds
      <3> QED
        BY <3>3, <3>4
    <2> QED
      BY <2>2, <2>3
  <1> QED
    BY <1>1 DEF PlacedOnce

\* Nothing is closed out or published, and no task starts publishing.
LEMMA StaysClosed ==
    ASSUME ClosedOnce, UNCHANGED <<backend, closeOuts, stopEvents>>,
           \A t \in Txns : status'[t] # "completed" => status[t] # "completed",
           \A u \in Sockets : task'[u].pc = "publishing" => task'[u] = task[u]
    PROVE  ClosedOnce'
  BY DEF ClosedOnce

\* A task leaves its handler, and nothing else happens.
LEMMA CtLeaves ==
    ASSUME CtInv, NEW s \in Sockets, StopUnknown(s) \/ StopAlreadyStopped(s) \/ StopFails(s) \/ Reconnect(s)
    PROVE  CtInv'
  <1> USE TransactionsAssumption DEF CtInv
  <1>a. /\ UNCHANGED <<backend, status, charger, newest, active, closeOuts, buffer, readingOf, written, lost, stopping, trailing, stopEvents>> /\ failed' \in BOOLEAN
        /\ task[s].pc # "flushing"
    BY DEF announceVars, StopUnknown, StopAlreadyStopped, StopFails, Reconnect, recordVars, meterVars, Types
  <1>b. PICK q \in TaskSet : /\ q.pc \in {"receive", "closed"} /\ q.rows = {}
                             /\ task' \in [Sockets -> TaskSet] /\ task'[s] = q
                             /\ \A u \in Sockets : u # s => task'[u] = task[u]
    BY RestingTasks, OneTask DEF StopUnknown, StopAlreadyStopped, StopFails, Reconnect
  <1>1. Types'
    BY <1>a, <1>b DEF Types
  <1>2. TasksOK'
    BY <1>a, <1>b DEF Types, TasksOK, TaskOK
  <1>3. PlacedOnce'
    <2>1. \A u \in Sockets : task'[u].rows = task[u].rows
      BY <1>a, <1>b DEF TasksOK, TaskOK
    <2> QED
      BY <1>a, <2>1, NothingMoves
  <1>4. TrailingLeft'
    BY <1>a, <1>b DEF Types, TasksOK, TaskOK, PlacedOnce, Placed, TrailingLeft, Holds
  <1>5. ClosedOnce'
    <2>1. \A u \in Sockets : task'[u].pc = "publishing" => task'[u] = task[u]
      BY <1>b
    <2> QED
      BY <1>a, <2>1, StaysClosed
  <1>6. SlotShowsNewest'
    BY <1>a, <1>b DEF Types, SlotShowsNewest
  <1>7. NewestStarted'
    BY <1>a DEF Types, NewestStarted
  <1> QED
    BY <1>1, <1>2, <1>3, <1>4, <1>5, <1>6, <1>7

LEMMA CtStarts ==
    ASSUME CtInv, NEW s \in Sockets, NEW t \in Txns, StartTransaction(s, t) \/ StartFails(s, t)
    PROVE  CtInv'
  <1> USE TransactionsAssumption DEF CtInv
  <1>a. UNCHANGED <<backend, closeOuts, buffer, readingOf, written, lost, stopping, trailing, stopEvents>> /\ failed' \in BOOLEAN /\ status[t] = "none" /\ task[s].pc = "receive"
    BY DEF announceVars, StartTransaction, StartFails, meterVars, Types
  <1>b. /\ task' \in [Sockets -> TaskSet] /\ task'[s].pc \in {"receive", "closed"} /\ task'[s].rows = {}
        /\ \A u \in Sockets : u # s => task'[u] = task[u]
    BY RestingTasks, OneTask DEF StartTransaction, StartFails, Types, TasksOK, TaskOK
  <1>c. \/ UNCHANGED <<status, charger, newest, active>>
        \/ /\ status' = [status EXCEPT ![t] = "active"] /\ charger' = [charger EXCEPT ![t] = ChargerOf[s]]
           /\ newest' = [newest EXCEPT ![ChargerOf[s]] = t]
           /\ active' = IF backend = "memory" THEN [active EXCEPT ![ChargerOf[s]] = t] ELSE active
    BY DEF StartTransaction, StartFails
  <1>1. Types'
    BY <1>a, <1>b, <1>c DEF Types
  <1>2. TasksOK'
    BY <1>a, <1>b, <1>c DEF Types, TasksOK, TaskOK
  <1>3. PlacedOnce'
    <2>1. \A u \in Sockets : task'[u].rows = task[u].rows
      BY <1>a, <1>b DEF TasksOK, TaskOK
    <2> QED
      BY <1>a, <2>1, NothingMoves
  <1>4. TrailingLeft'
    BY <1>a, <1>b, <1>c DEF Types, TasksOK, TaskOK, PlacedOnce, Placed, TrailingLeft, Holds
  <1>5. ClosedOnce'
    <2>1. \A u \in Sockets : task'[u].pc = "publishing" => task'[u] = task[u]
      BY <1>b
    <2>2. \A u \in Txns : status'[u] # "completed" => status[u] # "completed"
      BY <1>a, <1>c DEF Types
    <2> QED
      BY <1>a, <2>1, <2>2, StaysClosed
  <1>6. SlotShowsNewest'
    <2>1. CASE UNCHANGED <<status, charger, newest, active>>
      BY <1>a, <2>1 DEF SlotShowsNewest
    <2>2. CASE backend = "memory" /\ status' = [status EXCEPT ![t] = "active"]
               /\ newest' = [newest EXCEPT ![ChargerOf[s]] = t] /\ active' = [active EXCEPT ![ChargerOf[s]] = t]
      <3>1. ASSUME NEW h \in Chargers, NEW u \in Txns, newest'[h] = u, status'[u] = "active" PROVE active'[h] = u
        <4>1. CASE h = ChargerOf[s]
          BY <2>2, <3>1, <4>1 DEF Types
        <4>2. CASE h # ChargerOf[s]
          <5>1. newest[h] = u /\ active'[h] = active[h]
            BY <2>2, <3>1, <4>2 DEF Types
          <5>2. CASE u # t
            BY <2>2, <3>1, <5>1, <5>2 DEF Types, SlotShowsNewest
          <5>3. CASE u = t
            BY <1>a, <5>1, <5>3 DEF NewestStarted
          <5> QED
            BY <5>2, <5>3
        <4> QED
          BY <4>1, <4>2
      <3> QED
        BY <3>1 DEF SlotShowsNewest
    <2>3. CASE backend # "memory"
      BY <1>a, <2>3 DEF SlotShowsNewest
    <2> QED
      BY <1>c, <2>1, <2>2, <2>3
  <1>7. NewestStarted'
    <2>1. CASE UNCHANGED <<status, charger, newest, active>>
      BY <2>1 DEF NewestStarted
    <2>2. CASE status' = [status EXCEPT ![t] = "active"] /\ newest' = [newest EXCEPT ![ChargerOf[s]] = t]
      BY <2>2 DEF Types, NewestStarted
    <2> QED
      BY <1>c, <2>1, <2>2
  <1> QED
    BY <1>1, <1>2, <1>3, <1>4, <1>5, <1>6, <1>7

LEMMA CtBuffers ==
    ASSUME CtInv, NEW s \in Sockets, NEW t \in Txns, NEW r \in Readings, MeterValuesBuffered(s, t, r)
    PROVE  CtInv'
  <1> USE TransactionsAssumption DEF CtInv
  <1>a. /\ UNCHANGED <<backend, failed, task, status, charger, newest, active, closeOuts, written, lost, stopping, trailing, stopEvents>>
        /\ readingOf[r] = NoTxn /\ readingOf' = [readingOf EXCEPT ![r] = t] /\ buffer' = buffer \cup {r}
    BY DEF announceVars, MeterValuesBuffered, recordVars
  <1>1. Types'
    BY <1>a DEF Types
  <1>2. TasksOK'
    BY <1>a DEF Types, TasksOK, TaskOK
  <1>3. PlacedOnce'
    <2>1. ASSUME NEW p \in Readings PROVE Placed(p)'
      <3>1. CASE p = r
        <4>1. p \notin lost /\ written[p] = 0 /\ \A u \in Sockets : p \notin task[u].rows
          BY <1>a, <3>1 DEF PlacedOnce, Placed, Holds
        <4>2. p \in buffer' /\ readingOf'[p] # NoTxn
          BY <1>a, <3>1 DEF Types
        <4> QED
          BY <1>a, <4>1, <4>2 DEF Placed, Holds
      <3>2. CASE p # r
        BY <1>a, <3>2, StaysPlaced DEF PlacedOnce, Types
      <3> QED
        BY <3>1, <3>2
    <2> QED
      BY <2>1 DEF PlacedOnce
  <1>4. TrailingLeft'
    BY <1>a DEF Types, TasksOK, TaskOK, PlacedOnce, Placed, TrailingLeft, Holds
  <1>5. ClosedOnce'
    BY <1>a DEF Types, TasksOK, TaskOK, ClosedOnce
  <1>6. SlotShowsNewest'
    BY <1>a DEF Types, SlotShowsNewest
  <1>7. NewestStarted'
    BY <1>a DEF Types, NewestStarted
  <1> QED
    BY <1>1, <1>2, <1>3, <1>4, <1>5, <1>6, <1>7

\* flush takes rows out of the buffer: in memory they are stored at once.
LEMMA TakenRows ==
    ASSUME Types, NEW rows \in SUBSET Readings, NEW s, NEW then, NEW t, NEW r, TakeRows(rows, s, then, t, r)
    PROVE  /\ buffer' = {} /\ written' \in [Readings -> Nat]
           /\ \A p \in Readings : written'[p] = IF backend = "memory" /\ p \in rows THEN written[p] + 1 ELSE written[p]
  BY DEF TakeRows, Types

\* The task flushes them on the way to the latest reading or to the stop.
FlushesWith(q, rows, s, then, t) ==
    /\ q.pc = "flushing" /\ q.txn = t /\ q.then = then
    /\ q.rows = (IF backend = "memory" THEN {} ELSE rows)
    /\ task' \in [Sockets -> TaskSet] /\ task'[s] = q
    /\ \A u \in Sockets : u # s => task'[u] = task[u]

LEMMA TakenTask ==
    ASSUME Types, NEW rows, rows \subseteq Readings, NEW s \in Sockets, NEW then, then = "latest" \/ then = "stop", NEW t \in Txns,
           NEW r, r \in Readings \/ r = 0, TakeRows(rows, s, then, t, r)
    PROVE  \E q \in TaskSet : FlushesWith(q, rows, s, then, t)
  <1>1. PICK q : q = [pc |-> "flushing", txn |-> t, rows |-> IF backend = "memory" THEN {} ELSE rows,
                      then |-> then, reading |-> r]
    OBVIOUS
  <1>2. /\ q \in TaskSet /\ q.pc = "flushing" /\ q.txn = t /\ q.then = then
        /\ q.rows = (IF backend = "memory" THEN {} ELSE rows)
    BY <1>1 DEF TaskSet
  <1>3. task' = [task EXCEPT ![s] = q]
    BY <1>1 DEF TakeRows
  <1> QED
    BY <1>2, <1>3, OneTask DEF FlushesWith

LEMMA CtFlushes ==
    ASSUME CtInv, NEW s \in Sockets, NEW t \in Txns, NEW r \in Readings, MeterValuesFlushing(s, t, r)
    PROVE  CtInv'
  <1> USE TransactionsAssumption DEF CtInv
  <1>a. /\ UNCHANGED <<backend, failed, status, charger, newest, active, closeOuts, lost, stopping, trailing, stopEvents>> /\ task[s].pc = "receive"
        /\ readingOf[r] = NoTxn /\ readingOf' = [readingOf EXCEPT ![r] = t]
    BY DEF announceVars, MeterValuesFlushing, recordVars
  <1>b. buffer \cup {r} \in SUBSET Readings /\ TakeRows(buffer \cup {r}, s, "latest", t, r)
    BY DEF MeterValuesFlushing, Types
  <1>c. /\ buffer' = {} /\ written' \in [Readings -> Nat]
        /\ \A p \in Readings : written'[p] = IF backend = "memory" /\ p \in buffer \cup {r} THEN written[p] + 1 ELSE written[p]
    <2> HIDE DEF CtInv
    <2> QED
      BY <1>b, TakenRows DEF CtInv
  <1>d. PICK q \in TaskSet : FlushesWith(q, buffer \cup {r}, s, "latest", t)
    <2>1. Types /\ buffer \cup {r} \subseteq Readings /\ TakeRows(buffer \cup {r}, s, "latest", t, r)
      BY DEF MeterValuesFlushing, Types
    <2> HIDE DEF CtInv
    <2> QED
      BY <2>1, TakenTask
  <1>1. Types'
    BY <1>a, <1>b, <1>c, <1>d DEF Types, FlushesWith
  <1>2. TasksOK'
    BY <1>a, <1>b, <1>c, <1>d DEF Types, TasksOK, TaskOK, FlushesWith
  <1>3. PlacedOnce'
    <2>1. \A p \in buffer \cup {r} : p \in buffer \/ readingOf[p] = NoTxn
      BY <1>a
    <2>2. task[s].rows = {}
      BY <1>a DEF TasksOK, TaskOK
    <2>3. \A p \in Readings : (readingOf'[p] = NoTxn) <=> (readingOf[p] = NoTxn /\ p \notin buffer \cup {r})
      BY <1>a DEF Types, PlacedOnce, Placed
    <2>4. buffer \subseteq buffer \cup {r} /\ lost' = lost
      BY <1>a
    <2> QED
      BY <1>b, <1>c, <1>d, <2>1, <2>2, <2>3, <2>4, BatchMoves DEF FlushesWith
  <1>4. TrailingLeft'
    BY <1>a, <1>b, <1>c, <1>d DEF Types, TasksOK, TaskOK, PlacedOnce, Placed, TrailingLeft, Holds, FlushesWith
  <1>5. ClosedOnce'
    <2>1. \A u \in Sockets : task'[u].pc = "publishing" => task'[u] = task[u]
      BY <1>d DEF FlushesWith
    <2> QED
      BY <1>a, <2>1, StaysClosed
  <1>6. SlotShowsNewest'
    BY <1>a, <1>b, <1>c, <1>d DEF Types, SlotShowsNewest, FlushesWith
  <1>7. NewestStarted'
    BY <1>a DEF Types, NewestStarted
  <1> QED
    BY <1>1, <1>2, <1>3, <1>4, <1>5, <1>6, <1>7

LEMMA CtWrites ==
    ASSUME CtInv, NEW s \in Sockets, NEW r \in Readings, WriteRow(s, r)
    PROVE  CtInv'
  <1> USE TransactionsAssumption DEF CtInv
  <1>a. /\ UNCHANGED <<backend, failed, status, charger, newest, active, closeOuts, buffer, readingOf, lost, stopping, trailing, stopEvents>>
        /\ task[s].pc = "flushing" /\ r \in task[s].rows /\ written' = [written EXCEPT ![r] = written[r] + 1]
    BY DEF announceVars, WriteRow, recordVars
  <1>b. PICK q \in TaskSet : /\ q.pc = "flushing" /\ q.txn = task[s].txn /\ q.then = task[s].then
                             /\ q.rows = task[s].rows \ {r}
                             /\ task' \in [Sockets -> TaskSet] /\ task'[s] = q
                             /\ \A u \in Sockets : u # s => task'[u] = task[u]
    <2>1. PICK q : q = [task[s] EXCEPT !.rows = task[s].rows \ {r}]
      OBVIOUS
    <2>2. task[s] \in TaskSet
      BY DEF Types
    <2>3. q \in TaskSet /\ q.pc = "flushing" /\ q.txn = task[s].txn /\ q.then = task[s].then /\ q.rows = task[s].rows \ {r}
      BY <1>a, <2>1, <2>2 DEF TaskSet
    <2>4. task' = [task EXCEPT ![s] = q]
      BY <2>1 DEF WriteRow
    <2> QED
      BY <2>3, <2>4, OneTask
  <1>1. Types'
    BY <1>a, <1>b DEF Types
  <1>2. TasksOK'
    BY <1>a, <1>b DEF Types, TasksOK, TaskOK
  <1>3. PlacedOnce'
    <2>1. ASSUME NEW p \in Readings PROVE Placed(p)'
      <3>1. CASE p = r
        <4>1. /\ p \notin buffer /\ p \notin lost /\ written[p] = 0 /\ readingOf[p] # NoTxn
              /\ \A u \in Sockets : p \in task[u].rows => u = s
          BY <1>a, <3>1 DEF PlacedOnce, Placed, Holds
        <4>2. written'[p] = 1
          BY <1>a, <3>1, <4>1 DEF Types
        <4>3. \A u \in Sockets : p \notin task'[u].rows
          BY <1>b, <3>1, <4>1
        <4> QED
          BY <1>a, <4>1, <4>2, <4>3 DEF Placed, Holds
      <3>2. CASE p # r
        <4>1. \A u \in Sockets : (p \in task'[u].rows) <=> (p \in task[u].rows)
          BY <1>b, <3>2
        <4>2. written'[p] = written[p]
          BY <1>a, <3>2 DEF Types
        <4> QED
          BY <1>a, <4>1, <4>2, StaysPlaced DEF PlacedOnce
      <3> QED
        BY <3>1, <3>2
    <2> QED
      BY <2>1 DEF PlacedOnce
  <1>4. TrailingLeft'
    BY <1>a, <1>b DEF Types, TasksOK, TaskOK, PlacedOnce, Placed, TrailingLeft, Holds
  <1>5. ClosedOnce'
    <2>1. \A u \in Sockets : task'[u].pc = "publishing" => task'[u] = task[u]
      BY <1>b
    <2> QED
      BY <1>a, <2>1, StaysClosed
  <1>6. SlotShowsNewest'
    BY <1>a, <1>b DEF Types, SlotShowsNewest
  <1>7. NewestStarted'
    BY <1>a DEF Types, NewestStarted
  <1> QED
    BY <1>1, <1>2, <1>3, <1>4, <1>5, <1>6, <1>7

LEMMA CtWriteFails ==
    ASSUME CtInv, NEW s \in Sockets, WriteRowFails(s) \/ \E r \in Readings : WriteRowRefused(s, r)
    PROVE  CtInv'
  <1> USE TransactionsAssumption DEF CtInv
  <1>a. /\ UNCHANGED <<backend, status, charger, newest, active, closeOuts, buffer, readingOf, written, stopping, trailing, stopEvents>> /\ failed' \in BOOLEAN
        /\ task[s].pc = "flushing" /\ task[s].rows # {} /\ lost' = lost \cup task[s].rows
        /\ task[s].rows \subseteq Readings
    BY DEF announceVars, WriteRowFails, WriteRowRefused, DropBatch, recordVars, Types, TaskSet
  <1>b. /\ task' \in [Sockets -> TaskSet] /\ task'[s].pc = "closed" /\ task'[s].rows = {}
        /\ \A u \in Sockets : u # s => task'[u] = task[u]
    BY RestingTasks, OneTask DEF WriteRowFails, WriteRowRefused, DropBatch
  <1>1. Types'
    BY <1>a, <1>b DEF Types
  <1>2. TasksOK'
    BY <1>a, <1>b DEF Types, TasksOK, TaskOK
  <1>3. PlacedOnce'
    <2>1. ASSUME NEW p \in Readings PROVE Placed(p)'
      <3>1. CASE p \in task[s].rows
        <4>1. /\ p \notin buffer /\ written[p] = 0 /\ readingOf[p] # NoTxn
              /\ \A u \in Sockets : p \in task[u].rows => u = s
          BY <3>1 DEF PlacedOnce, Placed, Holds
        <4>2. p \in lost' /\ \A u \in Sockets : p \notin task'[u].rows
          BY <1>a, <1>b, <3>1, <4>1
        <4> QED
          BY <1>a, <4>1, <4>2 DEF Placed, Holds
      <3>2. CASE p \notin task[s].rows
        <4>1. (p \in lost' <=> p \in lost) /\ \A u \in Sockets : (p \in task'[u].rows) <=> (p \in task[u].rows)
          BY <1>a, <1>b, <3>2
        <4> QED
          BY <1>a, <4>1, StaysPlaced DEF PlacedOnce
      <3> QED
        BY <3>1, <3>2
    <2> QED
      BY <2>1 DEF PlacedOnce
  <1>4. TrailingLeft'
    BY <1>a, <1>b DEF Types, TasksOK, TaskOK, PlacedOnce, Placed, TrailingLeft, Holds
  <1>5. ClosedOnce'
    <2>1. \A u \in Sockets : task'[u].pc = "publishing" => task'[u] = task[u]
      BY <1>b
    <2> QED
      BY <1>a, <2>1, StaysClosed
  <1>6. SlotShowsNewest'
    BY <1>a, <1>b DEF Types, SlotShowsNewest
  <1>7. NewestStarted'
    BY <1>a DEF Types, NewestStarted
  <1> QED
    BY <1>1, <1>2, <1>3, <1>4, <1>5, <1>6, <1>7

LEMMA CtFlushDone ==
    ASSUME CtInv, NEW s \in Sockets, FlushDone(s)
    PROVE  CtInv'
  <1> USE TransactionsAssumption DEF CtInv
  <1>a. /\ UNCHANGED <<backend, failed, status, charger, newest, active, closeOuts, buffer, readingOf, written, lost, stopping, trailing, stopEvents>> /\ task[s].pc = "flushing" /\ task[s].rows = {}
    BY DEF announceVars, FlushDone, recordVars
  <1>b. PICK q \in TaskSet : /\ q.rows = {} /\ (q.pc = "receive" \/ (q.pc = "stopping" /\ q.txn = task[s].txn /\ task[s].then = "stop"))
                             /\ task' \in [Sockets -> TaskSet] /\ task'[s] = q
                             /\ \A u \in Sockets : u # s => task'[u] = task[u]
    <2>1. CASE task' = [task EXCEPT ![s] = Receiving]
      BY <2>1, RestingTasks, OneTask
    <2>2. CASE task[s].then = "stop" /\ task' = [task EXCEPT ![s].pc = "stopping"]
      <3>1. PICK q : q = [task[s] EXCEPT !.pc = "stopping"]
        OBVIOUS
      <3>2. task[s] \in TaskSet
        BY DEF Types
      <3>3. q \in TaskSet /\ q.pc = "stopping" /\ q.txn = task[s].txn /\ q.rows = {}
        BY <1>a, <3>1, <3>2 DEF TaskSet
      <3>4. task' = [task EXCEPT ![s] = q]
        BY <2>2, <3>1
      <3> QED
        BY <2>2, <3>3, <3>4, OneTask
    <2> QED
      BY <2>1, <2>2 DEF FlushDone
  <1>1. Types'
    BY <1>a, <1>b DEF Types
  <1>2. TasksOK'
    BY <1>a, <1>b DEF Types, TasksOK, TaskOK
  <1>3. PlacedOnce'
    <2>1. \A u \in Sockets : task'[u].rows = task[u].rows
      BY <1>a, <1>b DEF TasksOK, TaskOK
    <2> QED
      BY <1>a, <2>1, NothingMoves
  <1>4. TrailingLeft'
    BY <1>a, <1>b DEF Types, TasksOK, TaskOK, PlacedOnce, Placed, TrailingLeft, Holds
  <1>5. ClosedOnce'
    <2>1. \A u \in Sockets : task'[u].pc = "publishing" => task'[u] = task[u]
      BY <1>b
    <2> QED
      BY <1>a, <2>1, StaysClosed
  <1>6. SlotShowsNewest'
    BY <1>a, <1>b DEF Types, SlotShowsNewest
  <1>7. NewestStarted'
    BY <1>a DEF Types, NewestStarted
  <1> QED
    BY <1>1, <1>2, <1>3, <1>4, <1>5, <1>6, <1>7

LEMMA CtStopFrame ==
    ASSUME CtInv, NEW s \in Sockets, NEW t \in Txns, StopFrame(s, t)
    PROVE  CtInv'
  <1> USE TransactionsAssumption DEF CtInv
  <1>a. /\ UNCHANGED <<backend, failed, status, charger, newest, active, closeOuts, readingOf, lost, stopEvents>> /\ task[s].pc = "receive"
        /\ stopping' = stopping \cup {t}
        /\ trailing' = IF t \in stopping THEN trailing ELSE [trailing EXCEPT ![t] = {r \in Readings : readingOf[r] = t}]
    BY DEF announceVars, StopFrame, recordVars, NoteStop, Accepted
  <1>b. /\ buffer' = {} /\ written' \in [Readings -> Nat]
        /\ \A p \in Readings : written'[p] = IF backend = "memory" /\ p \in buffer THEN written[p] + 1 ELSE written[p]
    <2>1. buffer \in SUBSET Readings /\ TakeRows(buffer, s, "stop", t, 0) /\ Types
      BY DEF StopFrame, Types
    <2> HIDE DEF CtInv
    <2> QED
      BY <2>1, TakenRows
  <1>c. PICK q \in TaskSet : FlushesWith(q, buffer, s, "stop", t)
    <2>1. Types /\ buffer \subseteq Readings /\ TakeRows(buffer, s, "stop", t, 0)
      BY DEF StopFrame, Types
    <2> HIDE DEF CtInv
    <2> QED
      BY <2>1, TakenTask
  <1>1. Types'
    BY <1>a, <1>b, <1>c DEF Types, FlushesWith
  <1>2. TasksOK'
    BY <1>a, <1>b, <1>c DEF Types, TasksOK, TaskOK, FlushesWith
  <1>3. PlacedOnce'
    <2>1. \A p \in buffer : p \in buffer \/ readingOf[p] = NoTxn
      OBVIOUS
    <2>2. task[s].rows = {} /\ lost' = lost /\ buffer \subseteq buffer /\ buffer \in SUBSET Readings
      BY <1>a DEF TasksOK, TaskOK, Types
    <2>3. \A p \in Readings : (readingOf'[p] = NoTxn) <=> (readingOf[p] = NoTxn /\ p \notin buffer)
      BY <1>a DEF PlacedOnce, Placed
    <2> QED
      BY <1>b, <1>c, <2>1, <2>2, <2>3, BatchMoves DEF FlushesWith
  <1>4. TrailingLeft'
    BY <1>a, <1>b, <1>c DEF Types, TasksOK, TaskOK, PlacedOnce, Placed, TrailingLeft, Holds, FlushesWith
  <1>5. ClosedOnce'
    <2>1. \A u \in Sockets : task'[u].pc = "publishing" => task'[u] = task[u]
      BY <1>c DEF FlushesWith
    <2> QED
      BY <1>a, <2>1, StaysClosed
  <1>6. SlotShowsNewest'
    BY <1>a, <1>b, <1>c DEF Types, SlotShowsNewest, FlushesWith
  <1>7. NewestStarted'
    BY <1>a DEF Types, NewestStarted
  <1> QED
    BY <1>1, <1>2, <1>3, <1>4, <1>5, <1>6, <1>7

\* A task moves on inside the stop handler.
LEMMA StopsOn ==
    ASSUME Types, TasksOK, NEW s \in Sockets, NEW pc \in {"patching", "publishing"}, task' = [task EXCEPT ![s].pc = pc],
           task[s].pc # "flushing"
    PROVE  \E q \in TaskSet : /\ q.pc = pc /\ q.txn = task[s].txn /\ q.rows = {}
                              /\ task' \in [Sockets -> TaskSet] /\ task'[s] = q
                              /\ \A u \in Sockets : u # s => task'[u] = task[u]
  <1>1. PICK q : q = [task[s] EXCEPT !.pc = pc]
    OBVIOUS
  <1>2. task[s] \in TaskSet /\ task[s].rows = {}
    BY DEF Types, TasksOK, TaskOK
  <1>3. q \in TaskSet /\ q.pc = pc /\ q.txn = task[s].txn /\ q.rows = {}
    BY <1>1, <1>2 DEF TaskSet
  <1>4. task' = [task EXCEPT ![s] = q]
    BY <1>1
  <1> QED
    BY <1>3, <1>4, OneTask

LEMMA CtClosesOut ==
    ASSUME CtInv, NEW s \in Sockets, NEW t \in Txns, t = task[s].txn, CloseOut(s, t), task[s].pc \in {"stopping", "patching"}, status[t] # "none", backend = "memory" => status[t] = "active"
    PROVE  CtInv'
  <1> USE TransactionsAssumption DEF CtInv
  <1>a. /\ UNCHANGED <<backend, failed, charger, newest, buffer, readingOf, written, lost, stopping, trailing, stopEvents>>
        /\ status' = [status EXCEPT ![t] = "completed"] /\ closeOuts' = [closeOuts EXCEPT ![t] = closeOuts[t] + 1]
        /\ t \in stopping
    BY DEF announceVars, CloseOut, meterVars, TasksOK, TaskOK
  <1>b. PICK q \in TaskSet : /\ q.pc = "publishing" /\ q.txn = t /\ q.rows = {}
                             /\ task' \in [Sockets -> TaskSet] /\ task'[s] = q
                             /\ \A u \in Sockets : u # s => task'[u] = task[u]
    BY StopsOn DEF CloseOut
  <1>c. /\ active' \in [Chargers -> Txns \cup {NoTxn}]
        /\ \A h \in Chargers : active'[h] = active[h] \/ (active[h] = t /\ active'[h] = NoTxn)
        /\ backend # "memory" => active' = active
    BY DEF CloseOut, ReleaseSlot, Types, TasksOK
  <1>1. Types'
    BY <1>a, <1>b, <1>c DEF Types
  <1>2. TasksOK'
    <2>1. \A u \in Sockets : TaskOK(task[u])'
      BY <1>a, <1>b DEF TasksOK, TaskOK
    <2>2. \A u \in Txns : status'[u] # "none" => status[u] # "none" \/ u = t
      BY <1>a DEF Types
    <2>4. \A u \in Txns : status'[u] # "none" => charger'[u] \in Chargers
      BY <1>a, <2>2 DEF TasksOK
    <2> QED
      BY <1>a, <2>1, <2>4 DEF TasksOK
  <1>3. PlacedOnce'
    <2>1. \A u \in Sockets : task'[u].rows = task[u].rows
      BY <1>a, <1>b DEF TasksOK, TaskOK
    <2> QED
      BY <1>a, <2>1, NothingMoves
  <1>4. TrailingLeft'
    BY <1>a, <1>b, <1>c DEF Types, TasksOK, TaskOK, PlacedOnce, Placed, TrailingLeft, Holds
  <1>5. ClosedOnce'
    BY SMTT(40), <1>a, <1>b, <1>c DEF Types, TasksOK, TaskOK, ClosedOnce
  <1>6. SlotShowsNewest'
    BY <1>a, <1>b, <1>c DEF Types, SlotShowsNewest
  <1>7. NewestStarted'
    BY <1>a DEF Types, NewestStarted
  <1> QED
    BY <1>1, <1>2, <1>3, <1>4, <1>5, <1>6, <1>7

LEMMA CtPatches ==
    ASSUME CtInv, NEW s \in Sockets, task[s].pc = "stopping", status[task[s].txn] = "active", backend = "supabase", task' = [task EXCEPT ![s].pc = "patching"], UNCHANGED <<backend, failed, recordVars, meterVars, announceVars>>
    PROVE  CtInv'
  <1> USE TransactionsAssumption DEF CtInv
  <1>a. UNCHANGED <<failed, status, charger, newest, active, closeOuts, buffer, readingOf, written, lost, stopping, trailing, stopEvents>> /\ backend' = backend
    BY DEF announceVars, recordVars, meterVars
  <1>b. PICK q \in TaskSet : /\ q.pc = "patching" /\ q.txn = task[s].txn /\ q.rows = {}
                             /\ task' \in [Sockets -> TaskSet] /\ task'[s] = q
                             /\ \A u \in Sockets : u # s => task'[u] = task[u]
    BY StopsOn
  <1>1. Types'
    BY <1>a, <1>b DEF Types
  <1>2. TasksOK'
    BY <1>a, <1>b DEF Types, TasksOK, TaskOK
  <1>3. PlacedOnce'
    <2>1. \A u \in Sockets : task'[u].rows = task[u].rows
      BY <1>a, <1>b DEF TasksOK, TaskOK
    <2> QED
      BY <1>a, <2>1, NothingMoves
  <1>4. TrailingLeft'
    BY <1>a, <1>b DEF Types, TasksOK, TaskOK, PlacedOnce, Placed, TrailingLeft, Holds
  <1>5. ClosedOnce'
    <2>1. \A u \in Sockets : task'[u].pc = "publishing" => task'[u] = task[u]
      BY <1>b
    <2> QED
      BY <1>a, <2>1, StaysClosed
  <1>6. SlotShowsNewest'
    BY <1>a, <1>b DEF Types, SlotShowsNewest
  <1>7. NewestStarted'
    BY <1>a DEF Types, NewestStarted
  <1> QED
    BY <1>1, <1>2, <1>3, <1>4, <1>5, <1>6, <1>7

LEMMA CtPublishes ==
    ASSUME CtInv, NEW s \in Sockets, PublishStop(s)
    PROVE  CtInv'
  <1> USE TransactionsAssumption DEF CtInv
  <1>a. /\ UNCHANGED <<backend, failed, status, charger, newest, active, closeOuts, buffer, readingOf, written, lost, stopping, trailing>> /\ task[s].pc = "publishing" /\ task[s].txn \in Txns
        /\ stopEvents' = [stopEvents EXCEPT ![task[s].txn] = stopEvents[task[s].txn] + 1]
    BY DEF announceVars, PublishStop, recordVars, meterVars, Types, TasksOK, TaskOK
  <1>b. /\ task' \in [Sockets -> TaskSet] /\ task'[s].pc = "receive" /\ task'[s].rows = {}
        /\ \A u \in Sockets : u # s => task'[u] = task[u]
    BY RestingTasks, OneTask DEF PublishStop
  <1>1. Types'
    BY <1>a, <1>b DEF Types
  <1>2. TasksOK'
    BY <1>a, <1>b DEF Types, TasksOK, TaskOK
  <1>3. PlacedOnce'
    <2>1. \A u \in Sockets : task'[u].rows = task[u].rows
      BY <1>a, <1>b DEF TasksOK, TaskOK
    <2> QED
      BY <1>a, <2>1, NothingMoves
  <1>4. TrailingLeft'
    BY <1>a, <1>b DEF Types, TasksOK, TaskOK, PlacedOnce, Placed, TrailingLeft, Holds
  <1>5. ClosedOnce'
    <2>1. PICK c \in Txns : c = task[s].txn
      BY <1>a
    <2>2. ASSUME backend = "memory", NEW t \in Txns
          PROVE  /\ closeOuts'[t] <= 1 /\ stopEvents'[t] <= 1
                 /\ status'[t] # "completed" => closeOuts'[t] = 0
                 /\ closeOuts'[t] = 0 => stopEvents'[t] = 0
                 /\ \A v \in Sockets : task'[v].pc = "publishing" /\ task'[v].txn = t =>
                       /\ closeOuts'[t] > 0 /\ stopEvents'[t] = 0
                       /\ \A u \in Sockets : task'[u].pc = "publishing" /\ task'[u].txn = t => u = v
      <3>1. \A v \in Sockets : task'[v].pc = "publishing" => v # s /\ task'[v] = task[v]
        BY <1>b
      <3>2. CASE t = c
        <4>1. stopEvents[t] = 0 /\ closeOuts[t] > 0 /\ \A u \in Sockets : task[u].pc = "publishing" /\ task[u].txn = t => u = s
          BY <1>a, <2>1, <2>2, <3>2 DEF ClosedOnce
        <4>2. stopEvents'[t] = 1
          BY <1>a, <2>1, <3>2, <4>1 DEF Types
        <4>3. \A v \in Sockets : ~(task'[v].pc = "publishing" /\ task'[v].txn = t)
          BY <3>1, <4>1
        <4> QED
          BY <1>a, <2>2, <4>1, <4>2, <4>3 DEF ClosedOnce, Types
      <3>3. CASE t # c
        <4>1. stopEvents'[t] = stopEvents[t]
          BY <1>a, <2>1, <3>3 DEF Types
        <4> QED
          BY <1>a, <2>2, <3>1, <4>1 DEF ClosedOnce
      <3> QED
        BY <3>2, <3>3
    <2> QED
      BY <1>a, <2>2 DEF ClosedOnce
  <1>6. SlotShowsNewest'
    BY <1>a, <1>b DEF Types, SlotShowsNewest
  <1>7. NewestStarted'
    BY <1>a DEF Types, NewestStarted
  <1> QED
    BY <1>1, <1>2, <1>3, <1>4, <1>5, <1>6, <1>7

LEMMA CtCrashes ==
    ASSUME CtInv, Crash
    PROVE  CtInv'
  <1> USE TransactionsAssumption DEF CtInv
  <1>a. /\ UNCHANGED <<backend, status, charger, newest, active, closeOuts, readingOf, written, stopping, trailing, stopEvents>> /\ failed' \in BOOLEAN
        /\ backend = "supabase" /\ buffer' = {} /\ \A r \in Readings : r \in lost' <=> r \in lost \/ r \in buffer \/ \E s \in Sockets : Holds(s, r)
        /\ lost' \subseteq Readings
    <2>1. lost' = lost \cup buffer \cup UNION {task[s].rows : s \in Sockets}
      BY DEF Crash
    <2>2. \A r : r \in UNION {task[s].rows : s \in Sockets} <=> \E s \in Sockets : Holds(s, r)
      BY DEF Holds
    <2>3. \A s \in Sockets : task[s].rows \subseteq Readings
      BY DEF Types, TaskSet
    <2>4. \A r : r \in lost' <=> r \in lost \/ r \in buffer \/ \E s \in Sockets : Holds(s, r)
      BY <2>1, <2>2
    <2>5. lost' \subseteq Readings
      BY <2>3, <2>4 DEF Types, Holds
    <2> QED
      BY <2>4, <2>5 DEF announceVars, Crash, recordVars
  <1>b. task' \in [Sockets -> TaskSet] /\ \A s \in Sockets : task'[s].pc = "closed" /\ task'[s].rows = {}
    BY RestingTasks DEF Crash
  <1>1. Types'
    BY <1>a, <1>b DEF Types
  <1>2. TasksOK'
    BY <1>a, <1>b DEF Types, TasksOK, TaskOK
  <1>3. PlacedOnce'
    <2>1. ASSUME NEW p \in Readings PROVE Placed(p)'
      <3>1. \A u \in Sockets : p \notin task'[u].rows
        BY <1>b
      <3>2. Placed(p)
        BY DEF PlacedOnce
      <3> QED
        BY <1>a, <3>1, <3>2 DEF Placed, Holds
    <2> QED
      BY <2>1 DEF PlacedOnce
  <1>4. TrailingLeft'
    BY <1>a, <1>b DEF Types, TasksOK, TaskOK, PlacedOnce, Placed, TrailingLeft, Holds
  <1>5. ClosedOnce'
    BY <1>a, <1>b DEF Types, TasksOK, TaskOK, ClosedOnce
  <1>6. SlotShowsNewest'
    BY <1>a, <1>b DEF Types, SlotShowsNewest
  <1>7. NewestStarted'
    BY <1>a DEF Types, NewestStarted
  <1> QED
    BY <1>1, <1>2, <1>3, <1>4, <1>5, <1>6, <1>7

LEMMA CtInvNext == CtInv /\ [Next]_vars => CtInv'
  <1> SUFFICES ASSUME CtInv, [Next]_vars PROVE CtInv'
    OBVIOUS
  <1>1. CASE UNCHANGED vars
    BY <1>1 DEF vars, CtInv, Types, TasksOK, TaskOK, PlacedOnce, Placed, Holds, TrailingLeft, ClosedOnce, SlotShowsNewest, NewestStarted
  <1>2. ASSUME NEW s \in Sockets, StopActive(s) \/ StopPatch(s) PROVE CtInv'
    <2>1. task[s].txn \in Txns /\ task[s].pc \in {"stopping", "patching"}
      BY <1>2 DEF StopActive, StopPatch, CtInv, Types, TasksOK, TaskOK
    <2>2. CASE StopPatch(s)
      <3>1. backend # "memory" /\ status[task[s].txn] # "none"
        BY <2>2 DEF StopPatch, CtInv, TasksOK, TaskOK
      <3> QED
        BY <2>1, <2>2, <3>1, CtClosesOut DEF StopPatch
    <2>3. CASE StopActive(s) /\ backend = "memory" /\ CloseOut(s, task[s].txn)
      BY <2>1, <2>3, CtClosesOut DEF StopActive
    <2>4. CASE StopActive(s) /\ backend = "supabase" /\ task' = [task EXCEPT ![s].pc = "patching"]
                            /\ UNCHANGED <<backend, failed, recordVars, meterVars, announceVars>>
      BY <2>4, CtPatches DEF StopActive
    <2> QED
      BY <1>2, <2>2, <2>3, <2>4 DEF StopActive
  <1>3. ASSUME NEW s \in Sockets, HandlerStep(s) PROVE CtInv'
    BY <1>2, <1>3, CtWrites, CtWriteFails, CtFlushDone, CtLeaves, CtPublishes DEF HandlerStep
  <1> QED
    BY <1>1, <1>3, CtStarts, CtStopFrame, CtBuffers, CtFlushes, CtWriteFails, CtLeaves, CtCrashes DEF Next

(* ReadingsConserved, for any number of sockets, chargers, transactions and    *)
(* readings, any batch size and either repository: the buffer is swapped out   *)
(* before the first await of flush (MeterValueBuffer), so handlers that        *)
(* interleave there neither store a reading twice nor drop one without a       *)
(* failure, and a stop finds its session's readings flushed.                   *)
THEOREM NoReadingLostOrRepeated == Spec => []ReadingsConserved
  <1>1. CtInv => ReadingsConserved
    <2> SUFFICES ASSUME CtInv PROVE ReadingsConserved
      OBVIOUS
    <2>1. TrailingReadingsLeave
      BY DEF CtInv, TrailingLeft, TrailingReadingsLeave, Types
    <2>2. ASSUME NEW r \in Readings
          PROVE  (IF r \in buffer THEN 1 ELSE 0) + Cardinality({s \in Sockets : r \in task[s].rows})
                    + written[r] + (IF r \in lost THEN 1 ELSE 0) = (IF readingOf[r] = NoTxn THEN 0 ELSE 1)
      <3>1. PICK H : H = {s \in Sockets : r \in task[s].rows}
        OBVIOUS
      <3>2. CASE H = {}
        <4>1. \A s \in Sockets : ~Holds(s, r)
          BY <3>1, <3>2 DEF Holds
        <4>2. Cardinality(H) = 0
          BY <3>2, FS_EmptySet
        <4> QED
          BY <3>1, <4>1, <4>2 DEF CtInv, PlacedOnce, Placed
      <3>3. CASE H # {}
        <4>1. PICK s \in Sockets : Holds(s, r)
          BY <3>1, <3>3 DEF Holds
        <4>2. H = {s}
          BY <3>1, <4>1 DEF CtInv, PlacedOnce, Placed, Holds
        <4>3. Cardinality(H) = 1
          BY <4>2, FS_Singleton
        <4>4. written[r] = 0 /\ r \notin buffer /\ r \notin lost /\ readingOf[r] # NoTxn
          BY <4>1 DEF CtInv, PlacedOnce, Placed
        <4> QED
          BY <3>1, <4>3, <4>4
      <3> QED
        BY <3>2, <3>3
    <2> QED
      BY <2>1, <2>2 DEF ReadingsConserved
  <1> QED
    BY <1>1, CtInvInit, CtInvNext, PTL DEF Spec

(* NewestActiveIsShown, for any number of sockets and transactions: where the  *)
(* repository does not suspend, a repeated StopTransaction finds the record    *)
(* completed, and _active keeps showing the newest transaction whatever older  *)
(* ones of the charger are stopped (InMemoryTransactionRepository).            *)
THEOREM StopsOnceAndShowsNewest == Spec => []NewestActiveIsShown
  <1>1. CtInv => NewestActiveIsShown
    BY DEF CtInv, ClosedOnce, SlotShowsNewest, NewestActiveIsShown, StopIsIdempotent
  <1> QED
    BY <1>1, CtInvInit, CtInvNext, PTL DEF Spec

\* The transactions these tasks have closed out and not announced.
LEMMA PublishingTasks ==
    ASSUME NEW S, NEW t
    PROVE  t \in Publishing(S) <=> \E s \in S : task[s].pc = "publishing" /\ task[s].txn = t
  BY DEF Publishing

Announced(t) ==
    closeOuts[t] > 0 => stopEvents[t] > 0 \/ t \in unheard
                          \/ \E s \in Sockets : task[s].pc = "publishing" /\ task[s].txn = t

\* Nothing is closed out, and a task that leaves the publish leaves word of it.
LEMMA StaysAnnounced ==
    ASSUME NEW t \in Txns, Announced(t), closeOuts'[t] = closeOuts[t],
           stopEvents[t] > 0 => stopEvents'[t] > 0, t \in unheard => t \in unheard',
           \A s \in Sockets : task[s].pc = "publishing" /\ task[s].txn = t =>
              task'[s] = task[s] \/ t \in unheard' \/ stopEvents'[t] > 0
    PROVE  Announced(t)'
  BY DEF Announced

\* A step that closes nothing out and moves no task out of the publish.
LEMMA QuietStep ==
    ASSUME NEW t \in Txns, Announced(t), UNCHANGED <<closeOuts, stopEvents, unheard>>,
           \A s \in Sockets : task[s].pc = "publishing" => task'[s] = task[s]
    PROVE  Announced(t)'
  BY StaysAnnounced

\* One task that is not publishing is replaced.
LEMMA QuietTask ==
    ASSUME CtInv, NEW t \in Txns, Announced(t), UNCHANGED <<closeOuts, stopEvents, unheard>>,
           NEW s \in Sockets, NEW q, task' = [task EXCEPT ![s] = q], task[s].pc # "publishing"
    PROVE  Announced(t)'
  <1>1. \A u \in Sockets : task[u].pc = "publishing" => task'[u] = task[u]
    BY DEF CtInv, Types
  <1> QED
    BY <1>1, QuietStep

\* No action closes a record out and forgets to announce it.
LEMMA AnnouncedNext ==
    ASSUME CtInv, NEW t \in Txns, Announced(t), [Next]_vars
    PROVE  Announced(t)'
  <1>1. CASE UNCHANGED vars
    BY <1>1 DEF vars, Announced
  <1>2. CASE Crash
    <2>1. UNCHANGED <<closeOuts, stopEvents>> /\ unheard' = unheard \cup Publishing(Sockets)
      BY <1>2 DEF Crash, recordVars
    <2> QED
      BY <2>1, PublishingTasks DEF Announced
  <1>3. ASSUME NEW s \in Sockets, NEW u \in Txns, StartTransaction(s, u) \/ StartFails(s, u) \/ StopFrame(s, u)
        PROVE  Announced(t)'
    <2>1. UNCHANGED <<closeOuts, stopEvents, unheard>> /\ task[s].pc # "publishing"
      BY <1>3 DEF StartTransaction, StartFails, StopFrame, recordVars, announceVars
    <2>2. task' = task \/ \E q : task' = [task EXCEPT ![s] = q]
      BY <1>3 DEF StartTransaction, StartFails, StopFrame, TakeRows
    <2> QED
      BY <2>1, <2>2, QuietStep, QuietTask
  <1>4. ASSUME NEW s \in Sockets, NEW u \in Txns, NEW r \in Readings,
               MeterValuesBuffered(s, u, r) \/ MeterValuesFlushing(s, u, r)
        PROVE  Announced(t)'
    <2>1. UNCHANGED <<closeOuts, stopEvents, unheard>> /\ task[s].pc # "publishing"
      BY <1>4 DEF MeterValuesBuffered, MeterValuesFlushing, recordVars, announceVars
    <2>2. task' = task \/ \E q : task' = [task EXCEPT ![s] = q]
      BY <1>4 DEF MeterValuesBuffered, MeterValuesFlushing, TakeRows
    <2> QED
      BY <2>1, <2>2, QuietStep, QuietTask
  <1>5. ASSUME NEW s \in Sockets, \/ \E r \in Readings : WriteRow(s, r) \/ WriteRowRefused(s, r)
                                  \/ WriteRowFails(s) \/ FlushDone(s)
        PROVE  Announced(t)'
    <2>1. UNCHANGED <<closeOuts, stopEvents, unheard>> /\ task[s].pc # "publishing"
      BY <1>5 DEF WriteRow, WriteRowRefused, WriteRowFails, DropBatch, FlushDone, recordVars, announceVars
    <2>2. \E q : task' = [task EXCEPT ![s] = q]
      BY <1>5 DEF WriteRow, WriteRowRefused, WriteRowFails, DropBatch, FlushDone
    <2> QED
      BY <2>1, <2>2, QuietTask
  <1>6. ASSUME NEW s \in Sockets, StopUnknown(s) \/ StopAlreadyStopped(s) \/ Reconnect(s)
        PROVE  Announced(t)'
    <2>1. UNCHANGED <<closeOuts, stopEvents, unheard>> /\ task[s].pc # "publishing"
      BY <1>6 DEF StopUnknown, StopAlreadyStopped, Reconnect, recordVars, announceVars
    <2>2. \E q : task' = [task EXCEPT ![s] = q]
      BY <1>6 DEF StopUnknown, StopAlreadyStopped, Reconnect
    <2> QED
      BY <2>1, <2>2, QuietTask
  <1>7. ASSUME NEW s \in Sockets, CloseOut(s, task[s].txn), task[s].pc \in {"stopping", "patching"} PROVE Announced(t)'
    <2>1. /\ UNCHANGED <<stopEvents, unheard>> /\ task' = [task EXCEPT ![s].pc = "publishing"]
          /\ closeOuts' = [closeOuts EXCEPT ![task[s].txn] = @ + 1]
      BY <1>7 DEF CloseOut, announceVars
    <2>2. task \in [Sockets -> TaskSet] /\ closeOuts \in [Txns -> Nat]
      BY DEF CtInv, Types
    <2>3. /\ task'[s].pc = "publishing" /\ task'[s].txn = task[s].txn
          /\ \A x \in Sockets : x # s => task'[x] = task[x]
      BY <2>1, <2>2 DEF TaskSet
    <2>4. CASE t = task[s].txn
      BY <2>3, <2>4 DEF Announced
    <2>5. CASE t # task[s].txn
      <3>1. closeOuts'[t] = closeOuts[t]
        BY <2>1, <2>2, <2>5
      <3>2. \A x \in Sockets : task[x].pc = "publishing" => task'[x] = task[x]
        BY <1>7, <2>3
      <3> QED
        BY <2>1, <3>1, <3>2, StaysAnnounced
    <2> QED
      BY <2>4, <2>5
  <1>8. ASSUME NEW s \in Sockets, StopActive(s) \/ StopPatch(s) PROVE Announced(t)'
    <2>1. CASE CloseOut(s, task[s].txn)
      BY <1>7, <1>8, <2>1 DEF StopActive, StopPatch
    <2>2. CASE /\ task[s].pc = "stopping" /\ task' = [task EXCEPT ![s].pc = "patching"]
               /\ UNCHANGED <<backend, failed, recordVars, meterVars, announceVars>>
      <3>1. UNCHANGED <<closeOuts, stopEvents, unheard>> /\ \E q : task' = [task EXCEPT ![s] = q]
        BY <2>2 DEF recordVars, announceVars
      <3> QED
        BY <2>2, <3>1, QuietTask
    <2> QED
      BY <1>8, <2>1, <2>2 DEF StopActive, StopPatch
  <1>9. ASSUME NEW s \in Sockets, PublishStop(s) PROVE Announced(t)'
    <2>1. /\ UNCHANGED <<closeOuts, unheard>> /\ task[s].pc = "publishing" /\ task' = [task EXCEPT ![s] = Receiving]
          /\ stopEvents' = [stopEvents EXCEPT ![task[s].txn] = @ + 1]
      BY <1>9 DEF PublishStop, recordVars
    <2>2. task \in [Sockets -> TaskSet] /\ stopEvents \in [Txns -> Nat]
      BY DEF CtInv, Types
    <2>3. \A x \in Sockets : x # s => task'[x] = task[x]
      BY <2>1, <2>2
    <2>4. (stopEvents[t] > 0 => stopEvents'[t] > 0) /\ (task[s].txn = t => stopEvents'[t] > 0)
      BY <2>1, <2>2
    <2> QED
      BY <2>1, <2>3, <2>4, StaysAnnounced
  <1>10. ASSUME NEW s \in Sockets, StopFails(s) PROVE Announced(t)'
    <2>1. /\ UNCHANGED <<closeOuts, stopEvents>> /\ unheard' = unheard \cup Publishing({s})
          /\ task' = [task EXCEPT ![s] = Closed]
      BY <1>10 DEF StopFails, recordVars
    <2>2. \A x \in Sockets : x # s => task'[x] = task[x]
      BY <2>1 DEF CtInv, Types
    <2>3. task[s].pc = "publishing" /\ task[s].txn = t => t \in unheard'
      BY <2>1, PublishingTasks
    <2> QED
      BY <2>1, <2>2, <2>3, StaysAnnounced
  <1> QED
    BY <1>1, <1>2, <1>3, <1>4, <1>5, <1>6, <1>8, <1>9, <1>10 DEF Next, HandlerStep

(* CloseOutIsAnnounced, for any number of sockets and transactions and either  *)
(* repository: whatever retries, overlaps and failures there are, a record     *)
(* that was closed out has its stop_transaction event published or about to    *)
(* be, or the handler that closed it died in between (message_handlers.py:     *)
(* 130-133).                                                                   *)
THEOREM CloseOutsAreAnnounced == Spec => []CloseOutIsAnnounced
  <1>1. Init => \A t \in Txns : Announced(t)
    BY DEF Init, Announced
  <1>2. CtInv /\ (\A t \in Txns : Announced(t)) /\ [Next]_vars => (\A t \in Txns : Announced(t))'
    BY AnnouncedNext
  <1>3. (\A t \in Txns : Announced(t)) => CloseOutIsAnnounced
    BY PublishingTasks DEF Announced, CloseOutIsAnnounced
  <1> QED
    BY <1>1, <1>2, <1>3, CtInvInit, CtInvNext, PTL DEF Spec
==============================================================================
