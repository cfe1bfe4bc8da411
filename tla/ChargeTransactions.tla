------------------------- MODULE ChargeTransactions -------------------------
(***************************************************************************)
(* The inbound side of the OCPP gateway: StartTransaction, MeterValues and *)
(* StopTransaction frames handled by one task per WebSocket                *)
(* (ws_app.ocpp_endpoint -> OcppMessageHandlers), over the shared          *)
(* MeterValueBuffer, the transaction repository and the event publisher.   *)
(*                                                                         *)
(* A socket's task handles one frame at a time; tasks interleave at every  *)
(* await that suspends.  The in-memory repository and sink never suspend;  *)
(* the Supabase ones do at every HTTP request, so there select and update  *)
(* are separate steps.  A charger that reconnects has two tasks while the  *)
(* old one is still inside a handler.                                      *)
(***************************************************************************)
EXTENDS Naturals, FiniteSets

CONSTANTS Sockets, Chargers, Txns, NoTxn,
          Readings,    \* meter readings, identified with their timestamps
          ChargerOf,   \* the charger a socket belongs to
          MaxBatch,    \* max_batch_size
          Backends     \* the repositories to consider: "memory", "supabase"

ASSUME TransactionsAssumption ==
    /\ ChargerOf \in [Sockets -> Chargers]
    /\ NoTxn \notin Txns
    /\ Readings \subseteq Nat \ {0} /\ IsFiniteSet(Readings)
    /\ MaxBatch \in Nat \ {0}
    /\ Backends \subseteq {"memory", "supabase"}

VARIABLES
    backend,    \* the repositories this process was built with
    failed,     \* a store or broker call has raised, or the process has crashed (bound: once)
    task,       \* what each socket's task is doing
    status,     \* status of a transaction record
    charger,    \* its charger
    newest,     \* the last transaction started on each charger
    active,     \* InMemoryTransactionRepository._active
    buffer,     \* MeterValueBuffer._buffer
    readingOf,  \* transaction of a received reading
    latest,     \* newest timestamp in the latest-reading store
    written,    \* how often the sink has stored a reading
    lost,       \* readings dropped by a failed write or a crash
    stopping,   \* transactions a StopTransaction frame has come in for
    trailing,   \* their readings that had been accepted by then
    closeOuts,  \* how often a record was closed out
    stopEvents, \* how often its stop_transaction event was published
    unheard     \* transactions closed out by a handler that died before publishing

vars == <<backend, failed, task, status, charger, newest, active, buffer, readingOf, latest,
          written, lost, stopping, trailing, closeOuts, stopEvents, unheard>>
recordVars == <<status, charger, newest, active, closeOuts>>
announceVars == <<stopEvents, unheard>>
meterVars  == <<buffer, readingOf, latest, written, lost, stopping, trailing>>

Receiving == [pc |-> "receive", txn |-> NoTxn, rows |-> {}, then |-> "receive", reading |-> 0]
Closed    == [Receiving EXCEPT !.pc = "closed"]

Accepted(t) == {r \in Readings : readingOf[r] = t}

Init ==
    /\ backend \in Backends
    /\ failed = FALSE
    /\ task = [s \in Sockets |-> Receiving]
    /\ status = [t \in Txns |-> "none"]
    /\ charger = [t \in Txns |-> "unset"]
    /\ newest = [h \in Chargers |-> NoTxn]
    /\ active = [h \in Chargers |-> NoTxn]
    /\ buffer = {}
    /\ readingOf = [r \in Readings |-> NoTxn]
    /\ latest = [t \in Txns |-> 0]
    /\ written = [r \in Readings |-> 0]
    /\ lost = {}
    /\ stopping = {}
    /\ trailing = [t \in Txns |-> {}]
    /\ closeOuts = [t \in Txns |-> 0]
    /\ stopEvents = [t \in Txns |-> 0]
    /\ unheard = {}

-----------------------------------------------------------------------------
(* StartTransaction *)

\* handle_start_transaction with an accepted id_tag (any other answers the
\* null transaction id and stores nothing).  A retried frame starts another
\* transaction, and the charger's _active slot then shows that one.
StartTransaction(s, t) ==
    /\ task[s].pc = "receive"
    /\ status[t] = "none"
    /\ status' = [status EXCEPT ![t] = "active"]
    /\ charger' = [charger EXCEPT ![t] = ChargerOf[s]]
    /\ newest' = [newest EXCEPT ![ChargerOf[s]] = t]
    /\ active' = IF backend = "memory" THEN [active EXCEPT ![ChargerOf[s]] = t] ELSE active
    /\ UNCHANGED <<backend, failed, task, closeOuts, meterVars, announceVars>>

\* The insert raises, before or after the database has carried it out: the
\* connection ends and the charger does not learn the id.
StartFails(s, t) ==
    /\ ~failed /\ failed' = TRUE
    /\ backend = "supabase"
    /\ task[s].pc = "receive" /\ status[t] = "none"
    /\ \/ /\ status' = [status EXCEPT ![t] = "active"]
          /\ charger' = [charger EXCEPT ![t] = ChargerOf[s]]
          /\ newest' = [newest EXCEPT ![ChargerOf[s]] = t]
       \/ UNCHANGED <<status, charger, newest>>
    /\ task' = [task EXCEPT ![s] = Closed]
    /\ UNCHANGED <<backend, active, closeOuts, meterVars, announceVars>>

-----------------------------------------------------------------------------
(* MeterValueBuffer *)

\* Variant: the rows are handed to the sink and stay in the buffer.
TakeRowsKeepingBuffer(rows, s, then, t, r) ==
    /\ buffer' = rows
    /\ IF backend = "memory"
       THEN /\ written' = [q \in Readings |-> IF q \in rows THEN written[q] + 1 ELSE written[q]]
            /\ task' = [task EXCEPT ![s] = [pc |-> "flushing", txn |-> t, rows |-> {},
                                            then |-> then, reading |-> r]]
       ELSE /\ written' = written
            /\ task' = [task EXCEPT ![s] = [pc |-> "flushing", txn |-> t, rows |-> rows,
                                            then |-> then, reading |-> r]]

\* flush: the buffer is swapped out first, then write_batch is awaited.  The
\* in-memory sink stores the batch without suspending.
TakeRows(rows, s, then, t, r) ==
    /\ buffer' = {}
    /\ IF backend = "memory"
       THEN /\ written' = [q \in Readings |-> IF q \in rows THEN written[q] + 1 ELSE written[q]]
            /\ task' = [task EXCEPT ![s] = [pc |-> "flushing", txn |-> t, rows |-> {},
                                            then |-> then, reading |-> r]]
       ELSE /\ written' = written
            /\ task' = [task EXCEPT ![s] = [pc |-> "flushing", txn |-> t, rows |-> rows,
                                            then |-> then, reading |-> r]]

\* InMemoryLatestMeterReadingStore.update: keep the newest timestamp.
Newest(t, r) == IF r >= latest[t] THEN r ELSE latest[t]

\* handle_meter_values for one reading, of a transaction that need not exist,
\* not flushing: the size threshold is not reached and the flush interval has
\* not elapsed.
MeterValuesBuffered(s, t, r) ==
    /\ task[s].pc = "receive"
    /\ readingOf[r] = NoTxn
    /\ Cardinality(buffer) + 1 < MaxBatch
    /\ readingOf' = [readingOf EXCEPT ![r] = t]
    /\ buffer' = buffer \cup {r}
    /\ latest' = [latest EXCEPT ![t] = Newest(t, r)]
    /\ UNCHANGED <<backend, failed, task, recordVars, written, lost, stopping, trailing, announceVars>>

\* The same when _should_flush says yes: always at the size threshold, and
\* earlier once the interval since the oldest buffered row has elapsed.  latest is updated after it.
MeterValuesFlushing(s, t, r) ==
    /\ task[s].pc = "receive"
    /\ readingOf[r] = NoTxn
    /\ Cardinality(buffer) + 1 >= MaxBatch \/ buffer # {}
    /\ readingOf' = [readingOf EXCEPT ![r] = t]
    /\ TakeRows(buffer \cup {r}, s, "latest", t, r)
    /\ UNCHANGED <<backend, failed, recordVars, latest, lost, stopping, trailing, announceVars>>

\* One insert of SupabaseMeterValueSink.write_batch.
WriteRow(s, r) ==
    /\ task[s].pc = "flushing" /\ r \in task[s].rows
    /\ status[readingOf[r]] # "none"
    /\ written' = [written EXCEPT ![r] = @ + 1]
    /\ task' = [task EXCEPT ![s].rows = @ \ {r}]
    /\ UNCHANGED <<backend, failed, recordVars, buffer, readingOf, latest, lost, stopping, trailing, announceVars>>

\* An insert raises: no handler of the endpoint catches SupabaseError, the
\* rest of the batch is dropped and the connection ends.
DropBatch(s) ==
    /\ lost' = lost \cup task[s].rows
    /\ task' = [task EXCEPT ![s] = Closed]
    /\ UNCHANGED <<backend, recordVars, buffer, readingOf, latest, written, stopping, trailing, announceVars>>

\* The foreign key refuses a reading of a transaction nobody started.
WriteRowRefused(s, r) ==
    /\ task[s].pc = "flushing" /\ r \in task[s].rows
    /\ status[readingOf[r]] = "none"
    /\ DropBatch(s) /\ UNCHANGED failed

WriteRowFails(s) ==
    /\ ~failed /\ failed' = TRUE
    /\ task[s].pc = "flushing" /\ task[s].rows # {}
    /\ DropBatch(s)

FlushDone(s) ==
    /\ task[s].pc = "flushing" /\ task[s].rows = {}
    /\ \/ /\ task[s].then = "latest"
          /\ latest' = [latest EXCEPT ![task[s].txn] = Newest(task[s].txn, task[s].reading)]
          /\ task' = [task EXCEPT ![s] = Receiving]
       \/ /\ task[s].then = "stop"
          /\ task' = [task EXCEPT ![s].pc = "stopping"]
          /\ latest' = latest
    /\ UNCHANGED <<backend, failed, recordVars, buffer, readingOf, written, lost, stopping, trailing, announceVars>>

-----------------------------------------------------------------------------
(* StopTransaction *)

\* History: what had been accepted when the first StopTransaction frame came.
NoteStop(t) ==
    /\ stopping' = stopping \cup {t}
    /\ trailing' = IF t \in stopping THEN trailing ELSE [trailing EXCEPT ![t] = Accepted(t)]

\* handle_stop_transaction begins: flush the buffer, whoever's rows it holds.
\* The frame may be a retry, and may name a transaction nobody started.
StopFrame(s, t) ==
    /\ task[s].pc = "receive"
    /\ NoteStop(t)
    /\ TakeRows(buffer, s, "stop", t, 0)
    /\ UNCHANGED <<backend, failed, recordVars, readingOf, latest, lost, announceVars>>

\* Variant: the slot is cleared for whichever transaction it shows.
ReleaseAnySlot(t) == [active EXCEPT ![charger[t]] = NoTxn]

\* _active is cleared only if it still shows this transaction.
ReleaseSlot(t) ==
    IF active[charger[t]] = t THEN [active EXCEPT ![charger[t]] = NoTxn] ELSE active

CloseOut(s, t) ==
    /\ status' = [status EXCEPT ![t] = "completed"]
    /\ closeOuts' = [closeOuts EXCEPT ![t] = @ + 1]
    /\ active' = IF backend = "memory" THEN ReleaseSlot(t) ELSE active
    /\ task' = [task EXCEPT ![s].pc = "publishing"]
    /\ UNCHANGED <<backend, failed, charger, newest, meterVars, announceVars>>

\* UnknownTransactionError is not caught by the endpoint: the connection ends.
StopUnknown(s) ==
    /\ task[s].pc = "stopping" /\ status[task[s].txn] = "none"
    /\ task' = [task EXCEPT ![s] = Closed]
    /\ UNCHANGED <<backend, failed, recordVars, meterVars, announceVars>>

\* already_stopped: nothing is written and nothing published.
StopAlreadyStopped(s) ==
    /\ task[s].pc = "stopping" /\ status[task[s].txn] = "completed"
    /\ task' = [task EXCEPT ![s] = Receiving]
    /\ UNCHANGED <<backend, failed, recordVars, meterVars, announceVars>>

\* The record is active: closed out at once in memory; with Supabase the
\* select has returned and the update is the next request.
StopActive(s) ==
    /\ task[s].pc = "stopping" /\ status[task[s].txn] = "active"
    /\ \/ /\ backend = "memory"
          /\ CloseOut(s, task[s].txn)
       \/ /\ backend = "supabase"
          /\ task' = [task EXCEPT ![s].pc = "patching"]
          /\ UNCHANGED <<backend, failed, recordVars, meterVars, announceVars>>

\* The PATCH names the id only, so it also rewrites a completed record.
StopPatch(s) ==
    /\ task[s].pc = "patching"
    /\ CloseOut(s, task[s].txn)

\* Variant: the handler returns without publishing.
PublishNothing(s) ==
    /\ task[s].pc = "publishing"
    /\ task' = [task EXCEPT ![s] = Receiving]
    /\ UNCHANGED <<backend, failed, recordVars, meterVars, announceVars>>

PublishStop(s) ==
    /\ task[s].pc = "publishing"
    /\ stopEvents' = [stopEvents EXCEPT ![task[s].txn] = @ + 1]
    /\ task' = [task EXCEPT ![s] = Receiving]
    /\ UNCHANGED <<backend, failed, recordVars, meterVars, unheard>>

\* The transactions some of these tasks have closed out and not announced.
Publishing(S) == {task[s].txn : s \in {x \in S : task[x].pc = "publishing"}}

\* A repository or broker call raises; after the close-out, the event is
\* never published: a retry finds the record completed.
StopFails(s) ==
    /\ ~failed /\ failed' = TRUE
    /\ task[s].pc \in {"stopping", "patching", "publishing"}
    /\ task' = [task EXCEPT ![s] = Closed]
    /\ unheard' = unheard \cup Publishing({s})
    /\ UNCHANGED <<backend, recordVars, meterVars, stopEvents>>

-----------------------------------------------------------------------------
Reconnect(s) ==
    /\ task[s].pc = "closed"
    /\ task' = [task EXCEPT ![s] = Receiving]
    /\ UNCHANGED <<backend, failed, recordVars, meterVars, announceVars>>

\* The gateway process dies and restarts on the same database.
Crash ==
    /\ backend = "supabase" /\ ~failed /\ failed' = TRUE
    /\ lost' = lost \cup buffer \cup UNION {task[s].rows : s \in Sockets}
    /\ buffer' = {}
    /\ task' = [s \in Sockets |-> Closed]
    /\ unheard' = unheard \cup Publishing(Sockets)
    /\ UNCHANGED <<backend, recordVars, readingOf, latest, written, stopping, trailing, stopEvents>>

HandlerStep(s) ==
    \/ \E r \in Readings : WriteRow(s, r) \/ WriteRowRefused(s, r)
    \/ FlushDone(s)
    \/ StopUnknown(s) \/ StopAlreadyStopped(s) \/ StopActive(s) \/ StopPatch(s)
    \/ PublishStop(s)

Next ==
    \/ \E s \in Sockets :
        \/ \E t \in Txns : StartTransaction(s, t) \/ StartFails(s, t) \/ StopFrame(s, t)
        \/ \E t \in Txns, r \in Readings : MeterValuesBuffered(s, t, r) \/ MeterValuesFlushing(s, t, r)
        \/ HandlerStep(s)
        \/ WriteRowFails(s) \/ StopFails(s) \/ Reconnect(s)
    \/ Crash

Spec == Init /\ [][Next]_vars

-----------------------------------------------------------------------------
\* Every variable has the shape the code gives it; a task's transaction and rows
\* are ones that exist.
TypeOK ==
    /\ \A s \in Sockets :
        /\ task[s].pc \in {"receive", "flushing", "stopping", "patching", "publishing", "closed"}
        /\ task[s].txn \in Txns \cup {NoTxn}
        /\ task[s].rows \subseteq Readings
    /\ status \in [Txns -> {"none", "active", "completed"}]
    /\ charger \in [Txns -> Chargers \cup {"unset"}]
    /\ active \in [Chargers -> Txns \cup {NoTxn}]
    /\ backend \in Backends /\ failed \in BOOLEAN
    /\ buffer \subseteq Readings /\ lost \subseteq Readings
    /\ readingOf \in [Readings -> Txns \cup {NoTxn}]
    /\ written \in [Readings -> Nat]
    /\ stopping \subseteq Txns /\ trailing \in [Txns -> SUBSET Readings]

\* A StopTransaction that the charger retries is a no-op: neither a second
\* close-out of the record nor a second stop_transaction event.
StopIsIdempotent ==
    \A t \in Txns : closeOuts[t] <= 1 /\ stopEvents[t] <= 1

\* StopTransaction flushes before the session record closes: the readings a
\* session had when the frame came in have left the buffer once the record is
\* closed out, and where the sink does not suspend they are in it.
TrailingReadingsLeave ==
    \A t \in Txns : closeOuts[t] > 0 =>
        /\ trailing[t] \cap buffer = {}
        /\ backend = "memory" => \A r \in trailing[t] : written[r] > 0

\* Every reading the gateway took in is in exactly one place: the buffer, one
\* task's batch, the sink (once), or lost to a failure; and the readings of a
\* stopped session have left the buffer.
ReadingsConserved ==
    /\ TrailingReadingsLeave
    /\ \A r \in Readings :
          LET holders == {s \in Sockets : r \in task[s].rows}
              places  == (IF r \in buffer THEN 1 ELSE 0) + Cardinality(holders)
                           + written[r] + (IF r \in lost THEN 1 ELSE 0)
          IN  places = (IF readingOf[r] = NoTxn THEN 0 ELSE 1)

\* Where stop_transaction does not suspend, a repeated stop is a no-op, and
\* get_active_transaction (which stop_session and live status rely on) shows
\* the charger's newest transaction for as long as that is active.
NewestActiveIsShown ==
    backend = "memory" =>
        /\ StopIsIdempotent
        /\ \A h \in Chargers, t \in Txns :
              newest[h] = t /\ status[t] = "active" => active[h] = t

\* The record is closed out before the event is published, and a retried
\* StopTransaction that finds it closed publishes nothing (message_handlers.py:
\* 130-133): so the event is out or its task is about to publish it, unless the
\* very handler that closed the record died before it published, whatever else
\* failed before or since.
CloseOutIsAnnounced ==
    \A t \in Txns : closeOuts[t] > 0 => stopEvents[t] > 0 \/ t \in Publishing(Sockets) \cup unheard
=============================================================================
