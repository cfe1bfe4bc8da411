---------------------------- MODULE EventDelivery ----------------------------
(***************************************************************************)
(* StatusNotifications of one charger on their way to the consumers of the *)
(* event bus: the handler updates the connector and publishes an event;    *)
(* EventConsumer.deliver runs the consumer's handler and remembers that it *)
(* succeeded; the ocpi-sync consumer (LocationSyncService) updates the     *)
(* Location and pushes it to the connected partners one after the other.   *)
(* The portal-live-feed consumer's handler is not in the repository.       *)
(*                                                                         *)
(* InMemoryEventBus delivers inside publish, once, consumer by consumer;   *)
(* JetStream (external) delivers what it holds any number of times, in any *)
(* order, also while it is being processed; nothing makes it deliver again *)
(* what a handler failed on, since deliver swallows the exception and acks *)
(* nothing, so no fairness is assumed.  A consumer of JetStream may be     *)
(* restarted and loses its InMemorySeenEventStore.                         *)
(* An event is the number of the status it reports.                        *)
(***************************************************************************)
EXTENDS Naturals, FiniteSets

CONSTANTS MaxStatus,  \* bound: statuses the charger reports
          NumPartners,\* connected partners, pushed to in this order
          Tasks,      \* deliveries under way at once
          Threshold,  \* lag_threshold
          MaxFaults,  \* bound: handler failures and consumer restarts
          Buses,      \* the buses considered: "memory", "nats"
          PushClients \* the push clients considered: "memory", "http"

ASSUME DeliveryAssumption ==
    /\ {MaxStatus, NumPartners, Threshold, MaxFaults} \subseteq Nat \ {0}
    /\ Buses \subseteq {"memory", "nats"} /\ PushClients \subseteq {"memory", "http"}

VARIABLES
    bus,        \* which bus the gateway publishes on
    client,     \* which push client LocationSyncService was given
    socket,     \* the socket's handler: "reading", "updated", "publishing"
    connector,  \* the status the connector store shows
    stream,     \* events published
    handling,   \* deliveries: [pc, consumer, event, partner]
    offered,    \* <<consumer, event>>: the in-memory publish has called deliver
    seen,       \* SeenEventStore
    handled,    \* how often the handler succeeded (handled_event_ids, over restarts)
    failures,   \* _consecutive_failures
    alerted,    \* an alert has been sent since the consumer's last success
    location,   \* evse_status of the materialized Location
    received,   \* the statuses that have reached each endpoint
    faults,     \* handler failures and consumer restarts so far
    overlapped, \* <<consumer, event>>: handled by two deliveries at once
    forgotten   \* <<consumer, event>>: processed, and lost with the seen store

edVars == <<bus, client, socket, connector, stream, handling, offered, seen, handled, failures,
            alerted, location, received, faults, overlapped, forgotten>>
setupVars == <<bus, client>>
chargerVars == <<socket, connector, stream>>
consumerVars == <<seen, handled, failures, alerted>>
roamingVars == <<location, received>>
ghostVars == <<faults, overlapped, forgotten>>

Consumers == {"ocpi-sync", "portal-live-feed"}
Events == 1..MaxStatus
Partners == 1..NumPartners
Free == [pc |-> "free", consumer |-> "none", event |-> 0, partner |-> 0]

EdInit ==
    /\ bus \in Buses /\ client \in PushClients
    /\ socket = "reading" /\ connector = 0 /\ stream = {}
    /\ handling = [d \in Tasks |-> Free]
    /\ offered = {} /\ seen = {} /\ handled = [k \in Consumers |-> [e \in Events |-> 0]]
    /\ failures = [k \in Consumers |-> 0] /\ alerted = [k \in Consumers |-> FALSE]
    /\ location = 0 /\ received = [p \in Partners |-> {}]
    /\ faults = 0 /\ overlapped = {} /\ forgotten = {}

-----------------------------------------------------------------------------
(* The socket: handle_status_notification *)

\* A frame arrives; connector_store.update_status.
StatusArrives ==
    /\ socket = "reading" /\ connector < MaxStatus
    /\ connector' = connector + 1
    /\ socket' = "updated"
    /\ UNCHANGED <<setupVars, stream, handling, offered, consumerVars, roamingVars, ghostVars>>

\* publish_status_notification: JetStream has taken the event, or the
\* in-memory bus starts to deliver it.
Publish ==
    /\ socket = "updated"
    /\ stream' = stream \cup {connector}
    /\ socket' = IF bus = "memory" THEN "publishing" ELSE "reading"
    /\ UNCHANGED <<setupVars, connector, handling, offered, consumerVars, roamingVars, ghostVars>>

\* js.publish raises; the event may or may not be in the stream.  The exception
\* ends the socket's loop and the charger reconnects; the connector keeps its
\* new status.
PublishRaises ==
    /\ bus = "nats" /\ socket = "updated"
    /\ stream' \in {stream, stream \cup {connector}}
    /\ socket' = "reading"
    /\ UNCHANGED <<setupVars, connector, handling, offered, consumerVars, roamingVars, ghostVars>>

\* InMemoryEventBus.publish has gone through its consumers.
PublishReturns ==
    /\ socket = "publishing"
    /\ \A k \in Consumers : <<k, connector>> \in offered
    /\ \A d \in Tasks : handling[d] = Free
    /\ socket' = "reading"
    /\ UNCHANGED <<setupVars, connector, stream, handling, offered, consumerVars, roamingVars, ghostVars>>

-----------------------------------------------------------------------------
(* EventConsumer.deliver *)

Busy(d) == handling[d] # Free

\* When the bus calls deliver.
MayDeliver(k, e) ==
    /\ e \in stream
    /\ bus = "memory" => <<k, e>> \notin offered /\ \A d \in Tasks : ~Busy(d)

\* Variant: what is processed is not looked up.
NotProcessed(k, e) == TRUE

\* ~has_processed; otherwise deliver returns at once and nothing changes.
Unprocessed(k, e) == <<k, e>> \notin seen

\* deliver, up to the handler's first await: handle_status_notification of
\* LocationSyncService upserts the Location before it pushes anything.
Deliver(d, k, e) ==
    LET others == {b \in Tasks : handling[b].consumer = k} IN
    /\ ~Busy(d) /\ MayDeliver(k, e) /\ Unprocessed(k, e)
    /\ offered' = IF bus = "memory" THEN offered \cup {<<k, e>>} ELSE offered
    /\ overlapped' = IF \E b \in others : handling[b].event = e
                     THEN overlapped \cup {<<k, e>>} ELSE overlapped
    /\ \/ /\ k = "ocpi-sync"
          /\ location' = e
          /\ handling' = [handling EXCEPT ![d] = [pc |-> "push", consumer |-> k, event |-> e, partner |-> 1]]
       \/ /\ k # "ocpi-sync"
          /\ handling' = [handling EXCEPT ![d] = [pc |-> "handle", consumer |-> k, event |-> e, partner |-> 0]]
          /\ UNCHANGED location
    /\ UNCHANGED <<setupVars, chargerVars, consumerVars, received, faults, forgotten>>

\* HttpPartnerPushClient has one configured endpoint for all partners, under
\* number 1 here; the in-memory client records each push under its partner.
Endpoint(p) == IF client = "http" THEN 1 ELSE p

\* push_location_update reaches its endpoint with the copy of the Location that
\* was made when the handler started.
Push(d) ==
    /\ handling[d].pc = "push"
    /\ received' = [received EXCEPT ![Endpoint(handling[d].partner)] = @ \cup {handling[d].event}]
    /\ handling' = [handling EXCEPT ![d].pc = "answer"]
    /\ UNCHANGED <<setupVars, chargerVars, offered, consumerVars, location, ghostVars>>

\* The partner has accepted it; there is a next one.
NextPartner(d) ==
    /\ handling[d].pc = "answer" /\ handling[d].partner < NumPartners
    /\ handling' = [handling EXCEPT ![d].pc = "push", ![d].partner = @ + 1]
    /\ UNCHANGED <<setupVars, chargerVars, offered, consumerVars, roamingVars, ghostVars>>

AtEnd(d) == handling[d].pc = "handle" \/ (handling[d].pc = "answer" /\ handling[d].partner = NumPartners)

\* mark_processed
Remember(k, e) == seen \cup {<<k, e>>}

\* The handler returns: mark_processed, handled_event_ids, the count is reset.
Succeed(d) ==
    LET k == handling[d].consumer
        e == handling[d].event IN
    /\ AtEnd(d)
    /\ seen' = Remember(k, e)
    /\ handled' = [handled EXCEPT ![k][e] = IF @ < 2 THEN @ + 1 ELSE @]
    /\ failures' = [failures EXCEPT ![k] = 0] /\ alerted' = [alerted EXCEPT ![k] = FALSE]
    /\ handling' = [handling EXCEPT ![d] = Free]
    /\ UNCHANGED <<setupVars, chargerVars, offered, roamingVars, ghostVars>>

Lags(n) == n >= Threshold

\* Variant: a push that fails is swallowed in the loop, which goes on.
FailSwallowed(d) ==
    /\ Busy(d) /\ faults < MaxFaults
    /\ faults' = faults + 1
    /\ handling' = [handling EXCEPT ![d].pc = IF @ = "push" THEN "answer" ELSE @]
    /\ UNCHANGED <<setupVars, chargerVars, offered, consumerVars, roamingVars, overlapped, forgotten>>

\* The handler raises, before the partner was reached or after: counted,
\* reported when the consumer lags, and not propagated.
Fail(d) ==
    LET k == handling[d].consumer
        n == failures[k] + 1 IN
    /\ Busy(d) /\ faults < MaxFaults
    /\ faults' = faults + 1
    /\ failures' = [failures EXCEPT ![k] = n]
    /\ alerted' = [alerted EXCEPT ![k] = @ \/ Lags(n)]
    /\ handling' = [handling EXCEPT ![d] = Free]
    /\ UNCHANGED <<setupVars, chargerVars, offered, seen, handled, roamingVars, overlapped, forgotten>>

\* The process of a JetStream consumer is restarted: what it was handling is
\* abandoned where it stands, and EventConsumer and its seen store start empty.
ConsumerRestarts(k) ==
    LET lost == {s \in seen : s[1] = k} IN
    /\ bus = "nats" /\ faults < MaxFaults
    /\ faults' = faults + 1
    /\ handling' = [d \in Tasks |-> IF handling[d].consumer = k THEN Free ELSE handling[d]]
    /\ seen' = seen \ lost /\ forgotten' = forgotten \cup lost
    /\ failures' = [failures EXCEPT ![k] = 0] /\ alerted' = [alerted EXCEPT ![k] = FALSE]
    /\ UNCHANGED <<setupVars, chargerVars, offered, handled, roamingVars, overlapped>>

EdNext ==
    \/ StatusArrives \/ Publish \/ PublishRaises \/ PublishReturns
    \/ \E d \in Tasks :
        \/ \E k \in Consumers, e \in Events : Deliver(d, k, e)
        \/ Push(d) \/ NextPartner(d) \/ Succeed(d) \/ Fail(d)
    \/ \E k \in Consumers : ConsumerRestarts(k)

EdSpec == EdInit /\ [][EdNext]_edVars

-----------------------------------------------------------------------------
\* Every variable has the shape the code gives it.
EdTypeOK ==
    /\ bus \in Buses /\ client \in PushClients /\ socket \in {"reading", "updated", "publishing"}
    /\ connector \in 0..MaxStatus /\ stream \subseteq 1..connector
    /\ handling \in [Tasks -> [pc : {"free", "push", "answer", "handle"},
                           consumer : Consumers \cup {"none"}, event : 0..MaxStatus,
                           partner : 0..NumPartners]]
    /\ offered \subseteq Consumers \X stream /\ seen \subseteq Consumers \X stream
    /\ handled \in [Consumers -> [Events -> 0..2]]
    /\ failures \in [Consumers -> 0..MaxFaults] /\ alerted \in [Consumers -> BOOLEAN]
    /\ location \in 0..MaxStatus /\ received \in [Partners -> SUBSET stream]
    /\ faults \in 0..MaxFaults
    /\ overlapped \subseteq Consumers \X stream /\ forgotten \subseteq Consumers \X stream

\* Redelivery of an event that was processed is a no-op: a consumer handles an
\* event twice only when two deliveries of it overlapped, or when a restart
\* made it forget that it had (InMemorySeenEventStore, has_processed).
HandledOnce ==
    \A k \in Consumers, e \in Events :
        handled[k][e] > 1 => <<k, e>> \in overlapped \cup forgotten

\* An event that ocpi-sync has marked processed was pushed for every connected
\* partner, to whatever endpoint the client has for it: a handler that fails or
\* is killed at any partner leaves the event unprocessed, even while another
\* delivery of it or of an older status is at another partner.
ProcessedWasPushed ==
    \A e \in Events :
        <<"ocpi-sync", e>> \in seen => \A p \in Partners : e \in received[Endpoint(p)]
=============================================================================
