# EVAggregator in TLA+

This directory models the parts of EVAggregator where several things happen at
once: the OCPP gateway that talks to chargers, the driver's session that spans
two processes, the wallet and its payment provider, the tokens on the phone and
at the gateway, the event bus behind the roaming push, and the services around
charging: roaming, tariffs and invoices, fleets, tenancy, onboarding. TLC checks the
models on small instances; TLAPS proves their safety properties for every instance.
Paths below are relative to `src/backend/src/evagg/` unless they start with `src/`.

1. [The system](#1-the-system)
2. [What each module models](#2-what-each-module-models)
3. [Runs, bounds and fairness](#3-runs-bounds-and-fairness)
4. [Where the code and its documentation disagree](#4-where-the-code-and-its-documentation-disagree)
5. [Proofs](#5-proofs)
6. [What is only model-checked, and what is not modelled](#6-what-is-only-model-checked-and-what-is-not-modelled)
7. [Plan](#7-plan)

## 1. The system

EVAggregator is a charging aggregator: a Python backend of three processes, a
Flutter app for drivers and an Angular portal for operators.

| process | entry point | what runs in it |
|---|---|---|
| main | `main.py` | REST API: sessions, wallet, tariffs, commands, OCPI |
| edge | `edge_app.py` | WebSocket endpoint for chargers, NATS command subscription |
| gateway | `gateway_app.py` | OAuth codes, refresh tokens, SSO, rate limit |

Each process calls `build_services()` (`composition.py`) for itself. A store is
shared only if it is in Redis, NATS or Supabase; an in-memory one exists once per
process. All are asyncio: a coroutine runs alone until an `await` that really
suspends. In-memory stores are `async` and never suspend; Redis, NATS, Supabase
and HTTP calls do. This one fact decides how big the steps of the models are, and
is why several modules take the backend as a constant.

### Components

| component | state it keeps | operations | meets |
|---|---|---|---|
| Remote commands (`ocpp_gateway/commands.py`, `nats_command_transport.py`, `ws_app.py`) | command log; per node a NATS queue, a connection registry and the pending futures of every connection | send, serve, resolve, reject, time out | presence (to find the node), chargers, the session service |
| Presence (`presence.py`, `connection_manager.py`) | one Redis record per charger with an expiry | handshake, refresh per frame, disconnect, sweep | nodes of one charger race on its record |
| Transactions and meter values (`message_handlers.py`, `transactions.py`, `meter_values.py`, `persistence/supabase_ocpp.py`) | transaction records, the shared buffer, the latest reading | Start, MeterValues, Stop frames | sockets' tasks share buffer and records; stop publishes an event |
| Event bus and location sync (`event_bus.py`, `ocpi/location_sync.py`) | seen events, failures per consumer, the Location | publish, deliver, push to partners | OCPP handlers, roaming partners |
| Session start and stop (`charging_auth/session_start.py`) | session owner and charger | start by QR, app, Autocharge, Plug & Charge; stop; live status | commands, transactions, history, rewards |
| Rewards and history (`driver_app/rewards.py`, `session_history.py`) | points, records | award, redeem, record | stop |
| Wallet (`billing/wallet.py`, `wallet_router.py`, `stripe_webhook.py`) | append-only ledger | initiate, confirm by webhook | payment provider, twice |
| Session billing (`billing/session_billing.py`, `payment_provider.py`) | payment status, failure count, retry schedule, suspension | charge, retry | wallet, payment provider |
| Driver sign-in (`identity/`, `gateway/refresh_store.py`) and app (`src/mobile/lib/core/`) | token families; access and refresh token in memory and on disk | login, call, refresh on 401, logout, restore | several calls of one app at once |
| API gateway (`gateway/app.py`, `rate_limit.py`) | codes, token families, counters | authorize, redeem, refresh, SSO | Redis |
| Smart charging and OCPI commands (`ocpi/commands.py`, `charging_profiles.py`, `charging_preferences.py`) | session-to-charger map, profile and preferences of each session | start, stop, set profile, set preferences | commands; one charger's transaction profile serves all its sessions |
| Reservations (`driver_app/reservations.py`) | the drivers' list | reserve, cancel | the charger, which keeps its own |
| Roaming tokens (`ocpi/tokens.py`) | a Redis entry per token, with an expiry | whitelist, blacklist, check | Authorize frames, partners |
| Roaming partners (`ocpi/partner_store.py`, `versions.py`, `admin_router.py`) | tokens and version of each partner | create, rotate, negotiate, authenticate | the partner, which holds its own copy |
| CDRs (`ocpi/cdr.py`, `partner_admin.py`) | records by session, pushed pairs | generate on stop, push, reconcile | stop events, partners |
| Tariffs (`billing/tariffs.py`, `persistence/supabase_billing.py`, `ocpi/tariff_bridge.py`) | a row and its components | create, update, read by three OCPI versions | editors and readers at once |
| Pricing (`billing/tariff_versioning.py`, `tariff_calculator.py`, `promotions.py`) | versions, redemptions | add a version, price, redeem | sessions that span a change |
| Invoices (`billing/invoicing.py`) | invoice, adjustments | generate, issue, edit, credit, mark overdue | session records |
| Fleet teams and reports (`fleet/`) | uses of an invite, memberships; rollups | redeem; roll up, report | redeemers at once; sessions that end late |
| Carbon intensity (`carbon/`) | a Redis entry per zone | get, with retries and a stale fallback | the provider |
| Tenancy (`core/tenancy.py`, `core/db.py`, `gateway/middleware.py`, forwarders) | the request's context, a setting of the transaction | forward, verify, bind, query, end | pooled connections, row level security |
| Charger onboarding (`ocpp_gateway/registration.py`, `persistence/supabase_ocpp.py`) | the charger's row, its firmware updates | boot, approve, update, status | two sockets, the operator |
| Session identity (`charging_auth/`, `driver_app/vehicles.py`) | vehicles and opt-ins, MAC addresses | start by QR, app, Autocharge, Plug & Charge | the OCSP responder |
| Route planner, map, insights, portal, app screens | | | see section 6 |

### What is hard here

* *Interleavings at awaits.* A check and the write it protects are on two sides
  of an await: webhook deduplication, stop of a transaction, the Redis record's
  read-modify-write, event deduplication.
* *Late and repeated answers.* A charger's reply after the timeout, on a
  connection opened after a reconnect, or twice; a refresh whose answer got lost.
* *Crashes.* A node with a command in its queue; the gateway between `INCR` and
  `EXPIRE`; the app between a rotation and the write to disk.
* *Two processes, two copies* of a store that one writes and the other reads.
* *One step of several failing.* A batch that was taken out of the buffer and not
  written; a charge that was carried out and reported as failed.

What makes the components correct, in one line each: the command log never says
the opposite of what the charger sent; every meter reading is in exactly one place;
an online charger was heard from recently and one that has gone does not stay
online; a payment is credited once, a card charged once, and a session's payment
status is earned; a token has one successor and an app that behaves is not taken
for a thief; a recorded stop rests on the charger's answer; an event that was marked
processed went to every partner; what a store shows of a charger, a partner or a
session is what that charger, partner or session has; a request runs under its own
tenant.

## 2. What each module models

`map` in PROJECT.json gives the source lines of every definition.

**RemoteCommands** follows a command from `send_command` through the NATS request
to the node's `_handle`, `send_call`, the charger and back. A node handles one
message at a time (the NATS client awaits the callback), so requests queue.
`log` is the command log, `pending` and `future` are `LiveConnection._pending`
and its futures, `live` the registry. Actions are the steps between awaits:
`SendCommand`, `HandleSendCall`, `HandleAnswered`, `HandleTimesOut`,
`ReceiveReply`, `RequestTimesOut` and so on; `ChargerAnswers` may answer at any
time, more than once, on any open connection of the charger, with a CallResult that
agrees, a CallResult that declines, or a CallError. "accepted" is the reply to either
CallResult, as in `serve_commands`. That reply may fail to be carried: then the
catch-all answers "rejected" (`HandleResultUncarried`, at most `MaxUnsent` times).
Nodes crash and come back, sockets break and reconnect anywhere. That presence may be
stale is modelled by letting `SendCommand` address any node.

**ChargerPresence** is one charger's Redis record, with each round trip of
`refresh` and `mark_offline` a step of its own, under several sockets on several
nodes, plus the nodes' registry entries. Time passes by `Tick`; a record
disappears when its ttl has run out.

**ChargeTransactions** is the inbound side: one task per socket, the shared
`MeterValueBuffer`, both transaction repositories. With the Supabase repository
the select and the patch of `stop_transaction` are separate steps
(`StopActive`, `StopPatch`) and a batch is written row by row; in memory each is
one step. Readings of a transaction nobody started are taken in as well; Supabase
refuses their rows by the foreign key (`WriteRowRefused`), and the rest of the batch
is lost with them. A store or broker call fails, or the process crashes, at most
once; `unheard` is the transactions whose handler died between close-out and publish.

**ChargingSessions** composes what the driver sees: start requests of
`SessionStartService` in main, the charger, and the OCPP handlers in edge.
`Builds` chooses whether both use the same stores ("single", the wiring of
the unit tests) or their own ("split", docker-compose). A remote command appears
as RemoteCommands looks from outside: the charger answers with a CallResult, in which
it agrees or declines, or with a CallError or not at all, and the answer may get lost.
The service binds a session, or records and rewards a stop, after any CallResult.
`Accepted` is the drivers whose id tags the Authorizer's list knows (one fixed tag in
testing mode, nobody otherwise); the StartTransaction of another tag is answered
Invalid, and the charger does not charge.

**WalletBilling** has request handlers as workers. Webhook deliveries of a top-up
go by the internal route or by Stripe's. `charge_session` may be called at any time,
again and by several callers at once (`MaxCalls`); it debits the wallet, or calls
the provider with retries under an idempotency key. An insert into the ledger may
raise before or after the row was written (`MaxFaults`), and with Supabase always does
for a wallet that has no row (`walletRow`). A 2xx of the provider may be of an intent that is still
processing; `IntentSettles` decides it later. The driver may change the payment method
at any time. **TopUpContract** is the abstract promise of the
top-up side (each payment is credited at most once, after it was made, and never
taken back); WalletBilling is checked to implement it under a refinement mapping
that counts the credits of overlapping deliveries once.

**DriverAuth** puts `ApiClient` and `AuthSession` of the phone next to the refresh
token store and the account store. Calls run in parallel; each one that meets a 401
refreshes on its own. Storage writes are a queue that the app's death cuts off. A
restart of the service empties both stores, so that the driver has to sign up again.

**ApiGateway** is the gateway process: code, refresh and SSO grants, which redeem
or rotate first and ask the rate limiter afterwards. An SSO assertion is what is
wrong with it, if anything; each kind of provider looks for what its code looks for. With the in-memory limiter a
handler is one step; with Redis it is suspended before `INCR` and before
`EXPIRE`. A restart empties the in-memory stores and leaves Redis alone.

**EventDelivery** takes a status from the frame to the partners: the connector
store, the publish, `EventConsumer.deliver` and
`LocationSyncService.handle_status_notification`. The in-memory bus delivers once
inside `publish`; JetStream (external) may deliver in any order, again, also while
the event is being processed, or never: the code has no pull consumer, ack or nak, so
no redelivery is promised and no liveness claimed. `HttpPartnerPushClient` posts every
push to the one endpoint it was configured with, the in-memory client keeps one list
per partner (`client`). `ConsumerRestarts` kills the deliveries under way and empties
the seen-store, which is in memory on either bus.

The services around charging have a module each, with state, actions and one or
two properties. They share no state with each other or with the modules above: what
they use of those is an external action. A charger that is sent a command does as it
is told, declines in a CallResult (which the services take for ACCEPTED), answers with
a CallError or not in time; what timed out may still be applied later, at most
`MaxOverdue` (profiles) or `MaxStraying` (reservations) at once.

| module | what is a step | what is external |
|---|---|---|
| **SmartCharging** | a command is sent; its answer is applied. Profiles are stored by session after the charger's answer; starting and stopping bind and unbind; a preference is accepted or refused at once | the charger, which applies one transaction profile, also one whose request has timed out |
| **Reservations** | a request is sent; its answer changes the list | the charger, which keeps one reservation, lets it expire, and may heed a request after its timeout |
| **RoamingTokens** | the GET and the EXPIRE of a check; a partner's word; a tick | Redis expiry |
| **RoamingPartners** | each request; the partner hears the answer, or it is lost or overtaken; the edge restarts with an empty registry | the partner and the operator, who hold tokens |
| **CdrExchange** | a delivery of a stop generates the record; a push starts, returns or raises | the partner, which may have received what raised |
| **TariffCatalogue** | a body is refused unless it has an energy or a time component and step sizes are positive; in memory a save is one step; with Supabase each request: patch, delete, one insert per component; a read's two requests | the database |
| **Pricing** | a version is added; a session begins; it is priced, with or without a promo code (percent or flat, with or without a limit); a version may be backdated | the clock |
| **Invoicing** | generate, issue, edit, credit, mark overdue, each at once | sessions that end, the clock |
| **FleetTeams** | a redeemer enters the lock, wakes up and counts, and becomes a member | the clock and the limiter's window |
| **FleetReports** | a session is recorded; a rollup of a day succeeds or fails. The report is an operator over the rollups | |
| **CarbonIntensity** | cache read, each attempt at the provider, cache write, answer | the provider, Redis expiry, the clock |
| **Tenancy** | forward (QR and app starts for the caller, Autocharge and Plug & Charge for whoever the body's MAC or certificate belongs to), verify or refuse, bind, query through `get_db`, end of the transaction, respond | PostgreSQL and the connection pool |
| **ChargerOnboarding** | connect; with Supabase the SELECT and the PATCH of a boot; approve; start an update; a status on any open socket is published, which may raise, then booked | the operator, the charger |
| **SessionIdentity** | vehicles and opt-ins; the four ways to start (the QR token is verified with the secret of the request's own body); the OCSP answer; the remote start's end | the certificate authority and its responder |

`MCServices` extends all of them and DriverAuth. Its variable `part` is chosen in
the initial state and only that service moves, so that the reachable states of the
services add up instead of multiplying; profiles and preferences, and boots and
firmware, which do not touch each other's state, are followed apart too. `MCIngest`
(ChargeTransactions and EventDelivery) and `MCEventually` (ApiGateway, ChargerPresence
and WalletBilling, each with the fairness of its own specification) do the same.

Every module has a type invariant (`TypeOK`, `ScTypeOK`, ...). Those of
RemoteCommands, WalletBilling and ChargingSessions are theorems; all hold in their
instances, and are left out of the configurations in favour of what could really go
wrong.

Each other `MC*` module extends its module with what the instances need (symmetry sets,
a constant function). The proofs are in modules of their own, which the
specifications do not use: `RemoteCommandsProofs`, `WalletBillingProofs`,
`TransactionsProofs` and `SessionsProofs` for one module each; `GatewayProofs` for
ChargerPresence, EventDelivery and ApiGateway; `RoamingProofs` for SmartCharging,
Reservations, RoamingTokens, RoamingPartners and CdrExchange; `PlatformProofs` for
DriverAuth and the other services; `SetSums` for the sums that several of them take.

Definitions commented "Variant" are plausible bugs (a dropped guard, a missing
reset, a wrong comparison). No specification uses them; replacing the original by
its variant makes TLC find the listed property violated, which shows that the
property depends on that code.

## 3. Runs, bounds and fairness

| run | configuration | what it shows |
|---|---|---|
| `commands` | 2 commands, 1 charger, 2 nodes, 2 connections, timeouts 1 < 2, 1 answer not carried | a command is logged accepted only if its charger answered that call with a CallResult, and rejected after one only if NATS did not carry it (`VerdictIsTheChargers`); outcomes are final (`OutcomeIsFinal`); no exit of `send_call` leaks a pending entry (`NoLeakedPending`); a node that was free answers before the requester gives up (`NodeAnswersFirst`) |
| `commands_declined` | 1 command | violation, see section 4 |
| `sessions` | 2 drivers, of whom the Authorizer knows one, on 1 charger, 2 sessions, both deployments and repositories | a recorded stop is of a transaction at the session's charger that the charger answered a RemoteStop for, with energy it had reported (`RecordedStopsAreAnswered`); a session is of a start the charger answered, and live status is real where stores are shared (`LiveStatusIsReal`); a start the charger agreed to charges (`StartedSessionCharges`), a recorded stop it agreed to happens (`RecordedStopHappens`) |
| `sessions_points` | 1 driver, 1 session, 2 stops | violation, see section 4 |
| `sessions_foreign_stop` | split deployment, Supabase | violation, see section 4 |
| `ingest` | transactions: 2 sockets of 1 charger, 2 transactions, 2 readings, both repositories, 1 failure; events: 2 statuses, 2 partners, 2 concurrent deliveries, 2 failures, both buses and push clients | readings are in one place each, and out of the buffer before a close-out (`ReadingsConserved`); the newest transaction stays visible and a stop is idempotent in memory (`NewestActiveIsShown`); a close-out is announced or about to be, unless its own handler died (`CloseOutIsAnnounced`); a processed event is not handled again while its consumer remembers it (`HandledOnce`), and it went out for every partner (`ProcessedWasPushed`) |
| `eventually` | gateway: 2 clients, 1 or 2 tenants, 1 code, 2 families, limit 1, window 2, both limiters; presence: 2 sockets, 2 nodes, interval 2; wallet: 1 top-up, 1 session, 2 handlers, 2 deliveries, 2 calls, 2 attempts, 1 fault, both ledgers and routes | codes are single use and an undisturbed session keeps its token (`SessionSurvives`), bursts are bounded by two windows (`BurstIsBounded`), a limit is lifted again (`LimitLifts`); a late close does not remove the newer socket (`RegistryHoldsNewest`), a charger with one socket at a time is addressed correctly (`SoleConnectionIsAddressed`), one that has gone is noticed (`GoneIsNoticed`); top-ups implement TopUpContract (`TopUpsFollowContract`), a card is charged once and a single call pays once (`SessionBilledOnce`), what a payment status says has happened (`StatusIsEarned`), a deliverable confirmation is credited (`ConfirmedTopUpIsCredited`) |
| `wallet_double_credit` | Supabase ledger, internal route | violation, see section 4 |
| `wallet_stripe` | Stripe route, with fairness | violation, see section 4 |
| `wallet_unbilled` | in-memory ledger, 1 call | violation, see section 4 |
| `auth_race` | 2 parallel calls, 2 logins, 2 generations | violation, see section 4 |
| `services` | two of everything that can race in each of the fifteen services | see the next table |

Properties of the run `services`:

| property | what it says |
|---|---|
| `CarefulClientNotRevoked` | a refresh token has one successor; an app that does one thing at a time holds the token the store accepts and is never revoked |
| `ProfileShownIsApplied` | the profile shown for the session set last is the one the charger goes by, unless the charger declined it, requests overlapped, timed out or the transaction ended; a recorded preference can be planned for and its session is bound |
| `ReservationsAgree` | a reservation at rest that was not declined in a CallResult, did not time out and did not expire is listed exactly if its charger keeps it; a cancel deletes a missing key only for one of those exceptions |
| `BlacklistHolds` | no check that begins after a blacklisting is accepted until the token is whitelisted again |
| `HeldTokenWorks` | a partner none of whose answers went astray is known by the token it holds, and no token names two partners |
| `CdrNeitherLostNorRepeated` | what is remembered as pushed was received; a record is repeated only for a push that raised or overlapped; reconciliation finds it |
| `TariffIsWhole` | a read that no save overlapped has the components of the version its row names, and both current OCPI versions show an energy or a time price of that version |
| `RevokedNeverStarts` | no session starts with a certificate that was untrusted, or revoked before it was presented |
| `RowsAreCallers` | a request that was let in runs under the tenant of the caller the edge verified; through `get_db` every row it reads is that tenant's, whatever connection it got |
| `ApprovalSurvives` | a boot never takes back the operator's approval |
| `FirmwareStatusIsItsOwn` | an update shown as installed was installed, unless it was started while another was under way |
| `BilledAsShown` | a bill is within rounding of the exact price under the version the session began under, unless a version was backdated; promo codes only lower it, within their limit |
| `InvoicedOnce` | no session is in two invoices or, if it ended in time, in none; an issued total changes by credit notes only |
| `SeatsAddUp` | memberships are the uses counted, at most `max_uses` |
| `ReportCountsSessions` | a report counts a session once per rollup of its day that came after it, the same by driver and by site |
| `FreshIsRecent` | a value answered as fresh was sampled within the TTL |

*Why the bounds are enough.* The hazards are races of two: two handlers of one
record, an old and a new socket, a request and its retry. Two of each actor make
every pairwise interleaving happen, and one more generation, delivery or reading
than the race needs is included, so that what follows a race is seen too. Every
action of every module fires in these runs. Bounds are named in the CONSTANTS
(`MaxDeliveries`, `MaxCalls`, `MaxFaults`, `MaxUnsent`, `MaxOverdue`, `MaxStraying`,
`MaxGen`, `MaxSecrets`, the `Max...Clock`s, ...) or, for things used once each
(`Conns`, `Sessions`, `Txns`, `Codes`), are the size of the set. The runs say
`CHECK_DEADLOCK FALSE` because these run out and nothing is left to happen. In
`services` one set of two model values plays the racing requests of every service, and its permutations are a
symmetry of all of them; the pricing instance has two versions of up to three components with
steps and prices that make a half round up and down.

*Fairness.* A handler that is inside a coroutine keeps running (`WF` of its
steps): the event loop schedules every ready task, and every await it is in has a
timeout or an answer. Payment providers deliver a webhook until it is acknowledged. A
charger that agreed to a start or a stop sends the frame. The
clock ticks; in ApiGateway `AgTick` has strong fairness, because it is disabled for
the length of a Redis round trip. Nothing is assumed of frames, connects, crashes,
users, of JetStream, which the code gives nothing to redeliver by, or of the presence
sweep, which nothing schedules. ChargeTransactions and EventDelivery state no fairness.

## 4. Where the code and its documentation disagree

Seven runs show a documented statement violated.

* **A webhook that overlaps its redelivery credits twice** (`wallet_double_credit`,
  `CreditedAtMostOnce`). `has_reference` and `append` are two HTTP requests and
  the table has no unique constraint on the reference.
* **A top-up paid through Stripe is not credited** (`wallet_stripe`,
  `PaidTopUpIsCredited`). `StripePaymentProvider.charge` sends no metadata; the
  webhook answers 400 to an intent without `metadata.wallet_id`.
* **Two calls that meet a 401 together log the driver out** (`auth_race`,
  `HonestClientNotRevoked`). Both present the same refresh token; the second is
  taken for a replay, and the family is revoked.
* **A driver can stop a later driver's charging** (`sessions_foreign_stop`,
  `StopsOwnTransaction`). The owner of a session is checked; what is stopped is
  whatever is active on the session's charger, for ever after.

* **A declined command is logged as accepted** (`commands_declined`,
  `DeclinedIsNotAccepted`). A charger declines in a CallResult with a status in its
  payload; `serve_commands` answers "accepted" to every CallResult and no caller looks
  at the payload, while `nats_command_transport.py:10-12` counts "a charger declining"
  among the REJECTED outcomes.
* **A stop is rewarded more than once** (`sessions_points`, `PointsArePerSession`).
  Until the charger's StopTransaction closes a transaction every further stop request
  for it is recorded and rewarded again, also one the charger declines.
* **A session marked charged may never be paid** (`wallet_unbilled`,
  `NeverSilentlyUnbilled`). A payment intent that is still processing counts as
  charged; the webhook ignores the event that says it failed.

More was met while modelling. The models contain these behaviours; the properties
of section 3 are stated so that they exclude exactly them.

* What follows from a declined command being ACCEPTED: a session whose RemoteStart was declined
  is bound and never charges; a declined reservation is listed; a declined
  cancellation takes the reservation off the list, and a second one that overlaps it
  raises KeyError (`driver_app/reservations.py:85`); a declined profile is stored as
  active (`ocpi/charging_profiles.py:198`).
* An answer "accepted" that NATS does not carry falls to the catch-all of
  `serve_commands` and is logged rejected, though the charger has done as it was told
  (`nats_command_transport.py:141-143`).
* Two overlapping StopTransaction frames close a Supabase record twice and publish
  two events (`persistence/supabase_ocpp.py:186`), against `transactions.py:4-8`.
* A NATS error other than a timeout or "no responders" leaves `send_command` with
  the record pending for ever (`nats_command_transport.py:76`), against
  `nats_command_transport.py:10-12`, which says it never raises.
* A StopTransaction can close a record while another socket's unfinished batch
  still holds its trailing readings; a batch whose write fails is lost
  (`meter_values.py:86`).
* A late close or refresh of an old socket, being a GET and a later SET, overwrites
  the record of the new one; a record that expired under an open connection is not
  made again by frames; the sweep's threshold equals the record's expiry, so with
  equal intervals it finds nothing, and nothing calls it.
* `charge_session` looks for no earlier debit: each call that goes to the wallet debits
  it again, and a call after a change of the payment method bills the session on both.
  A ledger insert that raised after it was written leaves the session pending though it
  was debited; for a wallet without a row every insert is refused.
* An app killed between a rotation and the write to disk presents a retired token
  at its next start; a refresh answered after logout signs the driver in again.
* In the split deployment main sees neither live readings nor,
  with the in-memory repository, transactions. The Authorizer's local list knows
  one fixed tag, so the `DRIVER:` tags of remote starts are answered Invalid.
* A 429 to a refresh comes after the rotation: the client's retry revokes its
  family. A gateway that dies between `INCR` and `EXPIRE` leaves a counter that
  never expires.
* A redelivered older event overwrites a newer Location, here and at the partners.
  The in-memory bus awaits its consumers in turn, so a slow one does hold up the
  others, against `event_bus.py:11-12`. `deliver` swallows the handler's exception and
  nothing pulls, acknowledges or refuses, so an event that failed once need not come
  again; a restarted consumer has forgotten what it processed.
* Two profiles sent to a charger at once, or for two sessions, leave the store
  showing one the charger does not go by; a reservation, cancellation or profile that
  the charger heeds after the timeout leaves the store and the charger apart.
* A partner whose answer to the credentials handshake got lost holds a token nobody
  knows; a restart of the edge empties the registry of partners.
* `push_cdr_idempotent` sends a record again when two deliveries overlap, or when a
  push raised after it had arrived.
* A Supabase tariff that is read while it is saved, or whose save failed halfway,
  has components of two versions, or none.
* `tariff_bridge.py:9` says what partners see "can never go stale"; in memory mode
  main and edge have a tariff store each. In the same way vehicles' opt-ins live in
  edge while the starts that ask for them run in main.
* A firmware status that arrives after the next update was started is booked on
  that one. A day that is rolled up twice is counted twice.
* The secret a QR token is verified with comes from the request's body
  (`charging_auth/session_start_router.py:37`). Autocharge and Plug & Charge requests
  are forwarded without the caller as driver, and act for whoever the MAC address or
  the certificate belongs to (`driver_app/session_start_forwarder.py:57-60`).
* No router uses `get_db`, and on the Supabase path there is no row level security
  (`src/docs/supabase/schema.sql:20-30`); RowsAreCallers' second half is about `get_db`
  alone.
* SAML assertions are accepted without a look at signature or audience, as `sso.py`
  says of itself.
* With Supabase the INSERT of `upsert_on_boot` is never reached: the credential the
  handshake needs is a column of the row that it would insert.
* OCPI GETs of a location never show an EVSE's status (the adapters drop it),
  pushes do.
* `trusted_ca_certs_pem=[]` in `composition.py`: until it is configured Plug &
  Charge refuses every certificate.

## 5. Proofs

TLAPS proves every invariant and action property of the passing runs, and the
refinement, for every value of the constants. Each proof has the same shape: an
inductive invariant, which TLC checked on the instance of the run before it was
proved; a lemma per action, or per group of actions with the same effect; a lemma
that puts them together; the theorem. The assumptions are those of the modules
(`...Assumption`). They say that a bound is a natural number, that a default value
is not a member of the set it stands beside, which backends exist, and, where
something is counted or summed, that the set is finite: readings, families and
clients, CDR deliveries, invoiced sessions, team drivers, fleet sessions, drivers
and sites, a tariff's components. Two are about prices: step sizes divide
`StepUnit`, in which the exact price is compared, and a first version exists.

### Remote commands (`RemoteCommandsProofs`)

| theorem | statement |
|---|---|
| `TypeCorrect` | `Spec => []TypeOK` |
| `PendingNeverLeaks` | `Spec => []NoLeakedPending` |
| `OutcomesAreFinal` | `Spec => OutcomeIsFinal` |
| `LogIsTheChargersVerdict` | `Spec => []VerdictIsTheChargers` |
| `FreeNodeAnswersFirst` | `NodeTimeout < SendTimeout => (Spec => []NodeAnswersFirst)` |

TypeOK alone is not inductive: `HandleSendCall` takes the target of a queued
command, which has its type only because a queued command was addressed. `Base`
adds that queue entries were addressed and logged (`QueueOK`), that a registry
entry is a connection of that charger to that node (`LiveOK`), and that a node
works on a connection of its own (`JobOK`).

`NoLeakedPending` is inductive relative to `Base`: only `HandleSendCall` adds an
entry and starts the job in the same step, and every step that ends a job removes
the entry. `OutcomesAreFinal` rests on `SenderOK`: a coroutine that is waiting has
a pending record.

The verdict theorem needs the whole way of a command (`Journey`). A command that
has not been logged, or is still queued, is untouched: no charger has seen it
(`FreshOK`, `QueuedOK`). It is in one queue once (`QueuedOnce`), with one node at a
time (`WorkedOnce`), unanswered while it is worked on (`WorkingOK`). A future's
result is the charger's answer and the charger did receive the call (`AnswersOK`),
on a connection of the addressed charger (`ReceiptsOK`). A reply "accepted" comes
from such a CallResult, and "rejected" only if the charger will never send one or its
answer was not carried (`Refusable`, in `RepliesOK`); the log repeats the reply
(`LoggedOK`). Without any one of these a
late or repeated answer could be attributed to another command.

`NodeAnswersFirst` adds the clocks (`AloneInTime`): a command that found its node
idle is next in line there with its timer untouched, or being worked on with less
time left at the node than at the requester, or already answered. A command whose
answer was not carried is left out. Its hypothesis
is what the code's 25 s and 30 s give; without it the statement is false.

### Wallet and session billing (`WalletBillingProofs`)

| theorem | statement |
|---|---|
| `TypeCorrect` | `Spec => []TypeOK` |
| `TopUpsImplementContract` | `Spec => TopUpsFollowContract`, that is, `Spec => Contract!Spec` |
| `BilledOnce` | `Spec => []SessionBilledOnce` |
| `StatusesAreEarned` | `Spec => []StatusIsEarned` |

`TypeInv` adds to TypeOK that a handler at a given place in the code has a job of
the matching kind (`WorkerOK`) and that calls to the wallet are among the calls (`CallsOK`). The refinement needs `TopUpOK`: only what was paid is credited
or about to be, and while no two deliveries of a top-up have overlapped, at most
one handler is between `has_reference` and `append`, and then for the first
credit. `ContractNext` maps every step: a payment to `Pay`, a first credit to
`Credit`, everything else to a stutter.

The two billing theorems share `ChargeOK`, per session and whatever calls overlap.
`Money`: the provider charged what it settled, once for an idempotency key
(`PspFacts`); only calls that went to the wallet debit, only calls that went to the
card make intents; and a session that was called for once is debited once at most, and
not by a handler that has yet to debit. `Earned`: what each status says did happen (a
debit or an accepted intent, an entry in the retry schedule), and a session still
pending after a call is being worked on or has made its caller see an exception.

### Transactions (`TransactionsProofs`) and sessions (`SessionsProofs`)

| theorem | statement | what the invariant adds |
|---|---|---|
| `NoReadingLostOrRepeated` | `Spec => []ReadingsConserved` | `PlacedOnce`: a reading is in the buffer, in one task's batch, written once or lost, in exactly one of these, and in none before it was taken in; `TasksOK`: a batch exists only inside a flush; `TrailingLeft`: what preceded a stop does not return to the buffer |
| `StopsOnceAndShowsNewest` | `Spec => []NewestActiveIsShown` | `ClosedOnce`: in memory the step that completes a record is the only one that closes it out, and one task has its event to publish; `SlotShowsNewest`, `NewestStarted`: a start puts itself in the slot, and a stop clears the slot only of itself |
| `CloseOutsAreAnnounced` | `Spec => []CloseOutIsAnnounced` | `Announced`: a task that leaves the publish leaves the event behind, or its transaction in `unheard` |
| `SessionsTypeCorrect` | `Spec => []TypeOK` | the shape of requests at each place in the code |
| `StopsRestOnAnswers` | `Spec => []RecordedStopsAreAnswered` | `StopsAreGrounded`: a stop under way is of a transaction that began at the session's charger, with a reading that was reported; one past the charger was answered; `Kept`: what is so grounded stays so, as sessions stay bound and readings only grow |
| `StatusShownIsReal` | `Spec => []LiveStatusIsReal` | `Confirmed`: a start past the charger was answered; `EdgeTypes`: in memory the slot shows what the charger is in, an active record |

### The gateways (`GatewayProofs`)

| theorem | statement | what the invariant adds |
|---|---|---|
| `NewestStaysRegistered` | `CpSpec => []RegistryHoldsNewest` | what a node registered last has got past `accept` |
| `OnlineIsRecentAndAddressed` | `CpSpec => []SoleConnectionIsAddressed` | `OnlineExpires`: age and ttl of an online record add up to two intervals; `OneAtATime`: while connections do not overlap one is up, the record is its own, and so is the copy that a refresh will write back |
| `RedeliveryIsHarmless` | `EdSpec => []HandledOnce` | `OneDelivery`: unless two deliveries of an event overlapped or a restart forgot it, one at most works on it, before it is seen, and it was not handled before |
| `ProcessedReachedPartners` | `EdSpec => []ProcessedWasPushed` | `Reached`: a push loop has its event at the endpoints of the partners behind it, and ocpi-sync marks an event processed when none is left |
| `UnhurtClientsHoldTheCurrentToken` | `AgSpec => []SessionSurvives` | a code that is being redeemed is spent, by one handler (`FlyingIsSpent`); a family's tokens are one client's (`Owned`); a client that nothing happened to has, or is about to be given, the current token (`Intact`) |
| `BurstsStayBounded` | `AgSpec => []BurstIsBounded` | `Fits`: of the requests granted in the last window's length those since the counter was opened, and one between `INCR` and `EXPIRE`, are at most its count and the limit, and the earlier ones are at most the limit |

The last is where a counter that never expires is met: `Fits` ties the length of
the open window to its age only once the expiry was set.

### Roaming (`RoamingProofs`)

| theorem | statement | what the invariant adds |
|---|---|---|
| `BlacklistedStaysOut` | `RtSpec => []BlacklistHolds` | only while the token is blocked is a check counted as begun after the blocking |
| `PartnersKnowTheirTokens` | `RpSpec => []HeldTokenWorks` | no token is newer than the last one made; each is one partner's in the registry, in its hands and on its way (`OneOwnerA`, `OneOwnerC`); what a handshake without rivals was served is what the registry has |
| `ListAgreesWithChargers` | `RvSpec => []ReservationsAgree` | what the charger knows while a request to reserve (`Reserving`) or to cancel (`Cancelling`) is between its two halves, for reservations with which nothing went wrong so far (`Sound`); a charger that does as told does one cancel of a reservation |
| `ShownProfileIsApplied` | `ScSpec => []ProfileShownIsApplied` | a request that nothing crossed is the only one at its charger (`UncrossedOK`); until another is accepted the charger applies what was stored last (`StoredIsApplied`) |
| `CdrsNeitherLostNorRepeated` | `CeSpec => []CdrNeitherLostNorRepeated` | `Accounted`: receipts and pushes under way are together at most one more than the pushes that raised or overlapped |

### The services around charging (`PlatformProofs`)

| theorem | statement | what the invariant adds |
|---|---|---|
| `RequestsReadTheirOwn` | `TeSpec => []RowsAreCallers` | a signature is the tenant of the caller the edge verified, and so is the context behind the middlewares; a connection's setting is that of the request whose transaction it runs, or none |
| `NoSessionOnRevoked` | `SiSpec => []RevokedNeverStarts` | a start past the responder is of a trusted certificate that was not revoked when it was presented |
| `ApprovalIsKept`, `InstalledOnlyWhenCrossed` | `ObSpec => []ApprovalSurvives`, `ObSpec => []FirmwareStatusIsItsOwn` | a charger reports an installation it has made, of a version that was asked for |
| `UndisturbedReadsAreWhole` | `TcSpec => []TariffIsWhole` | a save without rivals has written exactly the components it has passed (`SaveIsExact`); between saves a tariff that is not torn is whole |
| `EverySessionInvoicedOnce` | `InSpec => []InvoicedOnce` | what an invoice covers ended in its period, and everything that ended there before it was generated is covered |
| `SeatsNeverOversold` | `FtSpec => []SeatsAddUp` | the memberships sum to the uses counted |
| `FreshAnswersAreRecent` | `CiSpec => []FreshIsRecent` | an entry's sample is no older than its `fetched_at`, so that a late write makes nothing fresh |
| `CarefulAppStaysSignedIn` | DriverAuth's `Spec => []CarefulClientNotRevoked` | the storage will in the end hold what is in memory (`WritesOwned`); while calls do not overlap the token a call presents is acceptable, and so is the one in memory but for the time in which an answer is about to replace it (`Careful`) |
| `BillIsThePriceShown` | `PrSpec => []BilledAsShown` | a session that charges was shown the version active at its start; each rounded component is within half a unit of its quotient (`RoundClose`, `ComponentClose`), so the sum is within half a unit for each (`CostClose`) |
| `ReportsCountWhatWasRolledUp` | `FrSpec => []ReportCountsSessions` | for every range of days the rows add up to the sessions, as often as each was counted (`RowsAddUp`); that totals by driver and by site agree is regrouping one sum in two ways |

### Sums (`SetSums`)

Seats, invoices, bursts, prices and reports are sums over finite sets, which the
models take with `MapThenSumSet`. The library's induction theorems have an operator
as parameter, and no prover here instantiates one. `SetSums` does without: suppose
some subset lacks the property; by `WFMin` one of them is smallest (`SmallestSubset`);
without one of its elements it has the property, and one step of the fold gives it
back, a contradiction. From the recursion of the sum proved so follow what the
components need: a sum splits over disjoint sets (`SumUnion`) and over two functions
(`SumPlus`), sums of close terms are close (`SumsWithin`), and grouping by a key does
not change a sum (`SumByKey`).

## 6. What is only model-checked, and what is not modelled

Only model-checked: the five liveness properties (`ConfirmedTopUpIsCredited`,
`GoneIsNoticed`, `LimitLifts`, `RecordedStopHappens`, `StartedSessionCharges`). They
hold by the fairness of
section 3, and reasoning from fairness needs ENABLED, which is out of the prover's
reach. The seven properties of section 4 are violated. What the proofs need of the
other modules' type invariants is part of the inductive invariants above; they have no
theorem of their own.

Abstracted in what is modelled: payloads, signatures, certificates, hashing and
amounts (an input decides whether a check passes); formats and logging; the
diagnostics, security and log handlers of the OCPP gateway, which publish their
payload. Floating point quotients of the price calculator are exact.

Some of what is modelled is code that no process calls yet: `charge_session`, the
JetStream consumers (nothing subscribes them), `CdrService`, the token
whitelist and its checker, `TeamJoinService` and `MapChargerQueryService`,
`run_daily_rollup`, `InvoiceGenerationService`, `redeem_promo_code`,
`TariffVersionStore`, `get_db`, `authenticate_partner`, `start_firmware_update`. Its
modules take the callers its docstrings and tests name.

Not modelled: price lists and the store and CSV of reconciliation results (records
that are written once and listed); `resolve_pricing_source`, `session_sync`, payouts,
`handle_reconnect` and the superadmin log (not called by any process); the PDF of
invoices; route planning, map, usage insights (read-only computation); the location
adapters (copies field by field); configuration, metrics, database models and
scripts (no behaviour of their own); portal and app screens. PROJECT.json lists each
with its reason.

## 7. Plan

The models and their safety proofs are complete as far as sections 5 and 6 say. What
is left, in this order:

1. further properties of what is modelled, above all action properties, with their
   proofs: a redeemed code or a rotated token never becomes current again, a presence
   record is only ever replaced by what its writer read or by its own connection's;
2. abstract specifications for more components, as TopUpContract is for top-ups:
   the event bus as at-least-once delivery, the seats of an invite as a counter;
3. the app's session tracking and status feed (polling answers out of order), the
   one part with interleavings that has no model yet.
