---------------------------- MODULE WalletBilling ----------------------------
(***************************************************************************)
(* The money of one wallet and its driver: top-ups confirmed by payment    *)
(* provider webhooks (WalletService, wallet_router, stripe_webhook), and   *)
(* sessions charged to the wallet or to a card (SessionBillingService,     *)
(* StripePaymentProvider).                                                 *)
(*                                                                         *)
(* Workers are request handlers.  The in-memory ledger never suspends, so  *)
(* has_reference and append are one step; with Supabase each is an HTTP    *)
(* request and other handlers run in between.  Requests to the provider    *)
(* always suspend.  Amounts are left out: a ledger entry is told apart by  *)
(* its reference_id, and the balance is derived from the entries.          *)
(***************************************************************************)
EXTENDS Naturals, FiniteSets

CONSTANTS TopUps,            \* payment intents of top-ups
          Sessions, Workers,
          Nothing,           \* what an idle worker works on
          Backends,          \* the ledgers to consider: "memory", "supabase"
          Routes,            \* the webhook routes to consider:
                             \* "internal": POST /wallet/topup/webhook,
                             \* "stripe": POST /billing/stripe/webhook
          MaxDeliveries,     \* bound on deliveries of one webhook beside the failed ones
          MaxFaults,         \* bound on Supabase requests that raise
          MaxCalls,          \* bound on charge_session calls for one session
          MaxAttempts,       \* max_attempts of StripePaymentProvider
          SuspendAfter       \* suspend_after_n_failures

ASSUME BillingAssumption ==
    /\ Nothing \notin TopUps \cup Sessions
    /\ Backends \subseteq {"memory", "supabase"} /\ Routes \subseteq {"internal", "stripe"}
    /\ {MaxDeliveries, MaxCalls, MaxAttempts, SuspendAfter} \subseteq Nat \ {0}
    /\ MaxFaults \in Nat

VARIABLES
    backend, route,  \* how the process was built
    walletRow,   \* the wallet has its row in Supabase (no code inserts one)
    faults,      \* Supabase requests that have raised
    overlapped,  \* top-ups with two webhook deliveries in progress at once
    paid,        \* top-ups the provider took the money for
    hasWallet,   \* intents whose metadata carry the wallet_id
    deliveries,  \* webhook deliveries of each so far
    credits,     \* ledger entries of type topup, by reference
    debits,      \* ledger entries of type charge_deduction, by session
    worker,      \* what each handler is doing
    method,      \* the wallet's default payment method
    calls,       \* charge_session calls for each session so far
    walletCalls, \* those of them that went to the wallet
    raised,      \* sessions for which a call has raised
    intent,      \* the provider's payment intent for the key session:{id}
    pspCharges,  \* card charges the provider made for each session
    payment,     \* session payment status
    failures,    \* PaymentFailureTracker's count
    retries,     \* sessions in the retry schedule, which nothing takes out
    suspended

built      == <<backend, route, walletRow>>
topUpVars  == <<built, overlapped, paid, hasWallet, deliveries, credits>>
cardVars   == <<intent, pspCharges>>
statusVars == <<payment, failures, retries, suspended>>
chargeVars == <<debits, calls, walletCalls, raised, cardVars, statusVars>>
vars == <<topUpVars, faults, worker, method, chargeVars>>

\* "unusable": a direct_card without its psp_token.
Methods == {"wallet_balance", "direct_card", "unusable"}

Idle == [pc |-> "idle", ref |-> Nothing, attempt |-> 0]

Init ==
    /\ backend \in Backends /\ route \in Routes /\ walletRow \in BOOLEAN
    /\ faults = 0 /\ overlapped = {} /\ raised = {}
    /\ paid = {} /\ hasWallet = {}
    /\ deliveries = [i \in TopUps |-> 0]
    /\ credits = [i \in TopUps |-> 0]
    /\ debits = [s \in Sessions |-> 0]
    /\ worker = [w \in Workers |-> Idle]
    /\ method \in Methods
    /\ calls = [s \in Sessions |-> 0]
    /\ walletCalls = [s \in Sessions |-> 0]
    /\ intent = [s \in Sessions |-> "none"]
    /\ pspCharges = [s \in Sessions |-> 0]
    /\ payment = [s \in Sessions |-> "pending"]
    /\ failures = 0
    /\ retries = {}
    /\ suspended = FALSE

-----------------------------------------------------------------------------
(* The ledger.  A request to Supabase may raise, before or after the row is  *)
(* written, and the insert is refused for a wallet that has no row: the      *)
(* tenant_id it is given is then NULL.                                       *)

Fault == faults < MaxFaults /\ faults' = faults + 1

\* What an insert leaves of the count n of rows, if it returns and if not.
Inserted(n, m) == walletRow /\ m = n + 1 /\ UNCHANGED faults

InsertRaises(n, m) ==
    \/ Fault /\ m \in (IF walletRow THEN {n, n + 1} ELSE {n})
    \/ ~walletRow /\ m = n /\ UNCHANGED faults

-----------------------------------------------------------------------------
(* Top-ups *)

\* initiate_topup: the charge request to the provider carries no metadata,
\* and a fresh idempotency key, so every call is a payment of its own.  A
\* declined one leaves nothing behind.  The ledger is not touched.
InitiateTopup(i) ==
    /\ i \notin paid
    /\ paid' = paid \cup {i}
    /\ UNCHANGED <<built, faults, overlapped, hasWallet, deliveries, credits, worker, method, chargeVars>>

\* A payment intent created elsewhere, with metadata.wallet_id.
TopupWithMetadata(i) ==
    /\ i \notin paid
    /\ paid' = paid \cup {i}
    /\ hasWallet' = hasWallet \cup {i}
    /\ UNCHANGED <<built, faults, overlapped, deliveries, credits, worker, method, chargeVars>>

\* stripe_webhook answers 400 to an intent without metadata.wallet_id, before
\* it reaches the service; the internal route is given the wallet_id.
Deliverable(i) ==
    /\ i \in paid
    /\ route = "stripe" => i \in hasWallet

\* The provider delivers again what was not answered 2xx, and may deliver
\* more than once what was.
Deliver(i) ==
    /\ deliveries[i] < MaxDeliveries + faults
    /\ deliveries' = [deliveries EXCEPT ![i] = @ + 1]

Refuse(i) ==
    /\ i \in paid /\ ~Deliverable(i)
    /\ Deliver(i)
    /\ UNCHANGED <<built, faults, overlapped, paid, hasWallet, credits, worker, method, chargeVars>>

\* Variant: no look-up of the reference.
CreditEveryDelivery(w, i) ==
    /\ credits' = [credits EXCEPT ![i] = @ + 1]
    /\ UNCHANGED worker

\* has_reference, then append unless the transaction was credited before.
CreditOnce(w, i) ==
    IF credits[i] > 0
    THEN UNCHANGED <<credits, worker>>
    ELSE \/ /\ backend = "memory"
            /\ credits' = [credits EXCEPT ![i] = @ + 1]
            /\ UNCHANGED worker
         \/ /\ backend = "supabase"
            /\ worker' = [worker EXCEPT ![w] = [pc |-> "append", ref |-> i, attempt |-> 0]]
            /\ UNCHANGED credits

\* handle_topup_webhook; the provider redelivers for as long as it likes.
TopupWebhook(w, i) ==
    /\ worker[w] = Idle
    /\ Deliverable(i)
    /\ Deliver(i)
    /\ overlapped' = IF \E v \in Workers : worker[v] = [pc |-> "append", ref |-> i, attempt |-> 0]
                     THEN overlapped \cup {i} ELSE overlapped
    /\ CreditOnce(w, i)
    /\ UNCHANGED <<built, faults, paid, hasWallet, method, chargeVars>>

\* has_reference raises: the delivery is answered 500.
LookupRaises(i) ==
    /\ backend = "supabase"
    /\ Deliverable(i)
    /\ Deliver(i)
    /\ Fault
    /\ UNCHANGED <<built, overlapped, paid, hasWallet, credits, worker, method, chargeVars>>

\* Variant: the handler gives up before the insert.
AppendNothing(w) ==
    /\ worker[w].pc = "append"
    /\ worker' = [worker EXCEPT ![w] = Idle]
    /\ UNCHANGED <<topUpVars, faults, method, chargeVars>>

\* SupabaseWalletLedgerStore.append; if it raises, the delivery is answered 500.
AppendTopup(w) ==
    LET i == worker[w].ref IN
    /\ worker[w].pc = "append"
    /\ \E n \in {credits[i], credits[i] + 1} :
        /\ Inserted(credits[i], n) \/ InsertRaises(credits[i], n)
        /\ credits' = [credits EXCEPT ![i] = n]
    /\ worker' = [worker EXCEPT ![w] = Idle]
    /\ UNCHANGED <<built, overlapped, paid, hasWallet, deliveries, method, chargeVars>>

-----------------------------------------------------------------------------
(* charge_session.  Nothing in it asks whether the session was charged       *)
(* before or is being charged now, and no process calls it yet: it may be    *)
(* called at any time, for one session by several callers at once.  The      *)
(* stores of statuses, failures, retries and suspensions are in memory and   *)
(* never suspend.                                                            *)

SetDefaultMethod(m) ==
    /\ m # method
    /\ method' = m
    /\ UNCHANGED <<topUpVars, faults, worker, chargeVars>>

Call(s) ==
    /\ calls[s] < MaxCalls
    /\ calls' = [calls EXCEPT ![s] = @ + 1]

ChargeWallet(w, s) ==
    /\ worker[w] = Idle
    /\ method = "wallet_balance"
    /\ Call(s)
    /\ walletCalls' = [walletCalls EXCEPT ![s] = @ + 1]
    /\ \/ /\ backend = "memory"
          /\ debits' = [debits EXCEPT ![s] = @ + 1]
          /\ payment' = [payment EXCEPT ![s] = "charged"]
          /\ UNCHANGED worker
       \/ /\ backend = "supabase"
          /\ worker' = [worker EXCEPT ![w] = [pc |-> "debit", ref |-> s, attempt |-> 0]]
          /\ UNCHANGED <<debits, payment>>
    /\ UNCHANGED <<topUpVars, faults, method, raised, cardVars, failures, retries, suspended>>

\* The insert returns and the session is marked.
AppendDebit(w) ==
    LET s == worker[w].ref IN
    /\ worker[w].pc = "debit"
    /\ \E n \in {debits[s], debits[s] + 1} :
        /\ Inserted(debits[s], n)
        /\ debits' = [debits EXCEPT ![s] = n]
    /\ payment' = [payment EXCEPT ![s] = "charged"]
    /\ worker' = [worker EXCEPT ![w] = Idle]
    /\ UNCHANGED <<topUpVars, method, calls, walletCalls, raised, cardVars, failures, retries, suspended>>

\* The insert raises, and charge_session with it: the status stays.
AppendDebitRaises(w) ==
    LET s == worker[w].ref IN
    /\ worker[w].pc = "debit"
    /\ \E n \in {debits[s], debits[s] + 1} :
        /\ InsertRaises(debits[s], n)
        /\ debits' = [debits EXCEPT ![s] = n]
    /\ raised' = raised \cup {s}
    /\ worker' = [worker EXCEPT ![w] = Idle]
    /\ UNCHANGED <<topUpVars, method, calls, walletCalls, cardVars, statusVars>>

\* NoPaymentMethodError.
ChargeUnusable(s) ==
    /\ method = "unusable"
    /\ Call(s)
    /\ raised' = raised \cup {s}
    /\ UNCHANGED <<topUpVars, faults, method, worker, debits, walletCalls, cardVars, statusVars>>

ChargeCard(w, s) ==
    /\ worker[w] = Idle
    /\ method = "direct_card"
    /\ Call(s)
    /\ worker' = [worker EXCEPT ![w] = [pc |-> "psp", ref |-> s, attempt |-> 1]]
    /\ UNCHANGED <<topUpVars, faults, method, debits, walletCalls, raised, cardVars, statusVars>>

\* Variant: a fresh key for every request, as initiate_topup makes them.
PspAcceptsFreshKey(s) ==
    /\ intent' = [intent EXCEPT ![s] = "settled"]
    /\ pspCharges' = [pspCharges EXCEPT ![s] = @ + 1]

\* The provider takes a request: it makes a payment intent, charged at once
\* or still processing, unless it has one for this Idempotency-Key
\* (session:{id}).
PspAccepts(s) ==
    \/ /\ intent[s] = "none"
       /\ intent' = [intent EXCEPT ![s] = "settled"]
       /\ pspCharges' = [pspCharges EXCEPT ![s] = @ + 1]
    \/ /\ intent[s] = "none"
       /\ intent' = [intent EXCEPT ![s] = "processing"]
       /\ UNCHANGED pspCharges
    \/ /\ intent[s] # "none"
       /\ UNCHANGED cardVars

\* An intent that was processing is charged, or fails.  The event reaches
\* stripe_webhook, which ignores it (payment_failed) or finds no wallet_id.
IntentSettles(s) ==
    /\ intent[s] = "processing"
    /\ \/ /\ intent' = [intent EXCEPT ![s] = "settled"]
          /\ pspCharges' = [pspCharges EXCEPT ![s] = @ + 1]
       \/ /\ intent' = [intent EXCEPT ![s] = "failed"]
          /\ UNCHANGED pspCharges
    /\ UNCHANGED <<topUpVars, faults, method, worker, debits, calls, walletCalls, raised, statusVars>>

\* A 2xx answer, succeeded, processing or requires_capture: the session is
\* marked charged and the failure count starts again.
CardCharged(w) ==
    LET s == worker[w].ref IN
    /\ worker[w].pc = "psp"
    /\ PspAccepts(s)
    /\ payment' = [payment EXCEPT ![s] = "charged"]
    /\ failures' = 0
    /\ worker' = [worker EXCEPT ![w] = Idle]
    /\ UNCHANGED <<topUpVars, faults, method, debits, calls, walletCalls, raised, retries, suspended>>

\* Variant: the retry is forgotten.
PaymentFailedNoRetry(w) ==
    /\ payment' = [payment EXCEPT ![worker[w].ref] = "payment_failed"]
    /\ failures' = failures + 1
    /\ suspended' = (suspended \/ failures + 1 >= SuspendAfter)
    /\ worker' = [worker EXCEPT ![w] = Idle]
    /\ UNCHANGED <<topUpVars, faults, method, debits, calls, walletCalls, raised, retries>>

\* except PaymentProviderError: mark, count, schedule, maybe suspend.
PaymentFailed(w) ==
    /\ payment' = [payment EXCEPT ![worker[w].ref] = "payment_failed"]
    /\ failures' = failures + 1
    /\ retries' = retries \cup {worker[w].ref}
    /\ suspended' = (suspended \/ failures + 1 >= SuspendAfter)
    /\ worker' = [worker EXCEPT ![w] = Idle]
    /\ UNCHANGED <<topUpVars, faults, method, debits, calls, walletCalls, raised>>

\* A 4xx decline, or an intent that asks for the cardholder: no money moves.
\* A key that was accepted before gets the earlier answer.
CardDeclined(w) ==
    /\ worker[w].pc = "psp" /\ intent[worker[w].ref] = "none"
    /\ PaymentFailed(w)
    /\ UNCHANGED cardVars

\* A 2xx whose body is not JSON: the call fails though the intent was made.
AnswerMalformed(w) ==
    /\ worker[w].pc = "psp"
    /\ PspAccepts(worker[w].ref)
    /\ PaymentFailed(w)

\* A transport failure or a 5xx: the provider may have taken the request,
\* which is repeated, up to max_attempts.
PspUnreachable(w) ==
    LET s == worker[w].ref IN
    /\ worker[w].pc = "psp"
    /\ UNCHANGED cardVars \/ PspAccepts(s)
    /\ \/ /\ worker[w].attempt < MaxAttempts
          /\ worker' = [worker EXCEPT ![w].attempt = @ + 1]
          /\ UNCHANGED <<topUpVars, faults, method, debits, calls, walletCalls, raised, statusVars>>
       \/ /\ worker[w].attempt = MaxAttempts
          /\ PaymentFailed(w)

-----------------------------------------------------------------------------
WorkerStep(w) ==
    \/ AppendTopup(w) \/ AppendDebit(w) \/ AppendDebitRaises(w)
    \/ CardCharged(w) \/ CardDeclined(w) \/ AnswerMalformed(w) \/ PspUnreachable(w)

Next ==
    \/ \E i \in TopUps : InitiateTopup(i) \/ TopupWithMetadata(i) \/ Refuse(i) \/ LookupRaises(i)
    \/ \E m \in Methods : SetDefaultMethod(m)
    \/ \E s \in Sessions : ChargeUnusable(s) \/ IntentSettles(s)
    \/ \E w \in Workers :
        \/ \E i \in TopUps : TopupWebhook(w, i)
        \/ \E s \in Sessions : ChargeWallet(w, s) \/ ChargeCard(w, s)
        \/ WorkerStep(w)

Spec == Init /\ [][Next]_vars

\* Handlers finish, and the provider delivers what it has to deliver.
FairSpec ==
    /\ Spec
    /\ \A w \in Workers : WF_vars(WorkerStep(w))
    /\ \A i \in TopUps : WF_vars(\E w \in Workers : TopupWebhook(w, i))

-----------------------------------------------------------------------------
\* Every variable has the shape the code gives it; a handler counts its attempts
\* up to max_attempts.
TypeOK ==
    /\ backend \in Backends /\ route \in Routes /\ walletRow \in BOOLEAN
    /\ faults \in 0..MaxFaults
    /\ paid \subseteq TopUps /\ hasWallet \subseteq TopUps /\ overlapped \subseteq TopUps
    /\ retries \subseteq Sessions /\ raised \subseteq Sessions
    /\ deliveries \in [TopUps -> 0..(MaxDeliveries + MaxFaults)]
    /\ credits \in [TopUps -> Nat] /\ debits \in [Sessions -> Nat]
    /\ worker \in [Workers -> [pc : {"idle", "append", "debit", "psp"},
                               ref : TopUps \cup Sessions \cup {Nothing},
                               attempt : 0..MaxAttempts]]
    /\ method \in Methods
    /\ calls \in [Sessions -> 0..MaxCalls] /\ walletCalls \in [Sessions -> 0..MaxCalls]
    /\ intent \in [Sessions -> {"none", "processing", "settled", "failed"}]
    /\ pspCharges \in [Sessions -> Nat]
    /\ payment \in [Sessions -> {"pending", "charged", "payment_failed"}]
    /\ failures \in Nat
    /\ suspended \in BOOLEAN

\* The credits of a top-up, several of one whose deliveries overlapped
\* counted as one.
Counted == [i \in TopUps |-> IF i \in overlapped /\ credits[i] > 0 THEN 1 ELSE credits[i]]

Contract == INSTANCE TopUpContract WITH credits <- Counted

\* A redelivered webhook credits the wallet no second time: but for
\* deliveries that overlap, the top-up side implements TopUpContract.
TopUpsFollowContract == Contract!Spec

\* The same for all deliveries: one ledger entry per payment.
CreditedAtMostOnce == \A i \in TopUps : credits[i] <= 1

\* A session's card is charged once, however often charge_session is called
\* for it, by however many callers at once, through repeated requests, lost
\* answers and intents that settle late; and a session is paid for once unless
\* it was charged again before or after a call that went to the wallet, whose
\* debit looks for no earlier one.
SessionBilledOnce ==
    \A s \in Sessions :
        /\ pspCharges[s] <= 1
        /\ calls[s] <= 1 \/ walletCalls[s] = 0 => pspCharges[s] + debits[s] <= 1

\* charge_session has run for s and is not running now.
Handled(s) == calls[s] > 0 /\ \A w \in Workers : worker[w].ref # s

\* The status charge_session leaves is no guess: a session it calls charged was
\* debited or accepted by the provider, one it calls payment_failed is on the
\* retry schedule, and one it leaves pending has made its caller see an
\* exception, through overlapping calls and inserts that raise.
StatusIsEarned ==
    \A s \in Sessions : Handled(s) =>
        \/ payment[s] = "charged" /\ (debits[s] > 0 \/ intent[s] # "none")
        \/ payment[s] = "payment_failed" /\ s \in retries
        \/ payment[s] = "pending" /\ s \in raised

\* No session ends up silently unbilled: one marked charged has been paid for,
\* or the provider is still at it.  (The code does not have this: an intent
\* that was processing and fails leaves its session charged.)
NeverSilentlyUnbilled ==
    \A s \in Sessions : payment[s] = "charged" =>
        pspCharges[s] + debits[s] >= 1 \/ intent[s] = "processing"

\* Money taken for a top-up whose confirmation the webhook can attribute to a
\* wallet, one the ledger has a row for, reaches that wallet, through requests
\* to the ledger that raise before or after the row is written.
ConfirmedTopUpIsCredited ==
    \A i \in TopUps : (Deliverable(i) /\ (backend = "memory" \/ walletRow)) ~> (credits[i] > 0)

\* Money taken for a top-up reaches the wallet.
PaidTopUpIsCredited ==
    \A i \in TopUps : (i \in paid) ~> (credits[i] > 0)
=============================================================================
