------------------------- MODULE WalletBillingProofs -------------------------
(***************************************************************************)
(* What holds of WalletBilling for every number of top-ups, sessions and   *)
(* handlers and for all bounds.                                            *)
(***************************************************************************)
EXTENDS WalletBilling, TLAPS

\* The actions of the top-up side, and of the billing side.
TopUpStep ==
    \/ \E i \in TopUps : InitiateTopup(i) \/ TopupWithMetadata(i) \/ Refuse(i) \/ LookupRaises(i)
    \/ \E w \in Workers, i \in TopUps : TopupWebhook(w, i)
    \/ \E w \in Workers : AppendTopup(w)

ChargeStep ==
    \/ \E m \in Methods : SetDefaultMethod(m)
    \/ \E s \in Sessions : ChargeUnusable(s) \/ IntentSettles(s)
    \/ \E w \in Workers, s \in Sessions : ChargeWallet(w, s) \/ ChargeCard(w, s)
    \/ \E w \in Workers : \/ AppendDebit(w) \/ AppendDebitRaises(w)
                          \/ CardCharged(w) \/ CardDeclined(w)
                          \/ AnswerMalformed(w) \/ PspUnreachable(w)

LEMMA Steps == Next => TopUpStep \/ ChargeStep
  BY DEF Next, WorkerStep, TopUpStep, ChargeStep

\* What a handler works on has the kind its place in the code says.
WorkerOK ==
    \A w \in Workers :
        /\ worker[w].pc = "append" => worker[w].ref \in TopUps /\ worker[w].attempt = 0
        /\ worker[w].pc \in {"debit", "psp"} => worker[w].ref \in Sessions
        /\ worker[w].pc = "psp" => worker[w].attempt > 0
        /\ worker[w].pc = "idle" => worker[w] = Idle

Jobs == [pc : {"idle", "append", "debit", "psp"}, ref : TopUps \cup Sessions \cup {Nothing},
         attempt : 0..MaxAttempts]

\* A handler that takes up a job with a well-formed record stays well formed.
LEMMA WorkerSet ==
    ASSUME TypeOK, WorkerOK, NEW w \in Workers, NEW r \in Jobs,
           worker' = [worker EXCEPT ![w] = r],
           r.pc = "append" => r.ref \in TopUps /\ r.attempt = 0,
           r.pc \in {"debit", "psp"} => r.ref \in Sessions,
           r.pc = "psp" => r.attempt > 0,
           r.pc = "idle" => r = Idle
    PROVE  worker' \in [Workers -> Jobs] /\ WorkerOK'
  BY DEF TypeOK, WorkerOK, Jobs

LEMMA WorkerIdle ==
    ASSUME TypeOK, WorkerOK, NEW w \in Workers, worker' = [worker EXCEPT ![w] = Idle]
    PROVE  worker' \in [Workers -> Jobs] /\ WorkerOK'
  <1>1. Idle \in Jobs
    BY BillingAssumption DEF Idle, Jobs
  <1> QED
    BY <1>1, WorkerSet DEF Idle

LEMMA WorkerSame ==
    ASSUME TypeOK, WorkerOK, UNCHANGED worker
    PROVE  worker' \in [Workers -> Jobs] /\ WorkerOK'
  BY DEF TypeOK, WorkerOK, Jobs

\* The counts of rows and faults after an insert.
LEMMA InsertFacts ==
    ASSUME TypeOK, NEW n \in Nat, NEW m \in {n, n + 1}, Inserted(n, m) \/ InsertRaises(n, m)
    PROVE  faults' \in 0..MaxFaults /\ m \in Nat
  BY BillingAssumption DEF TypeOK, Inserted, InsertRaises, Fault

LEMMA DeliverType ==
    ASSUME TypeOK, NEW i \in TopUps, Deliver(i)
    PROVE  deliveries' \in [TopUps -> 0..(MaxDeliveries + MaxFaults)]
  BY BillingAssumption DEF TypeOK, Deliver

LEMMA TypeTopUp ==
    ASSUME TypeOK, WorkerOK, TopUpStep
    PROVE  TypeOK' /\ WorkerOK'
  <1> USE BillingAssumption DEF topUpVars, chargeVars, cardVars, statusVars, built
  <1>1. ASSUME NEW i \in TopUps, InitiateTopup(i) \/ TopupWithMetadata(i)
        PROVE  TypeOK' /\ WorkerOK'
    <2>1. worker' \in [Workers -> Jobs] /\ WorkerOK'
      BY <1>1, WorkerSame DEF InitiateTopup, TopupWithMetadata
    <2> QED
      BY <1>1, <2>1 DEF InitiateTopup, TopupWithMetadata, TypeOK, Jobs
  <1>2. ASSUME NEW i \in TopUps, Refuse(i) \/ LookupRaises(i)
        PROVE  TypeOK' /\ WorkerOK'
    <2>1. worker' \in [Workers -> Jobs] /\ WorkerOK'
      BY <1>2, WorkerSame DEF Refuse, LookupRaises
    <2>2. deliveries' \in [TopUps -> 0..(MaxDeliveries + MaxFaults)]
      BY <1>2, DeliverType DEF Refuse, LookupRaises
    <2>3. faults' \in 0..MaxFaults
      BY <1>2 DEF Refuse, LookupRaises, Fault, TypeOK
    <2>4. UNCHANGED <<built, overlapped, paid, hasWallet, credits, method, chargeVars>>
      BY <1>2 DEF Refuse, LookupRaises
    <2> QED
      BY <2>1, <2>2, <2>3, <2>4 DEF TypeOK, Jobs
  <1>3. ASSUME NEW w \in Workers, NEW i \in TopUps, TopupWebhook(w, i)
        PROVE  TypeOK' /\ WorkerOK'
    <2>1. worker' \in [Workers -> Jobs] /\ WorkerOK'
      <3>1. CASE UNCHANGED worker
        BY <3>1, WorkerSame
      <3>2. CASE worker' = [worker EXCEPT ![w] = [pc |-> "append", ref |-> i, attempt |-> 0]]
        <4>1. [pc |-> "append", ref |-> i, attempt |-> 0] \in Jobs
          BY DEF Jobs
        <4> QED
          BY <3>2, <4>1, WorkerSet
      <3> QED
        BY <1>3, <3>1, <3>2 DEF TopupWebhook, CreditOnce
    <2>2. credits' \in [TopUps -> Nat]
      BY <1>3 DEF TopupWebhook, CreditOnce, TypeOK
    <2>3. overlapped' \subseteq TopUps
      BY <1>3 DEF TopupWebhook, TypeOK
    <2>4. deliveries' \in [TopUps -> 0..(MaxDeliveries + MaxFaults)]
      BY <1>3, DeliverType DEF TopupWebhook
    <2>5. UNCHANGED <<built, faults, paid, hasWallet, method, chargeVars>>
      BY <1>3 DEF TopupWebhook
    <2> QED
      BY <2>1, <2>2, <2>3, <2>4, <2>5 DEF TypeOK, Jobs
  <1>4. ASSUME NEW w \in Workers, AppendTopup(w)
        PROVE  TypeOK' /\ WorkerOK'
    <2>1. worker' \in [Workers -> Jobs] /\ WorkerOK'
      BY <1>4, WorkerIdle DEF AppendTopup
    <2>2. PICK i \in TopUps : i = worker[w].ref
      BY <1>4 DEF AppendTopup, WorkerOK
    <2>3. PICK n \in {credits[i], credits[i] + 1} :
              /\ Inserted(credits[i], n) \/ InsertRaises(credits[i], n)
              /\ credits' = [credits EXCEPT ![i] = n]
      BY <1>4, <2>2 DEF AppendTopup
    <2>4. credits[i] \in Nat
      BY DEF TypeOK
    <2>5. faults' \in 0..MaxFaults /\ n \in Nat
      BY <2>3, <2>4, InsertFacts
    <2>6. credits' \in [TopUps -> Nat]
      BY <2>3, <2>5 DEF TypeOK
    <2>7. UNCHANGED <<built, overlapped, paid, hasWallet, deliveries, method, chargeVars>>
      BY <1>4 DEF AppendTopup
    <2> QED
      BY <2>1, <2>5, <2>6, <2>7 DEF TypeOK, Jobs
  <1> QED
    BY <1>1, <1>2, <1>3, <1>4 DEF TopUpStep

Intents == {"none", "processing", "settled", "failed"}
Statuses == {"pending", "charged", "payment_failed"}

\* What the provider does with a request leaves its records well formed.
LEMMA PspType ==
    ASSUME TypeOK, NEW s \in Sessions, PspAccepts(s) \/ UNCHANGED cardVars
    PROVE  pspCharges' \in [Sessions -> Nat] /\ intent' \in [Sessions -> Intents]
  <1>1. CASE intent' = [intent EXCEPT ![s] = "settled"] /\ pspCharges' = [pspCharges EXCEPT ![s] = @ + 1]
    BY <1>1 DEF TypeOK, Intents
  <1>2. CASE intent' = [intent EXCEPT ![s] = "processing"] /\ pspCharges' = pspCharges
    BY <1>2 DEF TypeOK, Intents
  <1>3. CASE UNCHANGED cardVars
    BY <1>3 DEF TypeOK, Intents, cardVars
  <1> QED
    BY <1>1, <1>2, <1>3 DEF PspAccepts

LEMMA CallType ==
    ASSUME TypeOK, NEW s \in Sessions, Call(s)
    PROVE  /\ calls' \in [Sessions -> 0..MaxCalls]
           /\ calls' = [calls EXCEPT ![s] = @ + 1]
  BY BillingAssumption DEF TypeOK, Call

LEMMA TypeFailed ==
    ASSUME TypeOK, WorkerOK, NEW w \in Workers, worker[w].pc = "psp", PaymentFailed(w),
           pspCharges' \in [Sessions -> Nat], intent' \in [Sessions -> Intents]
    PROVE  TypeOK' /\ WorkerOK'
  <1>1. worker' \in [Workers -> Jobs] /\ WorkerOK'
    BY WorkerIdle DEF PaymentFailed
  <1>2. worker[w].ref \in Sessions
    BY DEF WorkerOK
  <1>3. payment' \in [Sessions -> Statuses] /\ retries' \subseteq Sessions
    BY <1>2 DEF PaymentFailed, TypeOK, Statuses
  <1>4. suspended' \in BOOLEAN /\ failures' \in Nat
    BY DEF PaymentFailed, TypeOK
  <1>5. UNCHANGED <<topUpVars, faults, method, debits, calls, walletCalls, raised>>
    BY DEF PaymentFailed
  <1> QED
    BY <1>1, <1>3, <1>4, <1>5 DEF topUpVars, built, TypeOK, Jobs, Intents, Statuses

LEMMA TypeCharge ==
    ASSUME TypeOK, WorkerOK, ChargeStep, \A s \in Sessions : walletCalls[s] <= calls[s]
    PROVE  TypeOK' /\ WorkerOK'
  <1> USE BillingAssumption DEF topUpVars, built
  <1>1. ASSUME NEW m \in Methods, SetDefaultMethod(m)
        PROVE  TypeOK' /\ WorkerOK'
    <2>1. worker' \in [Workers -> Jobs] /\ WorkerOK'
      BY <1>1, WorkerSame DEF SetDefaultMethod
    <2> QED
      BY <1>1, <2>1 DEF SetDefaultMethod, TypeOK, Jobs, chargeVars, cardVars, statusVars
  <1>2. ASSUME NEW s \in Sessions, ChargeUnusable(s)
        PROVE  TypeOK' /\ WorkerOK'
    <2>1. worker' \in [Workers -> Jobs] /\ WorkerOK'
      BY <1>2, WorkerSame DEF ChargeUnusable
    <2>2. calls' \in [Sessions -> 0..MaxCalls]
      BY <1>2, CallType DEF ChargeUnusable
    <2> QED
      BY <1>2, <2>1, <2>2 DEF ChargeUnusable, TypeOK, Jobs, cardVars, statusVars
  <1>3. ASSUME NEW s \in Sessions, IntentSettles(s)
        PROVE  TypeOK' /\ WorkerOK'
    <2>1. worker' \in [Workers -> Jobs] /\ WorkerOK'
      BY <1>3, WorkerSame DEF IntentSettles
    <2>2. pspCharges' \in [Sessions -> Nat] /\ intent' \in [Sessions -> Intents]
      BY <1>3 DEF IntentSettles, TypeOK, Intents
    <2>3. UNCHANGED <<topUpVars, faults, method, debits, calls, walletCalls, raised, statusVars>>
      BY <1>3 DEF IntentSettles
    <2> QED
      BY <2>1, <2>2, <2>3 DEF TypeOK, Jobs, Intents, statusVars
  <1>4. ASSUME NEW w \in Workers, NEW s \in Sessions, ChargeWallet(w, s)
        PROVE  TypeOK' /\ WorkerOK'
    <2>1. worker' \in [Workers -> Jobs] /\ WorkerOK'
      <3>1. CASE UNCHANGED worker
        BY <3>1, WorkerSame
      <3>2. CASE worker' = [worker EXCEPT ![w] = [pc |-> "debit", ref |-> s, attempt |-> 0]]
        <4>1. [pc |-> "debit", ref |-> s, attempt |-> 0] \in Jobs
          BY DEF Jobs
        <4> QED
          BY <3>2, <4>1, WorkerSet
      <3> QED
        BY <1>4, <3>1, <3>2 DEF ChargeWallet
    <2>2. debits' \in [Sessions -> Nat] /\ payment' \in [Sessions -> Statuses]
      BY <1>4 DEF ChargeWallet, TypeOK, Statuses
    <2>3. calls' \in [Sessions -> 0..MaxCalls]
      BY <1>4, CallType DEF ChargeWallet
    <2>4. walletCalls' \in [Sessions -> 0..MaxCalls]
      <3>1. calls[s] < MaxCalls /\ walletCalls' = [walletCalls EXCEPT ![s] = @ + 1]
        BY <1>4 DEF ChargeWallet, Call
      <3>2. walletCalls[s] + 1 \in 0..MaxCalls
        BY <3>1 DEF TypeOK
      <3> QED
        BY <3>1, <3>2 DEF TypeOK
    <2>5. UNCHANGED <<topUpVars, faults, method, raised, cardVars, failures, retries, suspended>>
      BY <1>4 DEF ChargeWallet
    <2> QED
      BY <2>1, <2>2, <2>3, <2>4, <2>5 DEF TypeOK, Jobs, Statuses, cardVars
  <1>5. ASSUME NEW w \in Workers, NEW s \in Sessions, ChargeCard(w, s)
        PROVE  TypeOK' /\ WorkerOK'
    <2> DEFINE r == [pc |-> "psp", ref |-> s, attempt |-> 1]
    <2>1. r \in Jobs /\ r.pc = "psp" /\ r.ref \in Sessions /\ r.attempt > 0
      BY DEF Jobs
    <2>2. worker' \in [Workers -> Jobs] /\ WorkerOK'
      <3>1. worker' = [worker EXCEPT ![w] = r]
        BY <1>5 DEF ChargeCard
      <3> HIDE DEF r
      <3> QED
        BY <2>1, <3>1, WorkerSet
    <2>3. calls' \in [Sessions -> 0..MaxCalls]
      BY <1>5, CallType DEF ChargeCard
    <2>4. UNCHANGED <<topUpVars, faults, method, debits, walletCalls, raised, cardVars, statusVars>>
      BY <1>5 DEF ChargeCard
    <2> QED
      BY <2>2, <2>3, <2>4 DEF TypeOK, Jobs, cardVars, statusVars
  <1>6. ASSUME NEW w \in Workers, AppendDebit(w) \/ AppendDebitRaises(w)
        PROVE  TypeOK' /\ WorkerOK'
    <2>1. worker' \in [Workers -> Jobs] /\ WorkerOK'
      BY <1>6, WorkerIdle DEF AppendDebit, AppendDebitRaises
    <2>2. PICK s \in Sessions : s = worker[w].ref
      BY <1>6 DEF AppendDebit, AppendDebitRaises, WorkerOK
    <2>3. PICK n \in {debits[s], debits[s] + 1} :
              /\ Inserted(debits[s], n) \/ InsertRaises(debits[s], n)
              /\ debits' = [debits EXCEPT ![s] = n]
      BY <1>6, <2>2 DEF AppendDebit, AppendDebitRaises
    <2>4. debits[s] \in Nat
      BY DEF TypeOK
    <2>5. faults' \in 0..MaxFaults /\ n \in Nat
      BY <2>3, <2>4, InsertFacts
    <2>6. debits' \in [Sessions -> Nat]
      BY <2>3, <2>5 DEF TypeOK
    <2>7. payment' \in [Sessions -> Statuses] /\ raised' \subseteq Sessions
      BY <1>6, <2>2 DEF AppendDebit, AppendDebitRaises, TypeOK, Statuses, statusVars
    <2>8. UNCHANGED <<topUpVars, method, calls, walletCalls, cardVars, failures, retries, suspended>>
      BY <1>6 DEF AppendDebit, AppendDebitRaises, statusVars
    <2> QED
      BY <2>1, <2>5, <2>6, <2>7, <2>8 DEF TypeOK, Jobs, Statuses, cardVars
  <1>7. ASSUME NEW w \in Workers, CardCharged(w)
        PROVE  TypeOK' /\ WorkerOK'
    <2>1. worker' \in [Workers -> Jobs] /\ WorkerOK'
      BY <1>7, WorkerIdle DEF CardCharged
    <2>2. worker[w].ref \in Sessions
      BY <1>7 DEF CardCharged, WorkerOK
    <2>3. pspCharges' \in [Sessions -> Nat] /\ intent' \in [Sessions -> Intents]
      BY <1>7, <2>2, PspType DEF CardCharged
    <2>4. payment' \in [Sessions -> Statuses]
      BY <1>7, <2>2 DEF CardCharged, TypeOK, Statuses
    <2>5. failures' = 0
          /\ UNCHANGED <<topUpVars, faults, method, debits, calls, walletCalls, raised, retries, suspended>>
      BY <1>7 DEF CardCharged
    <2> QED
      BY <2>1, <2>3, <2>4, <2>5 DEF TypeOK, Jobs, Intents, Statuses
  <1>8. ASSUME NEW w \in Workers, CardDeclined(w) \/ AnswerMalformed(w)
        PROVE  TypeOK' /\ WorkerOK'
    <2>1. worker[w].pc = "psp" /\ worker[w].ref \in Sessions /\ PaymentFailed(w)
      BY <1>8 DEF CardDeclined, AnswerMalformed, WorkerOK
    <2>2. pspCharges' \in [Sessions -> Nat] /\ intent' \in [Sessions -> Intents]
      BY <1>8, <2>1, PspType DEF CardDeclined, AnswerMalformed
    <2> QED
      BY <2>1, <2>2, TypeFailed
  <1>9. ASSUME NEW w \in Workers, PspUnreachable(w)
        PROVE  TypeOK' /\ WorkerOK'
    <2>1. worker[w].pc = "psp" /\ worker[w].ref \in Sessions /\ worker[w].attempt > 0
      BY <1>9 DEF PspUnreachable, WorkerOK
    <2>2. pspCharges' \in [Sessions -> Nat] /\ intent' \in [Sessions -> Intents]
      BY <1>9, <2>1, PspType DEF PspUnreachable
    <2>3. CASE PaymentFailed(w)
      BY <2>1, <2>2, <2>3, TypeFailed
    <2>4. CASE ~PaymentFailed(w)
      <3> DEFINE r == [worker[w] EXCEPT !.attempt = @ + 1]
      <3>1. /\ worker' = [worker EXCEPT ![w] = r] /\ worker[w].attempt < MaxAttempts
            /\ UNCHANGED <<topUpVars, faults, method, debits, calls, walletCalls, raised, statusVars>>
        BY <1>9, <2>4 DEF PspUnreachable, TypeOK
      <3>2. r \in Jobs /\ r.pc = "psp" /\ r.ref = worker[w].ref /\ r.attempt > 0
        BY <2>1, <3>1 DEF TypeOK, Jobs
      <3> HIDE DEF r
      <3>3. worker' \in [Workers -> Jobs] /\ WorkerOK'
        BY <2>1, <3>1, <3>2, WorkerSet
      <3> QED
        BY <2>2, <3>1, <3>3 DEF TypeOK, Jobs, Intents, statusVars
    <2> QED
      BY <2>3, <2>4
  <1> QED
    BY <1>1, <1>2, <1>3, <1>4, <1>5, <1>6, <1>7, <1>8, <1>9 DEF ChargeStep

\* The calls that went to the wallet are calls.
CallsOK == \A s \in Sessions : walletCalls[s] <= calls[s]

LEMMA CallsNext ==
    ASSUME TypeOK, CallsOK, TopUpStep \/ ChargeStep
    PROVE  CallsOK'
  <1>1. CASE UNCHANGED <<calls, walletCalls>>
    BY <1>1 DEF CallsOK
  <1>2. ASSUME NEW s \in Sessions, calls' = [calls EXCEPT ![s] = @ + 1],
               walletCalls' = walletCalls \/ walletCalls' = [walletCalls EXCEPT ![s] = @ + 1]
        PROVE  CallsOK'
    <2>1. calls \in [Sessions -> Nat] /\ walletCalls \in [Sessions -> Nat]
      BY BillingAssumption DEF TypeOK
    <2>2. ASSUME NEW t \in Sessions PROVE walletCalls'[t] <= calls'[t]
      <3>1. walletCalls[t] <= calls[t]
        BY DEF CallsOK
      <3> QED
        BY <1>2, <2>1, <3>1
    <2> QED
      BY <2>2 DEF CallsOK
  <1>3. CASE TopUpStep
    BY <1>1, <1>3 DEF TopUpStep, InitiateTopup, TopupWithMetadata, Refuse, LookupRaises,
       TopupWebhook, AppendTopup, chargeVars
  <1>4. CASE ChargeStep
    <2>1. ASSUME NEW w \in Workers, NEW s \in Sessions, ChargeWallet(w, s) \/ ChargeCard(w, s)
          PROVE  CallsOK'
      BY <1>2, <2>1 DEF ChargeWallet, ChargeCard, Call
    <2>2. ASSUME NEW s \in Sessions, ChargeUnusable(s) PROVE CallsOK'
      BY <1>2, <2>2 DEF ChargeUnusable, Call
    <2> QED
      BY <1>1, <1>4, <2>1, <2>2 DEF ChargeStep, SetDefaultMethod, IntentSettles, AppendDebit,
         AppendDebitRaises, CardCharged, CardDeclined, AnswerMalformed, PspUnreachable,
         PaymentFailed, chargeVars
  <1> QED
    BY <1>3, <1>4

TypeInv == TypeOK /\ WorkerOK /\ CallsOK

LEMMA TypeNext == TypeInv /\ [Next]_vars => TypeInv'
  <1> SUFFICES ASSUME TypeInv, [Next]_vars PROVE TypeInv'
    OBVIOUS
  <1>1. CASE Next
    <2>1. CallsOK'
      BY <1>1, Steps, CallsNext DEF TypeInv
    <2>2. TypeOK' /\ WorkerOK'
      BY <1>1, Steps, TypeTopUp, TypeCharge DEF TypeInv, CallsOK
    <2> QED
      BY <2>1, <2>2 DEF TypeInv
  <1>2. CASE UNCHANGED vars
    BY <1>2 DEF TypeInv, TypeOK, WorkerOK, CallsOK, vars, topUpVars, built, chargeVars, cardVars, statusVars
  <1> QED
    BY <1>1, <1>2

LEMMA TypeInit == Init => TypeInv
  <1> SUFFICES ASSUME Init PROVE TypeInv
    OBVIOUS
  <1>1. Idle \in Jobs
    BY BillingAssumption DEF Idle, Jobs
  <1>2. worker \in [Workers -> Jobs]
    BY <1>1 DEF Init
  <1>3. suspended \in BOOLEAN
    BY Zenon DEF Init
  <1>4. TypeOK
    BY <1>2, <1>3, BillingAssumption DEF Init, TypeOK, Jobs
  <1> QED
    BY <1>4 DEF Init, TypeInv, WorkerOK, CallsOK, Idle

\* Every reachable state is well typed: what a handler of charge_session or of
\* the webhook works on is a session or a top-up, and it gives up after
\* max_attempts.
THEOREM TypeCorrect == Spec => []TypeOK
  <1>1. Spec => []TypeInv
    BY TypeInit, TypeNext, PTL DEF Spec
  <1>2. TypeInv => TypeOK
    BY DEF TypeInv
  <1> QED
    BY <1>1, <1>2, PTL

LEMMA TypeAlways == Spec => []TypeInv
  BY TypeInit, TypeNext, PTL DEF Spec

-----------------------------------------------------------------------------
(* The top-up side implements TopUpContract *)

\* Handler w has found no reference and is about to append.
Appending(w, i) == worker[w] = [pc |-> "append", ref |-> i, attempt |-> 0]

\* Only what was paid is credited, and as long as no deliveries of a top-up
\* have overlapped, at most one handler is about to credit it for the first
\* time.
TopUpOK ==
    \A i \in TopUps :
        /\ credits[i] > 0 => i \in paid
        /\ \A w \in Workers : Appending(w, i) => i \in paid
        /\ i \notin overlapped =>
              /\ credits[i] <= 1
              /\ \A w \in Workers : Appending(w, i) => credits[i] = 0
              /\ \A v, w \in Workers : Appending(v, i) /\ Appending(w, i) => v = w

\* Billing leaves the top-ups alone.
LEMMA ChargeKeepsTopUps ==
    ASSUME TypeInv, ChargeStep
    PROVE  /\ UNCHANGED <<paid, credits, overlapped>>
           /\ \A w \in Workers, i \in TopUps : Appending(w, i)' => Appending(w, i)
  <1> USE DEF TypeInv, topUpVars, built
  <1>1. UNCHANGED <<paid, credits, overlapped>>
    BY DEF ChargeStep, SetDefaultMethod, ChargeUnusable, IntentSettles, ChargeWallet, ChargeCard,
           AppendDebit, AppendDebitRaises, CardCharged, CardDeclined, AnswerMalformed, PspUnreachable, PaymentFailed
  <1>2. \/ UNCHANGED worker
        \/ \E w \in Workers, r \in Jobs : r.pc # "append" /\ worker' = [worker EXCEPT ![w] = r]
    <2>1. Idle \in Jobs /\ Idle.pc # "append"
      BY BillingAssumption DEF Idle, Jobs
    <2>2. ASSUME NEW w \in Workers, worker' = [worker EXCEPT ![w] = Idle]
          PROVE  \E v \in Workers, r \in Jobs : r.pc # "append" /\ worker' = [worker EXCEPT ![v] = r]
      BY <2>1, <2>2
    <2>3. ASSUME NEW w \in Workers, NEW t \in Sessions, ChargeWallet(w, t)
          PROVE  \/ UNCHANGED worker
                 \/ \E v \in Workers, r \in Jobs : r.pc # "append" /\ worker' = [worker EXCEPT ![v] = r]
      <3>1. [pc |-> "debit", ref |-> t, attempt |-> 0] \in Jobs
        BY BillingAssumption DEF Jobs
      <3> QED
        BY <2>3, <3>1 DEF ChargeWallet
    <2>4. ASSUME NEW w \in Workers, NEW t \in Sessions, ChargeCard(w, t)
          PROVE  \E v \in Workers, r \in Jobs : r.pc # "append" /\ worker' = [worker EXCEPT ![v] = r]
      <3>1. [pc |-> "psp", ref |-> t, attempt |-> 1] \in Jobs
        BY BillingAssumption DEF Jobs
      <3> QED
        BY <2>4, <3>1 DEF ChargeCard
    <2>5. ASSUME NEW w \in Workers, PspUnreachable(w), ~PaymentFailed(w)
          PROVE  \E v \in Workers, r \in Jobs : r.pc # "append" /\ worker' = [worker EXCEPT ![v] = r]
      <3> DEFINE q == [worker[w] EXCEPT !.attempt = @ + 1]
      <3>1. worker' = [worker EXCEPT ![w] = q] /\ worker[w].attempt < MaxAttempts /\ worker[w].pc = "psp"
        BY <2>5 DEF PspUnreachable, TypeOK
      <3>2. q \in Jobs /\ q.pc = "psp"
        BY <3>1, BillingAssumption DEF TypeOK, Jobs
      <3> HIDE DEF q
      <3> QED
        BY <3>1, <3>2
    <2> QED
      BY <2>2, <2>3, <2>4, <2>5 DEF ChargeStep, SetDefaultMethod, ChargeUnusable, IntentSettles,
         AppendDebit, AppendDebitRaises, CardCharged, CardDeclined, AnswerMalformed, PspUnreachable, PaymentFailed
  <1>3. \A w \in Workers, i \in TopUps : Appending(w, i)' => Appending(w, i)
    BY <1>2 DEF Appending, TypeOK, Jobs
  <1> QED
    BY <1>1, <1>3

LEMMA TopUpOKInit == Init => TopUpOK
  BY DEF Init, TopUpOK, Appending, Idle

\* What a webhook delivery does to its top-up.
LEMMA WebhookFacts ==
    ASSUME TypeInv, NEW w \in Workers, NEW i \in TopUps, TopupWebhook(w, i)
    PROVE  /\ worker[w] = Idle /\ i \in paid /\ paid' = paid
           /\ \/ UNCHANGED <<credits, worker>>
              \/ /\ credits[i] = 0 /\ credits' = [credits EXCEPT ![i] = 1]
                 /\ UNCHANGED worker
              \/ /\ credits[i] = 0 /\ UNCHANGED credits
                 /\ worker' = [worker EXCEPT ![w] = [pc |-> "append", ref |-> i, attempt |-> 0]]
           /\ \/ overlapped' = overlapped /\ \A v \in Workers : ~Appending(v, i)
              \/ overlapped' = overlapped \cup {i} /\ \E v \in Workers : Appending(v, i)
  BY DEF TypeInv, TypeOK, TopupWebhook, CreditOnce, Deliverable, Appending

LEMMA AppendFacts ==
    ASSUME TypeInv, NEW w \in Workers, AppendTopup(w)
    PROVE  \E i \in TopUps :
              /\ Appending(w, i) /\ credits' \in {credits, [credits EXCEPT ![i] = @ + 1]}
              /\ worker' = [worker EXCEPT ![w] = Idle] /\ UNCHANGED <<paid, overlapped>>
  <1>1. worker[w].ref \in TopUps /\ Appending(w, worker[w].ref)
    BY DEF TypeInv, TypeOK, WorkerOK, AppendTopup, Appending
  <1>2. credits' \in {credits, [credits EXCEPT ![worker[w].ref] = @ + 1]}
    <2>1. PICK n \in {credits[worker[w].ref], credits[worker[w].ref] + 1} :
              credits' = [credits EXCEPT ![worker[w].ref] = n]
      BY DEF AppendTopup
    <2>2. credits = [credits EXCEPT ![worker[w].ref] = credits[worker[w].ref]]
      BY <1>1 DEF TypeInv, TypeOK
    <2> QED
      BY <2>1, <2>2
  <1>3. worker' = [worker EXCEPT ![w] = Idle] /\ UNCHANGED <<paid, overlapped>>
    BY DEF AppendTopup
  <1> QED
    BY <1>1, <1>2, <1>3

LEMMA TopUpOKNext == TypeInv /\ TopUpOK /\ [Next]_vars => TopUpOK'
  <1> SUFFICES ASSUME TypeInv, TopUpOK, [Next]_vars PROVE TopUpOK'
    OBVIOUS
  <1>1. CASE ChargeStep
    BY <1>1, ChargeKeepsTopUps DEF TopUpOK
  <1>2. ASSUME NEW i \in TopUps,
               InitiateTopup(i) \/ TopupWithMetadata(i) \/ Refuse(i) \/ LookupRaises(i)
        PROVE  TopUpOK'
    BY <1>2 DEF InitiateTopup, TopupWithMetadata, Refuse, LookupRaises, TopUpOK, Appending
  <1>3. ASSUME NEW w \in Workers, NEW i \in TopUps, TopupWebhook(w, i)
        PROVE  TopUpOK'
    <2> SUFFICES ASSUME NEW j \in TopUps
                 PROVE  /\ credits'[j] > 0 => j \in paid'
                        /\ \A v \in Workers : Appending(v, j)' => j \in paid'
                        /\ j \notin overlapped' =>
                              /\ credits'[j] <= 1
                              /\ \A v \in Workers : Appending(v, j)' => credits'[j] = 0
                              /\ \A u, v \in Workers : Appending(u, j)' /\ Appending(v, j)' => u = v
      BY DEF TopUpOK
    <2>1. credits \in [TopUps -> Nat] /\ worker \in [Workers -> Jobs]
      BY DEF TypeInv, TypeOK, Jobs
    <2>2. \A v \in Workers : Appending(v, j)' => Appending(v, j) \/ (v = w /\ j = i)
      <3>1. CASE UNCHANGED worker
        BY <3>1 DEF Appending
      <3>2. CASE worker' = [worker EXCEPT ![w] = [pc |-> "append", ref |-> i, attempt |-> 0]]
        BY <2>1, <3>2 DEF Appending
      <3> QED
        BY <1>3, <3>1, <3>2, WebhookFacts
    <2>3. j # i => credits'[j] = credits[j] /\ (j \in overlapped' <=> j \in overlapped)
      BY <1>3, <2>1, WebhookFacts
    <2>4. CASE j # i
      BY <1>3, <2>2, <2>3, <2>4, WebhookFacts DEF TopUpOK
    <2>5. CASE j = i /\ (\E v \in Workers : Appending(v, i))
      <3>1. i \in paid /\ paid' = paid /\ i \in overlapped'
        BY <1>3, <2>5, WebhookFacts
      <3> QED
        BY <2>5, <3>1
    <2>6. CASE j = i /\ (\A v \in Workers : ~Appending(v, i))
      <3>1. i \in paid /\ paid' = paid /\ overlapped' = overlapped
        BY <1>3, <2>6, WebhookFacts
      <3>2. \A v \in Workers : Appending(v, i)' => v = w
        BY <2>2, <2>6
      <3>3. CASE UNCHANGED worker
        <4>1. \A v \in Workers : ~Appending(v, i)'
          BY <2>6, <3>3 DEF Appending
        <4>2. credits'[i] = credits[i] \/ credits'[i] = 1
          BY <1>3, <2>1, <3>3, WebhookFacts
        <4> QED
          BY <2>1, <2>6, <3>1, <4>1, <4>2 DEF TopUpOK
      <3>4. CASE credits[i] = 0 /\ UNCHANGED credits
        BY <2>6, <3>1, <3>2, <3>4 DEF TopUpOK
      <3> QED
        BY <1>3, <3>3, <3>4, WebhookFacts
    <2> QED
      BY <2>4, <2>5, <2>6
  <1>4. ASSUME NEW w \in Workers, AppendTopup(w)
        PROVE  TopUpOK'
    <2>1. PICK i \in TopUps : /\ Appending(w, i) /\ credits' \in {credits, [credits EXCEPT ![i] = @ + 1]}
                              /\ worker' = [worker EXCEPT ![w] = Idle] /\ UNCHANGED <<paid, overlapped>>
      BY <1>4, AppendFacts
    <2>2. credits \in [TopUps -> Nat] /\ worker \in [Workers -> Jobs]
      BY DEF TypeInv, TypeOK, Jobs
    <2>3. \A v \in Workers, j \in TopUps : Appending(v, j)' => v # w /\ Appending(v, j)
      BY <2>1, <2>2 DEF Appending, Idle
    <2> QED
      BY <2>1, <2>2, <2>3 DEF TopUpOK
  <1>5. CASE UNCHANGED vars
    BY <1>5 DEF TopUpOK, Appending, vars, topUpVars
  <1> QED
    BY <1>1, <1>2, <1>3, <1>4, <1>5, Steps DEF TopUpStep

\* A step is a step of the contract, or leaves what the contract sees alone.
LEMMA ContractNext ==
    TypeInv /\ TopUpOK /\ [Next]_vars => [Contract!Next]_(Contract!vars)
  <1> SUFFICES ASSUME TypeInv, TopUpOK, [Next]_vars
               PROVE  Contract!Next \/ UNCHANGED <<paid, Counted>>
    BY DEF Contract!vars
  <1>0. credits \in [TopUps -> Nat]
    BY DEF TypeInv, TypeOK
  <1>1. ASSUME UNCHANGED <<paid, credits, overlapped>>
        PROVE  UNCHANGED <<paid, Counted>>
    BY <1>1 DEF Counted
  <1>2. CASE ChargeStep
    BY <1>1, <1>2, ChargeKeepsTopUps
  <1>3. ASSUME NEW i \in TopUps, Refuse(i) \/ LookupRaises(i)
        PROVE  UNCHANGED <<paid, Counted>>
    BY <1>1, <1>3 DEF Refuse, LookupRaises
  <1>4. ASSUME NEW i \in TopUps, InitiateTopup(i) \/ TopupWithMetadata(i)
        PROVE  Contract!Pay(i)
    BY <1>4 DEF InitiateTopup, TopupWithMetadata, Contract!Pay, Counted
  <1>5. ASSUME NEW i \in TopUps, i \in paid, UNCHANGED paid, Counted[i] = 0,
               \A j \in TopUps : Counted'[j] = IF j = i THEN 1 ELSE Counted[j]
        PROVE  Contract!Credit(i)
    <2>1. Counted' = [Counted EXCEPT ![i] = 1]
      BY <1>5 DEF Counted
    <2> QED
      BY <1>5, <2>1 DEF Contract!Credit
  <1>6. ASSUME UNCHANGED paid, \A j \in TopUps : Counted'[j] = Counted[j]
        PROVE  UNCHANGED <<paid, Counted>>
    BY <1>6 DEF Counted
  <1>7. ASSUME NEW w \in Workers, NEW i \in TopUps, TopupWebhook(w, i)
        PROVE  Contract!Credit(i) \/ UNCHANGED <<paid, Counted>>
    <2>1. i \notin overlapped /\ i \in overlapped' => credits[i] = 0
      BY <1>7, WebhookFacts DEF TopUpOK
    <2>2. \A j \in TopUps : j # i => (j \in overlapped' <=> j \in overlapped)
      BY <1>7, WebhookFacts
    <2>3. overlapped \subseteq overlapped'
      BY <1>7, WebhookFacts
    <2>4. CASE UNCHANGED credits
      <3>1. \A j \in TopUps : Counted'[j] = Counted[j]
        BY <1>0, <2>1, <2>2, <2>3, <2>4 DEF Counted
      <3> QED
        BY <1>6, <1>7, <3>1, WebhookFacts
    <2>5. CASE credits[i] = 0 /\ credits' = [credits EXCEPT ![i] = 1]
      <3>1. Counted[i] = 0 /\ \A j \in TopUps : Counted'[j] = IF j = i THEN 1 ELSE Counted[j]
        BY <1>0, <2>2, <2>5 DEF Counted
      <3> QED
        BY <1>5, <1>7, <3>1, WebhookFacts
    <2> QED
      BY <1>7, <2>4, <2>5, WebhookFacts
  <1>8. ASSUME NEW w \in Workers, AppendTopup(w)
        PROVE  (\E i \in TopUps : Contract!Credit(i)) \/ UNCHANGED <<paid, Counted>>
    <2>1. PICK i \in TopUps : /\ Appending(w, i) /\ credits' \in {credits, [credits EXCEPT ![i] = @ + 1]}
                              /\ worker' = [worker EXCEPT ![w] = Idle] /\ UNCHANGED <<paid, overlapped>>
      BY <1>8, AppendFacts
    <2>2. i \in paid /\ (i \in overlapped \/ credits[i] = 0)
      BY <2>1 DEF TopUpOK
    <2>5. CASE credits' = credits
      BY <1>1, <2>1, <2>5
    <2>3. CASE credits[i] = 0 /\ credits' # credits
      <3>1. Counted[i] = 0 /\ \A j \in TopUps : Counted'[j] = IF j = i THEN 1 ELSE Counted[j]
        BY <1>0, <2>1, <2>3 DEF Counted
      <3> QED
        BY <1>5, <2>1, <2>2, <3>1
    <2>4. CASE credits[i] # 0
      <3>1. \A j \in TopUps : Counted'[j] = Counted[j]
        BY <1>0, <2>1, <2>2, <2>4 DEF Counted
      <3> QED
        BY <1>6, <2>1, <3>1
    <2> QED
      BY <2>3, <2>4, <2>5
  <1>9. CASE UNCHANGED vars
    BY <1>1, <1>9 DEF vars, topUpVars
  <1> QED
    BY <1>2, <1>3, <1>4, <1>7, <1>8, <1>9, Steps DEF TopUpStep, Contract!Next

\* The top-up side implements TopUpContract: but for deliveries that overlap,
\* handle_topup_webhook credits every payment at most once, however often and
\* in whatever order the provider confirms it, and with either ledger.
THEOREM TopUpsImplementContract == Spec => TopUpsFollowContract
  <1>1. Init => Contract!Init
    BY DEF Init, Contract!Init, Counted
  <1>2. Spec => [](TypeInv /\ TopUpOK)
    BY TypeAlways, TopUpOKInit, TopUpOKNext, PTL DEF Spec
  <1> QED
    BY <1>1, <1>2, ContractNext, PTL DEF Spec, TopUpsFollowContract, Contract!Spec

-----------------------------------------------------------------------------
(* What charge_session leaves behind *)

\* Handler w waits for the ledger, or for the provider, on behalf of s.
Debiting(w, s) == worker[w].pc = "debit" /\ worker[w].ref = s
Paying(w, s) == worker[w].pc = "psp" /\ worker[w].ref = s

\* The provider has charged what it has settled; only wallet calls debit, and
\* only card calls make an intent; a single call debits once.
Money(s) ==
    /\ pspCharges[s] = IF intent[s] = "settled" THEN 1 ELSE 0
    /\ walletCalls[s] = 0 => debits[s] = 0 /\ \A w \in Workers : ~Debiting(w, s)
    /\ walletCalls[s] = calls[s] => intent[s] = "none" /\ \A w \in Workers : ~Paying(w, s)
    /\ calls[s] = 1 => /\ debits[s] <= 1
                       /\ \A w \in Workers : Debiting(w, s) => debits[s] = 0
                       /\ \A v, w \in Workers : Debiting(v, s) /\ Debiting(w, s) => v = w

\* What each status says has happened.
Earned(s) ==
    /\ payment[s] = "charged" => debits[s] > 0 \/ intent[s] # "none"
    /\ payment[s] = "payment_failed" => s \in retries
    /\ payment[s] = "pending" /\ calls[s] > 0 =>
          s \in raised \/ \E w \in Workers : Debiting(w, s) \/ Paying(w, s)

SessionOK(s) == Money(s) /\ Earned(s)

ChargeOK == \A s \in Sessions : SessionOK(s)

LEMMA ChargeOKInit == Init => ChargeOK
  BY DEF Init, ChargeOK, SessionOK, Money, Earned, Debiting, Paying, Idle

Numbers ==
    /\ debits \in [Sessions -> Nat] /\ pspCharges \in [Sessions -> Nat]
    /\ calls \in [Sessions -> Nat] /\ walletCalls \in [Sessions -> Nat]
    /\ payment \in [Sessions -> Statuses] /\ intent \in [Sessions -> Intents]
    /\ worker \in [Workers -> Jobs]
    /\ CallsOK

LEMMA TypeNumbers == TypeInv => Numbers
  BY BillingAssumption DEF TypeInv, TypeOK, Numbers, Jobs, Statuses, Intents

\* Everybody who works on s goes on.
SameWork(s) ==
    \A w \in Workers : (Debiting(w, s)' <=> Debiting(w, s)) /\ (Paying(w, s)' <=> Paying(w, s))

\* w is done with s; the others go on.
WorkEnds(w, s) ==
    /\ ~Debiting(w, s)' /\ ~Paying(w, s)'
    /\ \A v \in Workers : v # w =>
          (Debiting(v, s)' <=> Debiting(v, s)) /\ (Paying(v, s)' <=> Paying(v, s))

\* A handler's step is no business of the others.
OthersGoOn(w, s) ==
    \A v \in Workers : v # w =>
        (Debiting(v, s)' <=> Debiting(v, s)) /\ (Paying(v, s)' <=> Paying(v, s))

LEMMA OthersWork ==
    ASSUME Numbers, NEW s \in Sessions, NEW w \in Workers, NEW r, worker' = [worker EXCEPT ![w] = r]
    PROVE  OthersGoOn(w, s) /\ worker'[w] = r
  BY DEF Numbers, Debiting, Paying, OthersGoOn

\* A session nothing happens to stays in order.
LEMMA SessionUntouched ==
    ASSUME NEW s \in Sessions, SessionOK(s), SameWork(s),
           debits'[s] = debits[s], pspCharges'[s] = pspCharges[s], intent'[s] = intent[s],
           calls'[s] = calls[s], walletCalls'[s] = walletCalls[s],
           payment'[s] = payment[s], s \in retries => s \in retries', s \in raised => s \in raised'
    PROVE  SessionOK(s)'
  <1>1. Money(s)'
    BY DEF SessionOK, Money, SameWork
  <1>2. Earned(s)'
    BY DEF SessionOK, Earned, SameWork
  <1> QED
    BY <1>1, <1>2 DEF SessionOK

LEMMA TopUpsKeepCharges ==
    ASSUME TypeInv, ChargeOK, TopUpStep
    PROVE  ChargeOK'
  <1> SUFFICES ASSUME NEW s \in Sessions PROVE SessionOK(s)'
    BY DEF ChargeOK
  <1>1. Numbers /\ SessionOK(s)
    BY TypeNumbers DEF ChargeOK
  <1>2. UNCHANGED chargeVars
    BY DEF TopUpStep, InitiateTopup, TopupWithMetadata, Refuse, LookupRaises, TopupWebhook, AppendTopup
  <1>3. SameWork(s)
    <2>1. CASE UNCHANGED worker
      BY <2>1 DEF SameWork, Debiting, Paying
    <2>2. ASSUME NEW w \in Workers, worker' = [worker EXCEPT ![w] = Idle], worker[w].pc = "append"
          PROVE  SameWork(s)
      <3>1. ~Debiting(w, s) /\ ~Paying(w, s)
        BY <2>2 DEF Debiting, Paying
      <3>2. ~Debiting(w, s)' /\ ~Paying(w, s)'
        BY <1>1, <2>2 DEF Idle, Numbers, Debiting, Paying
      <3> QED
        BY <1>1, <2>2, <3>1, <3>2, OthersWork DEF SameWork, OthersGoOn
    <2>3. ASSUME NEW w \in Workers, NEW i \in TopUps, worker[w] = Idle,
                 worker' = [worker EXCEPT ![w] = [pc |-> "append", ref |-> i, attempt |-> 0]]
          PROVE  SameWork(s)
      <3>1. ~Debiting(w, s) /\ ~Paying(w, s)
        BY <2>3 DEF Debiting, Paying, Idle
      <3>2. ~Debiting(w, s)' /\ ~Paying(w, s)'
        BY <1>1, <2>3 DEF Numbers, Debiting, Paying
      <3>3. \A v \in Workers : v # w => worker'[v] = worker[v]
        BY <1>1, <2>3 DEF Numbers
      <3> QED
        BY <3>1, <3>2, <3>3 DEF SameWork, Debiting, Paying
    <2> QED
      BY <2>1, <2>2, <2>3 DEF TopUpStep, InitiateTopup, TopupWithMetadata, Refuse, LookupRaises,
         TopupWebhook, CreditOnce, AppendTopup
  <1> QED
    BY <1>1, <1>2, <1>3, SessionUntouched DEF chargeVars, cardVars, statusVars

LEMMA SwitchKeepsCharges ==
    ASSUME TypeInv, ChargeOK, NEW m, SetDefaultMethod(m)
    PROVE  ChargeOK'
  <1> SUFFICES ASSUME NEW s \in Sessions PROVE SessionOK(s)'
    BY DEF ChargeOK
  <1>1. SameWork(s) /\ UNCHANGED chargeVars
    BY DEF SetDefaultMethod, SameWork, Debiting, Paying
  <1> QED
    BY <1>1, SessionUntouched DEF ChargeOK, chargeVars, cardVars, statusVars

\* charge_session is called: once more, whoever else is at it.
LEMMA StartKeepsCharges ==
    ASSUME TypeInv, ChargeOK, NEW w \in Workers, NEW t \in Sessions,
           ChargeWallet(w, t) \/ ChargeCard(w, t)
    PROVE  ChargeOK'
  <1> SUFFICES ASSUME NEW s \in Sessions PROVE SessionOK(s)'
    BY DEF ChargeOK
  <1>1. Numbers /\ SessionOK(s) /\ walletCalls[s] <= calls[s] /\ walletCalls[s] \in Nat /\ calls[s] \in Nat
    BY TypeNumbers DEF ChargeOK, Numbers, CallsOK
  <1>2. ~Debiting(w, s) /\ ~Paying(w, s)
    BY DEF ChargeWallet, ChargeCard, Debiting, Paying, Idle
  <1>3. CASE s # t
    <2>1. SameWork(s)
      <3>1. CASE UNCHANGED worker
        BY <3>1 DEF SameWork, Debiting, Paying
      <3>2. CASE worker'[w].ref = t /\ \A v \in Workers : v # w => worker'[v] = worker[v]
        BY <1>2, <1>3, <3>2 DEF SameWork, Debiting, Paying
      <3> QED
        BY <1>1, <3>1, <3>2 DEF ChargeWallet, ChargeCard, Numbers
    <2>2. /\ debits'[s] = debits[s] /\ pspCharges'[s] = pspCharges[s] /\ intent'[s] = intent[s]
          /\ calls'[s] = calls[s] /\ walletCalls'[s] = walletCalls[s]
          /\ payment'[s] = payment[s] /\ retries' = retries /\ raised' = raised
      BY <1>1, <1>3 DEF ChargeWallet, ChargeCard, Call, Numbers, cardVars, statusVars
    <2> QED
      BY <1>1, <2>1, <2>2, SessionUntouched
  <1>4. CASE s = t /\ ChargeWallet(w, t)
    <2>1. /\ calls'[s] = calls[s] + 1 /\ walletCalls'[s] = walletCalls[s] + 1
          /\ pspCharges' = pspCharges /\ intent' = intent /\ retries' = retries /\ raised' = raised
      BY <1>1, <1>4 DEF ChargeWallet, Call, Numbers, cardVars
    <2>2. CASE UNCHANGED worker /\ debits' = [debits EXCEPT ![t] = @ + 1]
               /\ payment' = [payment EXCEPT ![t] = "charged"]
      <3>1. SameWork(s)
        BY <2>2 DEF SameWork, Debiting, Paying
      <3>2. debits'[s] = debits[s] + 1 /\ payment'[s] = "charged" /\ debits[s] \in Nat
        BY <1>1, <1>4, <2>2 DEF Numbers
      <3>3. Money(s)'
        BY <1>1, <2>1, <3>1, <3>2 DEF SessionOK, Money, SameWork
      <3> QED
        BY <3>2, <3>3 DEF SessionOK, Earned
    <2>3. CASE worker' = [worker EXCEPT ![w] = [pc |-> "debit", ref |-> t, attempt |-> 0]]
               /\ UNCHANGED <<debits, payment>>
      <3>1. /\ Debiting(w, s)' /\ ~Paying(w, s)'
            /\ \A v \in Workers : v # w =>
                 (Debiting(v, s)' <=> Debiting(v, s)) /\ (Paying(v, s)' <=> Paying(v, s))
        BY <1>1, <1>4, <2>3 DEF Numbers, Debiting, Paying
      <3>2. debits[s] \in Nat /\ debits' = debits
        BY <1>1, <2>3 DEF Numbers
      <3>3. Money(s)'
        BY <1>1, <1>2, <2>1, <3>1, <3>2 DEF SessionOK, Money
      <3>4. Earned(s)'
        BY <1>1, <2>1, <2>3, <3>1 DEF SessionOK, Earned
      <3> QED
        BY <3>3, <3>4 DEF SessionOK
    <2> QED
      BY <1>4, <2>2, <2>3 DEF ChargeWallet
  <1>5. CASE s = t /\ ChargeCard(w, t)
    <2>1. /\ calls'[s] = calls[s] + 1 /\ walletCalls' = walletCalls
          /\ UNCHANGED <<debits, pspCharges, intent, payment, retries, raised>>
          /\ worker' = [worker EXCEPT ![w] = [pc |-> "psp", ref |-> t, attempt |-> 1]]
      BY <1>1, <1>5 DEF ChargeCard, Call, Numbers, cardVars, statusVars
    <2>2. /\ Paying(w, s)' /\ ~Debiting(w, s)'
          /\ \A v \in Workers : v # w =>
               (Debiting(v, s)' <=> Debiting(v, s)) /\ (Paying(v, s)' <=> Paying(v, s))
      BY <1>1, <1>5, <2>1 DEF Numbers, Debiting, Paying
    <2>3. Money(s)'
      BY <1>1, <1>2, <2>1, <2>2 DEF SessionOK, Money
    <2>4. Earned(s)'
      BY <1>1, <2>1, <2>2 DEF SessionOK, Earned
    <2> QED
      BY <2>3, <2>4 DEF SessionOK
  <1> QED
    BY <1>3, <1>4, <1>5

\* NoPaymentMethodError: a call, and nothing else.
LEMMA UnusableKeepsCharges ==
    ASSUME TypeInv, ChargeOK, NEW t \in Sessions, ChargeUnusable(t)
    PROVE  ChargeOK'
  <1> SUFFICES ASSUME NEW s \in Sessions PROVE SessionOK(s)'
    BY DEF ChargeOK
  <1>1. Numbers /\ SessionOK(s) /\ walletCalls[s] <= calls[s] /\ walletCalls[s] \in Nat /\ calls[s] \in Nat
    BY TypeNumbers DEF ChargeOK, Numbers, CallsOK
  <1>2. /\ SameWork(s) /\ UNCHANGED <<debits, pspCharges, intent, walletCalls, payment, retries>>
        /\ raised' = raised \cup {t}
    BY DEF ChargeUnusable, SameWork, Debiting, Paying, cardVars, statusVars
  <1>3. CASE s # t
    <2>1. calls'[s] = calls[s]
      BY <1>1, <1>3 DEF ChargeUnusable, Call, Numbers
    <2> QED
      BY <1>1, <1>2, <2>1, SessionUntouched
  <1>4. CASE s = t
    <2>1. calls'[s] = calls[s] + 1
      BY <1>1, <1>4 DEF ChargeUnusable, Call, Numbers
    <2>2. Money(s)'
      BY <1>1, <1>2, <2>1 DEF SessionOK, Money, SameWork
    <2>3. Earned(s)'
      BY <1>1, <1>2, <1>4 DEF SessionOK, Earned
    <2> QED
      BY <2>2, <2>3 DEF SessionOK
  <1> QED
    BY <1>3, <1>4

\* The provider makes one intent for a key, and charges it once.
PspDoes(t) ==
    /\ \A s \in Sessions : s # t => intent'[s] = intent[s] /\ pspCharges'[s] = pspCharges[s]
    /\ pspCharges[t] = (IF intent[t] = "settled" THEN 1 ELSE 0) =>
          pspCharges'[t] = (IF intent'[t] = "settled" THEN 1 ELSE 0)
    /\ intent[t] # "none" => intent'[t] # "none"

LEMMA PspFacts ==
    ASSUME Numbers, NEW t \in Sessions, PspAccepts(t) \/ UNCHANGED cardVars
    PROVE  PspDoes(t) /\ (PspAccepts(t) => intent'[t] # "none")
  <1>1. CASE intent[t] = "none" /\ intent' = [intent EXCEPT ![t] = "settled"]
             /\ pspCharges' = [pspCharges EXCEPT ![t] = @ + 1]
    BY <1>1 DEF Numbers, PspDoes
  <1>2. CASE intent[t] = "none" /\ intent' = [intent EXCEPT ![t] = "processing"] /\ pspCharges' = pspCharges
    BY <1>2 DEF Numbers, PspDoes
  <1>3. CASE intent[t] # "none" /\ UNCHANGED cardVars
    BY <1>3 DEF PspDoes, cardVars
  <1>4. CASE intent[t] = "none" /\ UNCHANGED cardVars
    <2>1. ~PspAccepts(t)
      BY <1>4 DEF PspAccepts, cardVars, Numbers
    <2> QED
      BY <1>4, <2>1 DEF PspDoes, cardVars
  <1> QED
    BY <1>1, <1>2, <1>3, <1>4 DEF PspAccepts

\* A card call goes on or ends: the money of its session stays in order.
LEMMA CardMoney ==
    ASSUME Numbers, NEW s \in Sessions, SessionOK(s), NEW w \in Workers, Paying(w, s), PspDoes(s),
           UNCHANGED <<debits, calls, walletCalls>>, SameWork(s) \/ WorkEnds(w, s)
    PROVE  Money(s)'
  <1>1. walletCalls[s] # calls[s]
    BY DEF SessionOK, Money
  <1>2. \A v \in Workers : Debiting(v, s)' => Debiting(v, s)
    BY DEF SameWork, WorkEnds
  <1> QED
    BY <1>1, <1>2 DEF SessionOK, Money, PspDoes

\* Another session sees nothing of a step of handler w for t.
LEMMA OtherSessionKept ==
    ASSUME Numbers, NEW s \in Sessions, SessionOK(s), NEW w \in Workers, NEW r, s # worker[w].ref,
           worker' = [worker EXCEPT ![w] = r], r = Idle \/ r.ref = worker[w].ref,
           debits'[s] = debits[s], pspCharges'[s] = pspCharges[s], intent'[s] = intent[s],
           calls'[s] = calls[s], walletCalls'[s] = walletCalls[s],
           payment'[s] = payment[s], s \in retries => s \in retries', s \in raised => s \in raised'
    PROVE  SessionOK(s)'
  <1>1. ~Debiting(w, s) /\ ~Paying(w, s)
    BY DEF Debiting, Paying
  <1>2. ~(r.pc = "debit" /\ r.ref = s) /\ ~(r.pc = "psp" /\ r.ref = s)
    BY DEF Idle
  <1>3. SameWork(s)
    BY <1>1, <1>2, OthersWork DEF SameWork, OthersGoOn, Debiting, Paying
  <1> QED
    BY <1>3, SessionUntouched

LEMMA HandlerEnds ==
    ASSUME Numbers, NEW s \in Sessions, NEW w \in Workers, worker' = [worker EXCEPT ![w] = Idle]
    PROVE  WorkEnds(w, s)
  BY DEF WorkEnds, Idle, Numbers, Debiting, Paying

LEMMA DebitKeepsCharges ==
    ASSUME TypeInv, ChargeOK, NEW w \in Workers, AppendDebit(w) \/ AppendDebitRaises(w)
    PROVE  ChargeOK'
  <1> SUFFICES ASSUME NEW s \in Sessions PROVE SessionOK(s)'
    BY DEF ChargeOK
  <1>1. PICK t \in Sessions : t = worker[w].ref
    BY DEF TypeInv, WorkerOK, AppendDebit, AppendDebitRaises
  <1>2. Numbers /\ SessionOK(s) /\ Debiting(w, t) /\ debits[t] \in Nat
    BY <1>1, TypeNumbers DEF ChargeOK, AppendDebit, AppendDebitRaises, Debiting, Numbers
  <1>3. PICK n \in {debits[t], debits[t] + 1} :
            /\ debits' = [debits EXCEPT ![t] = n]
            /\ AppendDebit(w) => n = debits[t] + 1
    BY <1>1, <1>2 DEF AppendDebit, AppendDebitRaises, Inserted, InsertRaises
  <1>4. /\ worker' = [worker EXCEPT ![w] = Idle]
        /\ UNCHANGED <<pspCharges, intent, calls, walletCalls, retries>>
        /\ raised \subseteq raised'
        /\ AppendDebit(w) => payment' = [payment EXCEPT ![t] = "charged"]
        /\ ~AppendDebit(w) => payment' = payment /\ t \in raised'
    BY <1>1 DEF AppendDebit, AppendDebitRaises, cardVars, statusVars
  <1>5. CASE s # t
    <2>1. debits'[s] = debits[s] /\ payment'[s] = payment[s]
      BY <1>2, <1>3, <1>4, <1>5 DEF Numbers
    <2> QED
      BY <1>1, <1>2, <1>4, <1>5, <2>1, OtherSessionKept
  <1>6. CASE s = t
    <2>1. WorkEnds(w, s)
      BY <1>2, <1>4, HandlerEnds
    <2>2. debits'[s] = n
      BY <1>2, <1>3, <1>6 DEF Numbers
    <2>3. \A v \in Workers : (Debiting(v, s)' => v # w /\ Debiting(v, s)) /\ (Paying(v, s)' => Paying(v, s))
      BY <2>1 DEF WorkEnds
    <2>4. walletCalls[s] # 0
      BY <1>2, <1>6 DEF SessionOK, Money
    <2>5. Money(s)'
      BY <1>2, <1>3, <1>4, <1>6, <2>2, <2>3, <2>4 DEF SessionOK, Money
    <2>6. Earned(s)'
      <3>1. CASE AppendDebit(w)
        BY <1>2, <1>3, <1>4, <1>6, <2>2, <3>1 DEF Earned, Numbers
      <3>2. CASE ~AppendDebit(w)
        BY <1>2, <1>3, <1>4, <1>6, <2>2, <3>2 DEF SessionOK, Earned
      <3> QED
        BY <3>1, <3>2
    <2> QED
      BY <2>5, <2>6 DEF SessionOK
  <1> QED
    BY <1>5, <1>6

LEMMA CardKeepsCharges ==
    ASSUME TypeInv, ChargeOK, NEW w \in Workers,
           CardCharged(w) \/ CardDeclined(w) \/ AnswerMalformed(w) \/ PspUnreachable(w)
    PROVE  ChargeOK'
  <1> SUFFICES ASSUME NEW s \in Sessions PROVE SessionOK(s)'
    BY DEF ChargeOK
  <1>1. PICK t \in Sessions : t = worker[w].ref
    BY DEF TypeInv, WorkerOK, CardCharged, CardDeclined, AnswerMalformed, PspUnreachable
  <1>2. Numbers /\ SessionOK(s) /\ Paying(w, t)
    BY <1>1, TypeNumbers DEF ChargeOK, CardCharged, CardDeclined, AnswerMalformed, PspUnreachable, Paying
  <1>3. PspDoes(t) /\ (CardCharged(w) => intent'[t] # "none")
    BY <1>1, <1>2, PspFacts DEF CardCharged, CardDeclined, AnswerMalformed, PspUnreachable
  <1>4. UNCHANGED <<debits, calls, walletCalls, raised>>
    BY DEF CardCharged, CardDeclined, AnswerMalformed, PspUnreachable, PaymentFailed
  <1>5. \/ /\ worker' = [worker EXCEPT ![w] = Idle]
           /\ CardCharged(w) /\ payment' = [payment EXCEPT ![t] = "charged"] /\ retries' = retries
        \/ /\ worker' = [worker EXCEPT ![w] = Idle]
           /\ payment' = [payment EXCEPT ![t] = "payment_failed"] /\ retries' = retries \cup {t}
        \/ /\ worker' = [worker EXCEPT ![w].attempt = @ + 1]
           /\ UNCHANGED <<payment, retries>>
    BY <1>1 DEF CardCharged, CardDeclined, AnswerMalformed, PspUnreachable, PaymentFailed, statusVars
  <1>6. PICK r : /\ worker' = [worker EXCEPT ![w] = r]
                 /\ r = Idle \/ (r.pc = "psp" /\ r.ref = t)
                 /\ r = Idle <=> worker' = [worker EXCEPT ![w] = Idle]
    <2>1. CASE worker' = [worker EXCEPT ![w] = Idle]
      BY <2>1
    <2>2. CASE worker' = [worker EXCEPT ![w].attempt = @ + 1]
      <3>1. PICK q : q = [worker[w] EXCEPT !.attempt = @ + 1]
        OBVIOUS
      <3>2. worker[w] \in Jobs /\ worker[w].pc = "psp"
        BY <1>2 DEF Numbers, Paying
      <3>3. q.pc = "psp" /\ q.ref = t
        BY <1>1, <3>1, <3>2 DEF Jobs
      <3>4. worker' = [worker EXCEPT ![w] = q] /\ worker'[w] = q
        BY <1>2, <2>2, <3>1 DEF Numbers
      <3>5. q # Idle /\ worker' # [worker EXCEPT ![w] = Idle]
        BY <1>2, <3>3, <3>4 DEF Idle, Numbers
      <3> QED
        BY <3>3, <3>4, <3>5
    <2> QED
      BY <1>5, <2>1, <2>2
  <1>7. CASE s # t
    <2>1. payment'[s] = payment[s] /\ (s \in retries => s \in retries')
      BY <1>2, <1>5, <1>7 DEF Numbers
    <2>2. intent'[s] = intent[s] /\ pspCharges'[s] = pspCharges[s]
      BY <1>3, <1>7 DEF PspDoes
    <2> QED
      BY <1>1, <1>2, <1>4, <1>6, <1>7, <2>1, <2>2, OtherSessionKept
  <1>8. CASE s = t
    <2>1. CASE r = Idle
      <3>1. WorkEnds(w, s)
        BY <1>2, <1>6, <2>1, HandlerEnds
      <3>2. Money(s)'
        BY <1>2, <1>3, <1>4, <1>8, <3>1, CardMoney
      <3>3. worker'[w] = Idle
        BY <1>2, <1>6, <2>1 DEF Numbers
      <3>4. worker' # [worker EXCEPT ![w].attempt = @ + 1]
        <4>1. worker[w] \in Jobs /\ worker[w].pc = "psp"
          BY <1>2 DEF Numbers, Paying
        <4>2. ASSUME worker' = [worker EXCEPT ![w].attempt = @ + 1] PROVE worker'[w].pc = "psp"
          BY <1>2, <4>1, <4>2 DEF Numbers, Jobs
        <4>3. worker'[w].pc = "idle"
          BY <3>3 DEF Idle
        <4> QED
          BY <4>2, <4>3
      <3>5. \/ payment'[s] = "charged" /\ intent'[s] # "none"
            \/ payment'[s] = "payment_failed" /\ s \in retries'
        BY <1>2, <1>3, <1>5, <1>8, <3>4 DEF Numbers
      <3>6. Earned(s)'
        BY <3>5 DEF Earned
      <3> QED
        BY <3>2, <3>6 DEF SessionOK
    <2>2. CASE r.pc = "psp" /\ r.ref = t /\ r # Idle
      <3>1. SameWork(s)
        <4>1. Paying(w, s) /\ ~Debiting(w, s)
          BY <1>2, <1>8 DEF Paying, Debiting
        <4> QED
          BY <1>2, <1>6, <1>8, <2>2, <4>1, OthersWork DEF SameWork, OthersGoOn, Debiting, Paying
      <3>2. Money(s)'
        BY <1>2, <1>3, <1>4, <1>8, <3>1, CardMoney
      <3>3. UNCHANGED <<payment, retries>>
        BY <1>5, <1>6, <2>2
      <3>4. Earned(s)'
        BY <1>2, <1>3, <1>4, <1>8, <3>1, <3>3 DEF SessionOK, Earned, SameWork, PspDoes
      <3> QED
        BY <3>2, <3>4 DEF SessionOK
    <2> QED
      BY <1>6, <2>1, <2>2
  <1> QED
    BY <1>7, <1>8

LEMMA SettleKeepsCharges ==
    ASSUME TypeInv, ChargeOK, NEW t \in Sessions, IntentSettles(t)
    PROVE  ChargeOK'
  <1> SUFFICES ASSUME NEW s \in Sessions PROVE SessionOK(s)'
    BY DEF ChargeOK
  <1>1. Numbers /\ SessionOK(s)
    BY TypeNumbers DEF ChargeOK
  <1>2. SameWork(s) /\ UNCHANGED <<debits, calls, walletCalls, raised, payment, retries>>
    BY DEF IntentSettles, SameWork, Debiting, Paying, statusVars
  <1>3. PspDoes(t)
    <2>1. CASE intent' = [intent EXCEPT ![t] = "settled"] /\ pspCharges' = [pspCharges EXCEPT ![t] = @ + 1]
               /\ intent[t] = "processing"
      BY <1>1, <2>1 DEF Numbers, PspDoes
    <2>2. CASE intent' = [intent EXCEPT ![t] = "failed"] /\ pspCharges' = pspCharges /\ intent[t] = "processing"
      BY <1>1, <2>2 DEF Numbers, PspDoes
    <2> QED
      BY <2>1, <2>2 DEF IntentSettles
  <1>4. CASE s # t
    BY <1>1, <1>2, <1>3, <1>4, SessionUntouched DEF PspDoes
  <1>5. CASE s = t
    <2>1. intent[s] # "none" /\ intent'[s] # "none"
      BY <1>3, <1>5 DEF IntentSettles, PspDoes
    <2>2. Money(s)'
      BY <1>1, <1>2, <1>3, <1>5, <2>1 DEF SessionOK, Money, SameWork, PspDoes
    <2>3. Earned(s)'
      BY <1>1, <1>2, <2>1 DEF SessionOK, Earned, SameWork
    <2> QED
      BY <2>2, <2>3 DEF SessionOK
  <1> QED
    BY <1>4, <1>5

LEMMA ChargeOKNext == TypeInv /\ ChargeOK /\ [Next]_vars => ChargeOK'
  <1> SUFFICES ASSUME TypeInv, ChargeOK, [Next]_vars PROVE ChargeOK'
    OBVIOUS
  <1>1. CASE TopUpStep
    BY <1>1, TopUpsKeepCharges
  <1>2. CASE ChargeStep
    BY <1>2, SwitchKeepsCharges, UnusableKeepsCharges, SettleKeepsCharges, StartKeepsCharges,
       DebitKeepsCharges, CardKeepsCharges DEF ChargeStep
  <1>3. CASE UNCHANGED vars
    BY <1>3 DEF vars, chargeVars, cardVars, statusVars, ChargeOK, SessionOK, Money, Earned, Debiting, Paying
  <1> QED
    BY <1>1, <1>2, <1>3, Steps

LEMMA ChargeAlways == Spec => [](TypeInv /\ ChargeOK)
  BY TypeAlways, ChargeOKInit, ChargeOKNext, PTL DEF Spec

\* The card of a session is charged once, whatever calls of charge_session
\* repeat or overlap: the Idempotency-Key is the session's.  A session is paid
\* for once altogether unless a call that goes to the wallet is one of several.
THEOREM BilledOnce == Spec => []SessionBilledOnce
  <1>1. TypeInv /\ ChargeOK => SessionBilledOnce
    <2> SUFFICES ASSUME TypeInv, ChargeOK, NEW s \in Sessions
                 PROVE  /\ pspCharges[s] <= 1
                        /\ calls[s] <= 1 \/ walletCalls[s] = 0 => pspCharges[s] + debits[s] <= 1
      BY DEF SessionBilledOnce
    <2>1. /\ Money(s) /\ walletCalls[s] <= calls[s]
          /\ walletCalls[s] \in Nat /\ calls[s] \in Nat /\ debits[s] \in Nat
      BY TypeNumbers DEF ChargeOK, SessionOK, Numbers, CallsOK
    <2>2. pspCharges[s] \in {0, 1}
      BY <2>1 DEF Money
    <2>3. walletCalls[s] = 0 => debits[s] = 0
      BY <2>1 DEF Money
    <2>4. calls[s] = 1 /\ walletCalls[s] = 1 => debits[s] <= 1 /\ pspCharges[s] = 0
      BY <2>1 DEF Money
    <2> QED
      BY <2>1, <2>2, <2>3, <2>4
  <1> QED
    BY <1>1, ChargeAlways, PTL

\* Whatever inserts raise and whatever calls overlap, the status charge_session
\* leaves says what happened: charged was debited or accepted by the provider,
\* payment_failed is on the retry schedule, pending has raised.
THEOREM StatusesAreEarned == Spec => []StatusIsEarned
  <1>1. TypeInv /\ ChargeOK => StatusIsEarned
    <2> SUFFICES ASSUME TypeInv, ChargeOK, NEW s \in Sessions, Handled(s)
                 PROVE  \/ payment[s] = "charged" /\ (debits[s] > 0 \/ intent[s] # "none")
                        \/ payment[s] = "payment_failed" /\ s \in retries
                        \/ payment[s] = "pending" /\ s \in raised
      BY DEF StatusIsEarned
    <2>1. Earned(s) /\ payment[s] \in Statuses
      BY TypeNumbers DEF ChargeOK, SessionOK, Numbers
    <2>2. \A w \in Workers : ~Debiting(w, s) /\ ~Paying(w, s)
      BY DEF Handled, Debiting, Paying
    <2> QED
      BY <2>1, <2>2 DEF Earned, Handled, Statuses
  <1> QED
    BY <1>1, ChargeAlways, PTL
=============================================================================
