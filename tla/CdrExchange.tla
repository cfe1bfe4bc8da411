----------------------------- MODULE CdrExchange -----------------------------
(* Charge detail records of roaming sessions: CdrService generates one when    *)
(* stop_transaction is delivered, at least once, and pushes it to partners     *)
(* whose transport (external, CdrPushClient) suspends, and may raise before or *)
(* after the partner took the record.                                          *)
EXTENDS Naturals, FiniteSets

CONSTANTS
    CdrSessions,   \* ended sessions
    CdrPartners,   \* roaming partners
    CdrTasks,      \* deliveries of stop_transaction under way at once
    LocalTotals,   \* total costs of records, minor units
    MaxCdrs,       \* bound: records minted
    MaxRaises      \* bound: pushes that raise

ASSUME CdrExchangeAssumption ==
    MaxCdrs \in Nat \ {0} /\ MaxRaises \in Nat /\ LocalTotals \subseteq Nat /\ IsFiniteSet(CdrTasks)

VARIABLES
    cdrOf,      \* InMemoryCdrStore: the record of each session, 0 for none
    nextCdr,    \* ids are fresh uuids
    delivery,   \* the deliveries: [pc, session, cdr, partner]
    pushedCdr,  \* _pushed: <<partner, cdr>>
    receipts,   \* how often each partner took each record
    raises,     \* pushes that raised, per <<partner, cdr>>
    overlaps    \* pushes begun while another of the same pair was under way

ceVars == <<cdrOf, nextCdr, delivery, pushedCdr, receipts, raises, overlaps>>

CdrIds == 1..MaxCdrs
Pairs == CdrPartners \X CdrIds
NoDelivery == [pc |-> "idle", session |-> "none", cdr |-> 0, partner |-> "none"]

CeTypeOK ==
    /\ cdrOf \in [CdrSessions -> 0..MaxCdrs] /\ nextCdr \in 1..(MaxCdrs + 1)
    /\ \A d \in CdrTasks : delivery[d].pc \in {"idle", "generated", "pushing"}
    /\ pushedCdr \subseteq Pairs
    /\ receipts \in [Pairs -> Nat] /\ raises \in [Pairs -> Nat] /\ overlaps \in [Pairs -> Nat]

CeInit ==
    /\ cdrOf = [s \in CdrSessions |-> 0] /\ nextCdr = 1
    /\ delivery = [d \in CdrTasks |-> NoDelivery]
    /\ pushedCdr = {}
    /\ receipts = [x \in Pairs |-> 0] /\ raises = [x \in Pairs |-> 0] /\ overlaps = [x \in Pairs |-> 0]

\* The store has none for the session.
MustMint(s) == cdrOf[s] = 0

\* generate_cdr_on_stop_transaction: get and save do not suspend.
GenerateCdr(d, s) ==
    /\ delivery[d].pc = "idle"
    /\ IF MustMint(s)
       THEN nextCdr <= MaxCdrs /\ cdrOf' = [cdrOf EXCEPT ![s] = nextCdr] /\ nextCdr' = nextCdr + 1
       ELSE UNCHANGED <<cdrOf, nextCdr>>
    /\ delivery' = [delivery EXCEPT ![d] = [NoDelivery EXCEPT !.pc = "generated", !.session = s, !.cdr = cdrOf'[s]]]
    /\ UNCHANGED <<pushedCdr, receipts, raises, overlaps>>

\* push_cdr_idempotent, up to the transport: a remembered pair is not pushed.
PushCdr(d, p) ==
    LET x == <<p, delivery[d].cdr>>
    IN  /\ delivery[d].pc = "generated"
        /\ x \notin pushedCdr
        /\ delivery' = [delivery EXCEPT ![d].pc = "pushing", ![d].partner = p]
        /\ overlaps' = IF \E e \in CdrTasks : delivery[e].pc = "pushing" /\ <<delivery[e].partner, delivery[e].cdr>> = x
                       THEN [overlaps EXCEPT ![x] = @ + 1] ELSE overlaps
        /\ UNCHANGED <<cdrOf, nextCdr, pushedCdr, receipts, raises>>

\* push_cdr returns: the pair is remembered.
PushReturns(d) ==
    LET x == <<delivery[d].partner, delivery[d].cdr>>
    IN  /\ delivery[d].pc = "pushing"
        /\ receipts' = [receipts EXCEPT ![x] = @ + 1]
        /\ pushedCdr' = pushedCdr \cup {x}
        /\ delivery' = [delivery EXCEPT ![d].pc = "generated", ![d].partner = "none"]
        /\ UNCHANGED <<cdrOf, nextCdr, raises, overlaps>>

\* Variant: the pair is remembered although the push raised.
RememberedAnyway(x) == pushedCdr \cup {x}

RememberedAfterRaise(x) == pushedCdr

\* push_cdr raises, whether or not the partner has the record; the event's
\* delivery fails with it and comes again.
PushRaises(d) ==
    LET x == <<delivery[d].partner, delivery[d].cdr>>
    IN  /\ delivery[d].pc = "pushing" /\ raises[x] < MaxRaises
        /\ \E got \in {0, 1} : receipts' = [receipts EXCEPT ![x] = @ + got]
        /\ raises' = [raises EXCEPT ![x] = @ + 1]
        /\ pushedCdr' = RememberedAfterRaise(x)
        /\ delivery' = [delivery EXCEPT ![d] = NoDelivery]
        /\ UNCHANGED <<cdrOf, nextCdr, overlaps>>

\* The handler has gone through its partners.
DeliveryEnds(d) ==
    /\ delivery[d].pc = "generated"
    /\ \A p \in CdrPartners : <<p, delivery[d].cdr>> \in pushedCdr
    /\ delivery' = [delivery EXCEPT ![d] = NoDelivery]
    /\ UNCHANGED <<cdrOf, nextCdr, pushedCdr, receipts, raises, overlaps>>

CeNext ==
    \E d \in CdrTasks :
        \/ \E s \in CdrSessions : GenerateCdr(d, s)
        \/ \E p \in CdrPartners : PushCdr(d, p)
        \/ PushReturns(d) \/ PushRaises(d) \/ DeliveryEnds(d)

\* reconcile_incoming_cdr: more than 2% off the local amount, or anything where
\* there should be nothing.
ReconcileIncoming(local, partner) ==
    LET delta == IF partner > local THEN partner - local ELSE local - partner
        off == IF local = 0 THEN partner # 0 ELSE 100 * delta > 2 * local
    IN  IF off THEN "mismatched" ELSE "matched"

\* reconcile_cdr_batch, of one report: a record that is not ours is kept as pending.
ReconcileReport(cdr, local, partner) ==
    IF \A s \in CdrSessions : cdrOf[s] # cdr THEN "pending" ELSE ReconcileIncoming(local, partner)

CeSpec == CeInit /\ [][CeNext]_ceVars

------------------------------------------------------------------------------
(* CdrNeitherLostNorRepeated: the pair is looked up before the push and         *)
(* remembered after it (cdr.py:67-72).  What is remembered as pushed was        *)
(* received, a record is received again only for a push that raised or one      *)
(* that overlapped another, and it is the one the store keeps for a session     *)
(* however often stop_transaction is delivered (cdr.py:55-65): a partner's      *)
(* report of it is never pending, and matches exactly within 2% of the local    *)
(* total, zero included (partner_admin.py:83-93).                               *)
CdrNeitherLostNorRepeated ==
    \A x \in Pairs :
        /\ x \in pushedCdr => receipts[x] >= 1
        /\ receipts[x] <= 1 + raises[x] + overlaps[x]
        /\ receipts[x] > 0 => \A l \in LocalTotals : \A t \in 0..(2 * l + 1) :
               ReconcileReport(x[2], l, t) = IF 98 * l <= 100 * t /\ 100 * t <= 102 * l THEN "matched" ELSE "mismatched"
==============================================================================
