------------------------------ MODULE Invoicing ------------------------------
(* Invoices of adjacent periods: generated from the session records of a       *)
(* period (InvoiceGenerationService), issued, edited while they are drafts,    *)
(* corrected by credit notes, marked overdue (InvoiceService).                 *)
(* InMemoryInvoiceStore never suspends.                                        *)
EXTENDS Integers, FiniteSets, FiniteSetsExt

CONSTANTS
    InvoicedSessions, \* session records that may arrive
    Amounts,          \* what a session may have cost
    PeriodEnds,       \* periods run from one of these to the next
    MaxInvoiceClock,  \* bound: ticks
    MaxNotes          \* bound: credit notes of an invoice

ASSUME InvoicingAssumption ==
    /\ MaxInvoiceClock \in Nat /\ MaxNotes \in Nat
    /\ PeriodEnds \subseteq Nat /\ Amounts \subseteq Nat
    /\ IsFiniteSet(InvoicedSessions)

VARIABLES
    iclock,    \* time
    finished,    \* SessionRecord: [timestamp, amount], timestamp = -1 before it exists
    invoice,   \* by period: [status, at, total, issuedTotal, notes]
    covered    \* the sessions each invoice summed

inVars == <<iclock, finished, invoice, covered>>

NoInvoice == [status |-> "none", at |-> -1, total |-> 0, issuedTotal |-> 0, notes |-> 0]
Periods == {p \in PeriodEnds : \E e \in PeriodEnds : e > p}
EndOf(p) == Min({e \in PeriodEnds : e > p})

InTypeOK ==
    /\ iclock \in 0..MaxInvoiceClock
    /\ finished \in [InvoicedSessions -> [timestamp: -1..MaxInvoiceClock, amount: Amounts \cup {0}]]
    /\ invoice \in [Periods -> [status: {"none", "draft", "issued", "overdue"}, at: -1..MaxInvoiceClock,
                                total: Int, issuedTotal: Int, notes: -MaxNotes..0]]
    /\ covered \in [Periods -> SUBSET InvoicedSessions]

InInit ==
    /\ iclock = 0
    /\ finished = [s \in InvoicedSessions |-> [timestamp |-> -1, amount |-> 0]]
    /\ invoice = [p \in Periods |-> NoInvoice]
    /\ covered = [p \in Periods |-> {}]

------------------------------------------------------------------------------
SessionEnds(s, amount) ==
    /\ finished[s].timestamp = -1
    /\ finished' = [finished EXCEPT ![s] = [timestamp |-> iclock, amount |-> amount]]
    /\ UNCHANGED <<iclock, invoice, covered>>

\* Variant: a session at the end of a period belongs to it too.
InClosedPeriod(s, p) == p <= finished[s].timestamp /\ finished[s].timestamp <= EndOf(p)

AmountOf == [s \in InvoicedSessions |-> finished[s].amount]

\* The sessions generate_for_period sums.  That it is run once for a period is
\* its caller's part.
InPeriod(s, p) == p <= finished[s].timestamp /\ finished[s].timestamp < EndOf(p)

GenerateForPeriod(p) ==
    LET relevant == {s \in InvoicedSessions : InPeriod(s, p)}
    IN  /\ invoice[p].status = "none"
        /\ invoice' = [invoice EXCEPT ![p] = [NoInvoice EXCEPT !.status = "draft", !.at = iclock,
                                                 !.total = MapThenSumSet(LAMBDA s : AmountOf[s], relevant)]]
        /\ covered' = [covered EXCEPT ![p] = relevant]
        /\ UNCHANGED <<iclock, finished>>

\* issue does not look at the status it replaces.
IssueInvoice(p) ==
    /\ invoice[p].status # "none"
    /\ invoice' = [invoice EXCEPT ![p].status = "issued",
                                  ![p].issuedTotal = IF invoice[p].status = "draft" THEN invoice[p].total ELSE @,
                                  ![p].notes = IF invoice[p].status = "draft" THEN 0 ELSE @]
    /\ UNCHANGED <<iclock, finished, covered>>

Editable(p) == invoice[p].status = "draft"

EditDraft(p, total) ==
    /\ Editable(p)
    /\ invoice' = [invoice EXCEPT ![p].total = total]
    /\ UNCHANGED <<iclock, finished, covered>>

\* apply_credit_note, on an invoice in any status.
ApplyCreditNote(p) ==
    /\ invoice[p].status # "none" /\ invoice[p].notes > -MaxNotes
    /\ invoice' = [invoice EXCEPT ![p].total = @ - 1, ![p].notes = @ - 1]
    /\ UNCHANGED <<iclock, finished, covered>>

\* due_at is the end of the period.
MarkOverdueIfPastDue(p) ==
    /\ invoice[p].status = "issued" /\ iclock > EndOf(p)
    /\ invoice' = [invoice EXCEPT ![p].status = "overdue"]
    /\ UNCHANGED <<iclock, finished, covered>>

InvoiceTick ==
    /\ iclock < MaxInvoiceClock /\ iclock' = iclock + 1
    /\ UNCHANGED <<finished, invoice, covered>>

InNext ==
    \/ InvoiceTick
    \/ \E s \in InvoicedSessions, amount \in Amounts : SessionEnds(s, amount)
    \/ \E p \in Periods :
          \/ GenerateForPeriod(p) \/ IssueInvoice(p) \/ MarkOverdueIfPastDue(p) \/ ApplyCreditNote(p)
          \/ \E total \in Amounts : EditDraft(p, total)

InSpec == InInit /\ [][InNext]_inVars

------------------------------------------------------------------------------
(* InvoicedOnce: sessions end while invoices of adjacent periods are generated, *)
(* issued, issued again, edited, credited and marked overdue in any order       *)
(* (invoicing.py:111-162).  No session is summed by two invoices, one that      *)
(* ended before its period's invoice was generated is in that invoice, and an   *)
(* issued invoice's total is what it was issued with less the credit since.     *)
InvoicedOnce ==
    /\ \A p, r \in Periods : p # r => covered[p] \cap covered[r] = {}
    /\ \A p \in Periods, s \in InvoicedSessions :
           finished[s].timestamp \in p..(EndOf(p) - 1) /\ finished[s].timestamp < invoice[p].at => s \in covered[p]
    /\ \A p \in Periods : invoice[p].status \in {"issued", "overdue"} =>
           invoice[p].total = invoice[p].issuedTotal + invoice[p].notes
==============================================================================
