---------------------------- MODULE CreditLoans -----------------------------
(***************************************************************************)
(* Repaying credit loans of one stock (auto_m_engine.py, auto_m.py).       *)
(*                                                                         *)
(* A repay order must name the loan, by its date, that it repays.  The     *)
(* engine keeps a snapshot of the loans: it asks the broker at the start   *)
(* and every hour, and between two answers corrects the snapshot by the    *)
(* fills it is told of.  An order takes the oldest loan that is not taken  *)
(* by repay orders at work or on their way; if there is none, the set      *)
(* waits and the stock places no repay order until a loan turns up.        *)
(* The first purchase of the day asks once for the date of its loan.       *)
(*                                                                         *)
(* Loans are numbered by date; the last one is that of today's purchases.  *)
(***************************************************************************)
EXTENDS Naturals, FiniteSets, FiniteSetsExt

CONSTANTS Loans,      \* the loans, 1 .. n
          FirstLoans, \* balances before today's first purchase
          MaxLoanOrders, \* bound: orders
          RepayQty,   \* quantity a judgement asks to repay
          EntryQty,   \* and to buy
          MaxBalance, \* bound: balance of a loan
          MaxNoAnswer \* bound: queries that fail, placements without an answer

LoanSlots == 1 .. MaxLoanOrders
Today == CHOOSE d \in Loans : \A e \in Loans : e <= d

ASSUME LoansAssumption ==
  /\ {MaxBalance, MaxLoanOrders, RepayQty, EntryQty} \subseteq Nat
  /\ Cardinality(Loans) \in Nat \ {0} /\ Loans = 1 .. Cardinality(Loans)
  /\ FirstLoans \in [Loans -> 0 .. MaxBalance] /\ FirstLoans[Today] = 0

VARIABLES
  bal,     \* the broker's balance of each loan
  snap,    \* _loans: what the engine takes for it
  known,   \* _loans has an entry, and _today_loan
  taken,   \* the orders
  fresh,   \* fresh[k]: contracts of order k filled, their notice on the way
  query,   \* queries by kind
  waits,   \* _repay_wait has an entry
  crossed, \* history: loans of which an answer and a notice crossed
  noAnswer \* history: failed queries and lost placements

loanVars == <<bal, snap, known, taken, fresh, query, waits, crossed, noAnswer>>

NoLoanOrder == [phase |-> "none", repay |-> FALSE, loan |-> Today, left |-> 0]
OverOrder == [NoLoanOrder EXCEPT !.phase = "over"]
NoQuery == [phase |-> "idle", answer |-> FirstLoans, crossed |-> {}]

(* "periodic" asks every hour, "learn" for the date of today's loan.       *)
ClInit ==
  /\ bal = FirstLoans /\ snap = [d \in Loans |-> 0]
  /\ known = [loans |-> FALSE, today |-> FALSE]
  /\ taken = [k \in LoanSlots |-> NoLoanOrder] /\ fresh = [k \in LoanSlots |-> 0]
  /\ query = [c \in {"periodic", "learn"} |-> NoQuery]
  /\ waits = FALSE /\ crossed = {} /\ noAnswer = 0

(* The sum of w over the orders, added up from the first one.              *)
Summed(w) ==
  LET upto[k \in 0 .. MaxLoanOrders] == IF k = 0 THEN 0 ELSE upto[k - 1] + w[k]
  IN upto[MaxLoanOrders]

Repays(k, d, phases) ==
  taken[k].repay /\ taken[k].loan = d /\ taken[k].phase \in phases

(* _repay_reserved: what open orders have left, as the order book knows    *)
(* it, and what is on its way.                                             *)
Reserved(d) ==
  Summed([k \in LoanSlots |->
    IF Repays(k, d, {"open", "sent"}) THEN taken[k].left + fresh[k] ELSE 0])

FreeOf(m, d) == IF Reserved(d) > m[d] THEN 0 ELSE m[d] - Reserved(d)
Payable(m) == {d \in Loans : FreeOf(m, d) >= 1}

Unused(k) == taken[k].phase = "none" /\ \A j \in 1 .. k - 1 : taken[j].phase # "none"

(* pick_repay_loan, _place_pre: the oldest loan with something free, for   *)
(* no more than that; with none, wait.                                     *)
PlaceRepay(k) ==
  /\ Unused(k) /\ ~waits
  /\ IF known.loans /\ Payable(snap) # {}
       THEN LET d == Min(Payable(snap))
                n == IF RepayQty < FreeOf(snap, d) THEN RepayQty ELSE FreeOf(snap, d)
            IN /\ taken' = [taken EXCEPT ![k] =
                    [phase |-> "sent", repay |-> TRUE, loan |-> d, left |-> n]]
               /\ UNCHANGED waits
       ELSE waits' = TRUE /\ UNCHANGED taken
  /\ UNCHANGED <<bal, snap, known, fresh, query, crossed, noAnswer>>

PlaceEntry(k) ==
  /\ Unused(k) /\ bal[Today] + EntryQty <= MaxBalance
  /\ taken' = [taken EXCEPT ![k] =
       [phase |-> "sent", repay |-> FALSE, loan |-> Today, left |-> EntryQty]]
  /\ UNCHANGED <<bal, snap, known, fresh, query, waits, crossed, noAnswer>>

(* _place_ls_pre_order: what was on its way is the order book's once the   *)
(* answer is there.  Without an answer nobody counts it any more.          *)
LoanAnswer(k, how) ==
  /\ taken[k].phase = "sent"
  /\ \/ how = "open" /\ taken' = [taken EXCEPT ![k].phase = "open"]
     \/ how = "refused" /\ fresh[k] = 0 /\ taken' = [taken EXCEPT ![k] = OverOrder]
     \/ how = "lost" /\ taken' = [taken EXCEPT ![k].phase = "lost"]
  /\ noAnswer' = IF how = "lost" THEN noAnswer + 1 ELSE noAnswer
  /\ noAnswer' <= MaxNoAnswer
  /\ crossed' = IF how = "lost" THEN crossed \cup {taken[k].loan} ELSE crossed
  /\ UNCHANGED <<bal, snap, known, fresh, query, waits>>

(* The broker fills it; of an order nobody counts no notice is taken.      *)
LoanFill(k) ==
  LET o == taken[k] IN
  /\ o.phase \in {"sent", "open", "lost"} /\ o.left > 0
  /\ o.repay => bal[o.loan] > 0
  /\ bal' = [bal EXCEPT ![o.loan] = IF o.repay THEN @ - 1 ELSE @ + 1]
  /\ bal'[o.loan] <= MaxBalance
  /\ taken' = [taken EXCEPT ![k].left = @ - 1]
  /\ fresh' = IF o.phase = "lost" THEN fresh ELSE [fresh EXCEPT ![k] = @ + 1]
  /\ query' = IF o.phase # "lost" THEN query
              ELSE [c \in DOMAIN query |->
                      IF query[c].phase = "answered"
                        THEN [query[c] EXCEPT !.crossed = @ \cup {o.loan}] ELSE query[c]]
  /\ UNCHANGED <<snap, known, waits, crossed, noAnswer>>

(* Nothing of it is left to fill, or it was cancelled.                     *)
LoanOver(k) ==
  /\ taken[k].phase \in {"open", "lost"} /\ fresh[k] = 0
  /\ taken' = [taken EXCEPT ![k] = OverOrder]
  /\ UNCHANGED <<bal, snap, known, fresh, query, waits, crossed, noAnswer>>

(* _note_credit_fill: a repaid contract leaves the snapshot; a bought one  *)
(* joins it, or asks for the date it is to join.                           *)
CreditNotice(k) ==
  LET o == taken[k] IN
  /\ o.phase = "open" /\ fresh[k] > 0
  /\ fresh' = [fresh EXCEPT ![k] = @ - 1]
  /\ snap' = IF o.repay /\ known.loans
               THEN [snap EXCEPT ![o.loan] = IF @ = 0 THEN 0 ELSE @ - 1]
             ELSE IF ~o.repay /\ known.today THEN [snap EXCEPT ![Today] = @ + 1]
             ELSE snap
  /\ query' = [c \in DOMAIN query |->
       IF query[c].phase = "answered" /\ o.repay
         THEN [query[c] EXCEPT !.crossed = @ \cup {o.loan}]
       ELSE IF c = "learn" /\ query[c].phase = "idle" /\ ~o.repay /\ ~known.today
         THEN [NoQuery EXCEPT !.phase = "asked"]
       ELSE query[c]]
  /\ waits' = (waits /\ (o.repay \/ ~known.today))
  /\ crossed' = IF o.repay /\ snap[o.loan] = 0 THEN crossed \cup {o.loan} ELSE crossed
  /\ UNCHANGED <<bal, known, taken, noAnswer>>

(* _refresh_loans_due: asked at the start and every hour, or a minute      *)
(* after a query that failed.                                              *)
AskBroker ==
  /\ query["periodic"].phase = "idle"
  /\ query' = [query EXCEPT !["periodic"].phase = "asked"]
  /\ UNCHANGED <<bal, snap, known, taken, fresh, waits, crossed, noAnswer>>

BrokerAnswers(c) ==
  /\ query[c].phase = "asked"
  /\ query' = [query EXCEPT ![c] = [phase |-> "answered", answer |-> bal,
       crossed |-> {taken[k].loan : k \in {j \in LoanSlots : ~taken[j].repay /\ fresh[j] > 0}}]]
  /\ UNCHANGED <<bal, snap, known, taken, fresh, waits, crossed, noAnswer>>

StillWaits(m) == waits /\ Payable(m) = {}

(* _refresh_loans, _learn_today_loan: the answer is the snapshot; today's  *)
(* loan is the latest one with a balance.                                  *)
LoansArrive(c) ==
  LET m == query[c].answer
      learnt == c = "learn" /\ m[Today] > 0
  IN /\ query[c].phase = "answered"
     /\ snap' = m
     /\ known' = [loans |-> TRUE, today |-> known.today \/ learnt]
     /\ waits' = (StillWaits(m) /\ ~learnt)
     /\ crossed' = query[c].crossed
           \cup {taken[k].loan : k \in {j \in LoanSlots : taken[j].phase = "lost"}}
     /\ query' = [query EXCEPT ![c] = NoQuery]
     /\ UNCHANGED <<bal, taken, fresh, noAnswer>>

LoanQueryFails(c) ==
  /\ query[c].phase \in {"asked", "answered"} /\ noAnswer < MaxNoAnswer
  /\ noAnswer' = noAnswer + 1
  /\ query' = [query EXCEPT ![c] = NoQuery]
  /\ UNCHANGED <<bal, snap, known, taken, fresh, waits, crossed>>

ClNext ==
  \/ \E k \in LoanSlots :
       \/ PlaceRepay(k) \/ PlaceEntry(k)
       \/ \E how \in {"open", "refused", "lost"} : LoanAnswer(k, how)
       \/ LoanFill(k) \/ LoanOver(k) \/ CreditNotice(k)
  \/ AskBroker
  \/ \E c \in DOMAIN query : BrokerAnswers(c) \/ LoansArrive(c) \/ LoanQueryFails(c)

(* The watch runs every second and a query is answered or fails.           *)
ClFairness ==
  /\ WF_loanVars(AskBroker)
  /\ WF_loanVars(BrokerAnswers("periodic") \/ LoansArrive("periodic"))

ClSpec == ClInit /\ [][ClNext]_loanVars /\ ClFairness

-----------------------------------------------------------------------------
(* A repay order placed never makes the repay orders ask for more of a     *)
(* loan than the broker has on it, two sets that place at the same moment  *)
(* included, unless an answer and a notice crossed (_repay_reserved,       *)
(* _pick_loan).                                                            *)
Asked(d) ==
  Summed([k \in LoanSlots |-> IF Repays(k, d, {"open", "sent"}) THEN taken[k].left ELSE 0])
RepaysFit ==
  [][\A d \in Loans \ crossed : Asked(d)' > Asked(d) => Asked(d)' <= bal[d]]_loanVars

(* A stock waits although the broker has a loan that nothing takes: no such *)
(* wait lasts (_refresh_loans, _release_repay_wait).                       *)
WaitsForNothing ==
  waits /\ \E d \in Loans : bal[d] > 0
             /\ \A k \in LoanSlots : ~Repays(k, d, {"sent", "open", "lost"})
=============================================================================
