------------------------------ MODULE MCEngine ------------------------------
(***************************************************************************)
(* What surrounds the decisions of Auto-M, on small instances, for TLC:    *)
(* the sets that begin at Hyperliquid, the price and the time of an order, *)
(* the market prices they rest on, the loans and limits they keep, and the *)
(* orders of the domestic account.  They share no state here, so one run   *)
(* takes them in turn: `part` says which of them a behaviour is about, the *)
(* others stand still in it.                                               *)
(***************************************************************************)
EXTENDS HlFirst, CreditLoans, Placing, RateSource, StockPrice,
        JudgeLoop, PrePrice

CONSTANT Parts   \* the components the run takes

VARIABLE part

LoansAtStart == [d \in Loans |-> IF d = Today THEN 0 ELSE 1]

(* Settings and prices at the start are left open for the component that   *)
(* the behaviour is about.                                                 *)
MCInit ==
  /\ part \in Parts
  /\ RateInit
  /\ part # "rate" => picked = CHOOSE m \in Months : TRUE
  /\ part # "rate" => carry = CHOOSE c \in Carries : TRUE
  /\ JudgeLoopInit
  /\ part # "loop" => delays = [k \in DelayKinds |-> CHOOSE d \in Delays : TRUE]
  /\ PriceInit
  /\ part # "price" =>
       /\ first = "ls" /\ side = "buy" /\ nth = 1 /\ gridUnit = 2 /\ gridBase = 0
       /\ raw = 16 /\ touch = 16
  /\ HlLimitInit
  /\ part # "limit" => ~band
  /\ HlFirstInit /\ ClInit /\ DoInit /\ StockPriceInit

setSide == <<hlFirstVars, judgeVars, preVars>>
marketSide == <<rateVars, priceVars>>
accountSide == <<loanVars, domesticVars, hlLimitVars>>

(* A step of one component; the others stand still.                        *)
HlFirsts ==
  /\ part = "hl first" /\ HlFirstNext
  /\ UNCHANGED <<part, judgeVars, preVars, marketSide, accountSide>>
Loops ==
  /\ part = "loop" /\ JudgeLoopNext
  /\ UNCHANGED <<part, hlFirstVars, preVars, marketSide, accountSide>>
Prices ==
  /\ part = "price" /\ PriceNext
  /\ UNCHANGED <<part, hlFirstVars, judgeVars, marketSide, accountSide>>
RateMoves ==
  /\ part = "rate" /\ RateNext
  /\ UNCHANGED <<part, priceVars, setSide, accountSide>>
StockMoves ==
  /\ part = "stock" /\ StockPriceNext
  /\ UNCHANGED <<part, rateVars, setSide, accountSide>>
LoanMoves ==
  /\ part = "loans" /\ ClNext
  /\ UNCHANGED <<part, domesticVars, hlLimitVars, setSide, marketSide>>
Orders ==
  /\ part = "orders" /\ DoNext
  /\ UNCHANGED <<part, loanVars, hlLimitVars, setSide, marketSide>>
Counts ==
  /\ part = "limit" /\ HlLimitNext
  /\ UNCHANGED <<part, loanVars, domesticVars, setSide, marketSide>>

MCNext == HlFirsts \/ Loops \/ Prices \/ RateMoves \/ StockMoves \/ LoanMoves \/ Orders \/ Counts

MCSpec == MCInit /\ [][MCNext]_<<part, setSide, marketSide, accountSide>>

-----------------------------------------------------------------------------
(* What is judged at a time is judged in time: a delay that ended without  *)
(* a quote (pump, _sleep_s), and a cancel that is not confirmed            *)
(* (_watch_cancel_wait).                                                   *)
JudgedInTime == NothingTimedIsMissed /\ LongCancelIsAlarmed

(* The rates the engine works with are those of now: neither a setting nor *)
(* a late answer leaves an old one behind or puts one back                 *)
(* (_recompute_fx_theory, _resolve_spot).                                  *)
RatesAreCurrent == TheoryIsCurrent /\ BrokerStays

(* No order asks for more of a loan than there is on it (_pick_loan) or is *)
(* placed at a price that gives the spread away (gate G6), and no quote    *)
(* moves the price that a pause holds (_note_stock_last).                  *)
StepsAreFit == RepaysFit /\ PlacedKeepsTheSpread /\ PauseHoldsPrice
=============================================================================
