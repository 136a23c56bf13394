----------------------------- MODULE RateSource -----------------------------
(***************************************************************************)
(* Where the exchange rate comes from (bootstrap.py).  The spot rate is    *)
(* asked from a bank every few seconds until the broker's feed brings the  *)
(* first one; from then on it is the broker's.  The futures of the month   *)
(* chosen give a theoretical rate, kept until something it is computed     *)
(* from changes: price and quote come by the feed, the price also by a     *)
(* query every half minute, the month and the interest from the settings.  *)
(* The judgement takes one or the other, by the time of day.               *)
(***************************************************************************)
EXTENDS Naturals

CONSTANTS Months, Rates, Carries, NoRate

ASSUME RateAssumption == NoRate \notin Rates

VARIABLES
  price, quote, \* fx_futures_price, fx_futures_quote of each month
  picked,       \* _fx_futures
  carry,        \* the interest rate
  futures,      \* usdkrw_futures
  theory,       \* usdkrw_theory: what it was computed from
  bank, byBroker, \* _spot_hana, _spot_ls
  spot,         \* usdkrw_spot and where it is from
  hana,         \* the bank's loop: "wait", "asked", "ended"
  priceQuery         \* the query of the futures: <<>> or the month it asks for

rateVars == <<price, quote, picked, carry, futures, theory, bank, byBroker, spot, hana, priceQuery>>

Theory(p, q, m, c) ==
  IF p[m] = NoRate \/ q[m] = NoRate THEN <<>> ELSE <<p[m], q[m], c>>

RateInit ==
  /\ price = [m \in Months |-> NoRate] /\ quote = [m \in Months |-> NoRate]
  /\ picked \in Months /\ carry \in Carries
  /\ futures = NoRate /\ theory = <<>>
  /\ bank = NoRate /\ byBroker = NoRate /\ spot = [rate |-> NoRate, from |-> "none"]
  /\ hana = "wait" /\ priceQuery = <<>>

(* _resolve_spot *)
Spot(b, l) ==
  IF l # NoRate THEN [rate |-> l, from |-> "broker"]
  ELSE IF b # NoRate THEN [rate |-> b, from |-> "bank"]
  ELSE [rate |-> NoRate, from |-> "none"]

(* _apply_fx_spot *)
BrokerSpot(r) ==
  /\ byBroker' = r /\ spot' = Spot(bank, r)
  /\ UNCHANGED <<price, quote, picked, carry, futures, theory, bank, hana, priceQuery>>

(* _apply_hana_spot *)
BankSpot(r) == Spot(r, byBroker)

(* _hana_spot_loop: whether to go on is asked before the query, and the    *)
(* broker may take over while the bank answers.                            *)
HanaTurn ==
  /\ hana = "wait"
  /\ hana' = IF byBroker # NoRate THEN "ended" ELSE "asked"
  /\ UNCHANGED <<price, quote, picked, carry, futures, theory, bank, byBroker, spot, priceQuery>>

HanaAnswer(r) ==
  /\ hana = "asked"
  /\ hana' = "wait"
  /\ bank' = IF r = NoRate THEN bank ELSE r
  /\ spot' = IF r = NoRate THEN spot ELSE BankSpot(r)
  /\ UNCHANGED <<price, quote, picked, carry, futures, theory, byBroker, priceQuery>>

(* _apply_fx_price: another month's price is only kept.                    *)
ApplyFxPrice(m, r) ==
  /\ price' = [price EXCEPT ![m] = r]
  /\ IF m = picked THEN futures' = r /\ theory' = Theory(price', quote, picked, carry)
                   ELSE UNCHANGED <<futures, theory>>

FeedPrice(m, r) ==
  /\ ApplyFxPrice(m, r)
  /\ UNCHANGED <<quote, picked, carry, bank, byBroker, spot, hana, priceQuery>>

FeedQuote(m, r) ==
  /\ quote' = [quote EXCEPT ![m] = r]
  /\ theory' = IF m = picked THEN Theory(price, quote', picked, carry) ELSE theory
  /\ UNCHANGED <<price, picked, carry, futures, bank, byBroker, spot, hana, priceQuery>>

(* _fx_loop: the month may change while the query is out.                  *)
AskPrice ==
  /\ priceQuery = <<>> /\ priceQuery' = <<picked>>
  /\ UNCHANGED <<price, quote, picked, carry, futures, theory, bank, byBroker, spot, hana>>

PriceAnswer(r) ==
  /\ priceQuery # <<>> /\ priceQuery' = <<>>
  /\ IF r = NoRate THEN UNCHANGED <<price, futures, theory>> ELSE ApplyFxPrice(priceQuery[1], r)
  /\ UNCHANGED <<quote, picked, carry, bank, byBroker, spot, hana>>

(* set_fx_futures_code: what is kept of the new month is used at once.     *)
SetMonth(m) ==
  /\ m # picked /\ picked' = m
  /\ futures' = price[m] /\ theory' = Theory(price, quote, m, carry)
  /\ UNCHANGED <<price, quote, carry, bank, byBroker, spot, hana, priceQuery>>

(* Mutant: the new interest waits for the next tick.                       *)
SetCarryLazily(c) ==
  /\ carry' = c
  /\ UNCHANGED <<price, quote, picked, futures, theory, bank, byBroker, spot, hana, priceQuery>>

(* set_carry_rates *)
SetCarry(c) ==
  /\ carry' = c /\ theory' = Theory(price, quote, picked, c)
  /\ UNCHANGED <<price, quote, picked, futures, bank, byBroker, spot, hana, priceQuery>>

RateNext ==
  \/ \E r \in Rates : \/ BrokerSpot(r)
                      \/ \E m \in Months : FeedPrice(m, r) \/ FeedQuote(m, r)
  \/ HanaTurn
  \/ \E r \in Rates \cup {NoRate} : HanaAnswer(r) \/ PriceAnswer(r)
  \/ AskPrice
  \/ \E m \in Months : SetMonth(m)
  \/ \E c \in Carries : SetCarry(c)

RateSpec == RateInit /\ [][RateNext]_rateVars

-----------------------------------------------------------------------------
(* The rate kept is the one that what is kept now gives: no setting, tick  *)
(* or late answer leaves an old one behind, and none of another month gets *)
(* in (_recompute_fx_theory, _fx_loop).                                    *)
TheoryIsCurrent ==
  theory = Theory(price, quote, picked, carry) /\ futures = price[picked]

(* Once the broker's spot rate is there, no answer of the bank that was    *)
(* under way replaces it (_resolve_spot, _hana_spot_loop).                 *)
BrokerStays == byBroker # NoRate => spot = [rate |-> byBroker, from |-> "broker"]
=============================================================================
