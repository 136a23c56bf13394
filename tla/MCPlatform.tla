----------------------------- MODULE MCPlatform -----------------------------
(***************************************************************************)
(* What the engines stand on, on small instances, for TLC: the connections *)
(* to the brokers and the exchange, the saved state, the recorded day and  *)
(* the position cycle.  They share no state, so one run takes them in      *)
(* turn: `part` says which of them a behaviour is about, the others stand  *)
(* still in it.                                                            *)
(***************************************************************************)
EXTENDS LsFeed, HlLink, HlMerge, LsRest,
        StateFile, DayLog, ArbCycle

CONSTANT Parts   \* the components the run takes

VARIABLE part

TrCodes == [t \in Trs |-> IF t \in OrderTrs THEN "CSPAT" ELSE "t0"]
OrderOf == [c \in Requested |-> IF c = "c1" THEN "x" ELSE "y"]
TwoCodes == <<"c1", "c2">>

(* The transport, the saved choice of a tick and the positions held may be *)
(* any at the start, for the component that the behaviour is about.        *)
MCInit ==
  /\ part \in Parts
  /\ LfInit /\ (part # "ls feed" => api = "ws")
  /\ HlMergeInit /\ (part # "merge" => market = 0 /\ tick = NoTick /\ legacy = NoArg)
  /\ ArbInit /\ (part # "cycle" => \A h \in Holdings : holds[h] = 0)
  /\ HfInit /\ HoInit /\ LrInit /\ LnInit /\ LsAccountInit /\ SfInit /\ DayLogInit

hlSide == <<hfVars, hoVars, mergeVars>>
lsSide == <<lfVars, lrVars, lnVars, accountVars>>
ownSide == <<sfVars, logVars, arbVars>>

(* A step of one component; the others stand still.                        *)
LsFeeds ==
  /\ part = "ls feed" /\ LfNext
  /\ UNCHANGED <<part, lrVars, lnVars, accountVars, hlSide, ownSide>>
LsRequests ==
  /\ part = "ls rest" /\ LrNext
  /\ UNCHANGED <<part, lfVars, lnVars, accountVars, hlSide, ownSide>>
LsNotified ==
  /\ part = "ls notices" /\ LnNext
  /\ UNCHANGED <<part, lfVars, lrVars, accountVars, hlSide, ownSide>>
LsAccounts ==
  /\ part = "ls account" /\ LsAccountNext
  /\ UNCHANGED <<part, lfVars, lrVars, lnVars, hlSide, ownSide>>
HlFeeds ==
  /\ part = "hl feed" /\ HfNext
  /\ UNCHANGED <<part, hoVars, mergeVars, lsSide, ownSide>>
HlPlaces ==
  /\ part = "hl orders" /\ HoNext
  /\ UNCHANGED <<part, hfVars, mergeVars, lsSide, ownSide>>
HlMerges ==
  /\ part = "merge" /\ HlMergeNext
  /\ UNCHANGED <<part, hfVars, hoVars, lsSide, ownSide>>
Saves ==
  /\ part = "state file" /\ SfNext
  /\ UNCHANGED <<part, logVars, arbVars, lsSide, hlSide>>
Records ==
  /\ part = "day log" /\ DayLogNext
  /\ UNCHANGED <<part, sfVars, arbVars, lsSide, hlSide>>
Cycles ==
  /\ part = "cycle" /\ ArbNext
  /\ UNCHANGED <<part, sfVars, logVars, lsSide, hlSide>>

MCNext == \/ LsFeeds \/ LsRequests \/ LsNotified \/ LsAccounts \/ HlFeeds \/ HlPlaces
          \/ HlMerges \/ Saves \/ Records \/ Cycles

MCSpec == MCInit /\ [][MCNext]_<<part, lsSide, hlSide, ownSide>>

-----------------------------------------------------------------------------
(* Nothing counts twice: an order at the exchange (_exchange_action,       *)
(* _place_group) or at the broker (is_order_tr), a fill in the book        *)
(* (_seen_tids), the end of an order in the day's list (_cancel_recorded), *)
(* a row on the screen (older pages beside the live one), a book's stream  *)
(* (set_l2_aggregation).                                                   *)
NothingCountsTwice ==
  /\ AcceptedAtMostOnce /\ OrderReachesOnce /\ NoFillTwice
  /\ CancelListedOnce /\ NoRowTwice /\ OneStream

(* What was lost, came late or was cut into pages is there in the end: the *)
(* fills of the first gap (_mark_disconnected), the keys of the plan       *)
(* (_sub_lock), a confirmation that overtook its order (_pending_h01), and *)
(* every order at work in a list of many pages (_deriv_open_orders), which *)
(* a core just started can cancel (_adopt).                                *)
NothingIsMissed ==
  /\ FirstGapIsRecovered /\ FeedServesPlan /\ EveryConfirmationArrives
  /\ ListIsWhole /\ ListedIsKnown

(* What is said of an order is true of that order: its result at the       *)
(* exchange (PlaceResult), and the code a cancel names (_require).         *)
SaidOfTheOrder == ResultIsTrue /\ CallNamesItsOrder

(* A token in use is good, and fetched once (get_token, _refresh).         *)
TokenIsGood == TokenHolds /\ NoSpareFetch

(* What was saved last is there to be read (write_if_changed), and the     *)
(* stored positions are those that were read (save_position).              *)
StoredIsKept == LastSaveIsKept /\ StoredAsRead
=============================================================================
