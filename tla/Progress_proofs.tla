-------------------------- MODULE Progress_proofs ---------------------------
(***************************************************************************)
(* The safety of what is handed on (MCProgress): the memory the main       *)
(* window shares with the screens, the fills the startup's hooks give to   *)
(* the engines, and the answers of the xing COM thread, for any number of  *)
(* states, losses, fills, channels that end, requests and lanes.           *)
(***************************************************************************)
EXTENDS MCProgress, SequenceTheorems, FiniteSetTheorems, TLAPS

(* A step of the run is one of a component's own, or leaves it alone.      *)
LEMMA ProgressSteps ==
  ASSUME [MCNext]_mcVars
  PROVE  /\ ChNext \/ UNCHANGED chVars
         /\ StartupNext \/ UNCHANGED startupVars
         /\ XcNext \/ UNCHANGED xcVars
<1>1. CASE UNCHANGED mcVars
  BY <1>1 DEF mcVars
<1>2. CASE Opening \/ FxReporting \/ Repaying \/ Living \/ Setting
  BY <1>2 DEF Opening, FxReporting, Repaying, Living, Setting
<1>3. CASE Querying
  BY <1>3 DEF Querying
<1>4. CASE Showing
  BY <1>4 DEF Showing
<1>5. CASE Starting
  BY <1>5 DEF Starting
<1> QED BY <1>1, <1>2, <1>3, <1>4, <1>5 DEF MCNext

-----------------------------------------------------------------------------
(***************************************************************************)
(* The shared memory.  Its halves agree whenever the writer is not between *)
(* them, and while it is the version is odd; what a reader has read is     *)
(* what is there as long as the version it began with stands.              *)
(***************************************************************************)
ChShape ==
  /\ mem = [ver |-> mem.ver, seen |-> mem.seen, fresh |-> mem.fresh, len |-> mem.len,
            a |-> mem.a, b |-> mem.b]
  /\ wr = [at |-> wr.at, len |-> wr.len, body |-> wr.body]
  /\ rd = [at |-> rd.at, try |-> rd.try, same |-> rd.same, new |-> rd.new,
           fresh |-> rd.fresh, len |-> rd.len, a |-> rd.a, b |-> rd.b]
  /\ rd.same \in BOOLEAN
  /\ wr.at \in {"rest", "a", "b", "head", "len"}

OddWhileWriting ==
  /\ wr.at \in {"a", "b", "head"} => mem.ver = "odd"
  /\ wr.at = "b" => mem.a = wr.body
  /\ wr.at \in {"rest", "head", "len"} => mem.a = mem.b

ReadStands ==
  rd.same => /\ mem.ver = "even"
             /\ rd.at \in {"b", "check"} => rd.a = mem.a
             /\ rd.at = "check" => rd.b = mem.b

ChInv == ChShape /\ OddWhileWriting /\ ReadStands /\ NoTornRead

LEMMA ChInitInv == ASSUME ChInit PROVE ChInv
BY DEF ChInit, ChInv, ChShape, OddWhileWriting, ReadStands, NoTornRead, Resting

LEMMA ChStep == ASSUME ChInv, ChNext \/ UNCHANGED chVars PROVE ChInv'
<1> USE DEF ChInv, ChShape, OddWhileWriting, ReadStands, NoTornRead
<1>1. CASE UNCHANGED chVars
  BY <1>1 DEF chVars
<1>2. CASE UNCHANGED <<mem, wr, rd>>
  BY <1>2
<1>3. CASE GrowsOld
  BY <1>3 DEF GrowsOld
<1>4. CASE ShareReceive
  <2>1. /\ wr.at = "rest"
        /\ mem' = [mem EXCEPT !.ver = "odd", !.seen = FALSE] /\ rd' = [rd EXCEPT !.same = FALSE]
    BY <1>4 DEF ShareReceive
  <2>2. \/ wr' = [wr EXCEPT !.at = "head"]
        \/ wr' = [wr EXCEPT !.at = "a", !.body = Head(wire), !.len = Head(wire)]
    BY <1>4 DEF ShareReceive
  <2> QED BY <2>1, <2>2
<1>5. CASE WriteBody
  BY <1>5 DEF WriteBody
<1>6. CASE WriteHead
  BY <1>6 DEF WriteHead
<1>7. CASE WriteLength
  BY <1>7 DEF WriteLength
<1>8. CASE UNCHANGED <<mem, wr>> /\ (rd' = NextTry \/ rd' = Resting \/ BeginRead)
  <2>1. rd' \in {Resting, [Resting EXCEPT !.try = rd.try + 1, !.at = "head"],
                  [Resting EXCEPT !.at = "none"], [Resting EXCEPT !.at = "head"]}
    BY <1>8 DEF NextTry, BeginRead
  <2>2. PICK at \in {"rest", "head", "none"}, try \in {1, rd.try + 1} :
          rd' = [at |-> at, try |-> try, same |-> FALSE, new |-> FALSE, fresh |-> FALSE,
                 len |-> 0, a |-> 0, b |-> 0]
    BY <2>1 DEF Resting
  <2> QED BY <1>8, <2>2
<1>9. CASE ReadHead
  BY <1>8, <1>9 DEF ReadHead, ReaderOnly
<1>10. CASE ReadBody
  BY <1>10 DEF ReadBody, ReaderOnly
<1>11. CASE Check
  <2>1. CASE rd.same
    BY <1>11, <2>1 DEF Check, ReaderOnly
  <2> QED BY <1>8, <1>11, <2>1 DEF Check, ReaderOnly
<1>12. CASE UseShare
  BY <1>12 DEF UseShare, Resting
<1>13. CASE Fallback
  BY <1>8, <1>13 DEF Fallback, ReaderOnly
<1>14. CASE BeginRead
  BY <1>8, <1>14 DEF BeginRead, ReaderOnly
<1>15. CASE (\E marks \in BOOLEAN : Change(marks)) \/ Push \/ Quiet \/ Connect \/ DropLink
  BY <1>2, <1>15 DEF Change, Push, Quiet, Connect, DropLink
<1> HIDE DEF ChInv, ChShape, OddWhileWriting, ReadStands, NoTornRead
<1> QED BY <1>1, <1>3, <1>4, <1>5, <1>6, <1>7, <1>9, <1>10, <1>11, <1>12, <1>13, <1>14, <1>15
     DEF ChNext

-----------------------------------------------------------------------------
(***************************************************************************)
(* The fills.  One that is handed on was heard then, and is never on its   *)
(* way again.                                                              *)
(***************************************************************************)
Lot == [account : Seats, way : {"early", "flying", "heard", "lost"}]
HandedInv ==
  /\ lots \in Seq(Lot) /\ handed \in Seq(Nat) /\ Len(handed) = Len(lots)
  /\ \A i \in 1 .. Len(lots) : handed[i] <= (IF lots[i].way = "heard" THEN 1 ELSE 0)

LEMMA HandedInitInv == ASSUME StartupInit PROVE HandedInv
<1>1. lots = << >> /\ handed = << >>
  BY DEF StartupInit
<1> QED BY <1>1 DEF HandedInv

(* A fill is added, handed to nobody yet.                                  *)
LEMMA ExecuteHands ==
  ASSUME HandedInv, NEW acct \in Seats, Execute(acct) PROVE HandedInv'
<1>1. PICK l \in Lot : lots' = Append(lots, l)
  BY DEF Execute, Lot
<1>2. handed' = Append(handed, 0)
  BY DEF Execute
<1>3. /\ lots' \in Seq(Lot) /\ Len(lots') = Len(lots) + 1 /\ lots'[Len(lots) + 1] = l
      /\ \A i \in 1 .. Len(lots) : lots'[i] = lots[i]
  BY <1>1, AppendProperties DEF HandedInv
<1>4. /\ handed' \in Seq(Nat) /\ Len(handed') = Len(handed) + 1 /\ handed'[Len(handed) + 1] = 0
      /\ \A i \in 1 .. Len(handed) : handed'[i] = handed[i]
  BY <1>2, AppendProperties DEF HandedInv
<1>5. Len(lots) \in Nat
  BY DEF HandedInv
<1>6. ASSUME NEW i \in 1 .. Len(lots')
      PROVE  handed'[i] <= (IF lots'[i].way = "heard" THEN 1 ELSE 0)
  <2>1. CASE i \in 1 .. Len(lots)
    BY <1>3, <1>4, <2>1 DEF HandedInv
  <2>2. CASE i = Len(lots) + 1
    BY <1>3, <1>4, <2>2 DEF HandedInv
  <2> QED BY <1>3, <1>5, <2>1, <2>2
<1> QED BY <1>3, <1>4, <1>6 DEF HandedInv

LEMMA HearHands ==
  ASSUME HandedInv, NEW i \in DOMAIN lots, Hear(i) PROVE HandedInv'
<1>1. /\ lots[i].way = "flying" /\ lots' = [lots EXCEPT ![i].way = "heard"]
      /\ handed' = [handed EXCEPT ![i] = @ + 1]
  BY DEF Hear, Hooks
<1>2. i \in 1 .. Len(lots) /\ Len(lots) \in Nat
  BY DEF HandedInv
<1>3. lots[i] \in Lot /\ handed[i] = 0
  BY <1>1, <1>2 DEF HandedInv
<1>4. lots' \in Seq(Lot) /\ Len(lots') = Len(lots)
  <2>1. [lots[i] EXCEPT !.way = "heard"] \in Lot
    BY <1>3 DEF Lot
  <2>2. lots' = [lots EXCEPT ![i] = [lots[i] EXCEPT !.way = "heard"]]
    BY <1>1
  <2> QED BY <1>2, <2>1, <2>2 DEF HandedInv
<1>5. handed' \in Seq(Nat) /\ Len(handed') = Len(handed)
  BY <1>1, <1>2, <1>3 DEF HandedInv
<1>6. lots'[i].way = "heard" /\ handed'[i] = 1
  <2>1. lots'[i] = [lots[i] EXCEPT !.way = "heard"]
    BY <1>1, <1>2 DEF HandedInv
  <2> QED BY <1>1, <1>2, <1>3, <2>1 DEF HandedInv, Lot
<1>7. \A j \in 1 .. Len(lots) : j # i => lots'[j] = lots[j] /\ handed'[j] = handed[j]
  BY <1>1, <1>2 DEF HandedInv
<1>8. ASSUME NEW j \in 1 .. Len(lots)
      PROVE  handed'[j] <= (IF lots'[j].way = "heard" THEN 1 ELSE 0)
  BY <1>6, <1>7 DEF HandedInv
<1> QED BY <1>4, <1>5, <1>8 DEF HandedInv

(* What was on its way is lost with its channel, what was heard stays so.  *)
LEMMA EndHands ==
  ASSUME HandedInv, NEW chan, NEW then, ChannelEnds(chan, then), UNCHANGED handed
  PROVE  HandedInv'
<1>1. lots' = [i \in 1 .. Len(lots) |->
                 IF Channel(lots[i].account) = chan /\ lots[i].way = "flying"
                 THEN [lots[i] EXCEPT !.way = "lost"] ELSE lots[i]]
  BY DEF ChannelEnds, HandedInv
<1>2. Len(lots) \in Nat /\ \A i \in 1 .. Len(lots) : lots[i] \in Lot
  BY DEF HandedInv
<1>3. \A i \in 1 .. Len(lots) : lots'[i] \in Lot /\ (lots'[i].way = "heard" <=> lots[i].way = "heard")
  BY <1>1, <1>2 DEF Lot
<1>4. lots' \in Seq(Lot) /\ Len(lots') = Len(lots)
  BY <1>1, <1>2, <1>3
<1> QED BY <1>3, <1>4 DEF HandedInv

LEMMA HandedStep == ASSUME HandedInv, StartupNext \/ UNCHANGED startupVars PROVE HandedInv'
<1>1. CASE UNCHANGED <<lots, handed>>
  BY <1>1 DEF HandedInv
<1>2. CASE UNCHANGED startupVars
  BY <1>1, <1>2 DEF startupVars
<1>3. CASE \E acct \in Seats : Execute(acct)
  BY <1>3, ExecuteHands
<1>4. CASE \E i \in DOMAIN lots : Hear(i)
  BY <1>4, HearHands
<1>5. CASE PlainStage \/ BeginPositions \/ StartupQuery \/ PositionsRead \/ StageFails
           \/ StartupLoad \/ Wire
  BY <1>1, <1>5
     DEF PlainStage, BeginPositions, StartupQuery, PositionsRead, StageFails, StartupLoad, Wire
<1>6. CASE \E c \in Channels : ChannelTurn(c)
  BY <1>1, <1>6 DEF ChannelTurn, Return, Awakes
<1>7. CASE \E c \in Channels : Breaks(c) \/ Closes(c) \/ GivenUp(c)
  BY <1>7, EndHands DEF Breaks, Closes, GivenUp
<1>8. CASE \E r \in DOMAIN refresh : RefreshTurn(r) \/ QueryFails(r)
  BY <1>1, <1>8 DEF RefreshTurn, QueryAccount, LoadRefresh, Retry, QueryFails
<1> QED BY <1>2, <1>3, <1>4, <1>5, <1>6, <1>7, <1>8 DEF StartupNext

LEMMA HandedAtMostOnce == ASSUME HandedInv PROVE HandedOnce
BY DEF HandedInv, HandedOnce

-----------------------------------------------------------------------------
(***************************************************************************)
(* The COM thread.  Whatever waits to be told to a caller is the word on   *)
(* the request it is told of; the drain takes no more commands than there  *)
(* are; only what is over for its caller is to be abandoned; and a request *)
(* let through finds its lane free when it goes out.                       *)
(***************************************************************************)
Outcome == [why : {"refused", "answer", "late", "unsent", "gaveup"}, of : Reqs]
Telling == {p \in [req : Reqs, end : Outcome] : p.end.of = p.req}
Command == [kind : {"do", "abandon"}, req : Reqs]
Queued == {c \in Command : c.kind = "abandon" => fut[c.req] # {}}
XcShape ==
  /\ fut \in [Reqs -> SUBSET Outcome]
  /\ cmds \in Seq(Queued)
  /\ left \in Nat /\ left <= Len(cmds)
  /\ making \in Reqs \cup {NoReq} /\ lane \in [Lanes -> Reqs \cup {NoReq}]
  /\ sent \subseteq Reqs /\ events \subseteq [req : Reqs, kind : {"refused", "answer"}]
  /\ posted \in Seq(Telling)
MadeForAFreeLane == making # NoReq => lane[LaneOf[making]] = NoReq
XcInv == XcShape /\ MadeForAFreeLane /\ OwnAnswer /\ AnswerIsExpected

LEMMA XcInitInv == ASSUME XcInit PROVE XcInv
<1>1. /\ fut = [r \in Reqs |-> {}] /\ cmds = << >> /\ posted = << >> /\ left = 0
      /\ lane = [l \in Lanes |-> NoReq] /\ making = NoReq /\ sent = {} /\ events = {}
  BY DEF XcInit
<1> QED BY <1>1 DEF XcInv, XcShape, MadeForAFreeLane, OwnAnswer, AnswerIsExpected, GoneOut

(* The word on a request is put behind the others: its caller is not one   *)
(* that waits any more.                                                    *)
LEMMA PostKeeps ==
  ASSUME posted \in Seq(Telling), NEW r \in Reqs, UNCHANGED fut,
         NEW why \in {"refused", "answer", "late", "unsent"}, Post(r, why, r)
  PROVE  /\ posted' \in Seq(Telling)
         /\ \A q \in Reqs : WordAwaited(q)' => WordAwaited(q) /\ q # r
<1> DEFINE word == [req |-> r, end |-> [why |-> why, of |-> r]]
<1>1. word \in Telling /\ word.req = r
  BY DEF Telling, Outcome
<1>2. posted' = Append(posted, word)
  BY DEF Post
<1> HIDE DEF word
<1>3. /\ posted' \in Seq(Telling) /\ Len(posted') = Len(posted) + 1
      /\ posted'[Len(posted) + 1] = word
      /\ \A i \in 1 .. Len(posted) : posted'[i] = posted[i]
  BY <1>1, <1>2, AppendProperties
<1>4. Len(posted) \in Nat /\ DOMAIN posted = 1 .. Len(posted) /\ DOMAIN posted' = 1 .. Len(posted')
  BY <1>3
<1>5. ASSUME NEW q \in Reqs, WordAwaited(q)' PROVE WordAwaited(q) /\ q # r
  <2>1. fut[q] = {} /\ \A i \in 1 .. Len(posted) + 1 : posted'[i].req # q
    BY <1>3, <1>4, <1>5 DEF WordAwaited
  <2>2. \A i \in 1 .. Len(posted) : posted[i].req # q
    BY <1>3, <1>4, <2>1
  <2>3. Len(posted) + 1 \in 1 .. Len(posted) + 1
    BY <1>4
  <2> QED BY <1>1, <1>3, <1>4, <2>1, <2>2, <2>3 DEF WordAwaited
<1> QED BY <1>3, <1>5

(* A finite set is put in a row, each of its members somewhere in it.      *)
LEMMA InARow ==
  ASSUME NEW S, IsFiniteSet(S)
  PROVE  /\ SetToSeq(S) \in Seq(S)
         /\ \A x \in S : \E i \in 1 .. Len(SetToSeq(S)) : SetToSeq(S)[i] = x
<1> DEFINE n == Cardinality(S)
           f == SetToSeq(S)
<1>1. ExistsBijection(1 .. n, S) /\ n \in Nat
  BY FS_CardinalityType
<1>2. \E g \in [1 .. n -> S] : IsInjective(g)
  BY <1>1 DEF ExistsBijection, Bijection, Injection
<1>3. f \in [1 .. n -> S] /\ IsInjective(f)
  BY <1>2 DEF SetToSeq
<1>4. f \in Injection(1 .. n, S)
  <2> HIDE DEF f, n
  <2> QED BY <1>3 DEF Injection
<1>5. Cardinality(1 .. n) = n
  <2> HIDE DEF n
  <2>1. 1 \in Int /\ n \in Int
    BY <1>1
  <2>2. Cardinality(1 .. n) = IF 1 > n THEN 0 ELSE n - 1 + 1
    BY <2>1, FS_Interval
  <2> QED BY <1>1, <2>2
<1>6. f \in Surjection(1 .. n, S)
  <2> HIDE DEF f
  <2> QED BY <1>4, <1>5, FS_Injection
<1>7. f \in Seq(S) /\ Len(f) = n
  <2> HIDE DEF f, n
  <2> QED BY <1>1, <1>3
<1> HIDE DEF f, n
<1>8. \A x \in S : \E i \in 1 .. n : f[i] = x
  BY <1>6 DEF Surjection
<1>9. f \in Seq(S) /\ \A x \in S : \E i \in 1 .. Len(f) : f[i] = x
  BY <1>7, <1>8
<1> QED BY <1>9 DEF f

(* What the thread gives up for its time is told of as late, each request  *)
(* of its own.                                                             *)
LEMMA ExpireKeeps ==
  ASSUME XcInv, Expire, UNCHANGED <<fut, cmds, making, sent, events>> PROVE XcInv'
<1> DEFINE over == {l \in Lanes : lane[l] # NoReq /\ xcNow >= Deadline(lane[l])}
           late(l) == [req |-> lane[l], end |-> [why |-> "late", of |-> lane[l]]]
           words == {late(l) : l \in over}
           inRow == SetToSeq(words)
<1>1. /\ lane' = [l \in Lanes |-> IF l \in over THEN NoReq ELSE lane[l]]
      /\ posted' = posted \o inRow /\ left' = Len(cmds)
  BY DEF Expire
<1>2. IsFiniteSet(over)
  BY XingComAssumption, FS_Subset
<1>3. IsFiniteSet(words)
  <2> DEFINE word == [l \in over |-> late(l)]
  <2> HIDE DEF over, late
  <2>1. word \in Surjection(over, words)
    BY DEF Surjection
  <2> HIDE DEF words, word
  <2> QED BY <1>2, <2>1, FS_Surjection
<1>4. words \subseteq Telling
  BY DEF XcInv, XcShape, Telling, Outcome
<1>5. inRow \in Seq(Telling) /\ \A x \in words : \E i \in 1 .. Len(inRow) : inRow[i] = x
  <2> HIDE DEF words
  <2>1. inRow \in Seq(words) /\ \A x \in words : \E i \in 1 .. Len(inRow) : inRow[i] = x
    BY <1>3, InARow
  <2> HIDE DEF inRow
  <2> QED BY <1>4, <2>1
<1>6. /\ posted' \in Seq(Telling) /\ Len(posted') = Len(posted) + Len(inRow)
      /\ \A i \in 1 .. Len(posted) + Len(inRow) :
           posted'[i] = IF i <= Len(posted) THEN posted[i] ELSE inRow[i - Len(posted)]
  <2> HIDE DEF inRow
  <2> QED BY <1>1, <1>5, ConcatProperties DEF XcInv, XcShape
<1>7. lane' \in [Lanes -> Reqs \cup {NoReq}] /\ MadeForAFreeLane'
  <2> HIDE DEF over
  <2> QED BY <1>1, XingComAssumption DEF XcInv, XcShape, MadeForAFreeLane
<1>8. left' \in Nat /\ left' <= Len(cmds')
  BY <1>1 DEF XcInv, XcShape
<1>9. cmds' \in Seq(Queued')
  BY DEF XcInv, XcShape, Queued
<1>10. Len(posted) \in Nat /\ Len(inRow) \in Nat
  <2> HIDE DEF inRow
  <2> QED BY <1>5 DEF XcInv, XcShape
<1>11. ASSUME NEW q \in Reqs, WordAwaited(q)' PROVE WordAwaited(q) /\ \A x \in words : x.req # q
  <2> HIDE DEF words, inRow
  <2>1. fut[q] = {} /\ \A i \in 1 .. Len(posted) + Len(inRow) : posted'[i].req # q
    BY <1>6, <1>11 DEF WordAwaited
  <2>2. \A i \in 1 .. Len(posted) : posted[i].req # q
    BY <1>6, <1>10, <2>1
  <2>3. ASSUME NEW x \in words PROVE x.req # q
    <3>1. PICK i \in 1 .. Len(inRow) : inRow[i] = x
      BY <1>5
    <3>2. Len(posted) + i \in 1 .. Len(posted) + Len(inRow) /\ ~(Len(posted) + i <= Len(posted))
          /\ Len(posted) + i - Len(posted) = i
      BY <1>10
    <3>3. posted'[Len(posted) + i] = inRow[i]
      BY <1>6, <3>2
    <3> QED BY <2>1, <3>1, <3>2, <3>3
  <2>4. DOMAIN posted = 1 .. Len(posted)
    BY DEF XcInv, XcShape
  <2> QED BY <2>1, <2>2, <2>3, <2>4 DEF WordAwaited
<1>12. ASSUME NEW q \in Reqs, GoneOut(q)', WordAwaited(q)' PROVE lane'[LaneOf[q]] = q
  <2>1. WordAwaited(q) /\ GoneOut(q) /\ \A x \in words : x.req # q
    BY <1>11, <1>12 DEF GoneOut
  <2>2. lane[LaneOf[q]] = q /\ LaneOf[q] \in Lanes
    BY <2>1, XingComAssumption DEF XcInv, AnswerIsExpected
  <2>3. LaneOf[q] \notin over
    <3>1. SUFFICES ASSUME LaneOf[q] \in over PROVE FALSE
      OBVIOUS
    <3>2. late(LaneOf[q]) \in words /\ late(LaneOf[q]).req = q
      BY <2>2, <3>1
    <3> QED BY <2>1, <3>2
  <2> HIDE DEF over
  <2> QED BY <1>1, <2>2, <2>3
<1> QED BY <1>6, <1>7, <1>8, <1>9, <1>12 DEF XcInv, XcShape, OwnAnswer, AnswerIsExpected

(* More that is over leaves what is queued as it should be.                *)
LEMMA QueuedGrows ==
  ASSUME \A q \in Reqs : fut[q] # {} => fut'[q] # {}
  PROVE  Seq(Queued) \subseteq Seq(Queued')
<1>1. Queued \subseteq Queued'
  BY DEF Queued, Command
<1> QED BY <1>1

(* What a caller is told on the loop, and what the caller finds alone.     *)
LEMMA ToldKeeps ==
  ASSUME XcInv, RunPosted \/ \E r \in Reqs : GiveUp(r) PROVE XcInv'
<1>1. CASE RunPosted
  <2>1. PICK p : p = Head(posted) /\ fut' = [fut EXCEPT ![p.req] = IF @ = {} THEN {p.end} ELSE @]
    BY <1>1 DEF RunPosted
  <2>2. /\ p \in Telling /\ posted' \in Seq(Telling) /\ posted # << >>
        /\ posted \in Seq(Telling) /\ posted' = Tail(posted)
    BY <1>1, <2>1, HeadTailProperties DEF RunPosted, XcInv, XcShape
  <2>3. p.req \in Reqs /\ p.end \in Outcome /\ p.end.of = p.req
    BY <2>2 DEF Telling
  <2>4. fut' \in [Reqs -> SUBSET Outcome] /\ OwnAnswer'
    BY <2>1, <2>3 DEF XcInv, XcShape, OwnAnswer
  <2>5. \A q \in Reqs : /\ fut[q] # {} => fut'[q] # {}
                        /\ fut'[q] = {} => fut[q] = {} /\ q # p.req
    BY <2>1, <2>3 DEF XcInv, XcShape
  <2>6. cmds' \in Seq(Queued')
    BY <1>1, <2>5, QueuedGrows DEF RunPosted, XcInv, XcShape
  <2>7. ASSUME NEW q \in Reqs, WordAwaited(q)' PROVE WordAwaited(q)
    <3>1. fut[q] = {} /\ p.req # q
      BY <2>5, <2>7 DEF WordAwaited
    <3>2. /\ Len(posted) \in Nat /\ DOMAIN posted = 1 .. Len(posted) /\ posted[1] = p
          /\ DOMAIN posted' = 1 .. Len(posted) - 1
          /\ \A i \in 1 .. Len(posted) - 1 : posted'[i] = posted[i + 1]
      BY <2>1, <2>2
    <3>3. \A i \in 1 .. Len(posted) - 1 : posted[i + 1].req # q
      BY <2>7, <3>2 DEF WordAwaited
    <3>4. ASSUME NEW i \in 1 .. Len(posted) PROVE posted[i].req # q
      <4>1. CASE i = 1
        BY <3>1, <3>2, <4>1
      <4>2. CASE i # 1
        <5>1. i - 1 \in 1 .. Len(posted) - 1 /\ i - 1 + 1 = i
          BY <3>2, <4>2
        <5> QED BY <3>3, <5>1
      <4> QED BY <4>1, <4>2
    <3> QED BY <3>1, <3>2, <3>4 DEF WordAwaited
  <2>8. AnswerIsExpected'
    BY <1>1, <2>7 DEF RunPosted, XcInv, AnswerIsExpected, GoneOut
  <2> QED BY <1>1, <2>2, <2>4, <2>6, <2>8 DEF RunPosted, XcInv, XcShape, MadeForAFreeLane
<1>2. ASSUME NEW r \in Reqs, GiveUp(r) PROVE XcInv'
  <2> DEFINE c == [kind |-> "abandon", req |-> r]
  <2>1. fut' = [fut EXCEPT ![r] = {[why |-> "gaveup", of |-> r]}] /\ cmds' = Append(cmds, c)
    BY <1>2 DEF GiveUp, ComCommand
  <2>2. fut' \in [Reqs -> SUBSET Outcome] /\ OwnAnswer'
    BY <2>1 DEF XcInv, XcShape, OwnAnswer, Outcome
  <2>3. fut'[r] # {} /\ \A q \in Reqs : fut[q] # {} => fut'[q] # {}
    BY <2>1 DEF XcInv, XcShape
  <2>4. cmds \in Seq(Queued') /\ c \in Queued' /\ Len(cmds) \in Nat
    <3>1. cmds \in Seq(Queued) /\ Seq(Queued) \subseteq Seq(Queued')
      BY <2>3, QueuedGrows DEF XcInv, XcShape
    <3>2. c \in Queued'
      BY <2>3 DEF Queued, Command
    <3> HIDE DEF c
    <3> QED BY <3>1, <3>2
  <2>5. cmds' \in Seq(Queued') /\ Len(cmds') = Len(cmds) + 1
    <3> HIDE DEF c
    <3> QED BY <2>1, <2>4, AppendProperties
  <2>6. left <= Len(cmds')
    BY <2>4, <2>5 DEF XcInv, XcShape
  <2>7. \A q \in Reqs : WordAwaited(q)' => WordAwaited(q)
    BY <1>2, <2>3 DEF GiveUp, WordAwaited
  <2>8. AnswerIsExpected'
    BY <1>2, <2>7 DEF GiveUp, XcInv, AnswerIsExpected, GoneOut
  <2> QED BY <1>2, <2>2, <2>5, <2>6, <2>8 DEF GiveUp, XcInv, XcShape, MadeForAFreeLane
<1> QED BY <1>1, <1>2

(* An event of the broker's is of the request that waits in its lane.      *)
LEMMA PumpKeeps == ASSUME XcInv, PumpEvent PROVE XcInv'
<1>1. PICK e \in events : QueryEvent(e.req, e.kind) /\ events' = events \ {e}
  BY DEF PumpEvent
<1>2. e.req \in Reqs /\ e.kind \in {"refused", "answer"} /\ LaneOf[e.req] \in Lanes
  BY <1>1, XingComAssumption DEF XcInv, XcShape
<1>3. UNCHANGED <<fut, cmds, left, making, sent>> /\ cmds' \in Seq(Queued')
  BY DEF PumpEvent, XcInv, XcShape, Queued
<1>4. CASE lane[LaneOf[e.req]] = e.req
  <2>1. lane' = [lane EXCEPT ![LaneOf[e.req]] = NoReq] /\ Post(e.req, e.kind, e.req)
    BY <1>1, <1>4 DEF QueryEvent
  <2>2. /\ posted' \in Seq(Telling) /\ lane' \in [Lanes -> Reqs \cup {NoReq}]
        /\ \A q \in Reqs : WordAwaited(q)' => WordAwaited(q) /\ q # e.req
    BY <1>2, <1>3, <2>1, PostKeeps DEF XcInv, XcShape
  <2>3. MadeForAFreeLane'
    BY <1>2, <1>3, <2>1 DEF XcInv, XcShape, MadeForAFreeLane
  <2>4. ASSUME NEW q \in Reqs, GoneOut(q)', WordAwaited(q)' PROVE lane'[LaneOf[q]] = q
    <3>1. GoneOut(q) /\ WordAwaited(q) /\ q # e.req
      BY <1>1, <1>3, <2>2, <2>4 DEF GoneOut
    <3>2. lane[LaneOf[q]] = q
      BY <3>1 DEF XcInv, AnswerIsExpected
    <3> QED BY <1>2, <1>4, <2>1, <3>1, <3>2 DEF XcInv, XcShape
  <2> QED BY <1>1, <1>3, <2>2, <2>3, <2>4 DEF XcInv, XcShape, OwnAnswer, AnswerIsExpected
<1>5. CASE lane[LaneOf[e.req]] # e.req
  <2>1. UNCHANGED <<lane, posted>>
    BY <1>1, <1>5 DEF QueryEvent
  <2> QED BY <1>1, <1>3, <2>1
       DEF XcInv, XcShape, MadeForAFreeLane, OwnAnswer, AnswerIsExpected, GoneOut, WordAwaited
<1> QED BY <1>4, <1>5

(* A command the drain takes: the request it may let through finds its     *)
(* lane free, and what is abandoned is over for its caller.                *)
LEMMA DrainKeeps == ASSUME XcInv, DrainOne PROVE XcInv'
<1>1. PICK c : /\ c = Head(cmds)
               /\ \/ c.kind = "do" /\ Do(c.req) /\ UNCHANGED lane
                  \/ c.kind = "abandon" /\ Abandon(c.req) /\ UNCHANGED <<making, posted>>
  BY DEF DrainOne
<1>2. cmds # << >> /\ left' = left - 1 /\ left > 0 /\ UNCHANGED <<fut, sent, events>>
  BY DEF DrainOne, XcInv, XcShape
<1>3. c \in Queued /\ Tail(cmds) \in Seq(Queued) /\ Len(Tail(cmds)) = Len(cmds) - 1
  BY <1>1, <1>2, HeadTailProperties DEF XcInv, XcShape
<1>4. c.req \in Reqs /\ [kind |-> "do", req |-> c.req] \in Queued /\ LaneOf[c.req] \in Lanes
  BY <1>3, XingComAssumption DEF Queued, Command
<1>5. Append(Tail(cmds), [kind |-> "do", req |-> c.req]) \in Seq(Queued)
      /\ Len(Append(Tail(cmds), [kind |-> "do", req |-> c.req])) = Len(cmds)
  BY <1>3, <1>4, AppendProperties DEF XcInv, XcShape
<1>6. cmds' = Tail(cmds) \/ cmds' = Append(Tail(cmds), [kind |-> "do", req |-> c.req])
  BY <1>1 DEF Do, Abandon, ComCommand
<1>7. cmds' \in Seq(Queued') /\ left' \in Nat /\ left' <= Len(cmds')
  <2>1. left \in Nat /\ left <= Len(cmds) /\ Len(cmds) \in Nat /\ Queued' = Queued
    BY <1>2 DEF XcInv, XcShape, Queued
  <2>2. left' \in Nat /\ left' <= Len(cmds) - 1
    BY <1>2, <2>1
  <2>3. cmds' \in Seq(Queued) /\ Len(cmds') \in {Len(cmds) - 1, Len(cmds)}
    BY <1>3, <1>5, <1>6
  <2> QED BY <2>1, <2>2, <2>3
<1>8. CASE c.kind = "do" /\ Do(c.req) /\ UNCHANGED lane
  <2>1. /\ posted' \in Seq(Telling)
        /\ \A q \in Reqs : WordAwaited(q)' => WordAwaited(q)
    <3>1. CASE UNCHANGED posted
      BY <1>2, <3>1 DEF XcInv, XcShape, WordAwaited
    <3>2. CASE Post(c.req, "unsent", c.req) \/ Post(c.req, "refused", c.req)
      BY <1>2, <1>4, <3>2, PostKeeps DEF XcInv, XcShape
    <3> QED BY <1>8, <3>1, <3>2 DEF Do
  <2>2. \/ UNCHANGED making
        \/ making' = c.req /\ lane[LaneOf[c.req]] = NoReq
    BY <1>8 DEF Do
  <2>3. making' \in Reqs \cup {NoReq} /\ MadeForAFreeLane'
    BY <1>4, <1>8, <2>2 DEF XcInv, XcShape, MadeForAFreeLane
  <2>4. AnswerIsExpected'
    BY <1>2, <1>8, <2>1 DEF XcInv, AnswerIsExpected, GoneOut
  <2> QED BY <1>2, <1>7, <1>8, <2>1, <2>3, <2>4 DEF XcInv, XcShape, OwnAnswer
<1>9. CASE c.kind = "abandon" /\ Abandon(c.req) /\ UNCHANGED <<making, posted>>
  <2>1. lane' = [lane EXCEPT ![LaneOf[c.req]] = IF @ = c.req THEN NoReq ELSE @]
        /\ fut[c.req] # {}
    BY <1>3, <1>9 DEF Abandon, Queued
  <2>2. lane' \in [Lanes -> Reqs \cup {NoReq}] /\ MadeForAFreeLane'
    BY <1>4, <1>9, <2>1, XingComAssumption DEF XcInv, XcShape, MadeForAFreeLane
  <2>3. ASSUME NEW q \in Reqs, GoneOut(q)', WordAwaited(q)' PROVE lane'[LaneOf[q]] = q
    <3>1. lane[LaneOf[q]] = q /\ q # c.req
      BY <1>2, <1>9, <2>1, <2>3 DEF XcInv, AnswerIsExpected, GoneOut, WordAwaited
    <3> QED BY <1>4, <2>1, <3>1, XingComAssumption DEF XcInv, XcShape
  <2> QED BY <1>2, <1>7, <1>9, <2>2, <2>3 DEF XcInv, XcShape, OwnAnswer, AnswerIsExpected
<1> QED BY <1>1, <1>8, <1>9

(* A request goes out into the lane that was free for it: nothing that     *)
(* waits was in that lane.                                                 *)
LEMMA RequestedKeeps == ASSUME XcInv, Requested PROVE XcInv'
<1>1. /\ making \in Reqs /\ making' = NoReq /\ UNCHANGED <<fut, cmds, left, events>>
      /\ lane[LaneOf[making]] = NoReq /\ LaneOf[making] \in Lanes
  BY XingComAssumption DEF Requested, XcInv, XcShape, MadeForAFreeLane
<1>2. cmds' \in Seq(Queued') /\ MadeForAFreeLane'
  BY <1>1 DEF XcInv, XcShape, Queued, MadeForAFreeLane
<1>3. CASE /\ lane' = [lane EXCEPT ![LaneOf[making]] = making] /\ sent' = sent \union {making}
           /\ UNCHANGED posted
  <2>1. lane' \in [Lanes -> Reqs \cup {NoReq}] /\ sent' \subseteq Reqs
    BY <1>1, <1>3 DEF XcInv, XcShape
  <2>2. ASSUME NEW q \in Reqs, GoneOut(q)', WordAwaited(q)' PROVE lane'[LaneOf[q]] = q
    <3>1. CASE q = making
      BY <1>1, <1>3, <3>1 DEF XcInv, XcShape
    <3>2. CASE q # making
      <4>1. GoneOut(q) /\ WordAwaited(q)
        BY <1>1, <1>3, <2>2, <3>2 DEF GoneOut, WordAwaited
      <4>2. lane[LaneOf[q]] = q
        BY <4>1 DEF XcInv, AnswerIsExpected
      <4> QED BY <1>1, <1>3, <4>2, XingComAssumption DEF XcInv, XcShape
    <3> QED BY <3>1, <3>2
  <2> QED BY <1>1, <1>2, <1>3, <2>1, <2>2 DEF XcInv, XcShape, OwnAnswer, AnswerIsExpected
<1>4. CASE Post(making, "refused", making) /\ UNCHANGED <<lane, sent>>
  <2>1. posted' \in Seq(Telling) /\ \A q \in Reqs : WordAwaited(q)' => WordAwaited(q)
    BY <1>1, <1>4, PostKeeps DEF XcInv, XcShape
  <2> QED BY <1>1, <1>2, <1>4, <2>1 DEF XcInv, XcShape, OwnAnswer, AnswerIsExpected, GoneOut
<1> QED BY <1>3, <1>4 DEF Requested

LEMMA XcStep == ASSUME XcInv, XcNext \/ UNCHANGED xcVars PROVE XcInv'
<1> DEFINE Rest == UNCHANGED <<fut, posted, making, lane, sent, events>>
<1>1. ASSUME UNCHANGED <<cmds, left>>, Rest PROVE XcInv'
  BY <1>1 DEF XcInv, XcShape, Queued, MadeForAFreeLane, OwnAnswer, AnswerIsExpected, GoneOut,
              WordAwaited
<1>2. CASE UNCHANGED xcVars \/ XcTick \/ DrainDone
  BY <1>1, <1>2 DEF xcVars, XcTick, DrainDone
<1>3. ASSUME NEW r \in Reqs, AskQuery(r) PROVE XcInv'
  <2> DEFINE c == [kind |-> "do", req |-> r]
  <2>1. cmds' = Append(cmds, c) /\ c \in Queued /\ Queued' = Queued
    BY <1>3 DEF AskQuery, ComCommand, Queued, Command
  <2>2. cmds' \in Seq(Queued') /\ Len(cmds') = Len(cmds) + 1 /\ Len(cmds) \in Nat
    <3> HIDE DEF c
    <3> QED BY <2>1, AppendProperties DEF XcInv, XcShape
  <2>3. left <= Len(cmds')
    BY <2>2 DEF XcInv, XcShape
  <2> QED BY <1>3, <2>2, <2>3
       DEF AskQuery, XcInv, XcShape, MadeForAFreeLane, OwnAnswer, AnswerIsExpected, GoneOut,
           WordAwaited
<1>4. ASSUME NEW r \in Reqs, Answered(r) PROVE XcInv'
  <2>1. PICK k \in {"refused", "answer"} : events' = events \union {[req |-> r, kind |-> k]}
    BY <1>4 DEF Answered
  <2>2. /\ r \in sent /\ sent' = sent \ {r}
        /\ UNCHANGED <<fut, cmds, posted, left, making, lane>>
    BY <1>4 DEF Answered
  <2>3. \A q \in Reqs : GoneOut(q)' => GoneOut(q)
    BY <2>1, <2>2 DEF GoneOut
  <2> QED BY <2>1, <2>2, <2>3
       DEF XcInv, XcShape, Queued, MadeForAFreeLane, OwnAnswer, AnswerIsExpected, WordAwaited
<1>5. CASE PumpDone
  BY <1>5, ExpireKeeps DEF PumpDone
<1> QED BY <1>2, <1>3, <1>4, <1>5, ToldKeeps, PumpKeeps, DrainKeeps, RequestedKeeps
     DEF XcNext, ComThread

-----------------------------------------------------------------------------
ProgressInv == ChInv /\ HandedInv /\ XcInv

(* No screen takes a body put together from two snapshots (ShareWriter,    *)
(* ShareReader); a fill is handed to the engines once, also where one      *)
(* object sits in two seats (bootstrap.py, _wire); and what a caller is    *)
(* told of its request is the broker's word on that very request           *)
(* (xing_com.py) - for any number of states, losses, fills, channels that  *)
(* end, requests and lanes.                                                *)
THEOREM ProgressHandsRight == MCSpec => []HandedRight
<1>1. MCInit => ProgressInv
  BY ChInitInv, HandedInitInv, XcInitInv DEF MCInit, ProgressInv
<1>2. ProgressInv /\ [MCNext]_mcVars => ProgressInv'
  BY ProgressSteps, ChStep, HandedStep, XcStep DEF ProgressInv
<1>3. ProgressInv => HandedRight
  BY HandedAtMostOnce DEF ProgressInv, ChInv, XcInv, HandedRight
<1>4. MCSpec => MCInit /\ [][MCNext]_mcVars
  BY DEF MCSpec
<1> QED BY <1>1, <1>2, <1>3, <1>4, PTL

(* The request whose caller waits for its answer is the one its lane holds *)
(* (xing_com.py: _do, _expire, _abandon, _on_query_event), so that no      *)
(* answer a caller waits for is thrown away as a late one - for any        *)
(* requests, lanes and deadlines, however long the thread hangs between a  *)
(* look at the deadline and Request(), and whatever gave up meanwhile.     *)
THEOREM ProgressExpectsAnswers == MCSpec => []AnswerIsExpected
<1>1. MCInit => XcInv
  BY XcInitInv DEF MCInit
<1>2. XcInv /\ [MCNext]_mcVars => XcInv'
  BY ProgressSteps, XcStep
<1>3. XcInv => AnswerIsExpected
  BY DEF XcInv
<1>4. MCSpec => MCInit /\ [][MCNext]_mcVars
  BY DEF MCSpec
<1> QED BY <1>1, <1>2, <1>3, <1>4, PTL
=============================================================================
