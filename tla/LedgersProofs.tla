--------------------------- MODULE LedgersProofs ---------------------------
(***************************************************************************)
(* Proofs about the three books of MCLedgers: the paper ledger, for every    *)
(* number of signals and of coroutines, every quantity and limits; the       *)
(* broker's figures, for every number of days and every lookback; and the    *)
(* live account, for every number of submissions, slices, orders by hand and *)
(* readings, every size, price and way of filling.                           *)
(***************************************************************************)
EXTENDS MCLedgers, FiniteSetTheorems, FunctionTheorems, WellFoundedInduction, TLAPS

-----------------------------------------------------------------------------
(* The paper ledger: its shape.                                             *)

Role        == Paper!Role
OrderStatus    == {"none", "PENDING", "PARTIALLY_FILLED", "FILLED", "CANCELLED"}
PositionStatus == {"none", "OPENING", "OPEN", "REDUCING", "CLOSED"}
Places         == {"idle", "query", "lock", "fill", "update", "halt", "blocked", "commit", "settle",
                   "next", "reserve", "reserved", "queue"}
OrderRow    == [status : OrderStatus, quantity : Int, filled : Int, after : Int]
PositionRow == [status : PositionStatus, open : Int, pnl : Int, opened : Int]
TradeRow    == [order : [Role -> OrderRow], position : PositionRow, closed : BOOLEAN]
TaskRow     == [pc : Places, sig : Signal \cup {NoSignal}, k : Int, work : SUBSET Role,
                base : TradeRow, draft : TradeRow, cancel : SUBSET (Signal \X Role),
                flat : [Signal -> Int], accepted : BOOLEAN, halting : BOOLEAN]

PaperTypes ==
    /\ candle \in [Signal -> Int]
    /\ order \in [Signal -> [Role -> OrderRow]]
    /\ position \in [Signal -> PositionRow]
    /\ reservation \in [Signal -> {"none", "ACTIVE", "SETTLED", "REJECTED"}]
    /\ halted \in BOOLEAN /\ signalled \subseteq Signal /\ faults \in Nat
    /\ task \in [Task -> TaskRow]
    /\ \A t \in Task : task[t].pc # "idle" => task[t].sig \in Signal

-----------------------------------------------------------------------------
(* The paper ledger: the inductive invariant.                               *)

\* The advisory lock: one reservation at a time, and what it read still holds.
OneReserves ==
    /\ \A t, u \in Task : task[t].pc = "reserved" /\ task[u].pc = "reserved" => t = u
    /\ \A t \in Task : task[t].pc = "reserved" /\ task[t].accepted =>
         /\ Cardinality(Paper!Reserved({"ACTIVE", "SETTLED"})) < Budget
         /\ Cardinality(Paper!Reserved({"ACTIVE"})) < MaxOpen

\* A signal whose entry has not been queued has no position, and no pass makes one.
Unentered(s) == order[s]["ENTRY"].status = "none"
Ends(w)      == w.pc \in {"update", "halt", "blocked", "commit"}
CarriesNothing(w, s) ==
    /\ <<s, "ENTRY">> \notin w.cancel
    /\ w.sig = s /\ w.pc \in {"lock", "fill"} => "ENTRY" \notin w.work
    /\ w.sig = s /\ Ends(w) => /\ w.base.position = Paper!NoPosition
                             /\ w.draft.position = Paper!NoPosition
                             /\ ~w.draft.closed
                             /\ w.draft.order["ENTRY"].status = "none"
NothingHeld ==
    \A s \in Signal : Unentered(s) =>
        position[s] = Paper!NoPosition /\ \A t \in Task : CarriesNothing(task[t], s)

\* One coroutine at most takes a signal to its entry.
Enters(w) == w.pc \in {"reserve", "reserved", "queue"}
OneEnters ==
    /\ \A s \in Signal \ signalled : Unentered(s)
    /\ \A t \in Task : Enters(task[t]) => task[t].sig \in signalled /\ Unentered(task[t].sig)
    /\ \A t, u \in Task : Enters(task[t]) /\ Enters(task[u]) /\ task[t].sig = task[u].sig => t = u

\* A draft that changes the entry leaves one, and a draft that closes the position says so.
DraftFine(w) ==
    Ends(w) =>
        /\ w.draft.order["ENTRY"] # w.base.order["ENTRY"] => w.draft.order["ENTRY"].status # "none"
        /\ w.draft.position.status = "CLOSED" => w.draft.closed \/ w.base.position.status = "CLOSED"
DraftsFine == \A t \in Task : DraftFine(task[t])

PaperInv ==
    /\ PaperTypes /\ OneReserves /\ Paper!PaperBudget
    /\ NothingHeld /\ OneEnters /\ DraftsFine /\ Paper!SlotReturned

-----------------------------------------------------------------------------
(* The paper ledger: what a pass makes of a trade.                          *)

LEMMA Roles ==
    /\ Role = {"HALT", "STOP", "TARGET", "TIME", "ENTRY"}
    /\ Paper!EXIT_ROLES = {"HALT", "STOP", "TARGET", "TIME"}
    /\ Paper!Role = Role
BY DEF Role, Paper!Role, Paper!EXIT_ROLES

LEMMA FilledIs ==
    ASSUME NEW o \in OrderRow, NEW q \in Int
    PROVE  Paper!Filled(o, q) \in OrderRow /\ Paper!Filled(o, q).status # "none"
<1> DEFINE new == IF o.filled + q = o.quantity THEN "FILLED" ELSE "PARTIALLY_FILLED"
<1>1. Paper!Filled(o, q) = [o EXCEPT !.filled = o.filled + q, !.status = new]
  BY DEF Paper!Filled
<1>2. o.filled + q \in Int
  BY DEF OrderRow
<1>3. new \in OrderStatus /\ new # "none"
  BY DEF OrderStatus
<1> HIDE DEF new
<1> QED BY <1>1, <1>2, <1>3 DEF OrderRow

LEMMA NewOrderIs ==
    ASSUME NEW q \in Int, NEW k \in Int
    PROVE  Paper!NewOrder(q, k) \in OrderRow /\ Paper!NewOrder(q, k).status = "PENDING"
BY DEF Paper!NewOrder, OrderRow, OrderStatus

\* An exit finds nothing to take from an empty position.
LEMMA FillableIs ==
    ASSUME NEW trade \in TradeRow, NEW r \in Role, NEW capacity \in Int
    PROVE  /\ Paper!Fillable(trade, r, capacity) \in Int
           /\ r \in Paper!EXIT_ROLES /\ trade.position.open <= 0
                => ~(Paper!Fillable(trade, r, capacity) > 0)
<1>1. trade.order[r] \in OrderRow /\ trade.position \in PositionRow
  BY DEF TradeRow
<1>2. trade.order[r].quantity \in Int /\ trade.order[r].filled \in Int /\ trade.position.open \in Int
  BY <1>1 DEF OrderRow, PositionRow
<1> DEFINE left == Paper!Least(trade.order[r].quantity - trade.order[r].filled, capacity)
<1>3. left \in Int
  BY <1>2 DEF Paper!Least
<1>4. Paper!Fillable(trade, r, capacity)
        = IF r \in Paper!EXIT_ROLES THEN Paper!Least(left, Paper!Most(0, trade.position.open)) ELSE left
  BY DEF Paper!Fillable
<1> HIDE DEF left
<1> QED BY <1>2, <1>3, <1>4 DEF Paper!Least, Paper!Most

\* The exit a pass fills is one that is able to.
LEMMA FirstIs ==
    ASSUME NEW able \in SUBSET Paper!EXIT_ROLES, able # {}
    PROVE  (CHOOSE r \in able : \A s \in able \ {r} : Paper!Before(r, s)) \in able
<1>1. \E r \in able : \A s \in able \ {r} : Paper!Before(r, s)
  <2>1. CASE "HALT" \in able BY <2>1, Roles DEF Paper!Before
  <2>2. CASE "HALT" \notin able /\ "STOP" \in able BY <2>2, Roles DEF Paper!Before
  <2>3. CASE "HALT" \notin able /\ "STOP" \notin able /\ "TARGET" \in able BY <2>3, Roles DEF Paper!Before
  <2>4. CASE "HALT" \notin able /\ "STOP" \notin able /\ "TARGET" \notin able
    <3>1. able = {"TIME"} BY <2>4, Roles
    <3> QED BY <3>1
  <2> QED BY <2>1, <2>2, <2>3, <2>4, Roles
<1> QED BY <1>1

\* An exit's fill leaves the entry alone; it says so when it closes the position.
LEMMA ExitFill ==
    ASSUME NEW trade \in TradeRow, NEW r \in Paper!EXIT_ROLES, NEW q \in Int
    PROVE  LET R == Paper!FillExit(trade, r, q) IN
           /\ R \in TradeRow
           /\ R.order["ENTRY"] = trade.order["ENTRY"]
           /\ R.position.status = "CLOSED" <=> R.closed
<1> DEFINE open   == trade.position.open - q
           closes == open <= 0
           orders == [l \in Role |->
                        IF l = r THEN Paper!Filled(trade.order[l], q)
                        ELSE IF closes /\ l \in Paper!EXIT_ROLES /\ Paper!Working(trade.order[l])
                        THEN [trade.order[l] EXCEPT !.status = "CANCELLED"]
                        ELSE trade.order[l]]
           moved  == [trade.position EXCEPT !.open = open, !.status = IF closes THEN "CLOSED" ELSE "REDUCING"]
<1>1. Paper!FillExit(trade, r, q) = [order |-> orders, position |-> moved, closed |-> closes]
  BY Roles DEF Paper!FillExit
<1>2. trade.order \in [Role -> OrderRow] /\ trade.position \in PositionRow
  BY DEF TradeRow
<1>3. orders \in [Role -> OrderRow] /\ orders["ENTRY"] = trade.order["ENTRY"]
  <2>1. ASSUME NEW l \in Role PROVE orders[l] \in OrderRow
    <3>1. trade.order[l] \in OrderRow
      BY <1>2
    <3>2. [trade.order[l] EXCEPT !.status = "CANCELLED"] \in OrderRow
      BY <3>1 DEF OrderRow, OrderStatus
    <3> QED BY <3>1, <3>2, FilledIs
  <2>2. "ENTRY" \in Role /\ "ENTRY" # r /\ "ENTRY" \notin Paper!EXIT_ROLES
    BY Roles
  <2> QED BY <2>1, <2>2
<1>4. trade.position.open \in Int /\ open \in Int /\ closes \in BOOLEAN
  BY <1>2 DEF PositionRow
<1>5. moved \in PositionRow /\ moved.open = open /\ moved.status = IF closes THEN "CLOSED" ELSE "REDUCING"
  BY <1>2, <1>4 DEF PositionRow, PositionStatus
<1> DEFINE R == [order |-> orders, position |-> moved, closed |-> closes]
<1>6. R.order = orders /\ R.position = moved /\ R.closed = closes
  OBVIOUS
<1> HIDE DEF orders, moved
<1>7. R \in TradeRow
  BY <1>3, <1>4, <1>5 DEF TradeRow
<1> HIDE DEF R
<1>8. moved.status = "CLOSED" <=> closes
  BY <1>4, <1>5
<1>9. Paper!FillExit(trade, r, q) = R
  BY <1>1 DEF R
<1> QED BY <1>3, <1>4, <1>5, <1>6, <1>7, <1>8, <1>9

LEMMA BracketIs ==
    ASSUME NEW o \in OrderRow, NEW open \in Int, NEW after \in Int
    PROVE  Paper!Bracket(o, open, after) \in OrderRow
<1>1. CASE o.status = "none"
  <2>1. Paper!Bracket(o, open, after) = Paper!NewOrder(open, after)
    BY <1>1 DEF Paper!Bracket, Paper!Working
  <2> QED BY <2>1, NewOrderIs
<1>2. CASE Paper!Working(o)
  <2>1. Paper!Bracket(o, open, after) = [o EXCEPT !.quantity = Paper!Most(o.filled, open)]
    BY <1>2 DEF Paper!Bracket, Paper!Working
  <2> QED BY <2>1 DEF Paper!Most, OrderRow
<1>3. CASE ~Paper!Working(o) /\ o.status # "none"
  <2>1. Paper!Bracket(o, open, after) = o
    BY <1>3 DEF Paper!Bracket
  <2> QED BY <2>1
<1> QED BY <1>1, <1>2, <1>3

\* The entry's fill opens the position, and says nothing of its closing.
LEMMA EntryFill ==
    ASSUME NEW trade \in TradeRow, NEW q \in Int, NEW k \in Int
    PROVE  LET R == Paper!FillEntry(trade, q, k) IN
           /\ R \in TradeRow
           /\ R.closed = trade.closed
           /\ R.position.status # "CLOSED"
           /\ R.order["ENTRY"].status # "none"
<1> DEFINE entry  == Paper!Filled(trade.order["ENTRY"], q)
           opened == IF trade.position.status = "none" THEN k + 1 ELSE trade.position.opened
           open   == trade.position.open + q
           orders == [r \in Role |-> CASE r = "ENTRY"              -> entry
                                       [] r \in {"STOP", "TARGET"} -> Paper!Bracket(trade.order[r], open, opened)
                                       [] OTHER                    -> trade.order[r]]
           moved  == [trade.position EXCEPT !.open = open, !.opened = opened,
                                            !.status = IF entry.status = "FILLED" THEN "OPEN" ELSE "OPENING"]
<1>1. Paper!FillEntry(trade, q, k) = [trade EXCEPT !.order = orders, !.position = moved]
  BY Roles DEF Paper!FillEntry
<1>2. trade.order \in [Role -> OrderRow] /\ trade.position \in PositionRow
  BY DEF TradeRow
<1>3. entry \in OrderRow /\ entry.status # "none"
  BY <1>2, FilledIs, Roles
<1>4. opened \in Int /\ open \in Int
  BY <1>2 DEF PositionRow
<1>5. moved \in PositionRow /\ moved.status # "CLOSED"
  BY <1>2, <1>4 DEF PositionRow, PositionStatus
<1> HIDE DEF entry, opened, open, moved
<1>6. ASSUME NEW r \in Role PROVE orders[r] \in OrderRow
  <2>1. CASE r = "ENTRY"
    <3>1. orders[r] = entry BY <2>1
    <3> QED BY <3>1, <1>3
  <2>2. CASE r \in {"STOP", "TARGET"}
    <3>1. orders[r] = Paper!Bracket(trade.order[r], open, opened) BY <2>2
    <3> QED BY <3>1, <1>2, <1>4, BracketIs
  <2>3. CASE r \notin {"STOP", "TARGET", "ENTRY"}
    <3>1. orders[r] = trade.order[r] BY <2>3
    <3> QED BY <3>1, <1>2
  <2> QED BY <2>1, <2>2, <2>3
<1>7. "ENTRY" \in Role /\ orders["ENTRY"] = entry
  BY Roles
<1>8. orders \in [Role -> OrderRow]
  BY <1>6
<1> HIDE DEF orders
<1>9. [trade EXCEPT !.order = orders, !.position = moved] \in TradeRow
  BY <1>5, <1>8 DEF TradeRow
<1>10. LET R == [trade EXCEPT !.order = orders, !.position = moved] IN
       R.order = orders /\ R.position = moved /\ R.closed = trade.closed
  BY DEF TradeRow
<1> QED BY <1>1, <1>3, <1>5, <1>7, <1>9, <1>10

\* What the fills of a pass leave of a trade: an entry that is not worked stays as it is,
\* a position is closed by this pass or was closed before it.
LEMMA FillsAre ==
    ASSUME NEW trade \in TradeRow, ~trade.closed, NEW work \in SUBSET Role, NEW hit,
           NEW capacity \in Int, NEW k \in Int
    PROVE  LET R == Paper!Fills(trade, work, hit, capacity, k) IN
           /\ R \in TradeRow
           /\ R.order["ENTRY"] # trade.order["ENTRY"] => R.order["ENTRY"].status # "none"
           /\ R.position.status = "CLOSED" => R.closed \/ R.position = trade.position
           /\ "ENTRY" \notin work => R.order["ENTRY"] = trade.order["ENTRY"]
           /\ "ENTRY" \notin work /\ trade.position.open <= 0 => R.position = trade.position /\ ~R.closed
<1> DEFINE able   == {r \in work \cap Paper!EXIT_ROLES :
                        /\ r \in {"STOP", "TARGET"} => r \in hit
                        /\ Paper!Fillable(trade, r, capacity) > 0}
           first  == CHOOSE r \in able : \A s \in able \ {r} : Paper!Before(r, s)
           taken  == Paper!Fillable(trade, first, capacity)
           exited == IF able = {} THEN trade ELSE Paper!FillExit(trade, first, taken)
           bought == Paper!Fillable(exited, "ENTRY", capacity)
<1>1. Paper!Fills(trade, work, hit, capacity, k)
        = IF "ENTRY" \in work THEN Paper!FillEntry(exited, bought, k) ELSE exited
  BY DEF Paper!Fills
<1>2. able \subseteq Paper!EXIT_ROLES /\ able \subseteq Role
  BY Roles
<1>3. able # {} => first \in able
  BY <1>2, FirstIs
<1>4. trade.position.open <= 0 => able = {}
  BY FillableIs
<1> HIDE DEF first
<1>5. able # {} => taken \in Int /\ first \in Paper!EXIT_ROLES
  BY <1>2, <1>3, FillableIs
<1> HIDE DEF able, taken
<1>6. /\ exited \in TradeRow
      /\ exited.order["ENTRY"] = trade.order["ENTRY"]
      /\ exited.position.status = "CLOSED" => exited.closed \/ exited.position = trade.position
      /\ trade.position.open <= 0 => exited.position = trade.position /\ ~exited.closed
  <2>1. CASE able = {}
    BY <2>1
  <2>2. CASE able # {}
    <3> DEFINE R == Paper!FillExit(trade, first, taken)
    <3>1. /\ R \in TradeRow
          /\ R.order["ENTRY"] = trade.order["ENTRY"]
          /\ R.position.status = "CLOSED" <=> R.closed
      BY <1>5, <2>2, ExitFill
    <3> HIDE DEF R
    <3>2. exited = R
      BY <2>2 DEF R
    <3> HIDE DEF exited
    <3> QED BY <1>4, <2>2, <3>1, <3>2
  <2> QED BY <2>1, <2>2
<1> HIDE DEF exited
<1>7. CASE "ENTRY" \in work
  <2>1. bought \in Int
    BY <1>6, FillableIs, Roles
  <2> HIDE DEF bought
  <2> DEFINE R == Paper!FillEntry(exited, bought, k)
  <2>2. /\ R \in TradeRow
        /\ R.position.status # "CLOSED"
        /\ R.order["ENTRY"].status # "none"
    BY <1>6, <2>1, EntryFill
  <2> HIDE DEF R
  <2>3. Paper!Fills(trade, work, hit, capacity, k) = R
    BY <1>1, <1>7 DEF R
  <2> QED BY <1>7, <2>2, <2>3
<1>8. CASE "ENTRY" \notin work
  <2>1. Paper!Fills(trade, work, hit, capacity, k) = exited
    BY <1>1, <1>8
  <2> QED BY <1>6, <1>8, <2>1
<1> QED BY <1>7, <1>8

\* The mark and the clock leave the entry and the size of the position alone.
LEMMA ManageIs ==
    ASSUME NEW trade \in TradeRow, NEW pnl \in Int, NEW due \in BOOLEAN, NEW k \in Int
    PROVE  LET R == Paper!Manage(trade, pnl, due, k) IN
           /\ R \in TradeRow
           /\ R.order["ENTRY"] = trade.order["ENTRY"]
           /\ R.closed = trade.closed
           /\ R.position = [trade.position EXCEPT !.pnl = R.position.pnl]
           /\ ~Paper!Running(trade.position) /\ ~trade.closed => R.position = trade.position
<1> DEFINE mark   == IF Paper!Running(trade.position) \/ trade.closed THEN pnl ELSE trade.position.pnl
           moved  == [trade.position EXCEPT !.pnl = mark]
           marked == [trade EXCEPT !.position = moved]
           timed  == Paper!NewOrder(marked.position.open, k + 1)
           queued == [marked EXCEPT !.order["TIME"] = timed]
<1>1. Paper!Manage(trade, pnl, due, k) = IF due THEN Paper!QueueTime(marked, k + 1) ELSE marked
  BY DEF Paper!Manage
<1>2. trade.position \in PositionRow /\ trade.order \in [Role -> OrderRow] /\ trade.closed \in BOOLEAN
  BY DEF TradeRow
<1>3. mark \in Int
  BY <1>2 DEF PositionRow
<1>4. moved \in PositionRow /\ moved.pnl = mark /\ moved.open \in Int
  BY <1>2, <1>3 DEF PositionRow
<1>5. ~Paper!Running(trade.position) /\ ~trade.closed => moved = trade.position
  BY <1>2 DEF PositionRow
<1>6. moved = [trade.position EXCEPT !.pnl = moved.pnl]
  BY <1>4
<1> HIDE DEF mark, moved
<1>7. marked \in TradeRow /\ marked.order = trade.order /\ marked.position = moved /\ marked.closed = trade.closed
  BY <1>2, <1>4 DEF TradeRow
<1> HIDE DEF marked
<1>8. timed \in OrderRow
  BY <1>4, <1>7, NewOrderIs
<1> HIDE DEF timed
<1>9. /\ queued \in TradeRow /\ queued.order["ENTRY"] = trade.order["ENTRY"]
      /\ queued.position = moved /\ queued.closed = trade.closed
  <2>1. [marked.order EXCEPT !["TIME"] = timed] \in [Role -> OrderRow]
    BY <1>2, <1>7, <1>8
  <2>2. queued = [marked EXCEPT !.order = [marked.order EXCEPT !["TIME"] = timed]]
    BY <1>7 DEF TradeRow
  <2>3. "ENTRY" \in Role
    BY Roles
  <2> QED BY <1>2, <1>7, <2>1, <2>2, <2>3 DEF TradeRow
<1>10. Paper!QueueTime(marked, k + 1) \in {marked, queued}
  BY DEF Paper!QueueTime, timed
<1> HIDE DEF queued
<1>11. Paper!Manage(trade, pnl, due, k) \in {marked, queued}
  BY <1>1, <1>10
<1> QED BY <1>5, <1>6, <1>7, <1>9, <1>11

-----------------------------------------------------------------------------
(* The paper ledger: the steps of one coroutine.                            *)

LEMMA EmptyRows ==
    /\ Paper!NoOrder \in OrderRow /\ Paper!NoOrder.status = "none"
    /\ Paper!NoPosition \in PositionRow /\ Paper!NoPosition.status = "none" /\ Paper!NoPosition.open = 0
    /\ Paper!NoTrade \in TradeRow
<1>1. Paper!NoOrder \in OrderRow /\ Paper!NoOrder.status = "none"
  BY DEF Paper!NoOrder, OrderRow, OrderStatus
<1>2. Paper!NoPosition \in PositionRow /\ Paper!NoPosition.status = "none" /\ Paper!NoPosition.open = 0
  BY DEF Paper!NoPosition, PositionRow, PositionStatus
<1>3. [r \in Role |-> Paper!NoOrder] \in [Role -> OrderRow]
  BY <1>1
<1>4. Paper!NoTrade = [order |-> [r \in Role |-> Paper!NoOrder], position |-> Paper!NoPosition, closed |-> FALSE]
  BY Roles DEF Paper!NoTrade
<1> DEFINE orders == [r \in Role |-> Paper!NoOrder]
           no     == FALSE
<1>5. no \in BOOLEAN
  OBVIOUS
<1> HIDE DEF orders, no
<1>6. [order |-> orders, position |-> Paper!NoPosition, closed |-> no] \in TradeRow
  BY <1>2, <1>3, <1>5 DEF TradeRow, orders
<1> QED BY <1>1, <1>2, <1>4, <1>6 DEF orders, no

LEMMA IdleIs ==
    /\ Paper!Idle \in TaskRow
    /\ Paper!Idle.pc = "idle" /\ Paper!Idle.work = {} /\ Paper!Idle.cancel = {}
<1> DEFINE none == {}
           flat == [s \in Signal |-> 0]
           no   == FALSE
           w    == [pc |-> "idle", sig |-> NoSignal, k |-> 0, work |-> none,
                    base |-> Paper!NoTrade, draft |-> Paper!NoTrade, cancel |-> none, flat |-> flat,
                    accepted |-> no, halting |-> no]
<1>1. Paper!Idle = w
  BY DEF Paper!Idle
<1>2. none \in SUBSET Role /\ none \in SUBSET (Signal \X Role) /\ flat \in [Signal -> Int] /\ no \in BOOLEAN
  OBVIOUS
<1>3. none = {}
  OBVIOUS
<1> HIDE DEF none, flat, no
<1>4. w \in TaskRow
  BY <1>2, EmptyRows DEF TaskRow, Places
<1>5. w.pc = "idle" /\ w.work = none /\ w.cancel = none
  OBVIOUS
<1> QED BY <1>1, <1>3, <1>4, <1>5

\* What a coroutine's new state has to satisfy when nothing but that state changes.
GoodRow(w) ==
    /\ w \in TaskRow /\ (w.pc # "idle" => w.sig \in Signal)
    /\ ~Enters(w)
    /\ \A s \in Signal : Unentered(s) => CarriesNothing(w, s)
    /\ DraftFine(w)

\* A state outside the transaction carries nothing.
LEMMA FreshRow ==
    ASSUME NEW w \in TaskRow, w.pc \in {"idle", "query", "settle", "next"}, w.cancel = {},
           w.pc # "idle" => w.sig \in Signal
    PROVE  GoodRow(w)
BY DEF GoodRow, Enters, CarriesNothing, DraftFine, Ends

LEMMA TaskStep ==
    ASSUME PaperInv, NEW t \in Task, NEW w, GoodRow(w), task' = [task EXCEPT ![t] = w],
           candle' \in [Signal -> Int], faults' \in Nat, faults' = 0 => faults = 0 /\ task[t].pc # "settle",
           UNCHANGED <<order, position, reservation, halted, signalled>>
    PROVE  PaperInv'
<1>1. /\ PaperTypes /\ OneReserves /\ Paper!PaperBudget
      /\ NothingHeld /\ OneEnters /\ DraftsFine /\ Paper!SlotReturned
  BY DEF PaperInv
<1>2. task'[t] = w /\ \A u \in Task \ {t} : task'[u] = task[u]
  BY <1>1 DEF PaperTypes
<1>3. PaperTypes'
  BY <1>1, <1>2 DEF PaperTypes, GoodRow
<1>4. \A q \in SUBSET {"ACTIVE", "SETTLED"} : Paper!Reserved(q)' = Paper!Reserved(q)
  BY DEF Paper!Reserved
<1>5. Paper!PaperBudget'
  BY <1>1, <1>4 DEF Paper!PaperBudget
<1>6. OneReserves'
  <2>1. \A u \in Task : task'[u].pc = "reserved" => u # t /\ task'[u] = task[u]
    BY <1>2 DEF GoodRow, Enters
  <2> QED BY <1>1, <1>4, <2>1 DEF OneReserves
<1>7. NothingHeld'
  <2>1. ASSUME NEW s \in Signal, Unentered(s)'
        PROVE  position'[s] = Paper!NoPosition /\ \A u \in Task : CarriesNothing(task'[u], s)
    <3>1. Unentered(s)
      BY <2>1 DEF Unentered
    <3> QED BY <1>1, <1>2, <3>1 DEF NothingHeld, GoodRow
  <2> QED BY <2>1 DEF NothingHeld
<1>8. OneEnters'
  <2>1. \A u \in Task : Enters(task'[u]) => u # t /\ task'[u] = task[u]
    BY <1>2 DEF GoodRow
  <2> QED BY <1>1, <2>1 DEF OneEnters, Unentered
<1>9. DraftsFine'
  BY <1>1, <1>2 DEF DraftsFine, GoodRow
<1>10. Paper!SlotReturned'
  <2>1. ASSUME NEW s \in Signal, position'[s].status = "CLOSED", reservation'[s] = "ACTIVE", faults' = 0
        PROVE  \E u \in Task : task'[u].pc = "settle" /\ task'[u].sig = s
    <3>1. PICK u \in Task : task[u].pc = "settle" /\ task[u].sig = s
      BY <1>1, <2>1 DEF Paper!SlotReturned
    <3>2. u # t
      BY <2>1, <3>1
    <3> QED BY <1>2, <3>1, <3>2
  <2> QED BY <2>1 DEF Paper!SlotReturned
<1> QED BY <1>3, <1>5, <1>6, <1>7, <1>8, <1>9, <1>10 DEF PaperInv

LEMMA CompleteStep ==
    ASSUME PaperInv, NEW t \in Task, NEW s \in Signal, Paper!Complete(t, s)
    PROVE  PaperInv'
<1> DEFINE w == [Paper!Idle EXCEPT !.pc = "query", !.sig = s, !.k = candle[s] + 1]
<1>1. candle[s] + 1 \in Int /\ candle' \in [Signal -> Int] /\ faults \in Nat /\ task[t].pc # "settle"
  BY DEF PaperInv, PaperTypes, Paper!Complete
<1>2. w \in TaskRow /\ w.pc = "query" /\ w.sig = s /\ w.cancel = {}
  BY <1>1, IdleIs DEF TaskRow, Places
<1>3. task' = [task EXCEPT ![t] = w]
  BY DEF Paper!Complete
<1> HIDE DEF w
<1>4. GoodRow(w)
  BY <1>2, FreshRow
<1> QED BY <1>1, <1>3, <1>4, TaskStep DEF Paper!Complete, Paper!ledger

\* A rollback: an exception, a unique key that was taken, a deadlock.
LEMMA UndoStep ==
    ASSUME PaperInv, NEW t \in Task, Paper!Collide(t) \/ Paper!Fail(t)
    PROVE  PaperInv'
<1>1. /\ PaperTypes /\ faults \in Nat
      /\ task' = [task EXCEPT ![t] = Paper!Idle]
      /\ UNCHANGED <<candle, order, position, reservation, halted, signalled>>
  BY DEF PaperInv, PaperTypes, Paper!Collide, Paper!Fail, Paper!ledger
<1>2. GoodRow(Paper!Idle)
  BY IdleIs, FreshRow
<1>3. CASE Paper!Fail(t)
  <2>1. faults' = faults + 1
    BY <1>3 DEF Paper!Fail
  <2>2. faults' \in Nat /\ faults' # 0
    BY <1>1, <2>1
  <2>3. candle' \in [Signal -> Int]
    BY <1>1 DEF PaperTypes
  <2> QED BY <1>1, <1>2, <2>2, <2>3, TaskStep
<1>4. CASE Paper!Collide(t)
  <2>1. task[t].pc # "settle"
    BY <1>4 DEF Paper!Collide, Paper!Deadlock
  <2> QED BY <1>1, <1>2, <1>4, <2>1, TaskStep DEF PaperTypes, Paper!Collide
<1> QED BY <1>3, <1>4

LEMMA QueryStep ==
    ASSUME PaperInv, NEW t \in Task, Paper!Query(t)
    PROVE  PaperInv'
<1> DEFINE p    == task[t]
           work == Paper!Eligible(p.sig, p.k)
           w    == [p EXCEPT !.pc = "lock", !.work = work]
<1>1. PaperTypes /\ NothingHeld /\ p \in TaskRow /\ p.pc = "query" /\ p.sig \in Signal
  BY DEF PaperInv, PaperTypes, Paper!Query
<1>2. work \in SUBSET Role
  BY Roles DEF Paper!Eligible
<1>3. Unentered(p.sig) => "ENTRY" \notin work
  BY DEF Unentered, Paper!Eligible, Paper!Working
<1>4. task' = [task EXCEPT ![t] = w]
  BY <1>1 DEF Paper!Query, PaperTypes
<1> HIDE DEF work
<1>5. w \in TaskRow /\ w.pc = "lock" /\ w.sig = p.sig /\ w.cancel = p.cancel /\ w.work = work
  BY <1>1, <1>2 DEF TaskRow, Places
<1> HIDE DEF w
<1>6. GoodRow(w)
  BY <1>1, <1>3, <1>5 DEF GoodRow, Enters, CarriesNothing, DraftFine, Ends, NothingHeld
<1> QED BY <1>1, <1>4, <1>6, TaskStep DEF Paper!Query, Paper!ledger, PaperTypes

LEMMA TradeIs ==
    ASSUME PaperTypes, NEW s \in Signal
    PROVE  LET here == Paper!Trade(s) IN
           here \in TradeRow /\ here.order = order[s] /\ here.position = position[s] /\ ~here.closed
<1> DEFINE no == FALSE
           R  == [order |-> order[s], position |-> position[s], closed |-> no]
<1>1. order[s] \in [Role -> OrderRow] /\ position[s] \in PositionRow
  BY DEF PaperTypes
<1>2. Paper!Trade(s) = R
  BY DEF Paper!Trade
<1>3. no \in BOOLEAN /\ ~no
  OBVIOUS
<1> HIDE DEF no
<1>4. R \in TradeRow /\ R.order = order[s] /\ R.position = position[s] /\ R.closed = no
  BY <1>1, <1>3 DEF TradeRow
<1> QED BY <1>2, <1>3, <1>4

LEMMA LockStep ==
    ASSUME PaperInv, NEW t \in Task, Paper!Lock(t)
    PROVE  PaperInv'
<1> DEFINE p    == task[t]
           s    == p.sig
           work == {r \in p.work : Paper!Working(order[s][r])}
           base == Paper!Trade(s)
           w    == [p EXCEPT !.pc = "fill", !.base = base, !.work = work]
<1>1. PaperTypes /\ NothingHeld /\ p \in TaskRow /\ p.pc = "lock" /\ s \in Signal
  BY DEF PaperInv, PaperTypes, Paper!Lock
<1>2. work \in SUBSET Role /\ base \in TradeRow
  BY <1>1, TradeIs DEF TaskRow
<1>3. Unentered(s) => "ENTRY" \notin work
  BY DEF Unentered, Paper!Working
<1>4. task' = [task EXCEPT ![t] = w]
  BY <1>1 DEF Paper!Lock, PaperTypes
<1> HIDE DEF work, base
<1>5. w \in TaskRow /\ w.pc = "fill" /\ w.sig = s /\ w.cancel = p.cancel /\ w.work = work
  BY <1>1, <1>2 DEF TaskRow, Places
<1> HIDE DEF w
<1>6. GoodRow(w)
  BY <1>1, <1>3, <1>5 DEF GoodRow, Enters, CarriesNothing, DraftFine, Ends, NothingHeld
<1> QED BY <1>1, <1>4, <1>6, TaskStep DEF Paper!Lock, Paper!ledger, PaperTypes

LEMMA FillStep ==
    ASSUME PaperInv, NEW t \in Task, Paper!Fill(t), Qty \in Nat
    PROVE  PaperInv'
<1> DEFINE p    == task[t]
           s    == p.sig
           here == Paper!Trade(s)
           read == [here EXCEPT !.order = [r \in Role |-> IF r \in p.work THEN p.base.order[r] ELSE here.order[r]]]
<1>1. /\ PaperTypes /\ NothingHeld
      /\ p \in TaskRow /\ p.pc = "fill" /\ s \in Signal
  BY DEF PaperInv, PaperTypes, Paper!Fill
<1>2. /\ order[s] \in [Role -> OrderRow] /\ position[s] \in PositionRow
      /\ p.base \in TradeRow /\ p.work \in SUBSET Role /\ p.k \in Int
  BY <1>1 DEF PaperTypes, TaskRow
<1>3. read \in TradeRow /\ ~read.closed /\ read.position = position[s]
  <2> DEFINE orders == [r \in Role |-> IF r \in p.work THEN p.base.order[r] ELSE here.order[r]]
  <2>1. here \in TradeRow /\ here.order = order[s] /\ here.position = position[s] /\ ~here.closed
    BY <1>1, TradeIs
  <2> HIDE DEF here
  <2>2. orders \in [Role -> OrderRow]
    BY <1>2, <2>1 DEF TradeRow
  <2>3. read = [here EXCEPT !.order = orders]
    OBVIOUS
  <2> HIDE DEF orders, read
  <2> QED BY <2>1, <2>2, <2>3 DEF TradeRow
<1>4. "ENTRY" \notin p.work => read.order["ENTRY"] = order[s]["ENTRY"]
  <2>1. "ENTRY" \in Role
    BY Roles
  <2>2. here \in TradeRow /\ here.order = order[s]
    BY <1>1, TradeIs
  <2> HIDE DEF here
  <2> QED BY <2>1, <2>2 DEF TradeRow
<1> HIDE DEF read
<1>5. PICK hit \in SUBSET ({"STOP", "TARGET"} \cap p.work), capacity \in 1..Qty, pnl \in {-1, 0},
          due \in BOOLEAN, pc \in {"update", "halt", "commit"} :
        task' = [task EXCEPT ![t].pc = pc, ![t].base = read,
                   ![t].draft = Paper!Manage(Paper!Fills(read, p.work, hit, capacity, p.k), pnl, due, p.k)]
  <2>1. PICK hit \in SUBSET ({"STOP", "TARGET"} \cap p.work), capacity \in 1..Qty, pnl \in {-1, 0},
             due \in BOOLEAN :
          LET filled == Paper!Fills(read, p.work, hit, capacity, p.k)
              done   == Paper!Manage(filled, pnl, due, p.k)
          IN /\ hit \cup ({"HALT", "TIME"} \cap p.work) # {} => Paper!PositionFree(t)
             /\ task' = [task EXCEPT ![t].pc = Paper!AfterFills(s, read, done),
                                     ![t].base = read, ![t].draft = done]
    BY DEF Paper!Fill, read, Role
  <2> DEFINE done == Paper!Manage(Paper!Fills(read, p.work, hit, capacity, p.k), pnl, due, p.k)
             pc   == Paper!AfterFills(s, read, done)
  <2>2. task' = [task EXCEPT ![t].pc = pc, ![t].base = read, ![t].draft = done]
    BY <2>1
  <2> HIDE DEF done
  <2>3. pc \in {"update", "halt", "commit"}
    BY DEF Paper!AfterFills, Paper!Standing
  <2> HIDE DEF pc
  <2> QED BY <2>2, <2>3 DEF done
<1> DEFINE filled == Paper!Fills(read, p.work, hit, capacity, p.k)
           done   == Paper!Manage(filled, pnl, due, p.k)
           w      == [p EXCEPT !.pc = pc, !.base = read, !.draft = done]
<1>6. capacity \in Int /\ pnl \in Int
  OBVIOUS
<1>7. /\ filled \in TradeRow
      /\ filled.order["ENTRY"] # read.order["ENTRY"] => filled.order["ENTRY"].status # "none"
      /\ filled.position.status = "CLOSED" => filled.closed \/ filled.position = read.position
      /\ "ENTRY" \notin p.work => filled.order["ENTRY"] = read.order["ENTRY"]
      /\ "ENTRY" \notin p.work /\ read.position.open <= 0 => filled.position = read.position /\ ~filled.closed
  BY <1>2, <1>3, <1>6, FillsAre
<1>8. task' = [task EXCEPT ![t] = w]
  BY <1>1, <1>5 DEF PaperTypes
<1> HIDE DEF filled
<1>9. /\ done \in TradeRow
      /\ done.order["ENTRY"] = filled.order["ENTRY"]
      /\ done.closed = filled.closed
      /\ done.position = [filled.position EXCEPT !.pnl = done.position.pnl]
      /\ ~Paper!Running(filled.position) /\ ~filled.closed => done.position = filled.position
  BY <1>2, <1>6, <1>7, ManageIs
<1> HIDE DEF done
<1>10. done.position.status = filled.position.status /\ done.position.open = filled.position.open
  BY <1>7, <1>9 DEF TradeRow, PositionRow
<1>11. /\ w \in TaskRow /\ w.pc = pc /\ w.sig = s /\ w.cancel = p.cancel
       /\ w.base = read /\ w.draft = done
  BY <1>1, <1>3, <1>9 DEF TaskRow, Places
<1> HIDE DEF w
<1>12. DraftFine(w)
  BY <1>7, <1>9, <1>10, <1>11 DEF DraftFine
<1>13. ASSUME NEW q \in Signal, Unentered(q) PROVE CarriesNothing(w, q)
  <2>1. CarriesNothing(p, q) /\ position[q] = Paper!NoPosition
    BY <1>1, <1>13 DEF NothingHeld
  <2>2. CASE q # s
    BY <1>11, <2>1, <2>2 DEF CarriesNothing
  <2>3. CASE q = s
    <3>1. "ENTRY" \notin p.work
      BY <1>1, <2>1, <2>3 DEF CarriesNothing
    <3>2. read.position = Paper!NoPosition /\ read.position.open <= 0 /\ read.position.status = "none"
      BY <1>3, <2>1, <2>3, EmptyRows
    <3>3. filled.position = Paper!NoPosition /\ ~filled.closed
      BY <1>7, <3>1, <3>2
    <3>4. done.position = Paper!NoPosition /\ ~done.closed
      BY <1>9, <3>2, <3>3, EmptyRows DEF Paper!Running
    <3>5. done.order["ENTRY"].status = "none"
      BY <1>4, <1>7, <1>9, <1>13, <2>3, <3>1 DEF Unentered
    <3> QED BY <1>11, <2>1, <3>2, <3>4, <3>5 DEF CarriesNothing
  <2> QED BY <2>2, <2>3
<1>14. GoodRow(w)
  BY <1>1, <1>11, <1>12, <1>13 DEF GoodRow, Enters
<1> QED BY <1>1, <1>8, <1>14, TaskStep DEF Paper!Fill, Paper!ledger, PaperTypes

\* A step that only takes a pass from one place at its end to another.
LEMMA StandingStep ==
    ASSUME PaperInv, NEW t \in Task, Ends(task[t]), NEW at \in {"halt", "blocked", "commit"},
           task' = [task EXCEPT ![t].pc = at],
           UNCHANGED <<candle, order, position, reservation, halted, signalled, faults>>
    PROVE  PaperInv'
<1> DEFINE p == task[t]
           w == [p EXCEPT !.pc = at]
<1>1. /\ PaperTypes /\ NothingHeld /\ DraftsFine
      /\ p \in TaskRow /\ p.sig \in Signal /\ p.pc # "settle"
  BY DEF PaperInv, PaperTypes, Ends
<1>2. task' = [task EXCEPT ![t] = w]
  BY <1>1 DEF PaperTypes
<1>3. /\ w \in TaskRow /\ w.pc = at /\ w.sig = p.sig /\ w.cancel = p.cancel
      /\ w.base = p.base /\ w.draft = p.draft
  BY <1>1 DEF TaskRow, Places
<1> HIDE DEF w
<1>4. DraftFine(w)
  BY <1>1, <1>3 DEF DraftsFine, DraftFine, Ends
<1>5. ASSUME NEW q \in Signal, Unentered(q) PROVE CarriesNothing(w, q)
  BY <1>1, <1>3, <1>5 DEF NothingHeld, CarriesNothing, Ends
<1>6. GoodRow(w)
  BY <1>1, <1>3, <1>4, <1>5 DEF GoodRow, Enters
<1> QED BY <1>1, <1>2, <1>6, TaskStep DEF PaperTypes

LEMMA UpdateStep ==
    ASSUME PaperInv, NEW t \in Task, Paper!Update(t)
    PROVE  PaperInv'
<1> DEFINE at == Paper!Standing(task[t].sig, task[t].draft.position)
<1>1. /\ Ends(task[t]) /\ task' = [task EXCEPT ![t].pc = at]
      /\ UNCHANGED <<candle, order, position, reservation, halted, signalled, faults>>
  BY DEF Paper!Update, Paper!ledger, Ends
<1>2. at \in {"halt", "blocked", "commit"}
  BY DEF Paper!Standing
<1> HIDE DEF at
<1> QED BY <1>1, <1>2, StandingStep

LEMMA HaltStep ==
    ASSUME PaperInv, NEW t \in Task, Paper!Halt(t)
    PROVE  PaperInv'
<1> DEFINE p       == task[t]
           s       == p.sig
           rows(r) == IF r = s THEN p.draft ELSE Paper!Trade(r)
           cancel  == {c \in Signal \X Role : Paper!Working(rows(c[1]).order[c[2]])}
           flat    == [r \in Signal |-> IF Paper!Running(rows(r).position)
                                        THEN Paper!Most(0, rows(r).position.open) ELSE 0]
           yes     == TRUE
           w       == [p EXCEPT !.pc = "commit", !.halting = yes, !.cancel = cancel, !.flat = flat]
<1>1. /\ PaperTypes /\ NothingHeld /\ DraftsFine
      /\ p \in TaskRow /\ p.pc \in {"halt", "blocked"} /\ s \in Signal
  BY DEF PaperInv, PaperTypes, Paper!Halt
<1>2. cancel \in SUBSET (Signal \X Role)
  OBVIOUS
<1>3. flat \in [Signal -> Int]
  <2>1. ASSUME NEW r \in Signal PROVE flat[r] \in Int
    <3>1. rows(r).position \in PositionRow
      BY <1>1, <2>1 DEF PaperTypes, TaskRow, TradeRow, Paper!Trade
    <3>2. rows(r).position.open \in Int
      BY <3>1 DEF PositionRow
    <3> HIDE DEF rows
    <3> QED BY <3>2 DEF Paper!Most
  <2> QED BY <2>1
<1>4. ASSUME NEW q \in Signal, Unentered(q) PROVE <<q, "ENTRY">> \notin cancel
  <2>1. rows(q).order["ENTRY"].status = "none"
    <3>1. CASE q = s
      BY <1>1, <1>4, <3>1 DEF NothingHeld, CarriesNothing, Ends
    <3>2. CASE q # s
      BY <1>4, <3>2 DEF Unentered, Paper!Trade
    <3> QED BY <3>1, <3>2
  <2> HIDE DEF rows
  <2> QED BY <2>1 DEF Paper!Working
<1>5. yes \in BOOLEAN
  OBVIOUS
<1>6. task' = [task EXCEPT ![t] = w]
  BY <1>1, Roles DEF Paper!Halt, PaperTypes
<1> HIDE DEF cancel, flat, yes
<1>7. /\ w \in TaskRow /\ w.pc = "commit" /\ w.sig = s /\ w.cancel = cancel
      /\ w.base = p.base /\ w.draft = p.draft
  BY <1>1, <1>2, <1>3, <1>5 DEF TaskRow, Places
<1> HIDE DEF w
<1>8. DraftFine(w)
  BY <1>1, <1>7 DEF DraftsFine, DraftFine, Ends
<1>9. ASSUME NEW q \in Signal, Unentered(q) PROVE CarriesNothing(w, q)
  BY <1>1, <1>4, <1>7, <1>9 DEF NothingHeld, CarriesNothing, Ends
<1>10. GoodRow(w)
  BY <1>1, <1>7, <1>8, <1>9 DEF GoodRow, Enters
<1> QED BY <1>1, <1>6, <1>10, TaskStep DEF Paper!Halt, Paper!ledger, PaperTypes

LEMMA HaltIsThereStep ==
    ASSUME PaperInv, NEW t \in Task, Paper!HaltIsThere(t)
    PROVE  PaperInv'
<1> DEFINE at == IF halted THEN "commit" ELSE "blocked"
<1>1. /\ Ends(task[t]) /\ task' = [task EXCEPT ![t].pc = at]
      /\ UNCHANGED <<candle, order, position, reservation, halted, signalled, faults>>
  BY DEF Paper!HaltIsThere, Paper!ledger, Ends
<1>2. at \in {"halt", "blocked", "commit"}
  OBVIOUS
<1> HIDE DEF at
<1> QED BY <1>1, <1>2, StandingStep

-----------------------------------------------------------------------------
(* The paper ledger: the steps that reserve and give back.                  *)

\* The instance has a name of its own for the operator of FiniteSets.
LEMMA SameCardinality == \A S : Paper!Cardinality(S) = Cardinality(S)
BY DEF Paper!Cardinality, Cardinality

LEMMA ReservedIs ==
    ASSUME IsFiniteSet(Signal)
    PROVE  \A q : IsFiniteSet(Paper!Reserved(q)) /\ Cardinality(Paper!Reserved(q)) \in Nat
BY FS_Subset, FS_CardinalityType DEF Paper!Reserved

\* Giving a slot back leaves the day's allocation and takes one from the open ones.
LEMMA SettleStep ==
    ASSUME PaperInv, NEW t \in Task, Paper!SettleSignal(t), IsFiniteSet(Signal),
           MaxOpen \in Nat, Budget \in Nat
    PROVE  PaperInv'
<1> DEFINE p    == task[t]
           s    == p.sig
           back == IF reservation[s] = "ACTIVE" THEN "SETTLED" ELSE reservation[s]
           w    == [p EXCEPT !.pc = "next"]
<1>1. /\ PaperTypes /\ OneReserves /\ Paper!PaperBudget
      /\ NothingHeld /\ OneEnters /\ DraftsFine /\ Paper!SlotReturned
      /\ p \in TaskRow /\ p.pc = "settle" /\ s \in Signal
  BY DEF PaperInv, PaperTypes, Paper!SettleSignal
<1>2. /\ task' = [task EXCEPT ![t] = w]
      /\ reservation' = [reservation EXCEPT ![s] = back]
      /\ UNCHANGED <<candle, order, position, halted, signalled, faults>>
  BY <1>1 DEF Paper!SettleSignal, Paper!ledger, PaperTypes
<1>3. w \in TaskRow /\ w.pc = "next" /\ w.sig = s /\ w.cancel = p.cancel
  BY <1>1 DEF TaskRow, Places
<1>4. task'[t] = w /\ \A u \in Task \ {t} : task'[u] = task[u]
  BY <1>1, <1>2 DEF PaperTypes
<1>5. reservation'[s] # "ACTIVE" /\ \A r \in Signal \ {s} : reservation'[r] = reservation[r]
  BY <1>1, <1>2 DEF PaperTypes
<1> HIDE DEF w
<1>6. PaperTypes'
  BY <1>1, <1>2, <1>3, <1>4 DEF PaperTypes
<1>7. /\ Paper!Reserved({"ACTIVE"})' \subseteq Paper!Reserved({"ACTIVE"})
      /\ Paper!Reserved({"ACTIVE", "SETTLED"})' = Paper!Reserved({"ACTIVE", "SETTLED"})
  BY <1>1, <1>2, <1>5 DEF Paper!Reserved, PaperTypes
<1>8. Cardinality(Paper!Reserved({"ACTIVE"})') <= Cardinality(Paper!Reserved({"ACTIVE"}))
  BY <1>7, ReservedIs, FS_Subset
<1>8a. /\ Cardinality(Paper!Reserved({"ACTIVE"})) \in Nat
       /\ Cardinality(Paper!Reserved({"ACTIVE"})') \in Nat
  BY <1>7, ReservedIs, FS_Subset, FS_CardinalityType
<1>9. Paper!PaperBudget'
  <2>1. Cardinality(Paper!Reserved({"ACTIVE"})) <= MaxOpen
    BY <1>1, SameCardinality DEF Paper!PaperBudget
  <2>2. Cardinality(Paper!Reserved({"ACTIVE"})') <= MaxOpen
    BY <1>8, <1>8a, <2>1
  <2>3. Cardinality(Paper!Reserved({"ACTIVE", "SETTLED"})') <= Budget
    BY <1>1, <1>7, SameCardinality DEF Paper!PaperBudget
  <2> QED BY <2>2, <2>3, SameCardinality DEF Paper!PaperBudget
<1>10. OneReserves'
  <2>1. \A u \in Task : task'[u].pc = "reserved" => u # t /\ task'[u] = task[u]
    BY <1>3, <1>4
  <2> QED BY <1>1, <1>7, <1>8, <1>8a, <2>1 DEF OneReserves
<1>11. NothingHeld'
  <2>1. \A q \in Signal : CarriesNothing(p, q) => CarriesNothing(w, q)
    BY <1>3 DEF CarriesNothing, Ends
  <2> QED BY <1>1, <1>2, <1>4, <2>1 DEF NothingHeld, Unentered
<1>12. OneEnters'
  <2>1. \A u \in Task : Enters(task'[u]) => u # t /\ task'[u] = task[u]
    BY <1>3, <1>4 DEF Enters
  <2> QED BY <1>1, <1>2, <2>1 DEF OneEnters, Unentered
<1>13. DraftsFine'
  <2>1. DraftFine(w)
    BY <1>3 DEF DraftFine, Ends
  <2> QED BY <1>1, <1>2, <1>4, <2>1 DEF DraftsFine
<1>14. Paper!SlotReturned'
  <2>1. ASSUME NEW r \in Signal, position'[r].status = "CLOSED", reservation'[r] = "ACTIVE", faults' = 0
        PROVE  \E u \in Task : task'[u].pc = "settle" /\ task'[u].sig = r
    <3>1. r # s /\ reservation[r] = "ACTIVE"
      BY <1>5, <2>1
    <3>2. PICK u \in Task : task[u].pc = "settle" /\ task[u].sig = r
      BY <1>1, <1>2, <2>1, <3>1 DEF Paper!SlotReturned
    <3> QED BY <1>4, <3>1, <3>2
  <2> QED BY <2>1 DEF Paper!SlotReturned
<1> QED BY <1>6, <1>9, <1>10, <1>11, <1>12, <1>13, <1>14 DEF PaperInv

LEMMA EvaluateStep ==
    ASSUME PaperInv, NEW t \in Task, Paper!Evaluate(t)
    PROVE  PaperInv'
<1> DEFINE p == task[t]
           s == p.sig
           w == [p EXCEPT !.pc = "reserve"]
<1>1. /\ PaperTypes /\ OneReserves /\ Paper!PaperBudget
      /\ NothingHeld /\ OneEnters /\ DraftsFine /\ Paper!SlotReturned
      /\ p \in TaskRow /\ p.pc = "next" /\ s \in Signal
  BY DEF PaperInv, PaperTypes, Paper!Evaluate
<1>2. CASE task' = [task EXCEPT ![t] = Paper!Idle] /\ UNCHANGED signalled
  <2>1. GoodRow(Paper!Idle)
    BY IdleIs, FreshRow
  <2> QED BY <1>1, <1>2, <2>1, TaskStep DEF Paper!Evaluate, Paper!ledger, PaperTypes
<1>3. CASE s \notin signalled /\ signalled' = signalled \cup {s} /\ task' = [task EXCEPT ![t].pc = "reserve"]
  <2>1. task' = [task EXCEPT ![t] = w] /\ UNCHANGED <<candle, order, position, reservation, halted, faults>>
    BY <1>1, <1>3 DEF Paper!Evaluate, Paper!ledger, PaperTypes
  <2>2. w \in TaskRow /\ w.pc = "reserve" /\ w.sig = s /\ w.cancel = p.cancel
    BY <1>1 DEF TaskRow, Places
  <2>3. task'[t] = w /\ \A u \in Task \ {t} : task'[u] = task[u]
    BY <1>1, <2>1 DEF PaperTypes
  <2> HIDE DEF w
  <2>4. PaperTypes'
    BY <1>1, <1>3, <2>1, <2>2, <2>3 DEF PaperTypes
  <2>5. \A q : Paper!Reserved(q)' = Paper!Reserved(q)
    BY <2>1 DEF Paper!Reserved
  <2>6. Paper!PaperBudget' /\ OneReserves'
    BY <1>1, <2>2, <2>3, <2>5 DEF Paper!PaperBudget, OneReserves
  <2>7. NothingHeld'
    <3>1. \A q \in Signal : CarriesNothing(p, q) => CarriesNothing(w, q)
      BY <2>2 DEF CarriesNothing, Ends
    <3> QED BY <1>1, <2>1, <2>3, <3>1 DEF NothingHeld, Unentered
  <2>8. OneEnters'
    <3>1. Unentered(s) /\ \A u \in Task : Enters(task[u]) => task[u].sig # s
      BY <1>1, <1>3 DEF OneEnters
    <3>2. \A q \in Signal \ signalled' : Unentered(q)
      BY <1>1, <1>3 DEF OneEnters
    <3>3. ASSUME NEW u \in Task, Enters(task'[u]) PROVE task'[u].sig \in signalled' /\ Unentered(task'[u].sig)
      BY <1>1, <1>3, <2>2, <2>3, <3>1, <3>3 DEF OneEnters
    <3>4. \A u, v \in Task : Enters(task'[u]) /\ Enters(task'[v]) /\ task'[u].sig = task'[v].sig => u = v
      BY <1>1, <2>2, <2>3, <3>1 DEF OneEnters
    <3> QED BY <3>2, <3>3, <3>4, <2>1 DEF OneEnters, Unentered
  <2>9. DraftsFine'
    <3>1. DraftFine(w)
      BY <2>2 DEF DraftFine, Ends
    <3> QED BY <1>1, <2>1, <2>3, <3>1 DEF DraftsFine
  <2>10. Paper!SlotReturned'
    <3>1. \A u \in Task : task[u].pc = "settle" => u # t /\ task'[u] = task[u]
      BY <1>1, <2>3
    <3> QED BY <1>1, <2>1, <3>1 DEF Paper!SlotReturned
  <2> QED BY <2>4, <2>6, <2>7, <2>8, <2>9, <2>10 DEF PaperInv
<1> QED BY <1>2, <1>3 DEF Paper!Evaluate

LEMMA ReserveReadStep ==
    ASSUME PaperInv, NEW t \in Task, Paper!ReserveRead(t)
    PROVE  PaperInv'
<1> DEFINE p == task[t]
           s == p.sig
<1>1. /\ PaperTypes /\ OneReserves /\ Paper!PaperBudget
      /\ NothingHeld /\ OneEnters /\ DraftsFine /\ Paper!SlotReturned
      /\ p \in TaskRow /\ p.pc = "reserve" /\ s \in Signal
      /\ \A u \in Task : task[u].pc # "reserved"
      /\ UNCHANGED <<candle, order, position, reservation, halted, signalled, faults>>
  BY DEF PaperInv, PaperTypes, Paper!ReserveRead, Paper!ledger
<1>2. PICK accepted \in {FALSE, Paper!Affordable} :
        task' = [task EXCEPT ![t].pc = "reserved", ![t].accepted = accepted,
                             ![t].halting = Paper!Verdict /\ ~halted]
  BY DEF Paper!ReserveRead
<1> DEFINE halting == Paper!Verdict /\ ~halted
           w       == [p EXCEPT !.pc = "reserved", !.accepted = accepted, !.halting = halting]
<1>3. accepted \in BOOLEAN /\ halting \in BOOLEAN /\ (accepted => Paper!Affordable)
  <2>1. Paper!Affordable \in BOOLEAN
    BY Zenon DEF Paper!Affordable
  <2>2. halting \in BOOLEAN
    BY Zenon
  <2>3. accepted \in BOOLEAN
    BY Zenon, <2>1
  <2>4. accepted => Paper!Affordable
    BY Zenon
  <2> QED BY <2>2, <2>3, <2>4
<1>4. task' = [task EXCEPT ![t] = w]
  BY <1>1, <1>2 DEF PaperTypes
<1> HIDE DEF halting
<1>5. w \in TaskRow /\ w.pc = "reserved" /\ w.sig = s /\ w.cancel = p.cancel /\ w.accepted = accepted
  BY <1>1, <1>3 DEF TaskRow, Places
<1>6. task'[t] = w /\ \A u \in Task \ {t} : task'[u] = task[u]
  BY <1>1, <1>4 DEF PaperTypes
<1> HIDE DEF w
<1>7. PaperTypes'
  BY <1>1, <1>4, <1>5, <1>6 DEF PaperTypes
<1>8. \A q : Paper!Reserved(q)' = Paper!Reserved(q)
  BY <1>1 DEF Paper!Reserved
<1>9. Paper!PaperBudget'
  BY <1>1, <1>8 DEF Paper!PaperBudget
<1>10. OneReserves'
  <2>1. \A u \in Task : task'[u].pc = "reserved" => u = t
    BY <1>1, <1>6
  <2>2. accepted => /\ Cardinality(Paper!Reserved({"ACTIVE", "SETTLED"})) < Budget
                    /\ Cardinality(Paper!Reserved({"ACTIVE"})) < MaxOpen
    BY <1>3, SameCardinality DEF Paper!Affordable
  <2> QED BY <1>5, <1>6, <1>8, <2>1, <2>2 DEF OneReserves
<1>11. NothingHeld'
  <2>1. \A q \in Signal : CarriesNothing(p, q) => CarriesNothing(w, q)
    BY <1>5 DEF CarriesNothing, Ends
  <2> QED BY <1>1, <1>6, <2>1 DEF NothingHeld, Unentered
<1>12. OneEnters'
  <2>1. \A u \in Task : (Enters(task'[u]) <=> Enters(task[u])) /\ task'[u].sig = task[u].sig
    BY <1>1, <1>5, <1>6 DEF Enters
  <2> QED BY <1>1, <2>1 DEF OneEnters, Unentered
<1>13. DraftsFine'
  <2>1. DraftFine(w)
    BY <1>5 DEF DraftFine, Ends
  <2> QED BY <1>1, <1>6, <2>1 DEF DraftsFine
<1>14. Paper!SlotReturned'
  <2>1. \A u \in Task : task[u].pc = "settle" => u # t /\ task'[u] = task[u]
    BY <1>1, <1>6
  <2> QED BY <1>1, <2>1 DEF Paper!SlotReturned
<1> QED BY <1>7, <1>9, <1>10, <1>11, <1>12, <1>13, <1>14 DEF PaperInv

LEMMA ReserveCommitStep ==
    ASSUME PaperInv, NEW t \in Task, Paper!ReserveCommit(t), IsFiniteSet(Signal),
           MaxOpen \in Nat, Budget \in Nat
    PROVE  PaperInv'
<1> DEFINE p       == task[t]
           s       == p.sig
           verdict == IF p.accepted THEN "ACTIVE" ELSE "REJECTED"
           w       == IF p.accepted THEN [Paper!Idle EXCEPT !.pc = "queue", !.sig = s, !.k = p.k] ELSE Paper!Idle
<1>1. /\ PaperTypes /\ OneReserves /\ Paper!PaperBudget
      /\ NothingHeld /\ OneEnters /\ DraftsFine /\ Paper!SlotReturned
      /\ p \in TaskRow /\ p.pc = "reserved" /\ s \in Signal
      /\ task' = [task EXCEPT ![t] = w]
      /\ reservation' = [reservation EXCEPT ![s] = verdict]
      /\ halted' = (halted \/ p.halting)
      /\ UNCHANGED <<candle, order, position, signalled, faults>>
  BY DEF PaperInv, PaperTypes, Paper!ReserveCommit, Paper!ledger
<1>2. p.k \in Int /\ p.halting \in BOOLEAN /\ p.accepted \in BOOLEAN
  BY <1>1 DEF TaskRow
<1>3. /\ w \in TaskRow /\ w.cancel = {} /\ w.pc \in {"queue", "idle"}
      /\ w.pc = "queue" => w.sig = s
  <2>1. CASE p.accepted
    BY <1>1, <1>2, <2>1, IdleIs DEF TaskRow, Places
  <2>2. CASE ~p.accepted
    BY <2>2, IdleIs
  <2> QED BY <2>1, <2>2
<1> HIDE DEF w
<1>4. task'[t] = w /\ \A u \in Task \ {t} : task'[u] = task[u]
  BY <1>1 DEF PaperTypes
<1>5. reservation'[s] = verdict /\ \A r \in Signal \ {s} : reservation'[r] = reservation[r]
  BY <1>1 DEF PaperTypes
<1>6. PaperTypes'
  BY <1>1, <1>2, <1>3, <1>4 DEF PaperTypes
<1>7. ASSUME NEW q \in {{"ACTIVE"}, {"ACTIVE", "SETTLED"}}
      PROVE  /\ p.accepted => Cardinality(Paper!Reserved(q)') <= Cardinality(Paper!Reserved(q)) + 1
             /\ ~p.accepted => Cardinality(Paper!Reserved(q)') <= Cardinality(Paper!Reserved(q))
             /\ Cardinality(Paper!Reserved(q)') \in Nat /\ Cardinality(Paper!Reserved(q)) \in Nat
  <2>1. IsFiniteSet(Paper!Reserved(q)) /\ Cardinality(Paper!Reserved(q)) \in Nat
    BY ReservedIs
  <2>2. p.accepted => Paper!Reserved(q)' \subseteq Paper!Reserved(q) \cup {s}
    BY <1>5 DEF Paper!Reserved
  <2>3. ~p.accepted => Paper!Reserved(q)' \subseteq Paper!Reserved(q)
    BY <1>5 DEF Paper!Reserved
  <2>4. /\ IsFiniteSet(Paper!Reserved(q) \cup {s})
        /\ Cardinality(Paper!Reserved(q) \cup {s}) \in Nat
        /\ Cardinality(Paper!Reserved(q) \cup {s}) <= Cardinality(Paper!Reserved(q)) + 1
    <3>1. Cardinality(Paper!Reserved(q) \cup {s})
            \in {Cardinality(Paper!Reserved(q)), Cardinality(Paper!Reserved(q)) + 1}
      BY <2>1, FS_AddElement
    <3>2. IsFiniteSet(Paper!Reserved(q) \cup {s})
      BY <2>1, FS_AddElement
    <3> QED BY <2>1, <3>1, <3>2
  <2>5. CASE p.accepted
    <3>1. /\ Cardinality(Paper!Reserved(q)') <= Cardinality(Paper!Reserved(q) \cup {s})
          /\ Cardinality(Paper!Reserved(q)') \in Nat
      BY <2>2, <2>4, <2>5, FS_Subset, FS_CardinalityType
    <3> QED BY <2>1, <2>4, <2>5, <3>1
  <2>6. CASE ~p.accepted
    BY <2>1, <2>3, <2>6, FS_Subset, FS_CardinalityType
  <2> QED BY <1>2, <2>5, <2>6
<1>8. Paper!PaperBudget'
  <2>1. p.accepted => /\ Cardinality(Paper!Reserved({"ACTIVE", "SETTLED"})) < Budget
                      /\ Cardinality(Paper!Reserved({"ACTIVE"})) < MaxOpen
    BY <1>1 DEF OneReserves
  <2>2. /\ Cardinality(Paper!Reserved({"ACTIVE", "SETTLED"})) <= Budget
        /\ Cardinality(Paper!Reserved({"ACTIVE"})) <= MaxOpen
    BY <1>1, SameCardinality DEF Paper!PaperBudget
  <2>3. Cardinality(Paper!Reserved({"ACTIVE", "SETTLED"})') <= Budget
    BY <1>2, <1>7, <2>1, <2>2
  <2>4. Cardinality(Paper!Reserved({"ACTIVE"})') <= MaxOpen
    BY <1>2, <1>7, <2>1, <2>2
  <2> QED BY <2>3, <2>4, SameCardinality DEF Paper!PaperBudget
<1>9. OneReserves'
  <2>1. \A u \in Task : task'[u].pc # "reserved"
    BY <1>1, <1>3, <1>4 DEF OneReserves
  <2> QED BY <2>1 DEF OneReserves
<1>10. NothingHeld'
  <2>1. \A q \in Signal : CarriesNothing(w, q)
    BY <1>3 DEF CarriesNothing, Ends
  <2> QED BY <1>1, <1>4, <2>1 DEF NothingHeld, Unentered
<1>11. OneEnters'
  <2>1. \A u \in Task : Enters(task'[u]) => Enters(task[u]) /\ task'[u].sig = task[u].sig
    BY <1>1, <1>3, <1>4 DEF Enters
  <2> QED BY <1>1, <2>1 DEF OneEnters, Unentered
<1>12. DraftsFine'
  <2>1. DraftFine(w)
    BY <1>3 DEF DraftFine, Ends
  <2> QED BY <1>1, <1>4, <2>1 DEF DraftsFine
<1>13. Paper!SlotReturned'
  <2>1. \A u \in Task : task[u].pc = "settle" => u # t /\ task'[u] = task[u]
    BY <1>1, <1>4
  <2>2. position[s].status # "CLOSED"
    BY <1>1, EmptyRows DEF OneEnters, Enters, NothingHeld
  <2>3. ASSUME NEW r \in Signal, position'[r].status = "CLOSED", reservation'[r] = "ACTIVE", faults' = 0
        PROVE  \E u \in Task : task'[u].pc = "settle" /\ task'[u].sig = r
    <3>1. r # s /\ reservation[r] = "ACTIVE"
      BY <1>1, <1>5, <2>2, <2>3
    <3> QED BY <1>1, <2>1, <2>3, <3>1 DEF Paper!SlotReturned
  <2> QED BY <2>3 DEF Paper!SlotReturned
<1> QED BY <1>6, <1>8, <1>9, <1>10, <1>11, <1>12, <1>13 DEF PaperInv

LEMMA QueueStep ==
    ASSUME PaperInv, NEW t \in Task, Paper!Queue(t), Qty \in Nat
    PROVE  PaperInv'
<1> DEFINE p     == task[t]
           s     == p.sig
           entry == Paper!NewOrder(Qty, p.k + 1)
<1>1. /\ PaperTypes /\ OneReserves /\ Paper!PaperBudget
      /\ NothingHeld /\ OneEnters /\ DraftsFine /\ Paper!SlotReturned
      /\ p \in TaskRow /\ p.pc = "queue" /\ s \in Signal
      /\ task' = [task EXCEPT ![t] = Paper!Idle]
      /\ order' = [order EXCEPT ![s]["ENTRY"] = entry]
      /\ UNCHANGED <<candle, position, reservation, halted, signalled, faults>>
  BY DEF PaperInv, PaperTypes, Paper!Queue
<1>2. entry \in OrderRow /\ entry.status = "PENDING"
  BY <1>1, NewOrderIs DEF TaskRow
<1> HIDE DEF entry
<1>3. /\ order' \in [Signal -> [Role -> OrderRow]]
      /\ order'[s]["ENTRY"] = entry
      /\ \A q \in Signal \ {s} : order'[q] = order[q]
  <2>1. [order[s] EXCEPT !["ENTRY"] = entry] \in [Role -> OrderRow]
    BY <1>1, <1>2 DEF PaperTypes
  <2>2. order' = [order EXCEPT ![s] = [order[s] EXCEPT !["ENTRY"] = entry]]
    BY <1>1 DEF PaperTypes
  <2>3. "ENTRY" \in Role
    BY Roles
  <2> QED BY <1>1, <2>1, <2>2, <2>3 DEF PaperTypes
<1>4. task'[t] = Paper!Idle /\ \A u \in Task \ {t} : task'[u] = task[u]
  BY <1>1 DEF PaperTypes
<1>5. PaperTypes'
  BY <1>1, <1>3, <1>4, IdleIs DEF PaperTypes
<1>6. \A q : Paper!Reserved(q)' = Paper!Reserved(q)
  BY <1>1 DEF Paper!Reserved
<1>7. Paper!PaperBudget' /\ OneReserves'
  BY <1>1, <1>4, <1>6, IdleIs DEF Paper!PaperBudget, OneReserves
<1>8. ASSUME NEW q \in Signal, order'[q]["ENTRY"].status = "none" PROVE q # s /\ Unentered(q)
  BY <1>2, <1>3, <1>8 DEF Unentered
<1>9. NothingHeld'
  <2>1. \A q \in Signal : CarriesNothing(Paper!Idle, q)
    BY IdleIs DEF CarriesNothing, Ends
  <2>2. ASSUME NEW q \in Signal, order'[q]["ENTRY"].status = "none"
        PROVE  position'[q] = Paper!NoPosition /\ \A u \in Task : CarriesNothing(task'[u], q)
    BY <1>1, <1>4, <1>8, <2>1, <2>2 DEF NothingHeld
  <2> QED BY <2>2 DEF NothingHeld, Unentered
<1>10. OneEnters'
  <2>1. \A u \in Task : Enters(task'[u]) => u # t /\ task'[u] = task[u] /\ task[u].sig # s
    BY <1>1, <1>4, IdleIs DEF Enters, OneEnters
  <2>2. s \in signalled
    BY <1>1 DEF OneEnters, Enters
  <2>3. \A q \in Signal \ signalled' : order'[q]["ENTRY"].status = "none"
    BY <1>1, <1>3, <2>2 DEF OneEnters, Unentered
  <2>4. \A u \in Task : Enters(task'[u]) =>
          task'[u].sig \in signalled' /\ order'[task'[u].sig]["ENTRY"].status = "none"
    BY <1>1, <1>3, <2>1 DEF OneEnters, Unentered, PaperTypes, Enters
  <2>5. \A u, v \in Task : Enters(task'[u]) /\ Enters(task'[v]) /\ task'[u].sig = task'[v].sig => u = v
    BY <1>1, <2>1 DEF OneEnters
  <2> QED BY <2>3, <2>4, <2>5 DEF OneEnters, Unentered
<1>11. DraftsFine'
  <2>1. DraftFine(Paper!Idle)
    BY IdleIs DEF DraftFine, Ends
  <2> QED BY <1>1, <1>4, <2>1 DEF DraftsFine
<1>12. Paper!SlotReturned'
  <2>1. \A u \in Task : task[u].pc = "settle" => u # t /\ task'[u] = task[u]
    BY <1>1, <1>4
  <2> QED BY <1>1, <2>1 DEF Paper!SlotReturned
<1> QED BY <1>5, <1>7, <1>9, <1>10, <1>11, <1>12 DEF PaperInv

-----------------------------------------------------------------------------
(* The paper ledger: a pass commits.                                        *)

\* What may be said of a position that it writes.
PositionWritten(t, q, R) ==
    /\ R \in PositionRow
    /\ Unentered(q) => R = Paper!NoPosition
    /\ R.status = "CLOSED" => position[q].status = "CLOSED" \/ (task[t].sig = q /\ task[t].draft.closed)

LEMMA WrittenPositionIs ==
    ASSUME PaperInv, NEW t \in Task, task[t].pc = "commit", NEW q \in Signal
    PROVE  PositionWritten(t, q, Paper!WrittenPosition(t, q))
<1> DEFINE p   == task[t]
           old == p.base.position
           new == p.draft.position
           now == position[q]
<1>1. PaperTypes /\ NothingHeld /\ DraftsFine /\ p \in TaskRow /\ p.pc = "commit"
  BY DEF PaperInv, PaperTypes
<1>2. old \in PositionRow /\ new \in PositionRow /\ now \in PositionRow
  BY <1>1 DEF TaskRow, TradeRow, PaperTypes
<1>3. CASE p.sig # q
  <2>1. PositionWritten(t, q, now)
    BY <1>1, <1>2 DEF NothingHeld, PositionWritten
  <2> QED BY <1>3, <2>1 DEF Paper!WrittenPosition
<1>4. CASE p.sig = q
  <2> DEFINE R == [status |-> Paper!Column(old.status, new.status, now.status),
                   open   |-> Paper!Column(old.open, new.open, now.open),
                   pnl    |-> Paper!Column(old.pnl, new.pnl, now.pnl),
                   opened |-> Paper!Column(old.opened, new.opened, now.opened)]
  <2>1. Paper!WrittenPosition(t, q) = R
    BY <1>4 DEF Paper!WrittenPosition
  <2>2. R \in PositionRow
    BY <1>2 DEF Paper!Column, PositionRow
  <2>3. Unentered(q) => now = Paper!NoPosition /\ old = now /\ new = now
    BY <1>1, <1>4 DEF NothingHeld, CarriesNothing, Ends
  <2>4. Unentered(q) => R = Paper!NoPosition
    BY <2>3 DEF Paper!Column, Paper!NoPosition
  <2>5. new.status = "CLOSED" => p.draft.closed \/ old.status = "CLOSED"
    BY <1>1 DEF DraftsFine, DraftFine, Ends
  <2>6. R.status = "CLOSED" => now.status = "CLOSED" \/ p.draft.closed
    BY <2>5 DEF Paper!Column
  <2> HIDE DEF R
  <2> QED BY <1>4, <2>1, <2>2, <2>4, <2>6 DEF PositionWritten
<1> QED BY <1>3, <1>4

\* An entry that was queued stays so, and none is queued by a pass.
LEMMA KeptIs ==
    ASSUME PaperInv, NEW t \in Task, task[t].pc = "commit", NEW q \in Signal
    PROVE  /\ \A r \in Role : Paper!Kept(t, q, r) \in OrderRow
           /\ Paper!Kept(t, q, "ENTRY").status = "none" <=> Unentered(q)
<1> DEFINE p == task[t]
<1>1. PaperTypes /\ NothingHeld /\ DraftsFine /\ p \in TaskRow /\ p.pc = "commit"
  BY DEF PaperInv, PaperTypes
<1>2. CASE p.sig # q
  <2>1. \A r \in Role : Paper!Kept(t, q, r) = order[q][r]
    BY <1>2 DEF Paper!Kept
  <2> QED BY <1>1, <2>1, Roles DEF PaperTypes, Unentered
<1>3. CASE p.sig = q
  <2>1. ASSUME NEW r \in Role
        PROVE  LET old == p.base.order[r]  new == p.draft.order[r]  now == order[q][r] IN
               /\ Paper!Kept(t, q, r) \in OrderRow
               /\ Paper!Kept(t, q, r).status = Paper!Column(old.status, new.status, now.status)
    <3> DEFINE old == p.base.order[r]
               new == p.draft.order[r]
               now == order[q][r]
               R   == [status   |-> Paper!Column(old.status, new.status, now.status),
                       quantity |-> Paper!Column(old.quantity, new.quantity, now.quantity),
                       filled   |-> Paper!Column(old.filled, new.filled, now.filled),
                       after    |-> Paper!Column(old.after, new.after, now.after)]
    <3>1. Paper!Kept(t, q, r) = R
      BY <1>3 DEF Paper!Kept
    <3>2. p.base \in TradeRow /\ p.draft \in TradeRow /\ order[q] \in [Role -> OrderRow]
      BY <1>1 DEF TaskRow, PaperTypes
    <3>3. old \in OrderRow /\ new \in OrderRow /\ now \in OrderRow
      BY <3>2 DEF TradeRow
    <3>4. R \in OrderRow
      BY <3>3 DEF Paper!Column, OrderRow
    <3> QED BY <3>1, <3>4
  <2>2. p.draft.order["ENTRY"] # p.base.order["ENTRY"] => p.draft.order["ENTRY"].status # "none"
    BY <1>1 DEF DraftsFine, DraftFine, Ends
  <2>3. Unentered(q) => p.draft.order["ENTRY"].status = "none"
    BY <1>1, <1>3 DEF NothingHeld, CarriesNothing, Ends
  <2>4. Paper!Kept(t, q, "ENTRY").status
          = Paper!Column(p.base.order["ENTRY"].status, p.draft.order["ENTRY"].status, order[q]["ENTRY"].status)
    BY <2>1, Roles
  <2>5. Paper!Kept(t, q, "ENTRY").status = "none" <=> Unentered(q)
    BY <2>2, <2>3, <2>4 DEF Paper!Column, Unentered
  <2> QED BY <2>1, <2>5
<1> QED BY <1>2, <1>3

LEMMA WrittenIs ==
    ASSUME PaperInv, NEW t \in Task, task[t].pc = "commit", NEW q \in Signal
    PROVE  /\ Paper!Written(t, q) \in [Role -> OrderRow]
           /\ Paper!Written(t, q)["ENTRY"].status = "none" <=> Unentered(q)
<1> DEFINE p      == task[t]
           off(r) == [Paper!Kept(t, q, r) EXCEPT !.status = "CANCELLED"]
           out    == Paper!NewOrder(p.flat[q], Paper!WrittenPosition(t, q).opened)
<1>1. PaperTypes /\ NothingHeld /\ p \in TaskRow
  BY DEF PaperInv, PaperTypes
<1>2. Paper!Written(t, q) = [r \in Role |-> IF <<q, r>> \in p.cancel THEN off(r)
                                           ELSE IF r = "HALT" /\ p.flat[q] > 0 THEN out
                                           ELSE Paper!Kept(t, q, r)]
  BY DEF Paper!Written, Role
<1>3. p.flat[q] \in Int /\ Paper!WrittenPosition(t, q).opened \in Int
  BY <1>1, WrittenPositionIs DEF TaskRow, PositionWritten, PositionRow
<1>4. out \in OrderRow
  BY <1>3, NewOrderIs
<1>5. \A r \in Role : off(r) \in OrderRow /\ off(r).status = "CANCELLED"
  BY KeptIs DEF OrderRow, OrderStatus
<1>6. Unentered(q) => <<q, "ENTRY">> \notin p.cancel
  BY <1>1 DEF NothingHeld, CarriesNothing
<1> HIDE DEF off, out
<1> QED BY <1>2, <1>4, <1>5, <1>6, KeptIs, Roles

LEMMA CommitStep ==
    ASSUME PaperInv, NEW t \in Task, Paper!Commit(t)
    PROVE  PaperInv'
<1> DEFINE p  == task[t]
           s  == p.sig
           at == IF p.draft.closed THEN "settle" ELSE "next"
           w  == [Paper!Idle EXCEPT !.pc = at, !.sig = s, !.k = p.k]
<1>1. /\ PaperTypes /\ OneReserves /\ Paper!PaperBudget
      /\ NothingHeld /\ OneEnters /\ DraftsFine /\ Paper!SlotReturned
      /\ p \in TaskRow /\ p.pc = "commit" /\ s \in Signal
      /\ task' = [task EXCEPT ![t] = w]
      /\ order' = [q \in Signal |-> Paper!Written(t, q)]
      /\ position' = [q \in Signal |-> Paper!WrittenPosition(t, q)]
      /\ halted' = (halted \/ p.halting)
      /\ UNCHANGED <<candle, reservation, signalled, faults>>
  BY DEF PaperInv, PaperTypes, Paper!Commit
<1>2. p.k \in Int /\ p.halting \in BOOLEAN
  BY <1>1 DEF TaskRow
<1>3. at \in {"settle", "next"} /\ (p.draft.closed => at = "settle")
  OBVIOUS
<1> HIDE DEF at
<1>4. w \in TaskRow /\ w.pc = at /\ w.sig = s /\ w.cancel = {}
  BY <1>1, <1>2, <1>3, IdleIs DEF TaskRow, Places
<1> HIDE DEF w
<1>5. task'[t] = w /\ \A u \in Task \ {t} : task'[u] = task[u]
  BY <1>1 DEF PaperTypes
<1>6. /\ order' \in [Signal -> [Role -> OrderRow]]
      /\ \A q \in Signal : order'[q]["ENTRY"].status = "none" <=> Unentered(q)
  BY <1>1, WrittenIs
<1>7. \A q \in Signal :
        /\ position'[q] \in PositionRow
        /\ Unentered(q) => position'[q] = Paper!NoPosition
        /\ position'[q].status = "CLOSED" => position[q].status = "CLOSED" \/ (s = q /\ p.draft.closed)
  BY <1>1, WrittenPositionIs DEF PositionWritten
<1>8. PaperTypes'
  BY <1>1, <1>2, <1>3, <1>4, <1>5, <1>6, <1>7 DEF PaperTypes
<1>9. \A q : Paper!Reserved(q)' = Paper!Reserved(q)
  BY <1>1 DEF Paper!Reserved
<1>10. Paper!PaperBudget' /\ OneReserves'
  <2>1. \A u \in Task : task'[u].pc = "reserved" => u # t /\ task'[u] = task[u]
    BY <1>3, <1>4, <1>5
  <2> QED BY <1>1, <1>9, <2>1 DEF Paper!PaperBudget, OneReserves
<1>11. NothingHeld'
  <2>1. \A q \in Signal : CarriesNothing(w, q)
    BY <1>3, <1>4 DEF CarriesNothing, Ends
  <2>2. ASSUME NEW q \in Signal, order'[q]["ENTRY"].status = "none"
        PROVE  position'[q] = Paper!NoPosition /\ \A u \in Task : CarriesNothing(task'[u], q)
    BY <1>1, <1>5, <1>6, <1>7, <2>1, <2>2 DEF NothingHeld
  <2> QED BY <2>2 DEF NothingHeld, Unentered
<1>12. OneEnters'
  <2>1. \A u \in Task : Enters(task'[u]) => u # t /\ task'[u] = task[u]
    BY <1>3, <1>4, <1>5 DEF Enters
  <2>2. \A q \in Signal \ signalled' : order'[q]["ENTRY"].status = "none"
    BY <1>1, <1>6 DEF OneEnters
  <2>3. \A u \in Task : Enters(task'[u]) =>
          task'[u].sig \in signalled' /\ order'[task'[u].sig]["ENTRY"].status = "none"
    BY <1>1, <1>6, <2>1 DEF OneEnters, PaperTypes, Enters
  <2>4. \A u, v \in Task : Enters(task'[u]) /\ Enters(task'[v]) /\ task'[u].sig = task'[v].sig => u = v
    BY <1>1, <2>1 DEF OneEnters
  <2> QED BY <2>2, <2>3, <2>4 DEF OneEnters, Unentered
<1>13. DraftsFine'
  <2>1. DraftFine(w)
    BY <1>3, <1>4 DEF DraftFine, Ends
  <2> QED BY <1>1, <1>5, <1>7, <2>1 DEF DraftsFine
<1>14. Paper!SlotReturned'
  <2>1. ASSUME NEW q \in Signal, position'[q].status = "CLOSED", reservation'[q] = "ACTIVE", faults' = 0
        PROVE  \E u \in Task : task'[u].pc = "settle" /\ task'[u].sig = q
    <3>1. CASE s = q /\ p.draft.closed
      BY <1>3, <1>4, <1>5, <3>1
    <3>2. CASE position[q].status = "CLOSED"
      <4>1. PICK u \in Task : task[u].pc = "settle" /\ task[u].sig = q
        BY <1>1, <2>1, <3>2 DEF Paper!SlotReturned
      <4> QED BY <1>1, <1>5, <4>1
    <3> QED BY <1>7, <2>1, <3>1, <3>2
  <2> QED BY <2>1 DEF Paper!SlotReturned
<1> QED BY <1>8, <1>10, <1>11, <1>12, <1>13, <1>14 DEF PaperInv

-----------------------------------------------------------------------------
(* The paper ledger: what holds of every behaviour.                         *)

LEMMA PaperInit ==
    ASSUME Paper!Init, IsFiniteSet(Signal), Qty \in Nat, MaxOpen \in Nat \ {0}, Budget \in Nat \ {0}
    PROVE  PaperInv
<1> DEFINE entry == Paper!NewOrder(Qty, 0)
<1>1. /\ candle = [s \in Signal |-> 0]
      /\ signalled = {} \/ \E s \in Signal : signalled = {s}
      /\ order = [s \in Signal |-> [r \in Role |->
                    IF s \in signalled /\ r = "ENTRY" THEN entry ELSE Paper!NoOrder]]
      /\ position = [s \in Signal |-> Paper!NoPosition]
      /\ reservation = [s \in Signal |-> IF s \in signalled THEN "ACTIVE" ELSE "none"]
      /\ halted = FALSE
      /\ task = [t \in Task |-> Paper!Idle]
      /\ faults = 0
  BY DEF Paper!Init, Role
<1>2. signalled \subseteq Signal /\ halted \in BOOLEAN
  BY <1>1
<1>3. /\ entry \in OrderRow /\ entry.status = "PENDING"
      /\ Paper!NoOrder \in OrderRow /\ Paper!NoOrder.status = "none"
  BY NewOrderIs, EmptyRows
<1> HIDE DEF entry
<1>4. PaperTypes
  <2>1. /\ Paper!NoPosition \in PositionRow
        /\ Paper!Idle \in TaskRow /\ Paper!Idle.pc = "idle"
    BY EmptyRows, IdleIs
  <2>2. /\ candle \in [Signal -> Int]
        /\ order \in [Signal -> [Role -> OrderRow]]
        /\ reservation \in [Signal -> {"none", "ACTIVE", "SETTLED", "REJECTED"}]
    BY <1>1, <1>3
  <2>3. position \in [Signal -> PositionRow] /\ task \in [Task -> TaskRow] /\ faults \in Nat
    BY <1>1, <2>1
  <2>4. \A t \in Task : task[t].pc # "idle" => task[t].sig \in Signal
    BY <1>1, <2>1
  <2> QED BY <1>2, <2>2, <2>3, <2>4 DEF PaperTypes
<1>5. \A t \in Task : task[t].pc = "idle" /\ task[t].cancel = {}
  BY <1>1, IdleIs
<1>6. OneReserves
  BY <1>5 DEF OneReserves
<1>7. Paper!PaperBudget
  <2>1. ASSUME NEW S, "none" \notin S PROVE Cardinality(Paper!Reserved(S)) \in {0, 1}
    <3>1. Paper!Reserved(S) \subseteq signalled
      BY <1>1, <2>1 DEF Paper!Reserved
    <3>2. signalled = {} \/ \E s : signalled = {s}
      BY <1>1
    <3>3. IsFiniteSet(signalled) /\ Cardinality(signalled) \in {0, 1}
      <4>1. CASE signalled = {}
        BY <4>1, FS_EmptySet
      <4>2. CASE \E s : signalled = {s}
        <5>1. PICK s : signalled = {s}
          BY <4>2
        <5>2. IsFiniteSet({s}) /\ Cardinality({s}) = 1
          BY FS_Singleton
        <5> QED BY <5>1, <5>2
      <4> QED BY <3>2, <4>1, <4>2
    <3> QED BY <3>1, <3>3, FS_Subset, FS_CardinalityType
  <2>2. /\ Cardinality(Paper!Reserved({"ACTIVE", "SETTLED"})) \in {0, 1}
        /\ Cardinality(Paper!Reserved({"ACTIVE"})) \in {0, 1}
    BY <2>1
  <2> QED BY <2>2, SameCardinality DEF Paper!PaperBudget
<1>8. NothingHeld
  BY <1>1, <1>5 DEF NothingHeld, CarriesNothing, Ends
<1>9. OneEnters
  <2>1. \A s \in Signal \ signalled : Unentered(s)
    BY <1>1, <1>3, Roles DEF Unentered
  <2> QED BY <1>5, <2>1 DEF OneEnters, Enters
<1>10. DraftsFine
  BY <1>5 DEF DraftsFine, DraftFine, Ends
<1>11. Paper!SlotReturned
  BY <1>1, EmptyRows DEF Paper!SlotReturned
<1> QED BY <1>4, <1>6, <1>7, <1>8, <1>9, <1>10, <1>11 DEF PaperInv

LEMMA PaperNext ==
    ASSUME PaperInv, Paper!Next, IsFiniteSet(Signal), Qty \in Nat, MaxOpen \in Nat, Budget \in Nat
    PROVE  PaperInv'
<1>1. PICK t \in Task : Paper!Step(t) \/ Paper!Fail(t) \/ \E s \in Signal : Paper!Complete(t, s)
  BY DEF Paper!Next
<1>2. CASE Paper!Query(t)          BY <1>2, QueryStep
<1>3. CASE Paper!Lock(t)           BY <1>3, LockStep
<1>4. CASE Paper!Fill(t)           BY <1>4, FillStep
<1>5. CASE Paper!Update(t) \/ Paper!Halt(t)
  BY <1>5, UpdateStep, HaltStep
<1>6. CASE Paper!HaltIsThere(t)    BY <1>6, HaltIsThereStep
<1>7. CASE Paper!Commit(t)         BY <1>7, CommitStep
<1>8. CASE Paper!SettleSignal(t)   BY <1>8, SettleStep
<1>9. CASE Paper!Evaluate(t)       BY <1>9, EvaluateStep
<1>10. CASE Paper!ReserveRead(t)   BY <1>10, ReserveReadStep
<1>11. CASE Paper!ReserveCommit(t) BY <1>11, ReserveCommitStep
<1>12. CASE Paper!Queue(t)         BY <1>12, QueueStep
<1>13. CASE Paper!Collide(t) \/ Paper!Fail(t)
  BY <1>13, UndoStep
<1>14. CASE \E s \in Signal : Paper!Complete(t, s)
  BY <1>14, CompleteStep
<1> QED
  BY <1>1, <1>2, <1>3, <1>4, <1>5, <1>6, <1>7, <1>8, <1>9, <1>10, <1>11, <1>12, <1>13, <1>14
     DEF Paper!Step

\* PaperInv holds in every state of a day kept on paper.
THEOREM PaperInvariant == Spec => [](OnPaper => PaperInv)
<1>1. /\ IsFiniteSet(Signal) /\ Qty \in Nat
      /\ MaxOpen \in Nat \ {0} /\ Budget \in Nat \ {0} /\ MaxOpen \in Nat /\ Budget \in Nat
  BY LedgersAssumption
<1>2. Init => (OnPaper => PaperInv)
  BY <1>1, PaperInit DEF Init, OnPaper, PaperUnused
<1>3. (OnPaper => PaperInv) /\ [Next]_<<paper, live, figures>> => (OnPaper => PaperInv)'
  <2>1. CASE OnPaper /\ Paper!Next
    <3> SUFFICES ASSUME OnPaper => PaperInv PROVE (OnPaper => PaperInv)'
      BY DEF Next
    <3> QED BY <1>1, <2>1, PaperNext
  <2>2. CASE UNCHANGED paper
    BY <2>2 DEF paper, OnPaper, PaperInv, PaperTypes, OneReserves, NothingHeld, OneEnters, DraftsFine,
                Unentered, Paper!PaperBudget, Paper!SlotReturned, Paper!Reserved
  <2> QED BY <2>1, <2>2 DEF Next
<1> QED BY <1>2, <1>3, PTL DEF Spec

\* However many coroutines reserve at once, what is reserved stays within the day's allocation
\* and the open reservations within the operator's limit (risk_engine.py:32).
THEOREM PaperBudget_Holds == Spec => []PaperBudget
<1>1. (OnPaper => PaperInv) => PaperBudget
  BY DEF PaperInv, PaperBudget
<1> QED BY <1>1, PaperInvariant, PTL

\* The slot of a closed position is free or a coroutine is about to free it, while none has
\* been cut off (risk_engine.py:151).
THEOREM SlotReturned_Holds == Spec => []SlotReturned
<1>1. (OnPaper => PaperInv) => SlotReturned
  BY DEF PaperInv, SlotReturned
<1> QED BY <1>1, PaperInvariant, PTL

-----------------------------------------------------------------------------
(* The broker's figures: their shape and the inductive invariant.           *)

DaysOn == Days!Days
Who    == Days!Who
Charge == {"none", "cost"}
Phase  == {"idle", "look", "open", "rows", "one", "charges"}
FigureRow   == [day : DaysOn, realised : BOOLEAN, charges : Charge]
SnapshotRow == [began : Nat, realised : BOOLEAN, charges : Charge]
PassRow     == [at : Phase, days : SUBSET DaysOn, waiting : SUBSET DaysOn, done : SUBSET DaysOn,
                rows : SUBSET DaysOn, left : SUBSET DaysOn, written : SUBSET FigureRow,
                began : Nat, due : SUBSET DaysOn, force : BOOLEAN]

DaysTypes ==
    /\ today \in DaysOn
    /\ sent \in [DaysOn -> {"none", "unknown", "placed"}]
    /\ report \in [DaysOn -> [rows : BOOLEAN, charges : BOOLEAN]]
    /\ newest \in [DaysOn -> SnapshotRow]
    /\ pass \in [Who -> PassRow]
    /\ begun \in Nat /\ caught \subseteq DaysOn

\* A transaction's number is the time it began, and what it will append is of its own days.
Fetching(p) == p.at \in {"rows", "one", "charges"}
Appends(p, d) == \E f \in p.written : f.day = d
Numbered(p) ==
    /\ p.began <= begun
    /\ \A d \in DaysOn : Appends(p, d) => Fetching(p) /\ d \in p.days
    /\ p.at = "one" => p.done = {}
    /\ p.at = "charges" => p.left \subseteq p.days

\* A pass that will append a snapshot of d without charges.
Doubts(p, d) == \E f \in p.written : f.day = d /\ f.charges = "none"
Undoubted(d) == \A w \in Who : ~Doubts(pass[w], d)

\* A day that the morning job answers for, before it has decided whether to ask.
Looked(p, d) ==
    /\ d \in p.days /\ sent[d] = "placed" /\ Undoubted(d)
    /\ d \in p.waiting \/ newest[d] = Days!Missing \/ newest[d].charges = "cost"

\* A day that a pass over the broker answers for: whoever doubts it began earlier, and it is
\* settled and in nobody's hands, or the pass has it before it or has fetched it.
Assured(p, d) ==
    /\ \A w \in Who : Doubts(pass[w], d) => pass[w].began < p.began
    /\ newest[d].began >= p.began => newest[d].charges = "cost"
    /\ d \in p.done => newest[d].charges = "cost" /\ Undoubted(d)
    /\ d \notin p.done /\ p.at = "rows" => d \in p.days
    /\ p.at = "one" => d \in p.days
    /\ d \notin p.done /\ p.at = "charges" => d \in p.left \/ Appends(p, d)

Answers(p) ==
    \A d \in p.due : /\ report[d].rows /\ report[d].charges
                     /\ p.at = "look" => Looked(p, d)
                     /\ Fetching(p) => Assured(p, d)

\* A day answered for: its newest snapshot has its charges and began after any that doubts it.
Settled(d) ==
    /\ report[d].charges /\ newest[d].charges = "cost"
    /\ \A w \in Who : Doubts(pass[w], d) => pass[w].began < newest[d].began

DaysInv ==
    /\ DaysTypes
    /\ \A d \in DaysOn : newest[d].began <= begun
    /\ \A w \in Who : Numbered(pass[w]) /\ Answers(pass[w])
    /\ \A d \in caught : Settled(d)

-----------------------------------------------------------------------------
(* The broker's figures: lemmas about the operators.                        *)

LEMMA DaysAre == /\ DaysOn = 1..LastDay /\ 1 \in DaysOn
                 /\ \A d \in DaysOn : d \in Nat
BY LedgersAssumption DEF DaysOn, Days!Days

\* The earliest of the days still to fetch is one of them.
LEMMA EarliestIs ==
    ASSUME NEW D \in SUBSET DaysOn, D # {}
    PROVE  Days!Min(D) \in D
<1> DEFINE R == OpToRel(<, Nat)
<1>1. D \subseteq Nat
  BY DaysAre
<1>2. IsWellFoundedOn(R, Nat)
  BY NatLessThanWellFounded
<1>3. \A i, j \in Nat : i < j => <<i, j>> \in R
  BY DEF OpToRel
<1> HIDE DEF R
<1>4. PICK i \in D : \A j \in D : ~(<<j, i>> \in R)
  BY <1>1, <1>2, WFMin
<1>5. ASSUME NEW j \in D PROVE i <= j
  <2>1. i \in Nat /\ j \in Nat /\ <<j, i>> \notin R
    BY <1>1, <1>4
  <2>2. ~(j < i)
    BY <1>3, <2>1, Zenon
  <2> QED BY <2>1, <2>2
<1> QED BY <1>5 DEF Days!Min

LEMMA IdlePass ==
    /\ Days!Idle \in PassRow
    /\ Days!Idle.at = "idle" /\ Days!Idle.days = {} /\ Days!Idle.due = {}
    /\ Days!Idle.written = {} /\ Days!Idle.began = 0 /\ Days!Idle.done = {}
<1> DEFINE none == {}
           no   == FALSE
           p    == [at |-> "idle", days |-> none, waiting |-> none, done |-> none, rows |-> none,
                    left |-> none, written |-> none, began |-> 0, due |-> none, force |-> no]
<1>1. Days!Idle = p
  BY DEF Days!Idle
<1>2. none \in SUBSET DaysOn /\ none \in SUBSET FigureRow /\ no \in BOOLEAN
  OBVIOUS
<1>3. none = {}
  OBVIOUS
<1> HIDE DEF none, no
<1>4. p \in PassRow
  BY <1>2 DEF PassRow, Phase
<1>5. p.at = "idle" /\ p.days = none /\ p.due = none /\ p.written = none /\ p.began = 0 /\ p.done = none
  OBVIOUS
<1> QED BY <1>1, <1>3, <1>4, <1>5

\* What is asked about lies in the past days, and a day another is fetching is his.
LEMMA RangesAre ==
    ASSUME DaysTypes
    PROVE  /\ Days!Upto(today) \subseteq DaysOn
           /\ \A d \in DaysOn : d <= today => d..today \subseteq DaysOn
           /\ \A d \in DaysOn : d..today \subseteq DaysOn
           /\ \A w, v \in Who, d \in DaysOn : d \notin Days!Others(w) /\ v # w => d \notin pass[v].days
<1>1. today \in 1..LastDay /\ LastDay \in Nat
  BY LedgersAssumption DEF DaysTypes, DaysOn, Days!Days
<1>2. Days!Upto(today) \subseteq DaysOn
  BY DEF Days!Upto, DaysOn
<1>3. \A d \in DaysOn : d..today \subseteq DaysOn
  BY <1>1 DEF DaysOn, Days!Days
<1>4. \A w, v \in Who, d \in DaysOn : d \notin Days!Others(w) /\ v # w => d \notin pass[v].days
  BY DEF Days!Others, Who
<1> QED BY <1>2, <1>3, <1>4

\* The clock, the day's orders and the broker's report move on: nothing known is lost.
LEMMA WorldStep ==
    ASSUME DaysInv, UNCHANGED <<newest, pass, begun, caught>>,
           today' \in DaysOn,
           sent' \in [DaysOn -> {"none", "unknown", "placed"}],
           report' \in [DaysOn -> [rows : BOOLEAN, charges : BOOLEAN]],
           \A d \in DaysOn : /\ sent[d] = "placed" => sent'[d] = "placed"
                             /\ report[d].rows => report'[d].rows
                             /\ report[d].charges => report'[d].charges
    PROVE  DaysInv'
<1>1. DaysTypes'
  BY DEF DaysInv, DaysTypes
<1>2. ASSUME NEW w \in Who PROVE Numbered(pass[w])' /\ Answers(pass[w])'
  <2>1. Numbered(pass[w]) /\ Answers(pass[w]) /\ pass[w] \in PassRow
    BY DEF DaysInv, DaysTypes
  <2>2. pass[w].due \subseteq DaysOn
    BY <2>1 DEF PassRow
  <2>3. Numbered(pass[w])'
    BY <2>1 DEF Numbered, Appends, Fetching
  <2>4. ASSUME NEW d \in pass[w].due
        PROVE  /\ report'[d].rows /\ report'[d].charges
               /\ pass[w].at = "look" => Looked(pass[w], d)'
               /\ Fetching(pass[w]) => Assured(pass[w], d)'
    <3>1. /\ report[d].rows /\ report[d].charges /\ d \in DaysOn
          /\ pass[w].at = "look" => Looked(pass[w], d)
          /\ Fetching(pass[w]) => Assured(pass[w], d)
      BY <2>1, <2>2 DEF Answers
    <3>2. Looked(pass[w], d) => Looked(pass[w], d)'
      BY <3>1 DEF Looked, Undoubted, Doubts, Days!Missing
    <3>3. Assured(pass[w], d) => Assured(pass[w], d)'
      BY DEF Assured, Undoubted, Doubts, Appends
    <3> QED BY <3>1, <3>2, <3>3
  <2> QED BY <2>3, <2>4 DEF Answers, Fetching
<1>3. \A d \in caught : d \in DaysOn /\ Settled(d)
  BY DEF DaysInv, DaysTypes
<1>4. \A d \in caught' : Settled(d)'
  BY <1>3 DEF Settled, Doubts
<1>5. \A d \in DaysOn : newest'[d].began <= begun'
  BY DEF DaysInv
<1> QED BY <1>1, <1>2, <1>4, <1>5 DEF DaysInv, DaysOn, Who

\* A pass takes a step of its own: it begins, asks, is answered or ends.
StepFine(p, q) ==
    /\ q \in PassRow
    /\ \A d \in DaysOn : Doubts(q, d) /\ report[d].charges => Doubts(p, d) /\ q.began = p.began
    /\ Answers(q)
    /\ \A d \in DaysOn : Appends(q, d) => Fetching(q) /\ d \in q.days
    /\ q.at = "one" => q.done = {}
    /\ q.at = "charges" => q.left \subseteq q.days

LEMMA PassStep ==
    ASSUME DaysInv, NEW w \in Who, NEW q, StepFine(pass[w], q), q.began <= begun',
           pass' = [pass EXCEPT ![w] = q], begun' \in Nat, begun' >= begun,
           today' \in DaysOn, UNCHANGED <<sent, report, newest>>,
           caught' \subseteq DaysOn, \A d \in caught' : Settled(d)
    PROVE  DaysInv'
<1>1. /\ DaysTypes /\ q \in PassRow /\ Answers(q)
      /\ pass'[w] = q /\ \A v \in Who \ {w} : pass'[v] = pass[v]
      /\ \A v \in Who : pass[v] \in PassRow /\ Numbered(pass[v]) /\ Answers(pass[v])
  BY DEF DaysInv, DaysTypes, StepFine
<1>2. DaysTypes'
  BY <1>1 DEF DaysTypes
<1>3. ASSUME NEW d \in DaysOn, report[d].charges, NEW v \in Who, Doubts(pass'[v], d)
      PROVE  Doubts(pass[v], d) /\ pass'[v].began = pass[v].began
  BY <1>1, <1>3 DEF StepFine
<1>4. \A d \in DaysOn : report[d].charges /\ Undoubted(d) => Undoubted(d)'
  <2> SUFFICES ASSUME NEW d \in DaysOn, report[d].charges, Undoubted(d), NEW v \in Who
               PROVE  ~Doubts(pass'[v], d)
    BY DEF Undoubted, Doubts, Who
  <2> QED BY <1>3 DEF Undoubted
<1>5. ASSUME NEW p \in PassRow, Answers(p) PROVE Answers(p)'
  <2> SUFFICES ASSUME NEW d \in p.due
               PROVE  /\ report'[d].rows /\ report'[d].charges
                      /\ p.at = "look" => Looked(p, d)'
                      /\ Fetching(p) => Assured(p, d)'
    BY DEF Answers, Fetching
  <2>1. /\ d \in DaysOn /\ report[d].rows /\ report[d].charges
        /\ p.at = "look" => Looked(p, d)
        /\ Fetching(p) => Assured(p, d)
    BY <1>5 DEF Answers, PassRow
  <2>2. Looked(p, d) => Looked(p, d)'
    BY <1>4, <2>1 DEF Looked, Days!Missing
  <2>3. Assured(p, d) => Assured(p, d)'
    <3>1. (\A v \in Who : Doubts(pass[v], d) => pass[v].began < p.began)
            => \A v \in Who : Doubts(pass'[v], d) => pass'[v].began < p.began
      BY <1>3, <2>1
    <3>2. Undoubted(d) => Undoubted(d)'
      BY <1>4, <2>1
    <3> QED BY <3>1, <3>2 DEF Assured, Appends, Doubts, Who
  <2> QED BY <2>1, <2>2, <2>3
<1>6. ASSUME NEW v \in Who PROVE Numbered(pass[v])' /\ Answers(pass[v])'
  <2>1. CASE v = w
    <3>1. Answers(q)'
      BY <1>1, <1>5
    <3>2. Numbered(pass[v])'
      BY <1>1, <2>1 DEF Numbered, StepFine, Fetching, Appends
    <3>3. Answers(pass[v])'
      BY <1>1, <2>1, <3>1 DEF Answers, Fetching, Appends, Looked, Assured, Undoubted, Doubts
    <3> QED BY <3>2, <3>3
  <2>2. CASE v # w
    <3>1. pass'[v] = pass[v] /\ pass[v] \in PassRow /\ Answers(pass[v]) /\ Numbered(pass[v])
      BY <1>1, <2>2
    <3>2. begun \in Nat /\ pass[v].began \in Nat
      BY <1>1, <3>1 DEF DaysTypes, PassRow
    <3>3. Numbered(pass[v])'
      BY <3>1, <3>2 DEF Numbered, Fetching, Appends
    <3>4. Answers(pass[v])'
      BY <1>5, <3>1 DEF Answers, Fetching, Appends, Looked, Assured, Undoubted, Doubts
    <3> QED BY <3>3, <3>4
  <2> QED BY <2>1, <2>2
<1>7. ASSUME NEW d \in caught' PROVE Settled(d)'
  <2>1. d \in DaysOn /\ report[d].charges /\ newest[d].charges = "cost"
        /\ \A v \in Who : Doubts(pass[v], d) => pass[v].began < newest[d].began
    BY DEF Settled
  <2>2. \A v \in Who : Doubts(pass'[v], d) => pass'[v].began < newest[d].began
    BY <1>3, <2>1
  <2> QED BY <2>1, <2>2 DEF Settled, Doubts, Who
<1>8. ASSUME NEW d \in DaysOn PROVE newest'[d].began <= begun'
  <2>1. newest[d].began \in Nat /\ newest[d].began <= begun /\ begun \in Nat
    BY <1>1 DEF DaysInv, DaysTypes, SnapshotRow
  <2> QED BY <2>1
<1> QED BY <1>2, <1>6, <1>7, <1>8 DEF DaysInv, DaysOn, Who

-----------------------------------------------------------------------------
(* The broker's figures: one lemma per action.                              *)

\* What DaysInv says of one pass.
LEMMA PassIs ==
    ASSUME DaysInv, NEW w \in Who
    PROVE  /\ DaysTypes /\ pass[w] \in PassRow /\ Numbered(pass[w]) /\ Answers(pass[w])
           /\ \A d \in caught : Settled(d)
           /\ caught \subseteq DaysOn /\ begun \in Nat /\ today \in DaysOn
           /\ pass[w].began \in Nat /\ pass[w].began <= begun
BY DEF DaysInv, DaysTypes, Numbered, PassRow

\* A pass that has appended nothing and is not over the broker yet.
LEMMA QuietStep ==
    ASSUME DaysInv, NEW w \in Who, NEW q, q \in PassRow, q.written = {}, q.began <= begun,
           q.at \in {"idle", "look", "open"},
           \A d \in q.due : /\ report[d].rows /\ report[d].charges
                            /\ q.at = "look" => Looked(q, d),
           pass' = [pass EXCEPT ![w] = q], UNCHANGED <<sent, report, newest, begun, today>>,
           caught' \subseteq DaysOn, \A d \in caught' : Settled(d)
    PROVE  DaysInv'
<1>1. StepFine(pass[w], q)
  BY DEF StepFine, Doubts, Answers, Appends, Fetching
<1>2. begun' \in Nat /\ begun' >= begun /\ q.began <= begun' /\ today' \in DaysOn
  BY PassIs
<1> QED BY <1>1, <1>2, PassStep

LEMMA RefusedStep ==
    ASSUME DaysInv, NEW w \in Who, Days!Refused(w)
    PROVE  DaysInv'
<1>1. /\ pass' = [pass EXCEPT ![w] = Days!Idle]
      /\ UNCHANGED <<today, sent, report, newest, begun, caught>>
  BY DEF Days!Refused, Days!clock, Days!world
<1>2. /\ caught' \subseteq DaysOn /\ \A d \in caught' : Settled(d)
      /\ begun \in Nat /\ 0 <= begun
  BY <1>1, PassIs
<1> DEFINE q == Days!Idle
<1>3. q \in PassRow /\ q.at = "idle" /\ q.due = {} /\ q.written = {} /\ q.began = 0
  BY IdlePass
<1> HIDE DEF q
<1>4. \A d \in q.due : report[d].rows /\ report[d].charges /\ (q.at = "look" => Looked(q, d))
  BY <1>3
<1>5. pass' = [pass EXCEPT ![w] = q]
  BY <1>1 DEF q
<1> QED BY <1>1, <1>2, <1>3, <1>4, <1>5, QuietStep

LEMMA EveningStep ==
    ASSUME DaysInv, Days!Evening
    PROVE  DaysInv'
<1> DEFINE D == {today}
           q == [Days!Idle EXCEPT !.at = "open", !.days = D]
<1>1. /\ pass' = [pass EXCEPT ![Job] = q] /\ Job \in Who
      /\ UNCHANGED <<today, sent, report, newest, begun, caught>>
  BY DEF Days!Evening, Days!world, Who, Days!Who
<1>2. D \in SUBSET DaysOn /\ begun \in Nat
  BY <1>1, PassIs
<1> HIDE DEF D
<1>3. q \in PassRow /\ q.at = "open" /\ q.written = {} /\ q.due = {} /\ q.began = 0
  BY <1>2, IdlePass DEF PassRow, Phase
<1> HIDE DEF q
<1>4. \A d \in q.due : report[d].rows /\ report[d].charges /\ (q.at = "look" => Looked(q, d))
  BY <1>3
<1>5. /\ caught' \subseteq DaysOn /\ \A d \in caught' : Settled(d)
      /\ 0 <= begun
  BY <1>1, PassIs
<1> QED BY <1>1, <1>3, <1>4, <1>5, QuietStep

LEMMA BackfillStep ==
    ASSUME DaysInv, NEW from \in DaysOn, NEW force \in BOOLEAN, Days!Backfill(from, force)
    PROVE  DaysInv'
<1> DEFINE D == from..today
           q == [Days!Idle EXCEPT !.at = "open", !.days = D, !.force = force]
<1>1. /\ pass' = [pass EXCEPT ![Operator] = q] /\ Operator \in Who
      /\ UNCHANGED <<today, sent, report, newest, begun, caught>>
  BY DEF Days!Backfill, Days!clock, Days!world, Who, Days!Who
<1>2. D \in SUBSET DaysOn /\ begun \in Nat
  BY <1>1, PassIs, RangesAre
<1> HIDE DEF D
<1>3. q \in PassRow /\ q.at = "open" /\ q.written = {} /\ q.due = {} /\ q.began = 0
  BY <1>2, IdlePass DEF PassRow, Phase
<1> HIDE DEF q
<1>4. \A d \in q.due : report[d].rows /\ report[d].charges /\ (q.at = "look" => Looked(q, d))
  BY <1>3
<1>5. /\ caught' \subseteq DaysOn /\ \A d \in caught' : Settled(d)
      /\ 0 <= begun
  BY <1>1, PassIs
<1> QED BY <1>1, <1>3, <1>4, <1>5, QuietStep

\* A day that nobody else has in hand is doubted by nobody: a pass that appends has it in hand.
LEMMA NobodyDoubts ==
    ASSUME DaysInv, NEW w \in Who, NEW d \in DaysOn, d \notin Days!Others(w), ~Fetching(pass[w])
    PROVE  Undoubted(d)
<1> SUFFICES ASSUME NEW v \in Who, Doubts(pass[v], d) PROVE FALSE
  BY DEF Undoubted
<1>1. Appends(pass[v], d) /\ Numbered(pass[v]) /\ DaysTypes
  BY PassIs DEF Doubts, Appends
<1>2. Fetching(pass[v]) /\ d \in pass[v].days
  BY <1>1 DEF Numbered
<1> QED BY <1>1, <1>2, RangesAre

LEMMA CatchUpStep ==
    ASSUME DaysInv, Days!CatchUp
    PROVE  DaysInv'
<1> DEFINE window  == Days!Upto(today)
           waiting == Days!DatesAwaiting(window)
           due     == {d \in window \cap Days!Published : sent[d] = "placed"} \ Days!Others(Job)
           q       == [Days!Idle EXCEPT !.at = "look", !.days = window, !.waiting = waiting, !.due = due]
<1>1. /\ pass' = [pass EXCEPT ![Job] = q] /\ Job \in Who /\ pass[Job] = Days!Idle
      /\ UNCHANGED <<today, sent, report, newest, begun, caught>>
  BY DEF Days!CatchUp, Days!world, Who, Days!Who
<1>2. window \in SUBSET DaysOn /\ waiting \in SUBSET DaysOn /\ due \in SUBSET DaysOn /\ begun \in Nat
  BY <1>1, PassIs, RangesAre DEF Days!DatesAwaiting
<1>3. ASSUME NEW d \in due
      PROVE  /\ report[d].rows /\ report[d].charges /\ d \in window /\ sent[d] = "placed"
             /\ Undoubted(d)
             /\ d \in waiting \/ newest[d] = Days!Missing \/ newest[d].charges = "cost"
  <2>1. d \in DaysOn /\ d \in Days!Published /\ d \notin Days!Others(Job) /\ d \in window /\ sent[d] = "placed"
    BY <1>2
  <2>2. report[d].rows /\ report[d].charges
    BY <2>1 DEF Days!Published
  <2>3. Undoubted(d)
    BY <1>1, <2>1, IdlePass, NobodyDoubts DEF Fetching
  <2>4. newest[d].charges \in Charge
    BY <1>1, <2>1, PassIs DEF DaysTypes, SnapshotRow
  <2>5. d \in waiting \/ newest[d] = Days!Missing \/ newest[d].charges = "cost"
    BY <2>1, <2>4 DEF Days!DatesAwaiting, Days!Held, Charge, DaysOn
  <2> QED BY <2>1, <2>2, <2>3, <2>5
<1> HIDE DEF window, waiting, due
<1>4. /\ q \in PassRow /\ q.at = "look" /\ q.written = {} /\ q.due = due /\ q.began = 0
      /\ q.days = window /\ q.waiting = waiting
  BY <1>2, IdlePass DEF PassRow, Phase
<1> HIDE DEF q
<1>5. \A d \in q.due : report[d].rows /\ report[d].charges /\ (q.at = "look" => Looked(q, d))
  BY <1>3, <1>4 DEF Looked
<1>6. /\ caught' \subseteq DaysOn /\ \A d \in caught' : Settled(d)
      /\ 0 <= begun
  BY <1>1, PassIs
<1> QED BY <1>1, <1>4, <1>5, <1>6, QuietStep

\* What the morning job finds with nothing outstanding has its charges already.
LEMMA LookStep ==
    ASSUME DaysInv, Days!Look
    PROVE  DaysInv'
<1> DEFINE p       == pass[Job]
           waiting == p.waiting \cup Days!DatesMissing(p.days)
           none    == {}
           q       == [p EXCEPT !.at = "open", !.waiting = none]
<1>1. Job \in Who
  BY DEF Who, Days!Who
<1>2. /\ p \in PassRow /\ Numbered(p) /\ Answers(p) /\ p.at = "look" /\ p.due \subseteq DaysOn
      /\ UNCHANGED <<today, sent, report, newest, begun>>
      /\ \A d \in caught : Settled(d)
      /\ caught \subseteq DaysOn /\ begun \in Nat /\ p.began <= begun
  BY <1>1, PassIs DEF Days!Look, Days!clock, Days!world, PassRow
<1>3. p.written = {}
  <2>1. \A f \in p.written : f.day \in DaysOn
    BY <1>2 DEF PassRow, FigureRow
  <2> QED BY <1>2, <2>1 DEF Numbered, Appends, Fetching
<1>4. \A d \in p.due : report[d].rows /\ report[d].charges /\ Looked(p, d)
  BY <1>2 DEF Answers
<1>5. CASE waiting = {}
  <2>1. caught' = caught \cup p.due /\ pass' = [pass EXCEPT ![Job] = Days!Idle]
    BY <1>5 DEF Days!Look
  <2>2. ASSUME NEW d \in p.due PROVE Settled(d)
    <3>1. d \notin p.waiting /\ d \notin Days!DatesMissing(p.days) /\ d \in DaysOn
      BY <1>2, <1>5
    <3>2. newest[d] # Days!Missing
      BY <1>4, <3>1 DEF Looked, Days!DatesMissing, Days!Held, DaysOn
    <3>3. newest[d].charges = "cost" /\ Undoubted(d)
      BY <1>4, <3>1, <3>2 DEF Looked
    <3> QED BY <1>4, <3>3 DEF Settled, Undoubted
  <2>3. caught' \subseteq DaysOn /\ (\A d \in caught' : Settled(d)) /\ 0 <= begun
    BY <1>2, <2>1, <2>2
  <2> DEFINE i == Days!Idle
  <2>4. i \in PassRow /\ i.at = "idle" /\ i.due = {} /\ i.written = {} /\ i.began = 0
    BY IdlePass
  <2> HIDE DEF i
  <2>5. \A d \in i.due : report[d].rows /\ report[d].charges /\ (i.at = "look" => Looked(i, d))
    BY <2>4
  <2>6. pass' = [pass EXCEPT ![Job] = i]
    BY <2>1 DEF i
  <2> QED BY <1>1, <1>2, <2>3, <2>4, <2>5, <2>6, QuietStep
<1>6. CASE waiting # {}
  <2>1. pass' = [pass EXCEPT ![Job].at = "open", ![Job].waiting = {}] /\ caught' = caught
    BY <1>6 DEF Days!Look
  <2>2. pass' = [pass EXCEPT ![Job] = q]
    BY <1>1, <1>2, <2>1, PassIs DEF DaysTypes
  <2>3. none \in SUBSET DaysOn
    OBVIOUS
  <2> HIDE DEF none
  <2>4. /\ q \in PassRow /\ q.at = "open" /\ q.written = p.written /\ q.began = p.began /\ q.due = p.due
    BY <1>2, <2>3 DEF PassRow, Phase
  <2> HIDE DEF q
  <2>5. \A d \in q.due : report[d].rows /\ report[d].charges /\ (q.at = "look" => Looked(q, d))
    BY <1>4, <2>4
  <2>6. caught' \subseteq DaysOn /\ \A d \in caught' : Settled(d)
    BY <1>2, <2>1
  <2>7. q.written = {} /\ q.began <= begun
    BY <1>2, <1>3, <2>4
  <2> HIDE DEF p
  <2>8. DaysInv'
    BY <1>1, <1>2, <2>2, <2>4, <2>5, <2>6, <2>7, QuietStep
  <2> QED BY <2>8
<1> QED BY <1>5, <1>6

\* A transaction begins later than whatever is kept or is under way.
LEMMA FreshIsLater ==
    ASSUME DaysInv, NEW d \in DaysOn
    PROVE  /\ newest[d].began < begun + 1
           /\ \A w \in Who : pass[w].began < begun + 1
<1>1. begun \in Nat /\ newest[d].began \in Nat /\ newest[d].began <= begun
  BY DEF DaysInv, DaysTypes, SnapshotRow
<1>2. \A w \in Who : pass[w].began \in Nat /\ pass[w].began <= begun
  BY PassIs
<1> QED BY <1>1, <1>2

LEMMA FetchDayStep ==
    ASSUME DaysInv, NEW d \in DaysOn, Days!FetchDay(d)
    PROVE  DaysInv'
<1> DEFINE D   == {d}
           due == {d} \cap Days!Published
           n   == begun + 1
           q   == [Days!Idle EXCEPT !.at = "one", !.days = D, !.began = n, !.due = due]
<1>1. /\ pass' = [pass EXCEPT ![Operator] = q] /\ Operator \in Who /\ begun' = n
      /\ UNCHANGED <<today, sent, report, newest, caught>>
  BY DEF Days!FetchDay, Days!clock, Days!world, Who, Days!Who
<1>2. /\ begun \in Nat /\ today \in DaysOn /\ caught \subseteq DaysOn
      /\ (\A e \in caught : Settled(e)) /\ (\A w \in Who : pass[w].began < n)
      /\ \A e \in DaysOn : newest[e].began < n /\ newest[e].began \in Nat
  BY <1>1, PassIs, FreshIsLater DEF DaysTypes, SnapshotRow
<1>3. D \in SUBSET DaysOn /\ due \in SUBSET DaysOn /\ n \in Nat /\ begun' >= begun
  BY <1>1, <1>2
<1>4. \A e \in due : e \in D /\ report[e].rows /\ report[e].charges
  BY DEF Days!Published
<1> HIDE DEF D, due, n
<1>5. /\ q \in PassRow /\ q.at = "one" /\ q.written = {} /\ q.due = due /\ q.began = n
      /\ q.days = D /\ q.done = {}
  BY <1>3, IdlePass DEF PassRow, Phase
<1> HIDE DEF q
<1>6. Answers(q)
  <2> SUFFICES ASSUME NEW e \in due PROVE Assured(q, e)
    BY <1>4, <1>5 DEF Answers
  <2>1. e \in DaysOn /\ e \in D
    BY <1>3, <1>4
  <2>2. ~(newest[e].began >= n)
    BY <1>2, <1>3, <2>1
  <2> QED BY <1>2, <1>5, <2>1, <2>2 DEF Assured
<1>7. StepFine(pass[Operator], q)
  BY <1>5, <1>6 DEF StepFine, Doubts, Appends
<1>8. /\ begun' \in Nat /\ q.began <= begun' /\ today' \in DaysOn
      /\ caught' \subseteq DaysOn /\ \A e \in caught' : Settled(e)
  BY <1>1, <1>2, <1>3, <1>5
<1> QED BY <1>1, <1>3, <1>7, <1>8, PassStep

LEMMA OpenStep ==
    ASSUME DaysInv, NEW w \in Who, Days!Open(w)
    PROVE  DaysInv'
<1> DEFINE p    == pass[w]
           done == IF p.force THEN {} ELSE Days!SettledDates(p.days)
           due  == (p.days \cap Days!Published) \ (done \cap Days!Others(w))
           n    == begun + 1
           q    == [p EXCEPT !.at = "rows", !.began = n, !.done = done, !.due = due]
<1>1. /\ pass' = [pass EXCEPT ![w] = q] /\ begun' = n /\ p.at = "open"
      /\ UNCHANGED <<today, sent, report, newest, caught>>
  BY DEF Days!Open, Days!clock, Days!world
<1>2. /\ begun \in Nat /\ today \in DaysOn /\ caught \subseteq DaysOn
      /\ p \in PassRow /\ Numbered(p) /\ p.days \in SUBSET DaysOn
      /\ (\A e \in caught : Settled(e)) /\ (\A v \in Who : pass[v].began < n)
      /\ \A e \in DaysOn : newest[e].began < n /\ newest[e].began \in Nat /\ newest[e].charges \in Charge
  BY <1>1, PassIs, FreshIsLater DEF DaysTypes, SnapshotRow, PassRow
<1>3. p.written = {}
  <2>1. \A f \in p.written : f.day \in DaysOn
    BY <1>2 DEF PassRow, FigureRow
  <2> QED BY <1>1, <1>2, <2>1 DEF Numbered, Appends, Fetching
<1>4. /\ done \in SUBSET DaysOn /\ due \in SUBSET DaysOn /\ n \in Nat /\ begun' >= begun
      /\ \A e \in done : newest[e].charges = "cost"
  BY <1>1, <1>2 DEF Days!SettledDates, Charge
<1>5. \A e \in due : /\ e \in p.days /\ report[e].rows /\ report[e].charges
                     /\ e \in done => Undoubted(e)
  <2> SUFFICES ASSUME NEW e \in due
               PROVE  /\ e \in p.days /\ report[e].rows /\ report[e].charges
                      /\ e \in done => Undoubted(e)
    OBVIOUS
  <2>1. e \in p.days /\ e \in Days!Published /\ e \in DaysOn
    BY <1>4
  <2>2. e \in done => e \notin Days!Others(w)
    BY <1>4
  <2>3. e \in done => Undoubted(e)
    BY <1>1, <2>1, <2>2, NobodyDoubts DEF Fetching
  <2> QED BY <2>1, <2>3 DEF Days!Published
<1> HIDE DEF done, due, n
<1>6. /\ q \in PassRow /\ q.at = "rows" /\ q.written = p.written /\ q.due = due /\ q.began = n
      /\ q.days = p.days /\ q.done = done
  BY <1>2, <1>4 DEF PassRow, Phase
<1> HIDE DEF q
<1>7. Answers(q)
  <2> SUFFICES ASSUME NEW e \in due PROVE Assured(q, e)
    BY <1>5, <1>6 DEF Answers
  <2>1. e \in DaysOn
    BY <1>4
  <2>2. ~(newest[e].began >= n)
    BY <1>2, <1>4, <2>1
  <2> QED BY <1>2, <1>4, <1>5, <1>6, <2>1, <2>2 DEF Assured
<1>8. StepFine(p, q)
  BY <1>3, <1>6, <1>7 DEF StepFine, Doubts, Appends
<1>9. /\ begun' \in Nat /\ q.began <= begun' /\ today' \in DaysOn
      /\ caught' \subseteq DaysOn /\ \A e \in caught' : Settled(e)
  BY <1>1, <1>2, <1>4, <1>6
<1> QED BY <1>1, <1>4, <1>8, <1>9, PassStep

\* A published day is among the rows, and is left to fetch unless it was settled.
LEMMA FetchRowsStep ==
    ASSUME DaysInv, NEW w \in Who, Days!FetchRows(w)
    PROVE  DaysInv'
<1> DEFINE p    == pass[w]
           rows == Days!RowsOf(p.days)
           left == IF p.at = "one" THEN p.days ELSE rows \ p.done
           q    == [p EXCEPT !.at = "charges", !.rows = rows, !.left = left]
<1>1. /\ pass' = [pass EXCEPT ![w] = q] /\ p.at \in {"rows", "one"}
      /\ UNCHANGED <<today, sent, report, newest, caught, begun>>
  BY DEF Days!FetchRows, Days!clock, Days!world
<1>2. /\ begun \in Nat /\ today \in DaysOn /\ caught \subseteq DaysOn
      /\ p \in PassRow /\ Numbered(p) /\ Answers(p) /\ p.days \in SUBSET DaysOn
      /\ p.began \in Nat /\ p.began <= begun
      /\ \A e \in caught : Settled(e)
  BY <1>1, PassIs DEF PassRow
<1>3. rows \in SUBSET DaysOn /\ left \in SUBSET DaysOn /\ left \subseteq p.days
  BY <1>2 DEF Days!RowsOf
<1>4. ASSUME NEW e \in p.due PROVE e \in p.done \/ e \in left
  BY <1>1, <1>2 DEF Answers, Fetching, Assured, Days!RowsOf
<1> HIDE DEF rows, left
<1>5. /\ q \in PassRow /\ q.at = "charges" /\ q.written = p.written /\ q.due = p.due
      /\ q.began = p.began /\ q.days = p.days /\ q.done = p.done /\ q.left = left
  BY <1>2, <1>3 DEF PassRow, Phase
<1> HIDE DEF q
<1>6. Answers(q)
  <2> SUFFICES ASSUME NEW e \in p.due
               PROVE  report[e].rows /\ report[e].charges /\ Assured(q, e)
    BY <1>5 DEF Answers
  <2>1. report[e].rows /\ report[e].charges /\ Assured(p, e)
    BY <1>1, <1>2 DEF Answers, Fetching
  <2> QED BY <1>4, <1>5, <2>1 DEF Assured
<1>7. StepFine(p, q)
  <2>1. \A e \in DaysOn : Appends(q, e) => Fetching(q) /\ e \in q.days
    BY <1>2, <1>5 DEF Numbered, Appends, Fetching
  <2>2. \A e \in DaysOn : Doubts(q, e) => Doubts(p, e)
    BY <1>5 DEF Doubts
  <2> QED BY <1>3, <1>5, <1>6, <2>1, <2>2 DEF StepFine
<1> QED
  <2>1. /\ begun' \in Nat /\ begun' >= begun /\ q.began <= begun' /\ today' \in DaysOn
        /\ caught' \subseteq DaysOn /\ \A e \in caught' : Settled(e)
    BY <1>1, <1>2, <1>5
  <2> QED BY <1>1, <1>7, <2>1, PassStep

\* Only a day that the broker has not settled is fetched without charges.
LEMMA FetchChargesStep ==
    ASSUME DaysInv, NEW w \in Who, Days!FetchCharges(w)
    PROVE  DaysInv'
<1> DEFINE p       == pass[w]
           d       == Days!Min(p.left)
           has     == d \in p.rows
           charges == Days!SettledCharges(Days!TotalOf(d))
           f       == [day |-> d, realised |-> has, charges |-> charges]
           left    == p.left \ {d}
           written == p.written \cup {f}
           q       == [p EXCEPT !.left = left, !.written = written]
<1>1. /\ p.at = "charges" /\ p.left # {}
      /\ pass' = [pass EXCEPT ![w].left = @ \ {d}, ![w].written = @ \cup {f}]
      /\ UNCHANGED <<today, sent, report, newest, caught, begun>>
  BY DEF Days!FetchCharges, Days!clock, Days!world
<1>2. /\ begun \in Nat /\ today \in DaysOn /\ caught \subseteq DaysOn /\ DaysTypes
      /\ p \in PassRow /\ Numbered(p) /\ Answers(p) /\ p.left \in SUBSET DaysOn
      /\ p.began \in Nat /\ p.began <= begun /\ p.written \in SUBSET FigureRow
      /\ \A e \in caught : Settled(e)
  BY <1>1, PassIs DEF PassRow
<1>3. pass' = [pass EXCEPT ![w] = q]
  BY <1>1, <1>2 DEF DaysTypes
<1>4. d \in p.left /\ d \in DaysOn
  BY <1>1, <1>2, EarliestIs
<1>5. charges \in Charge /\ (report[d].charges => charges = "cost")
  <2>1. report[d].charges \in BOOLEAN
    BY <1>2, <1>4 DEF DaysTypes
  <2> QED BY <2>1 DEF Charge, Days!SettledCharges, Days!TotalOf
<1>6. has \in BOOLEAN
  OBVIOUS
<1> HIDE DEF d, has, charges
<1>7. f \in FigureRow /\ f.day = d /\ f.charges = charges
  BY <1>4, <1>5, <1>6 DEF FigureRow
<1> HIDE DEF f
<1>8. left \in SUBSET DaysOn /\ written \in SUBSET FigureRow
  BY <1>2, <1>7
<1>9. \A e \in DaysOn : /\ e \in p.left => e \in left \/ e = d
                        /\ \E g \in written : g.day = d
                        /\ Doubts(p, e) => \E g \in written : g.day = e /\ g.charges = "none"
                        /\ Appends(p, e) => \E g \in written : g.day = e
                        /\ (\E g \in written : g.day = e /\ g.charges = "none") /\ report[e].charges => Doubts(p, e)
                        /\ (\E g \in written : g.day = e) => Appends(p, e) \/ e = d
  BY <1>5, <1>7 DEF Doubts, Appends
<1>10. d \in p.days /\ left \subseteq p.days
  BY <1>1, <1>2, <1>4 DEF Numbered
<1> HIDE DEF left, written
<1>11. /\ q \in PassRow /\ q.at = "charges" /\ q.written = written /\ q.due = p.due
       /\ q.began = p.began /\ q.days = p.days /\ q.done = p.done /\ q.left = left
  BY <1>1, <1>2, <1>8 DEF PassRow
<1> HIDE DEF q
<1>12. Answers(q)
  <2> SUFFICES ASSUME NEW e \in p.due
               PROVE  report[e].rows /\ report[e].charges /\ Assured(q, e)
    BY <1>11 DEF Answers
  <2>1. report[e].rows /\ report[e].charges /\ Assured(p, e) /\ e \in DaysOn
    BY <1>1, <1>2 DEF Answers, Fetching, PassRow
  <2>2. e \notin p.done => e \in q.left \/ Appends(q, e)
    <3>1. e \notin p.done => e \in p.left \/ Appends(p, e)
      BY <1>1, <2>1 DEF Assured
    <3>2. Appends(q, e) <=> \E g \in written : g.day = e
      BY <1>11 DEF Appends
    <3> QED BY <1>9, <1>11, <2>1, <3>1, <3>2
  <2> QED BY <1>11, <2>1, <2>2 DEF Assured
<1>13. StepFine(p, q)
  <2>1. \A e \in DaysOn : Appends(q, e) => Fetching(q) /\ e \in q.days
    <3> SUFFICES ASSUME NEW e \in DaysOn, Appends(q, e) PROVE Fetching(q) /\ e \in q.days
      OBVIOUS
    <3>1. Appends(p, e) \/ e = d
      BY <1>9, <1>11 DEF Appends
    <3>2. Appends(p, e) => e \in p.days
      BY <1>2 DEF Numbered
    <3> QED BY <1>10, <1>11, <3>1, <3>2 DEF Fetching
  <2>2. \A e \in DaysOn : Doubts(q, e) /\ report[e].charges => Doubts(p, e)
    BY <1>9, <1>11 DEF Doubts
  <2> QED BY <1>10, <1>11, <1>12, <2>1, <2>2 DEF StepFine
<1> QED
  <2>1. /\ begun' \in Nat /\ begun' >= begun /\ q.began <= begun' /\ today' \in DaysOn
        /\ caught' \subseteq DaysOn /\ \A e \in caught' : Settled(e)
    BY <1>1, <1>2, <1>11
  <2> QED BY <1>1, <1>3, <1>13, <2>1, PassStep

\* Of a day's snapshots the one kept is the one whose transaction began last.
LEMMA NewestIs ==
    ASSUME DaysInv, NEW w \in Who, Days!Commit(w), NEW d \in DaysOn
    PROVE  /\ newest'[d] \in SnapshotRow
           /\ newest[d].began <= newest'[d].began
           /\ Appends(pass[w], d) => newest'[d].began >= pass[w].began
           /\ \/ newest'[d] = newest[d]
              \/ \E f \in pass[w].written : /\ f.day = d /\ newest'[d].charges = f.charges
                                            /\ newest'[d].began = pass[w].began
<1> DEFINE p    == pass[w]
           mine == {f \in p.written : f.day = d}
           f    == CHOOSE g \in mine : TRUE
           new  == [began |-> p.began, realised |-> f.realised, charges |-> f.charges]
<1>1. /\ p \in PassRow /\ p.written \in SUBSET FigureRow /\ p.began \in Nat
      /\ newest[d] \in SnapshotRow /\ newest[d].began \in Nat
  BY PassIs DEF PassRow, DaysTypes, SnapshotRow
<1>2. newest'[d] = IF mine = {} THEN newest[d] ELSE Days!Newer(newest[d], f, p.began)
  BY DEF Days!Commit, DaysOn
<1>3. CASE mine = {}
  <2>1. ~Appends(p, d)
    BY <1>3 DEF Appends
  <2> QED BY <1>1, <1>2, <1>3, <2>1
<1>4. CASE mine # {}
  <2>1. f \in mine
    BY <1>4
  <2> HIDE DEF f
  <2>2. f \in p.written /\ f.day = d /\ f \in FigureRow
    BY <1>1, <2>1
  <2>3. newest'[d] = IF newest[d].began > p.began THEN newest[d] ELSE new
    BY <1>2, <1>4 DEF Days!Newer
  <2>4. new \in SnapshotRow /\ new.began = p.began /\ new.charges = f.charges
    BY <1>1, <2>2 DEF SnapshotRow, FigureRow
  <2> HIDE DEF new
  <2> QED BY <1>1, <2>2, <2>3, <2>4
<1> QED BY <1>3, <1>4

LEMMA CommitDaysStep ==
    ASSUME DaysInv, NEW w \in Who, Days!Commit(w)
    PROVE  DaysInv'
<1> DEFINE p == pass[w]
<1>1. /\ pass' = [pass EXCEPT ![w] = Days!Idle] /\ p.at = "charges" /\ p.left = {}
      /\ caught' = caught \cup p.due
      /\ UNCHANGED <<today, sent, report, begun>>
      /\ newest' \in [DaysOn -> {newest'[d] : d \in DaysOn}]
  BY DEF Days!Commit, Days!clock, Days!world, DaysOn
<1>2. /\ DaysTypes /\ p \in PassRow /\ Answers(p) /\ p.due \subseteq DaysOn
      /\ p.began \in Nat /\ p.began <= begun /\ begun \in Nat
      /\ (\A d \in caught : Settled(d)) /\ caught \subseteq DaysOn
      /\ \A d \in DaysOn : newest[d].began \in Nat /\ newest[d].charges \in Charge /\ newest[d].began <= begun
  BY PassIs DEF PassRow, DaysTypes, SnapshotRow, DaysInv
<1>3. /\ pass'[w] = Days!Idle /\ \A v \in Who \ {w} : pass'[v] = pass[v]
      /\ \A v \in Who : pass[v] \in PassRow /\ pass[v].began \in Nat /\ Numbered(pass[v]) /\ Answers(pass[v])
  BY <1>1, <1>2, PassIs DEF DaysTypes
<1>4. DaysTypes'
  <2>1. newest' \in [DaysOn -> SnapshotRow]
    BY <1>1, NewestIs
  <2>2. pass' \in [Who -> PassRow]
    BY <1>1, <1>2, IdlePass DEF DaysTypes
  <2> QED BY <1>1, <1>2, <2>1, <2>2 DEF DaysTypes
<1>5. ASSUME NEW d, NEW v \in Who, Doubts(pass'[v], d)
      PROVE  v # w /\ Doubts(pass[v], d) /\ pass'[v] = pass[v]
  <2>1. ~Doubts(Days!Idle, d)
    BY IdlePass DEF Doubts
  <2> QED BY <1>3, <1>5, <2>1
<1>6. \A d : Undoubted(d) => Undoubted(d)'
  <2> SUFFICES ASSUME NEW d, Undoubted(d), NEW v \in Who PROVE ~Doubts(pass'[v], d)
    BY DEF Undoubted, Doubts, Who
  <2> QED BY <1>5 DEF Undoubted
\* A snapshot that replaces another has its charges, or its pass is one that doubts the day.
<1>7. ASSUME NEW d \in DaysOn
      PROVE  /\ newest'[d].began \in Nat /\ newest'[d].charges \in Charge
             /\ newest[d].began <= newest'[d].began /\ newest'[d].began <= begun
             /\ Appends(p, d) => newest'[d].began >= p.began
             /\ \/ newest'[d] = newest[d]
                \/ newest'[d].charges = "cost" /\ newest'[d].began = p.began
                \/ Doubts(p, d) /\ newest'[d].began = p.began
  <2>1. newest'[d].began \in Nat /\ newest'[d].charges \in Charge
    BY NewestIs DEF SnapshotRow
  <2> QED BY <1>2, <2>1, NewestIs DEF Doubts, Charge
<1>8. ASSUME NEW v \in Who PROVE Numbered(pass[v])' /\ Answers(pass[v])'
  <2>1. CASE v = w
    BY <1>2, <1>3, <1>1, <2>1, IdlePass DEF Numbered, Answers, Appends
  <2>2. CASE v # w
    <3> DEFINE q == pass[v]
    <3>1. pass'[v] = q /\ q \in PassRow /\ q.began \in Nat /\ Numbered(q) /\ Answers(q)
      BY <1>3, <2>2
    <3>2. Numbered(pass[v])'
      BY <1>1, <3>1 DEF Numbered, Fetching, Appends
    <3>3. ASSUME NEW d \in q.due
          PROVE  /\ report[d].rows /\ report[d].charges
                 /\ q.at = "look" => Looked(pass[v], d)'
                 /\ Fetching(q) => Assured(pass[v], d)'
      <4>1. /\ d \in DaysOn /\ report[d].rows /\ report[d].charges
            /\ q.at = "look" => Looked(q, d)
            /\ Fetching(q) => Assured(q, d)
        BY <3>1 DEF Answers, PassRow
      <4>2. Undoubted(d) => ~Doubts(p, d)
        BY DEF Undoubted
      <4>3. Looked(q, d) => Looked(pass[v], d)'
        BY <1>1, <1>6, <1>7, <3>1, <4>1, <4>2 DEF Looked, Days!Missing
      <4>4. Assured(q, d) => Assured(pass[v], d)'
        <5> SUFFICES ASSUME Assured(q, d) PROVE Assured(pass[v], d)'
          OBVIOUS
        <5>1. ASSUME NEW u \in Who, Doubts(pass'[u], d) PROVE pass'[u].began < q.began
          BY <1>5, <5>1 DEF Assured
        <5>2. newest'[d].began >= q.began => newest'[d].charges = "cost"
          <6>1. Doubts(p, d) => p.began < q.began
            BY DEF Assured
          <6> QED BY <1>2, <1>7, <3>1, <4>1, <6>1 DEF Assured
        <5>3. d \in q.done => newest'[d].charges = "cost" /\ Undoubted(d)'
          BY <1>6, <1>7, <4>1, <4>2 DEF Assured
        <5> QED BY <3>1, <5>1, <5>2, <5>3 DEF Assured, Appends, Doubts, Who
      <4> QED BY <4>1, <4>3, <4>4
    <3> HIDE DEF q
    <3> QED BY <1>1, <3>1, <3>2, <3>3 DEF Answers, Fetching
  <2> QED BY <2>1, <2>2
\* Answered for before, or by this pass.
<1>9. ASSUME NEW d \in caught' PROVE Settled(d)'
  <2> SUFFICES /\ report[d].charges /\ newest'[d].charges = "cost"
               /\ \A v \in Who : Doubts(pass'[v], d) => pass'[v].began < newest'[d].began
    BY <1>1 DEF Settled, Doubts, Who
  <2>1. d \in DaysOn
    BY <1>1, <1>2
  <2>2. CASE d \in caught
    <3>1. /\ report[d].charges /\ newest[d].charges = "cost"
          /\ \A v \in Who : Doubts(pass[v], d) => pass[v].began < newest[d].began
      BY <1>2, <2>2 DEF Settled
    <3>2. newest'[d].charges = "cost"
      BY <1>2, <1>7, <2>1, <3>1
    <3>3. ASSUME NEW v \in Who, Doubts(pass'[v], d) PROVE pass'[v].began < newest'[d].began
      BY <1>2, <1>3, <1>5, <1>7, <2>1, <3>1, <3>3
    <3> QED BY <3>1, <3>2, <3>3
  <2>3. CASE d \in p.due
    <3>1. report[d].charges /\ Assured(p, d)
      BY <1>1, <1>2, <2>3 DEF Answers, Fetching
    <3>2. ~Doubts(p, d)
      BY <1>2, <3>1 DEF Assured
    <3>3. CASE d \in p.done
      BY <1>5, <1>7, <2>1, <3>1, <3>2, <3>3 DEF Assured, Undoubted
    <3>4. CASE d \notin p.done
      <4>1. newest'[d].began >= p.began
        BY <1>1, <1>7, <2>1, <3>1, <3>4 DEF Assured
      <4>2. newest'[d].charges = "cost"
        BY <1>7, <2>1, <3>1, <3>2, <4>1 DEF Assured
      <4>3. ASSUME NEW v \in Who, Doubts(pass'[v], d) PROVE pass'[v].began < newest'[d].began
        <5>1. pass'[v] = pass[v] /\ pass[v].began < p.began
          BY <1>5, <3>1, <4>3 DEF Assured
        <5> QED BY <1>2, <1>3, <1>7, <2>1, <4>1, <5>1
      <4> QED BY <3>1, <4>2, <4>3
    <3> QED BY <3>3, <3>4
  <2> QED BY <1>1, <2>2, <2>3
<1> QED BY <1>1, <1>4, <1>7, <1>8, <1>9 DEF DaysInv, DaysOn, Who

LEMMA TickStep ==
    ASSUME DaysInv, Days!Tick
    PROVE  DaysInv'
<1>1. UNCHANGED <<newest, pass, begun, caught, sent, report>>
  BY DEF Days!Tick, Days!world
<1>2. today' \in DaysOn
  BY LedgersAssumption DEF Days!Tick, DaysInv, DaysTypes, DaysOn, Days!Days
<1>3. DaysTypes
  BY DEF DaysInv
<1> QED BY <1>1, <1>2, <1>3, WorldStep DEF DaysTypes

LEMMA TradeStep ==
    ASSUME DaysInv, Days!Trade
    PROVE  DaysInv'
<1>1. PICK status \in {"unknown", "placed"} : sent' = [sent EXCEPT ![today] = status]
  BY DEF Days!Trade
<1>2. /\ UNCHANGED <<today, newest, pass, begun, caught, report>> /\ sent[today] = "none"
      /\ DaysTypes
  BY DEF Days!Trade, Days!clock, DaysInv
<1>3. /\ sent' \in [DaysOn -> {"none", "unknown", "placed"}]
      /\ \A d \in DaysOn : sent[d] = "placed" => sent'[d] = "placed"
  BY <1>1, <1>2 DEF DaysTypes
<1> QED BY <1>2, <1>3, WorldStep DEF DaysTypes

LEMMA FoundPlacedStep ==
    ASSUME DaysInv, NEW e \in DaysOn, Days!FoundPlaced(e)
    PROVE  DaysInv'
<1>1. /\ UNCHANGED <<today, newest, pass, begun, caught, report>>
      /\ sent' = [sent EXCEPT ![e] = "placed"] /\ DaysTypes
  BY DEF Days!FoundPlaced, Days!clock, DaysInv
<1>2. /\ sent' \in [DaysOn -> {"none", "unknown", "placed"}]
      /\ \A d \in DaysOn : sent[d] = "placed" => sent'[d] = "placed"
  BY <1>1 DEF DaysTypes
<1> QED BY <1>1, <1>2, WorldStep DEF DaysTypes

LEMMA PublishStep ==
    ASSUME DaysInv, NEW e \in DaysOn, NEW figure \in {"rows", "charges"}, Days!Publish(e, figure)
    PROVE  DaysInv'
<1> DEFINE yes == TRUE
           new == [report[e] EXCEPT ![figure] = yes]
<1>1. /\ UNCHANGED <<today, newest, pass, begun, caught, sent>>
      /\ report' = [report EXCEPT ![e][figure] = TRUE] /\ DaysTypes
  BY DEF Days!Publish, Days!clock, DaysInv
<1>2. report[e] \in [rows : BOOLEAN, charges : BOOLEAN]
  BY <1>1 DEF DaysTypes
<1>3. report' = [report EXCEPT ![e] = new]
  BY <1>1 DEF DaysTypes
<1>4. yes \in BOOLEAN /\ yes
  OBVIOUS
<1> HIDE DEF yes
<1>5. /\ new \in [rows : BOOLEAN, charges : BOOLEAN]
      /\ report[e].rows => new.rows
      /\ report[e].charges => new.charges
  BY <1>2, <1>4
<1> HIDE DEF new
<1>6. /\ report' \in [DaysOn -> [rows : BOOLEAN, charges : BOOLEAN]]
      /\ \A d \in DaysOn : /\ report[d].rows => report'[d].rows
                           /\ report[d].charges => report'[d].charges
  <2>1. report \in [DaysOn -> [rows : BOOLEAN, charges : BOOLEAN]]
    BY <1>1 DEF DaysTypes
  <2>2. report'[e] = new /\ \A d \in DaysOn \ {e} : report'[d] = report[d]
    BY <1>3, <2>1
  <2>3. report' \in [DaysOn -> [rows : BOOLEAN, charges : BOOLEAN]]
    BY <1>3, <1>5, <2>1
  <2>4. ASSUME NEW d \in DaysOn
        PROVE  /\ report[d].rows => report'[d].rows
               /\ report[d].charges => report'[d].charges
    BY <1>5, <2>2, Zenon
  <2> QED BY <2>3, <2>4
<1> QED BY <1>1, <1>6, WorldStep DEF DaysTypes

-----------------------------------------------------------------------------
(* The broker's figures: what holds of every behaviour.                     *)

LEMMA DaysInit ==
    ASSUME Days!Init
    PROVE  DaysInv
<1> DEFINE no   == FALSE
           none == [rows |-> no, charges |-> no]
           nil  == Days!Missing
<1>1. /\ today = 1 /\ sent = [d \in DaysOn |-> "none"] /\ report = [d \in DaysOn |-> none]
      /\ newest = [d \in DaysOn |-> nil] /\ pass = [w \in Who |-> Days!Idle]
      /\ begun = 0 /\ caught = {}
  BY DEF Days!Init, DaysOn, Who
<1>2. no \in BOOLEAN
  OBVIOUS
<1>3. nil \in SnapshotRow /\ nil.began = 0
  <2> DEFINE R == [began |-> 0, realised |-> no, charges |-> "none"]
  <2>1. nil = R
    BY DEF Days!Missing
  <2> HIDE DEF no
  <2>2. R \in SnapshotRow /\ R.began = 0
    BY <1>2 DEF SnapshotRow, Charge
  <2> QED BY <2>1, <2>2
<1> HIDE DEF no
<1>4. none \in [rows : BOOLEAN, charges : BOOLEAN]
  BY <1>2
<1> HIDE DEF none, nil
<1>5. DaysTypes
  BY <1>1, <1>3, <1>4, DaysAre, IdlePass DEF DaysTypes
<1>6. \A w \in Who : Numbered(pass[w]) /\ Answers(pass[w])
  BY <1>1, IdlePass DEF Numbered, Answers, Appends
<1> QED BY <1>1, <1>3, <1>5, <1>6 DEF DaysInv

LEMMA DaysNext ==
    ASSUME DaysInv, Days!Next
    PROVE  DaysInv'
<1>1. CASE Days!Tick    BY <1>1, TickStep
<1>2. CASE Days!Trade   BY <1>2, TradeStep
<1>3. CASE Days!CatchUp BY <1>3, CatchUpStep
<1>4. CASE Days!Look    BY <1>4, LookStep
<1>5. CASE Days!Evening BY <1>5, EveningStep
<1>6. ASSUME NEW d \in DaysOn, Days!FoundPlaced(d)
      PROVE  DaysInv'
  BY <1>6, FoundPlacedStep
<1>7. ASSUME NEW d \in DaysOn, Days!FetchDay(d)
      PROVE  DaysInv'
  BY <1>7, FetchDayStep
<1>8. ASSUME NEW d \in DaysOn, NEW figure \in {"rows", "charges"}, Days!Publish(d, figure)
      PROVE  DaysInv'
  BY <1>8, PublishStep
<1>9. ASSUME NEW d \in DaysOn, NEW force \in BOOLEAN, Days!Backfill(d, force)
      PROVE  DaysInv'
  BY <1>9, BackfillStep
<1>10. ASSUME NEW w \in Who,
              Days!Open(w) \/ Days!FetchRows(w) \/ Days!FetchCharges(w) \/ Days!Refused(w) \/ Days!Commit(w)
       PROVE  DaysInv'
  BY <1>10, OpenStep, FetchRowsStep, FetchChargesStep, RefusedStep, CommitDaysStep
<1> QED
  BY <1>1, <1>2, <1>3, <1>4, <1>5, <1>6, <1>7, <1>8, <1>9, <1>10 DEF Days!Next, DaysOn, Who

\* DaysInv holds in every state of the broker's figures.
THEOREM DaysInvariant == Spec => [](OnFigures => DaysInv)
<1>1. Init => (OnFigures => DaysInv)
  BY DaysInit DEF Init, OnFigures, DaysUnused
<1>2. (OnFigures => DaysInv) /\ [Next]_<<paper, live, figures>> => (OnFigures => DaysInv)'
  <2>1. CASE OnFigures /\ Days!Next
    <3> SUFFICES ASSUME OnFigures => DaysInv PROVE (OnFigures => DaysInv)'
      BY DEF Next
    <3> QED BY <2>1, DaysNext
  <2>2. CASE UNCHANGED figures
    BY <2>2 DEF figures, OnFigures, DaysInv, DaysTypes, Numbered, Answers, Settled, Appends, Fetching,
                Looked, Assured, Undoubted, Doubts
  <2> QED BY <2>1, <2>2 DEF Next
<1> QED BY <1>1, <1>2, PTL DEF Spec

\* A day both of whose figures were published when a pass over it began, and that the pass
\* answered for, states the broker's charges from then on, whichever of the jobs, the screen and
\* the backfill script it was and whatever the others append (broker_day_figures.py:432).
THEOREM CaughtUp_Holds == Spec => []CaughtUp
<1>1. (OnFigures => DaysInv) => CaughtUp
  BY DEF DaysInv, Settled, CaughtUp, Days!CaughtUp
<1> QED BY <1>1, DaysInvariant, PTL

-----------------------------------------------------------------------------
(* Sums over a finite set.  A sum is the number of units that are added less *)
(* the number that are taken away, which turns its laws into facts about     *)
(* cardinalities; that the folds of the specifications compute it takes one   *)
(* descent through the subsets.                                              *)

Over(F, S)  == \A e \in S : F[e] \in Int
Added(F, S) == {u \in S \X Nat : 1 <= u[2] /\ u[2] <= F[u[1]]}
Taken(F, S) == {u \in S \X Nat : 1 <= u[2] /\ u[2] <= -F[u[1]]}
Total(F, S) == Cardinality(Added(F, S)) - Cardinality(Taken(F, S))

\* The units of one member are as many as its value.
LEMMA AddedAre ==
    ASSUME NEW F, NEW S, Over(F, S), IsFiniteSet(S)
    PROVE  IsFiniteSet(Added(F, S)) /\ Cardinality(Added(F, S)) \in Nat
<1> DEFINE Block(e) == {e} \X (1..F[e])
           f        == [e \in S |-> Block(e)]
           T        == {Block(e) : e \in S}
<1>1. f \in Surjection(S, T)
  BY DEF Surjection
<1>2. IsFiniteSet(T)
  BY <1>1, FS_Surjection
<1>3. ASSUME NEW e \in S PROVE IsFiniteSet(Block(e))
  <2>1. F[e] \in Int /\ 1 \in Int
    BY DEF Over
  <2>2. IsFiniteSet({e}) /\ IsFiniteSet(1..F[e])
    BY <2>1, FS_Singleton, FS_Interval
  <2> QED BY <2>2, FS_Product
<1>4. IsFiniteSet(UNION T)
  <2>1. \A t \in T : IsFiniteSet(t)
    BY <1>3
  <2> HIDE DEF T
  <2> QED BY <1>2, <2>1, FS_UNION
<1>5. Added(F, S) \subseteq UNION T
  <2> SUFFICES ASSUME NEW u \in Added(F, S) PROVE u \in UNION T
    OBVIOUS
  <2>1. u \in S \X Nat /\ u[1] \in S /\ u[2] \in Nat /\ 1 <= u[2] /\ u[2] <= F[u[1]] /\ F[u[1]] \in Int
    BY DEF Added, Over
  <2>2. u = <<u[1], u[2]>> /\ u[2] \in 1..F[u[1]]
    BY <2>1
  <2>3. u \in Block(u[1])
    BY <2>2
  <2> QED BY <2>1, <2>3
<1> QED BY <1>4, <1>5, FS_Subset, FS_CardinalityType

LEMMA AddedOne ==
    ASSUME NEW F, NEW e, F[e] \in Int
    PROVE  Cardinality(Added(F, {e})) = IF F[e] > 0 THEN F[e] ELSE 0
<1>1. Added(F, {e}) = {e} \X (1..F[e])
  BY DEF Added
<1>2. IsFiniteSet({e}) /\ Cardinality({e}) = 1
  BY FS_Singleton
<1>3. IsFiniteSet(1..F[e]) /\ Cardinality(1..F[e]) = IF 1 > F[e] THEN 0 ELSE F[e] - 1 + 1
  BY FS_Interval
<1> DEFINE I == 1..F[e]
<1> HIDE DEF I
<1>4. Cardinality({e} \X I) = Cardinality({e}) * Cardinality(I)
  BY <1>2, <1>3, FS_Product DEF I
<1>5. Cardinality(I) = IF F[e] > 0 THEN F[e] ELSE 0
  BY <1>3 DEF I
<1>6. Cardinality({e} \X I) = Cardinality(I)
  <2>1. Cardinality(I) \in Int
    BY <1>5
  <2>2. 1 * Cardinality(I) = Cardinality(I)
    BY <2>1
  <2> QED BY <1>2, <1>4, <2>2
<1>7. Added(F, {e}) = {e} \X I
  BY <1>1 DEF I
<1> QED BY <1>5, <1>6, <1>7

LEMMA AddedUnion ==
    ASSUME NEW F, NEW S, NEW T, Over(F, S), Over(F, T), IsFiniteSet(S), IsFiniteSet(T), S \cap T = {}
    PROVE  Cardinality(Added(F, S \cup T)) = Cardinality(Added(F, S)) + Cardinality(Added(F, T))
<1>1. Added(F, S \cup T) = Added(F, S) \cup Added(F, T) /\ Added(F, S) \cap Added(F, T) = {}
  BY DEF Added
<1>2. /\ IsFiniteSet(Added(F, S)) /\ Cardinality(Added(F, S)) \in Nat
      /\ IsFiniteSet(Added(F, T)) /\ Cardinality(Added(F, T)) \in Nat
  BY AddedAre
<1> DEFINE A == Added(F, S)
           B == Added(F, T)
<1> HIDE DEF A, B
<1>3. Cardinality(A \cup B) = Cardinality(A) + Cardinality(B) - Cardinality(A \cap B)
  BY <1>2, FS_Union DEF A, B
<1>4. Cardinality(A \cap B) = 0
  BY <1>1, FS_EmptySet DEF A, B
<1>5. /\ Cardinality(A) \in Nat /\ Cardinality(B) \in Nat
      /\ Added(F, S \cup T) = A \cup B
  BY <1>1, <1>2 DEF A, B
<1>6. Cardinality(A \cup B) = Cardinality(A) + Cardinality(B)
  BY <1>3, <1>4, <1>5
<1> QED BY <1>5, <1>6 DEF A, B

\* What is taken away is what the opposite adds.
Opposite(F, S) == [e \in S |-> -F[e]]
LEMMA TakenIs ==
    ASSUME NEW F, NEW S, Over(F, S), NEW T \in SUBSET S
    PROVE  Over(Opposite(F, S), T) /\ Taken(F, T) = Added(Opposite(F, S), T)
BY DEF Over, Opposite, Taken, Added

LEMMA TotalType ==
    ASSUME NEW F, NEW S, Over(F, S), IsFiniteSet(S)
    PROVE  Total(F, S) \in Int
<1>1. Cardinality(Added(F, S)) \in Nat /\ Cardinality(Added(Opposite(F, S), S)) \in Nat
  BY AddedAre, TakenIs
<1> QED BY <1>1, TakenIs DEF Total

LEMMA TotalEmpty == \A F : Total(F, {}) = 0
BY FS_EmptySet DEF Total, Added, Taken

LEMMA TotalUnion ==
    ASSUME NEW F, NEW S, NEW T, Over(F, S), Over(F, T), IsFiniteSet(S), IsFiniteSet(T), S \cap T = {}
    PROVE  Total(F, S \cup T) = Total(F, S) + Total(F, T)
<1> DEFINE U == S \cup T
           G == Opposite(F, U)
<1>1. Over(F, U)
  BY DEF Over
<1>2. /\ Taken(F, U) = Added(G, U) /\ Taken(F, S) = Added(G, S) /\ Taken(F, T) = Added(G, T)
      /\ Over(G, S) /\ Over(G, T)
  BY <1>1, TakenIs
<1>3. /\ Cardinality(Added(F, S)) \in Nat /\ Cardinality(Added(F, T)) \in Nat
      /\ Cardinality(Added(G, S)) \in Nat /\ Cardinality(Added(G, T)) \in Nat
  BY <1>2, AddedAre
<1>4. /\ Cardinality(Added(F, U)) = Cardinality(Added(F, S)) + Cardinality(Added(F, T))
      /\ Cardinality(Added(G, U)) = Cardinality(Added(G, S)) + Cardinality(Added(G, T))
  BY <1>2, AddedUnion
<1> HIDE DEF U, G
<1> QED BY <1>2, <1>3, <1>4 DEF Total, U

LEMMA TotalOne ==
    ASSUME NEW F, NEW e, F[e] \in Int
    PROVE  Total(F, {e}) = F[e]
<1> DEFINE G == Opposite(F, {e})
<1>1. G[e] = -F[e] /\ G[e] \in Int
  BY DEF Opposite
<1>2. Taken(F, {e}) = Added(G, {e})
  BY TakenIs DEF Over
<1> HIDE DEF G
<1>3. /\ Cardinality(Added(F, {e})) = IF F[e] > 0 THEN F[e] ELSE 0
      /\ Cardinality(Added(G, {e})) = IF G[e] > 0 THEN G[e] ELSE 0
  BY <1>1, AddedOne
<1> QED BY <1>1, <1>2, <1>3 DEF Total

LEMMA TotalRemove ==
    ASSUME NEW F, NEW S, Over(F, S), IsFiniteSet(S), NEW e \in S
    PROVE  Total(F, S) = F[e] + Total(F, S \ {e})
<1>1. S = {e} \cup (S \ {e}) /\ {e} \cap (S \ {e}) = {} /\ F[e] \in Int
  BY DEF Over
<1>2. Over(F, {e}) /\ Over(F, S \ {e}) /\ IsFiniteSet({e}) /\ IsFiniteSet(S \ {e})
  BY FS_Singleton, FS_Subset DEF Over
<1> DEFINE one  == {e}
           rest == S \ {e}
<1>3. one \cap rest = {} /\ Over(F, one) /\ Over(F, rest) /\ IsFiniteSet(one) /\ IsFiniteSet(rest)
  BY <1>1, <1>2
<1> HIDE DEF one, rest
<1>4. Total(F, one \cup rest) = Total(F, one) + Total(F, rest)
  BY <1>3, TotalUnion
<1> QED BY <1>1, <1>4, TotalOne DEF one, rest

\* Members that add nothing may be left out, and only the members' values count.
LEMMA TotalSame ==
    ASSUME NEW F, NEW G, NEW S, NEW T \in SUBSET S, Over(F, S), Over(G, T),
           \A e \in T : F[e] = G[e], \A e \in S \ T : F[e] = 0
    PROVE  Total(F, S) = Total(G, T)
<1>1. Added(F, S) = Added(G, T)
  BY DEF Added, Over
<1>2. Taken(F, S) = Taken(G, T)
  BY DEF Taken, Over
<1> QED BY <1>1, <1>2 DEF Total

LEMMA TotalLess ==
    ASSUME NEW F, NEW G, NEW S, Over(F, S), Over(G, S), IsFiniteSet(S), \A e \in S : F[e] <= G[e]
    PROVE  Total(F, S) <= Total(G, S)
<1>1. Added(F, S) \subseteq Added(G, S)
  BY DEF Added, Over
<1>2. Taken(G, S) \subseteq Taken(F, S)
  BY DEF Taken, Over
<1>3. /\ IsFiniteSet(Added(G, S)) /\ IsFiniteSet(Taken(F, S))
      /\ Cardinality(Added(F, S)) \in Nat /\ Cardinality(Added(G, S)) \in Nat
      /\ Cardinality(Taken(F, S)) \in Nat /\ Cardinality(Taken(G, S)) \in Nat
  BY AddedAre, TakenIs
<1>4. /\ Cardinality(Added(F, S)) <= Cardinality(Added(G, S))
      /\ Cardinality(Taken(G, S)) <= Cardinality(Taken(F, S))
  BY <1>1, <1>2, <1>3, FS_Subset
<1> QED BY <1>3, <1>4 DEF Total

LEMMA TotalOpposite ==
    ASSUME NEW F, NEW G, NEW S, Over(F, S), Over(G, S), IsFiniteSet(S), \A e \in S : F[e] = -G[e]
    PROVE  Total(F, S) = -Total(G, S)
<1>1. Added(F, S) = Taken(G, S) /\ Taken(F, S) = Added(G, S)
  BY DEF Added, Taken, Over
<1>2. /\ Cardinality(Added(F, S)) \in Nat /\ Cardinality(Added(G, S)) \in Nat
  BY AddedAre
<1> QED BY <1>1, <1>2 DEF Total

\* What the folds take from a set first.
Pick(s) == CHOOSE l \in s : TRUE

LEMMA PickIs == ASSUME NEW s, s # {} PROVE Pick(s) \in s
BY DEF Pick

\* A set of subsets has a member none of whose proper subsets is in it.
LEMMA LeastSubset ==
    ASSUME NEW S, IsFiniteSet(S), NEW T \in SUBSET SUBSET S, T # {}
    PROVE  \E t \in T : \A s \in SUBSET t : s # t => s \notin T
<1> DEFINE R == StrictSubsetOrdering(S)
<1>1. IsWellFoundedOn(R, SUBSET S)
  BY FS_StrictSubsetOrderingWellFounded, FS_FiniteSubsetsOfFinite
<1>2. \A t \in SUBSET S : \A s \in SUBSET t : s # t => <<s, t>> \in R
  BY DEF StrictSubsetOrdering
<1> HIDE DEF R
<1>3. PICK t \in T : \A s \in T : ~(<<s, t>> \in R)
  BY <1>1, WFMin
<1> QED BY <1>2, <1>3

\* One function at most satisfies the recursion, and the sums do.
Folds(h, F, S) == h = [s \in SUBSET S |-> IF s = {} THEN 0 ELSE F[Pick(s)] + h[s \ {Pick(s)}]]
LEMMA FoldIs ==
    ASSUME NEW F, NEW S, Over(F, S), IsFiniteSet(S), NEW h, Folds(h, F, S)
    PROVE  h[S] = Total(F, S)
<1> DEFINE T == {s \in SUBSET S : h[s] # Total(F, s)}
<1>0. T \in SUBSET SUBSET S /\ \A t \in SUBSET S : t \in T <=> h[t] # Total(F, t)
  OBVIOUS
<1> HIDE DEF T
<1>1. ASSUME T # {} PROVE FALSE
  <2>1. PICK t \in T : \A s \in SUBSET t : s # t => s \notin T
    BY <1>0, <1>1, LeastSubset
  <2>2. t \in SUBSET S /\ h[t] # Total(F, t)
    BY <1>0, <2>1
  <2>3. t # {}
    <3>1. h[{}] = 0
      BY DEF Folds
    <3> QED BY <2>2, <3>1, TotalEmpty
  <2> DEFINE e    == Pick(t)
             rest == t \ {e}
  <2>4. e \in t /\ rest \in SUBSET t /\ rest # t /\ rest \in SUBSET S
    BY <2>2, <2>3, PickIs
  <2>5. h[rest] = Total(F, rest)
    BY <1>0, <2>1, <2>4
  <2>6. h[t] = F[e] + h[rest]
    BY <2>2, <2>3 DEF Folds
  <2>7. Over(F, t) /\ IsFiniteSet(t)
    BY <2>2, FS_Subset DEF Over
  <2> HIDE DEF e
  <2>8. Total(F, t) = F[e] + Total(F, rest)
    BY <2>4, <2>7, TotalRemove
  <2> QED BY <2>2, <2>5, <2>6, <2>8
<1> QED BY <1>0, <1>1

LEMMA FoldExists ==
    ASSUME NEW F, NEW S, Over(F, S), IsFiniteSet(S)
    PROVE  \E h : Folds(h, F, S)
<1> DEFINE g == [s \in SUBSET S |-> Total(F, s)]
<1>1. ASSUME NEW s \in SUBSET S
      PROVE  g[s] = IF s = {} THEN 0 ELSE F[Pick(s)] + g[s \ {Pick(s)}]
  <2>1. CASE s = {}
    BY <2>1, TotalEmpty
  <2>2. CASE s # {}
    <3>1. Pick(s) \in s /\ s \ {Pick(s)} \in SUBSET S
      BY <2>2, PickIs
    <3>2. Over(F, s) /\ IsFiniteSet(s)
      BY FS_Subset DEF Over
    <3>3. Total(F, s) = F[Pick(s)] + Total(F, s \ {Pick(s)})
      BY <3>1, <3>2, TotalRemove
    <3> QED BY <2>2, <3>1, <3>3
  <2> QED BY <2>1, <2>2
<1>2. g = [s \in SUBSET S |-> g[s]]
  OBVIOUS
<1>3. Folds(g, F, S)
  BY <1>1 DEF Folds
<1> QED BY <1>3

\* Order by order or submission by submission, the sum is the same.
Of(T) == {o \in Slice : Owner[o] \in T}
LEMMA TotalBySubmission ==
    ASSUME NEW F, Over(F, Slice), IsFiniteSet(Slice), IsFiniteSet(Sub), NEW D \in SUBSET Sub
    PROVE  Total([s \in Sub |-> Total(F, Of({s}))], D) = Total(F, Of(D))
<1> DEFINE G == [s \in Sub |-> Total(F, Of({s}))]
           T == {t \in SUBSET Sub : Total(G, t) # Total(F, Of(t))}
<1>1. \A t : Over(F, Of(t)) /\ IsFiniteSet(Of(t))
  BY FS_Subset DEF Over, Of
<1>2. Over(G, Sub)
  BY <1>1, TotalType DEF Over
<1>3. \A s \in Sub : G[s] = Total(F, Of({s}))
  OBVIOUS
<1> HIDE DEF G
<1>4. ASSUME T # {} PROVE FALSE
  <2>1. PICK t \in T : \A s \in SUBSET t : s # t => s \notin T
    BY <1>4, LeastSubset
  <2>2. t \in SUBSET Sub /\ Total(G, t) # Total(F, Of(t))
    BY <2>1
  <2>3. t # {}
    <3>1. Of({}) = {}
      BY DEF Of
    <3> QED BY <2>2, <3>1, TotalEmpty
  <2>4. PICK e : e \in t
    BY <2>3
  <2> DEFINE rest == t \ {e}
  <2>5. e \in Sub /\ rest \in SUBSET t /\ rest # t /\ rest \in SUBSET Sub
    BY <2>2, <2>4
  <2>6. Total(G, rest) = Total(F, Of(rest))
    BY <2>1, <2>5
  <2>7. Over(G, t) /\ IsFiniteSet(t)
    BY <1>2, <2>2, FS_Subset DEF Over
  <2>8. Total(G, t) = G[e] + Total(G, rest)
    BY <2>4, <2>7, TotalRemove
  <2>9. Of(t) = Of({e}) \cup Of(rest) /\ Of({e}) \cap Of(rest) = {}
    BY <2>4 DEF Of
  <2> HIDE DEF T, rest
  <2>10. Total(F, Of({e}) \cup Of(rest)) = Total(F, Of({e})) + Total(F, Of(rest))
    BY <1>1, <2>9, TotalUnion
  <2> QED BY <1>3, <2>2, <2>5, <2>6, <2>8, <2>9, <2>10
<1> QED BY <1>4 DEF G

-----------------------------------------------------------------------------
(* The sums of the specifications, one lemma for each summand.               *)

\* A fold over S takes its summands from members of S.
PicksIn(S) == \A s \in SUBSET S : s # {} => Pick(s) \in S
LEMMA PicksAre == \A S : PicksIn(S)
BY PickIs DEF PicksIn

LEMMA SumOfFilled ==
    ASSUME NEW B, NEW S, IsFiniteSet(S), \A o \in S : B[o].filled \in Int
    PROVE  Live!MapThenSumSet(LAMBDA o : B[o].filled, S) = Total([o \in S |-> B[o].filled], S)
<1> DEFINE F    == [o \in S |-> B[o].filled]
           P(h) == h = [s \in SUBSET S |-> IF s = {} THEN 0 ELSE B[Pick(s)].filled + h[s \ {Pick(s)}]]
<1>1. Over(F, S)
  BY DEF Over
<1>2. \A h : P(h) <=> Folds(h, F, S)
  BY PicksAre DEF PicksIn, Folds
<1>3. Live!MapThenSumSet(LAMBDA o : B[o].filled, S) = (CHOOSE h : P(h))[S]
  BY DEF Live!MapThenSumSet, Live!MapThenFoldSet, Pick
<1> HIDE DEF P, F
<1>4. P(CHOOSE h : P(h))
  BY <1>1, <1>2, FoldExists
<1> QED BY <1>1, <1>2, <1>3, <1>4, FoldIs DEF F

LEMMA SumOfPaid ==
    ASSUME NEW B, NEW S, IsFiniteSet(S), \A o \in S : B[o].filled * Price[o] \in Int
    PROVE  Live!MapThenSumSet(LAMBDA o : B[o].filled * Price[o], S) = Total([o \in S |-> B[o].filled * Price[o]], S)
<1> DEFINE F    == [o \in S |-> B[o].filled * Price[o]]
           P(h) == h = [s \in SUBSET S |-> IF s = {} THEN 0 ELSE B[Pick(s)].filled * Price[Pick(s)] + h[s \ {Pick(s)}]]
<1>1. Over(F, S)
  BY DEF Over
<1>2. \A h : P(h) <=> Folds(h, F, S)
  BY PicksAre DEF PicksIn, Folds
<1>3. Live!MapThenSumSet(LAMBDA o : B[o].filled * Price[o], S) = (CHOOSE h : P(h))[S]
  BY DEF Live!MapThenSumSet, Live!MapThenFoldSet, Pick
<1> HIDE DEF P, F
<1>4. P(CHOOSE h : P(h))
  BY <1>1, <1>2, FoldExists
<1> QED BY <1>1, <1>2, <1>3, <1>4, FoldIs DEF F

LEMMA SumOfSizes ==
    ASSUME NEW S, IsFiniteSet(S), \A o \in S : Quantity[o] \in Int
    PROVE  Live!MapThenSumSet(LAMBDA o : Quantity[o], S) = Total([o \in S |-> Quantity[o]], S)
<1> DEFINE F    == [o \in S |-> Quantity[o]]
           P(h) == h = [s \in SUBSET S |-> IF s = {} THEN 0 ELSE Quantity[Pick(s)] + h[s \ {Pick(s)}]]
<1>1. Over(F, S)
  BY DEF Over
<1>2. \A h : P(h) <=> Folds(h, F, S)
  BY PicksAre DEF PicksIn, Folds
<1>3. Live!MapThenSumSet(LAMBDA o : Quantity[o], S) = (CHOOSE h : P(h))[S]
  BY DEF Live!MapThenSumSet, Live!MapThenFoldSet, Pick
<1> HIDE DEF P, F
<1>4. P(CHOOSE h : P(h))
  BY <1>1, <1>2, FoldExists
<1> QED BY <1>1, <1>2, <1>3, <1>4, FoldIs DEF F

LEMMA SumOfSigned ==
    ASSUME NEW S, IsFiniteSet(S), \A o \in S : (IF Live!Bought(o) THEN book[o].filled ELSE -book[o].filled) \in Int
    PROVE  Live!MapThenSumSet(LAMBDA o : (IF Live!Bought(o) THEN book[o].filled ELSE -book[o].filled), S) = Total([o \in S |-> (IF Live!Bought(o) THEN book[o].filled ELSE -book[o].filled)], S)
<1> DEFINE F    == [o \in S |-> (IF Live!Bought(o) THEN book[o].filled ELSE -book[o].filled)]
           P(h) == h = [s \in SUBSET S |-> IF s = {} THEN 0 ELSE (IF Live!Bought(Pick(s)) THEN book[Pick(s)].filled ELSE -book[Pick(s)].filled) + h[s \ {Pick(s)}]]
<1>1. Over(F, S)
  BY DEF Over
<1>2. \A h : P(h) <=> Folds(h, F, S)
  BY PicksAre DEF PicksIn, Folds
<1>3. Live!MapThenSumSet(LAMBDA o : (IF Live!Bought(o) THEN book[o].filled ELSE -book[o].filled), S) = (CHOOSE h : P(h))[S]
  BY DEF Live!MapThenSumSet, Live!MapThenFoldSet, Pick
<1> HIDE DEF P, F
<1>4. P(CHOOSE h : P(h))
  BY <1>1, <1>2, FoldExists
<1> QED BY <1>1, <1>2, <1>3, <1>4, FoldIs DEF F

LEMMA SumOfQuantities ==
    ASSUME NEW R, NEW S, IsFiniteSet(S), \A s \in S : R[s].fill.quantity \in Int
    PROVE  Live!MapThenSumSet(LAMBDA s : R[s].fill.quantity, S) = Total([s \in S |-> R[s].fill.quantity], S)
<1> DEFINE F    == [s \in S |-> R[s].fill.quantity]
           P(h) == h = [s \in SUBSET S |-> IF s = {} THEN 0 ELSE R[Pick(s)].fill.quantity + h[s \ {Pick(s)}]]
<1>1. Over(F, S)
  BY DEF Over
<1>2. \A h : P(h) <=> Folds(h, F, S)
  BY PicksAre DEF PicksIn, Folds
<1>3. Live!MapThenSumSet(LAMBDA s : R[s].fill.quantity, S) = (CHOOSE h : P(h))[S]
  BY DEF Live!MapThenSumSet, Live!MapThenFoldSet, Pick
<1> HIDE DEF P, F
<1>4. P(CHOOSE h : P(h))
  BY <1>1, <1>2, FoldExists
<1> QED BY <1>1, <1>2, <1>3, <1>4, FoldIs DEF F

LEMMA SumOfAmounts ==
    ASSUME NEW R, NEW S, IsFiniteSet(S), \A s \in S : R[s].fill.paid \in Int
    PROVE  Live!MapThenSumSet(LAMBDA s : R[s].fill.paid, S) = Total([s \in S |-> R[s].fill.paid], S)
<1> DEFINE F    == [s \in S |-> R[s].fill.paid]
           P(h) == h = [s \in SUBSET S |-> IF s = {} THEN 0 ELSE R[Pick(s)].fill.paid + h[s \ {Pick(s)}]]
<1>1. Over(F, S)
  BY DEF Over
<1>2. \A h : P(h) <=> Folds(h, F, S)
  BY PicksAre DEF PicksIn, Folds
<1>3. Live!MapThenSumSet(LAMBDA s : R[s].fill.paid, S) = (CHOOSE h : P(h))[S]
  BY DEF Live!MapThenSumSet, Live!MapThenFoldSet, Pick
<1> HIDE DEF P, F
<1>4. P(CHOOSE h : P(h))
  BY <1>1, <1>2, FoldExists
<1> QED BY <1>1, <1>2, <1>3, <1>4, FoldIs DEF F

LEMMA SumOfCash ==
    ASSUME NEW S, IsFiniteSet(S), \A s \in S : Live!PaidOf(s) \in Int
    PROVE  Live!MapThenSumSet(LAMBDA s : Live!PaidOf(s), S) = Total([s \in S |-> Live!PaidOf(s)], S)
<1> DEFINE F    == [s \in S |-> Live!PaidOf(s)]
           P(h) == h = [s \in SUBSET S |-> IF s = {} THEN 0 ELSE Live!PaidOf(Pick(s)) + h[s \ {Pick(s)}]]
<1>1. Over(F, S)
  BY DEF Over
<1>2. \A h : P(h) <=> Folds(h, F, S)
  BY PicksAre DEF PicksIn, Folds
<1>3. Live!MapThenSumSet(LAMBDA s : Live!PaidOf(s), S) = (CHOOSE h : P(h))[S]
  BY DEF Live!MapThenSumSet, Live!MapThenFoldSet, Pick
<1> HIDE DEF P, F
<1>4. P(CHOOSE h : P(h))
  BY <1>1, <1>2, FoldExists
<1> QED BY <1>1, <1>2, <1>3, <1>4, FoldIs DEF F

-----------------------------------------------------------------------------
(* The live account: its shape.                                             *)

BookStatus == {"none", "OPEN", "COMPLETE", "CANCELLED"}
SentStatus == {"none", "PREPARED", "ACCEPTED", "REJECTED", "UNKNOWN", "RESOLVED_PLACED", "NEEDS_REVIEW"}
SentRow    == [status : SentStatus, fill : Live!Fills]
BookRow    == [status : BookStatus, filled : Nat]
Books      == [Live!Order -> BookRow]
ReadingRow == [pc : {"idle"}] \cup [pc : {"orders"}, book : Books]
              \cup [pc : {"positions"}, book : Books, net : Int, hand : Int]
SweepRow   == [pc : {"idle", "failed"}] \cup [pc : {"rows"}, rows : [Sub -> SentRow]]

\* An order has filled no more than its size, and nothing before the broker has it.
Sound(B) == \A o \in Live!Order : /\ B[o].filled <= Quantity[o]
                                  /\ B[o].status = "none" => B[o].filled = 0

LiveTypes ==
    /\ row \in [Sub -> SentRow]
    /\ book \in Books /\ Sound(book)
    /\ reading \in [Reader -> ReadingRow]
    /\ \A r \in Reader : reading[r].pc # "idle" => Sound(reading[r].book)
    /\ readings \in 0..MaxMishaps
    /\ day \in {"open", "closed", "swept"}
    /\ sweep \in SweepRow

-----------------------------------------------------------------------------
(* The live account: the inductive invariant.                               *)

\* The broker takes all the slices of a submission or none, and what the row says of
\* them is so: its numbers are those of orders the broker has, and an order the broker
\* has was written down before it was sent and has not been refused.
Placed(o)  == book[o].status # "none"
Together == \A o, p \in Slice : Owner[o] = Owner[p] /\ Placed(o) => Placed(p)
Recorded == \A o \in Slice : Placed(o) => row[Owner[o]].status \notin {"none", "REJECTED"}
NumbersTrue == \A s \in Sub : Live!Known(s) => Live!Reached(s)

\* What our orders of one side could leave at most, from all the broker has.
Reach(side) == [o \in Slice |-> IF Placed(o) /\ Owner[o] \in side THEN Quantity[o] ELSE 0]

\* A reading is of an earlier account: the broker has what it saw there, and what it found
\* held beyond the orders by hand is in reach of ours.
Earlier ==
    \A r \in Reader :
        /\ reading[r].pc # "idle" => \A o \in Live!Order : reading[r].book[o].status # "none" => Placed(o)
        /\ reading[r].pc = "positions" =>
              LET own == reading[r].net - reading[r].hand
              IN -Total(Reach(Sub \ Long), Slice) <= own /\ own <= Total(Reach(Long), Slice)

\* What the broker says of a submission, from the book as it is.
Final(s)  == Live!RecordFill([fill |-> Live!NoFill], book, s)
Unsent(s) == \A o \in Slice : Owner[o] = s => ~Placed(o)
Current   == \A r \in Reader : reading[r].pc # "idle" => reading[r].book = book

\* A row has nothing recorded before the broker has its orders; after the close the rows
\* change only to what the broker says, and once the sweep is over they all say it.
Recording ==
    /\ \A s \in Sub : Unsent(s) => row[s].fill = Live!NoFill
    /\ sweep.pc = "rows" =>
          /\ day # "open" /\ Current
          /\ \A s \in Sub : /\ Unsent(s) => sweep.rows[s].fill = Live!NoFill
                            /\ row[s].fill \in {sweep.rows[s].fill, Final(s)}
    /\ day = "swept" => Current /\ \A s \in Sub : row[s].fill = Final(s)

LiveInv == LiveTypes /\ Together /\ Recorded /\ NumbersTrue /\ Earlier /\ Recording

-----------------------------------------------------------------------------
(* The live account: what its steps are made of.                            *)

LEMMA AccountAre ==
    /\ IsFiniteSet(Sub) /\ IsFiniteSet(Slice) /\ IsFiniteSet(Manual) /\ IsFiniteSet(Live!Order)
    /\ Slice \subseteq Live!Order /\ Manual \subseteq Live!Order /\ Slice \cap Manual = {}
    /\ Live!Order = Slice \cup Manual
    /\ \A o \in Slice : Owner[o] \in Sub /\ Price[o] \in Nat
    /\ \A o \in Live!Order : Quantity[o] \in Nat /\ Lot[o] \in Nat
    /\ Long \subseteq Sub /\ MaxMishaps \in Nat
BY LedgersAssumption, FS_Union DEF Live!Order

LEMMA ReachIs ==
    \A side : Over(Reach(side), Slice) /\ Total(Reach(side), Slice) \in Int
<1> SUFFICES ASSUME NEW side PROVE Over(Reach(side), Slice) /\ Total(Reach(side), Slice) \in Int
  OBVIOUS
<1>1. Over(Reach(side), Slice)
  BY AccountAre DEF Over, Reach
<1> QED BY <1>1, AccountAre, TotalType

\* Placing more puts more in reach.
LEMMA ReachGrows ==
    ASSUME \A o \in Slice : Placed(o) => Placed(o)', NEW side
    PROVE  /\ Total(Reach(side), Slice)' \in Int
           /\ Total(Reach(side), Slice) <= Total(Reach(side), Slice)'
<1> DEFINE G == [o \in Slice |-> IF Placed(o)' /\ Owner[o] \in side THEN Quantity[o] ELSE 0]
<1>1. Over(G, Slice) /\ \A o \in Slice : Reach(side)[o] <= G[o]
  BY AccountAre DEF Over, Reach
<1>2. Reach(side)' = G
  BY DEF Reach
<1> HIDE DEF G
<1>3. Total(Reach(side), Slice) <= Total(G, Slice) /\ Total(G, Slice) \in Int
  BY <1>1, ReachIs, AccountAre, TotalLess, TotalType
<1>4. Total(Reach(side), Slice)' = Total(G, Slice)
  BY <1>2 DEF Total, Added, Taken
<1> QED BY <1>3, <1>4

\* What our own orders leave is in reach, of whichever side.
LEMMA NetInReach ==
    ASSUME book \in Books, Sound(book)
    PROVE  /\ Live!Net(Live!Order) \in Int /\ Live!Net(Manual) \in Int
           /\ -Total(Reach(Sub \ Long), Slice) <= Live!Net(Live!Order) - Live!Net(Manual)
           /\ Live!Net(Live!Order) - Live!Net(Manual) <= Total(Reach(Long), Slice)
<1> DEFINE F == [o \in Live!Order |-> IF Live!Bought(o) THEN book[o].filled ELSE -book[o].filled]
           D == [o \in Slice |-> -Reach(Sub \ Long)[o]]
<1>1. \A o \in Live!Order : book[o].filled \in Nat /\ (IF Live!Bought(o) THEN book[o].filled ELSE -book[o].filled) \in Int
  BY DEF Books, BookRow
<1>2. Over(F, Live!Order) /\ Over(F, Slice) /\ Over(F, Manual)
  BY <1>1, AccountAre DEF Over
<1>3. ASSUME NEW S \in SUBSET Live!Order PROVE Live!Net(S) = Total(F, S)
  <2> DEFINE G == [o \in S |-> IF Live!Bought(o) THEN book[o].filled ELSE -book[o].filled]
  <2>1. IsFiniteSet(S) /\ \A o \in S : (IF Live!Bought(o) THEN book[o].filled ELSE -book[o].filled) \in Int
    BY <1>1, AccountAre, FS_Subset
  <2>2. Live!Net(S) = Total(G, S)
    BY <2>1, SumOfSigned DEF Live!Net
  <2>3. Over(G, S) /\ Over(F, S) /\ \A o \in S : G[o] = F[o]
    BY <2>1, <1>2 DEF Over
  <2> HIDE DEF G, F
  <2>4. Total(G, S) = Total(F, S)
    BY <2>3, TotalSame
  <2> QED BY <2>2, <2>4
<1>4. /\ Live!Net(Live!Order) = Total(F, Live!Order) /\ Live!Net(Manual) = Total(F, Manual)
  BY <1>3, AccountAre
<1>5. \A o \in Slice : -Reach(Sub \ Long)[o] <= F[o] /\ F[o] <= Reach(Long)[o]
  <2> SUFFICES ASSUME NEW o \in Slice PROVE -Reach(Sub \ Long)[o] <= F[o] /\ F[o] <= Reach(Long)[o]
    OBVIOUS
  <2>1. /\ o \in Live!Order /\ Owner[o] \in Sub /\ Quantity[o] \in Nat
        /\ book[o].filled \in Nat /\ book[o].filled <= Quantity[o]
        /\ book[o].status = "none" => book[o].filled = 0
        /\ Live!Bought(o) <=> Owner[o] \in Long
    BY <1>1, AccountAre DEF Sound, Live!Bought
  <2>2. F[o] = IF Owner[o] \in Long THEN book[o].filled ELSE -book[o].filled
    BY <2>1
  <2>3. /\ Reach(Long)[o] = IF book[o].status # "none" /\ Owner[o] \in Long THEN Quantity[o] ELSE 0
        /\ Reach(Sub \ Long)[o] = IF book[o].status # "none" /\ Owner[o] \notin Long THEN Quantity[o] ELSE 0
    BY <2>1 DEF Reach, Placed
  <2> HIDE DEF F
  <2> QED BY <2>1, <2>2, <2>3
<1>6. Over(Reach(Long), Slice) /\ Over(Reach(Sub \ Long), Slice) /\ Over(D, Slice)
  BY ReachIs DEF Over
<1>7. \A o \in Slice : D[o] = -Reach(Sub \ Long)[o]
  OBVIOUS
<1> HIDE DEF F, D
<1>8. Total(F, Live!Order) = Total(F, Slice) + Total(F, Manual)
  BY <1>2, AccountAre, TotalUnion
<1>9. Total(F, Slice) \in Int /\ Total(F, Manual) \in Int
  BY <1>2, AccountAre, TotalType
<1>10. Total(F, Slice) <= Total(Reach(Long), Slice)
  BY <1>2, <1>5, <1>6, AccountAre, TotalLess
<1>11. Total(D, Slice) <= Total(F, Slice)
  BY <1>2, <1>5, <1>6, <1>7, AccountAre, TotalLess
<1>12. Total(D, Slice) = -Total(Reach(Sub \ Long), Slice)
  BY <1>6, <1>7, AccountAre, TotalOpposite
<1> QED BY <1>4, <1>8, <1>9, <1>10, <1>11, <1>12

LEMMA TotalNat ==
    ASSUME NEW F, NEW S, IsFiniteSet(S), \A e \in S : F[e] \in Nat
    PROVE  Total(F, S) \in Nat
<1>1. Over(F, S)
  BY DEF Over
<1>2. Taken(F, S) = {}
  BY DEF Taken
<1> QED BY <1>1, <1>2, AddedAre, FS_EmptySet DEF Total

LEMMA ProductIsNat == \A i, j \in Nat : i * j \in Nat
OBVIOUS

\* What a reading records of a row: what was there when the broker has none of its orders,
\* and otherwise what its book says, whatever was there.
Mine(B, s) == {o \in Slice : B[o].status # "none" /\ Owner[o] = s}
LEMMA RecordIs ==
    ASSUME NEW B \in Books, NEW s \in Sub, NEW R, R.fill \in Live!Fills
    PROVE  /\ Live!RecordFill(R, B, s) \in Live!Fills
           /\ Mine(B, s) = {} => Live!RecordFill(R, B, s) = R.fill
           /\ Mine(B, s) # {} => /\ Live!RecordFill(R, B, s) = Live!RecordFill([fill |-> Live!NoFill], B, s)
                                 /\ Live!RecordFill(R, B, s) =
                                      [quantity |-> Live!MapThenSumSet(LAMBDA o : B[o].filled, Mine(B, s)),
                                       paid     |-> Live!MapThenSumSet(LAMBDA o : B[o].filled * Price[o], Mine(B, s)),
                                       status   |-> Live!AgreedStatus({B[o].status : o \in Mine(B, s)})]
<1> DEFINE filled == Live!MapThenSumSet(LAMBDA o : B[o].filled, Mine(B, s))
           paid   == Live!MapThenSumSet(LAMBDA o : B[o].filled * Price[o], Mine(B, s))
           states == {B[o].status : o \in Mine(B, s)}
           agreed == Live!AgreedStatus(states)
<1>1. ASSUME NEW Q
      PROVE  Live!RecordFill(Q, B, s) =
                 IF Mine(B, s) = {} THEN Q.fill ELSE [quantity |-> filled, paid |-> paid, status |-> agreed]
  BY DEF Live!RecordFill, Live!Matches, Mine
<1>2. \A o \in Mine(B, s) : /\ o \in Live!Order /\ B[o].filled \in Nat /\ Price[o] \in Nat
                            /\ B[o].status \in BookStatus \ {"none"}
  BY AccountAre DEF Mine, Books, BookRow
<1>3. \A o \in Mine(B, s) : B[o].filled * Price[o] \in Nat
  BY <1>2, ProductIsNat
<1>4. IsFiniteSet(Mine(B, s))
  BY AccountAre, FS_Subset DEF Mine
<1>5. filled \in Nat
  <2> DEFINE F == [o \in Mine(B, s) |-> B[o].filled]
  <2> DEFINE M == Mine(B, s)
  <2>0. IsFiniteSet(M) /\ \A o \in M : B[o].filled \in Int
    BY <1>2, <1>4
  <2> HIDE DEF M
  <2>1. Live!MapThenSumSet(LAMBDA o : B[o].filled, M) = Total([o \in M |-> B[o].filled], M)
    BY <2>0, SumOfFilled
  <2>2. filled = Total(F, Mine(B, s))
    BY <2>1 DEF M
  <2>3. \A o \in Mine(B, s) : F[o] \in Nat
    BY <1>2
  <2> HIDE DEF F, filled
  <2> QED BY <1>4, <2>2, <2>3, TotalNat
<1>6. paid \in Nat
  <2> DEFINE F == [o \in Mine(B, s) |-> B[o].filled * Price[o]]
  <2> DEFINE M == Mine(B, s)
  <2>0. IsFiniteSet(M) /\ \A o \in M : B[o].filled * Price[o] \in Int
    BY <1>3, <1>4
  <2> HIDE DEF M
  <2>1. Live!MapThenSumSet(LAMBDA o : B[o].filled * Price[o], M) = Total([o \in M |-> B[o].filled * Price[o]], M)
    BY <2>0, SumOfPaid
  <2>2. paid = Total(F, Mine(B, s))
    BY <2>1 DEF M
  <2>3. \A o \in Mine(B, s) : F[o] \in Nat
    BY <1>3
  <2> HIDE DEF F, paid
  <2> QED BY <1>4, <2>2, <2>3, TotalNat
<1>7. Mine(B, s) # {} => agreed \in {"OPEN", "COMPLETE", "CANCELLED", "PARTIAL"}
  <2> SUFFICES ASSUME Mine(B, s) # {} PROVE agreed \in {"OPEN", "COMPLETE", "CANCELLED", "PARTIAL"}
    OBVIOUS
  <2>1. states # {} /\ states \subseteq {"OPEN", "COMPLETE", "CANCELLED"}
    BY <1>2 DEF BookStatus
  <2> HIDE DEF states
  <2>2. (CHOOSE l \in states : TRUE) \in states
    BY <2>1
  <2> QED BY <2>1, <2>2 DEF Live!AgreedStatus
<1> HIDE DEF filled, paid, states, agreed
<1>8. Mine(B, s) # {} => [quantity |-> filled, paid |-> paid, status |-> agreed] \in Live!Fills
  BY <1>5, <1>6, <1>7 DEF Live!Fills
<1>9. /\ Live!RecordFill(R, B, s) = IF Mine(B, s) = {} THEN R.fill ELSE [quantity |-> filled, paid |-> paid, status |-> agreed]
      /\ Mine(B, s) # {} => Live!RecordFill([fill |-> Live!NoFill], B, s) = [quantity |-> filled, paid |-> paid, status |-> agreed]
  BY <1>1
<1> QED BY <1>8, <1>9 DEF filled, paid, agreed, states

LEMMA FinalIs ==
    ASSUME book \in Books, NEW s \in Sub
    PROVE  /\ Final(s) \in Live!Fills
           /\ Unsent(s) => Final(s) = Live!NoFill
           /\ Unsent(s) <=> Mine(book, s) = {}
<1>1. Live!NoFill \in Live!Fills
  BY DEF Live!NoFill, Live!Fills
<1> DEFINE none == [fill |-> Live!NoFill]
<1>2. none.fill = Live!NoFill
  OBVIOUS
<1>3. Unsent(s) <=> Mine(book, s) = {}
  BY DEF Unsent, Placed, Mine
<1> HIDE DEF none
<1>4. /\ Live!RecordFill(none, book, s) \in Live!Fills
      /\ Mine(book, s) = {} => Live!RecordFill(none, book, s) = none.fill
  BY <1>1, <1>2, RecordIs
<1> QED BY <1>2, <1>3, <1>4 DEF Final, none

\* What is recorded of a row does not depend on anything a step leaves alone.
LEMMA RecordingKept ==
    ASSUME Recording, UNCHANGED <<book, reading, day, sweep>>,
           \A s \in Sub : row'[s].fill = row[s].fill
    PROVE  Recording'
<1>1. \A s \in Sub : Unsent(s)' <=> Unsent(s)
  BY DEF Unsent, Placed
<1>2. Current' <=> Current
  BY DEF Current
<1>3. \A s \in Sub : Final(s)' = Final(s)
  BY DEF Final
<1> QED BY <1>1, <1>2, <1>3 DEF Recording

LEMMA StatusStep ==
    ASSUME LiveInv, NEW s \in Sub, NEW st \in SentStatus, row' = [row EXCEPT ![s].status = st],
           UNCHANGED <<book, reading, readings, day, sweep>>,
           st \in {"none", "REJECTED"} => ~Live!Reached(s),
           st \in Live!LIVE_PLACED_STATUSES => Live!Reached(s)
    PROVE  LiveInv'
<1>1. row \in [Sub -> SentRow] /\ row[s] \in SentRow
  BY DEF LiveInv, LiveTypes
<1>2. /\ \A q \in Sub \ {s} : row'[q] = row[q]
      /\ row'[s].status = st /\ row'[s].fill = row[s].fill
  BY <1>1 DEF SentRow
<1>3. row' \in [Sub -> SentRow]
  <2>1. [row[s] EXCEPT !.status = st] \in SentRow
    BY <1>1 DEF SentRow
  <2> QED BY <1>1, <2>1
<1>4. LiveTypes'
  BY <1>3 DEF LiveInv, LiveTypes, Sound
<1>5. Together' /\ Earlier'
  BY DEF LiveInv, Together, Earlier, Placed, Reach, Total, Added, Taken
<1>6. Recorded'
  <2>1. \A o \in Slice : Placed(o) /\ Owner[o] = s => Live!Reached(s)
    BY DEF Placed, Live!Reached, Live!Slices
  <2>2. \A o \in Slice : Owner[o] \in Sub
    BY AccountAre
  <2> QED BY <1>2, <2>1, <2>2 DEF LiveInv, Recorded, Placed
<1>7. NumbersTrue'
  <2>1. \A q \in Sub : Live!Reached(q)' <=> Live!Reached(q)
    BY DEF Live!Reached, Live!Slices
  <2> QED BY <1>2, <2>1 DEF LiveInv, NumbersTrue, Live!Known
<1>8. Recording'
  <2>1. \A q \in Sub : row'[q].fill = row[q].fill
    BY <1>2
  <2> QED BY <2>1, RecordingKept DEF LiveInv
<1> QED BY <1>4, <1>5, <1>6, <1>7, <1>8 DEF LiveInv

LEMMA BookStep ==
    ASSUME LiveInv, day = "open", day' \in {"open", "closed"}, UNCHANGED <<row, reading, readings, sweep>>,
           book' \in Books, Sound(book'),
           \A o \in Live!Order : Placed(o) => Placed(o)',
           \A o, p \in Slice : Owner[o] = Owner[p] /\ Placed(o)' => Placed(p)',
           \A o \in Slice : Placed(o)' => Placed(o) \/ row[Owner[o]].status \notin {"none", "REJECTED"}
    PROVE  LiveInv'
<1>1. LiveTypes'
  BY DEF LiveInv, LiveTypes, Sound
<1>2. Together' /\ Recorded'
  BY DEF LiveInv, Together, Recorded
<1>3. NumbersTrue'
  <2>1. \A s \in Sub : Live!Reached(s) => Live!Reached(s)'
    BY AccountAre DEF Live!Reached, Live!Slices, Placed
  <2>2. \A s \in Sub : Live!Known(s)' <=> Live!Known(s)
    BY DEF Live!Known
  <2> QED BY <2>1, <2>2 DEF LiveInv, NumbersTrue
<1>4. Earlier'
  <2>1. ASSUME NEW side
        PROVE  /\ Total(Reach(side), Slice) \in Int /\ Total(Reach(side), Slice)' \in Int
               /\ Total(Reach(side), Slice) <= Total(Reach(side), Slice)'
    <3>1. \A o \in Slice : Placed(o) => Placed(o)'
      BY AccountAre
    <3> QED BY <3>1, ReachGrows, ReachIs
  <2>2. /\ Total(Reach(Long), Slice) \in Int /\ Total(Reach(Long), Slice)' \in Int
        /\ Total(Reach(Long), Slice) <= Total(Reach(Long), Slice)'
        /\ Total(Reach(Sub \ Long), Slice) \in Int /\ Total(Reach(Sub \ Long), Slice)' \in Int
        /\ Total(Reach(Sub \ Long), Slice) <= Total(Reach(Sub \ Long), Slice)'
    BY <2>1
  <2>3. ASSUME NEW r \in Reader, reading[r].pc = "positions"
        PROVE  reading[r].net - reading[r].hand \in Int
    <3>1. reading[r] \in ReadingRow
      BY DEF LiveInv, LiveTypes
    <3> QED BY <2>3, <3>1 DEF ReadingRow
  <2>4. \A r \in Reader : reading[r].pc # "idle" =>
            \A o \in Live!Order : reading[r].book[o].status # "none" => Placed(o)'
    BY DEF LiveInv, Earlier
  <2>5. ASSUME NEW r \in Reader, reading[r].pc = "positions"
        PROVE  /\ -Total(Reach(Sub \ Long), Slice)' <= reading[r].net - reading[r].hand
               /\ reading[r].net - reading[r].hand <= Total(Reach(Long), Slice)'
    <3>1. /\ -Total(Reach(Sub \ Long), Slice) <= reading[r].net - reading[r].hand
          /\ reading[r].net - reading[r].hand <= Total(Reach(Long), Slice)
      BY <2>5 DEF LiveInv, Earlier
    <3> DEFINE own == reading[r].net - reading[r].hand
    <3>2. own \in Int
      BY <2>3, <2>5
    <3> HIDE DEF own
    <3>3. /\ -Total(Reach(Sub \ Long), Slice) <= own /\ own <= Total(Reach(Long), Slice)
      BY <3>1 DEF own
    <3>4. /\ -Total(Reach(Sub \ Long), Slice)' <= own /\ own <= Total(Reach(Long), Slice)'
      BY <2>2, <3>2, <3>3
    <3> QED BY <3>4 DEF own
  <2>6. reading' = reading
    OBVIOUS
  <2> QED BY <2>4, <2>5, <2>6 DEF Earlier
<1>5. Recording'
  <2>1. sweep.pc # "rows"
    BY DEF LiveInv, Recording
  <2>2. \A s \in Sub : Unsent(s)' => Unsent(s)
    BY AccountAre DEF Unsent
  <2> QED BY <2>1, <2>2 DEF LiveInv, Recording
<1> QED BY <1>1, <1>2, <1>3, <1>4, <1>5 DEF LiveInv

LEMMA WriteAheadStep ==
    ASSUME LiveInv, NEW s \in Sub, Live!WriteAhead(s)
    PROVE  LiveInv'
<1>1. /\ row' = [row EXCEPT ![s].status = "PREPARED"] /\ "PREPARED" \in SentStatus
      /\ UNCHANGED <<book, reading, readings, day, sweep>>
  BY DEF Live!WriteAhead, SentStatus
<1>2. "PREPARED" \notin {"none", "REJECTED"} /\ "PREPARED" \notin Live!LIVE_PLACED_STATUSES
  BY DEF Live!LIVE_PLACED_STATUSES
<1> QED BY <1>1, <1>2, StatusStep

LEMMA SettleRowStep ==
    ASSUME LiveInv, NEW s \in Sub,
           Live!Accept(s) \/ Live!Refuse(s) \/ Live!Lose(s) \/ Live!Recover(s) \/ Live!GiveUp(s)
    PROVE  LiveInv'
<1>1. PICK st \in {"ACCEPTED", "REJECTED", "UNKNOWN", "RESOLVED_PLACED", "NEEDS_REVIEW"} :
          /\ row' = [row EXCEPT ![s].status = st]
          /\ UNCHANGED <<book, reading, readings, day, sweep>>
          /\ st = "REJECTED" => ~Live!Reached(s)
          /\ st \in {"ACCEPTED", "RESOLVED_PLACED"} => Live!Reached(s)
  BY DEF Live!Accept, Live!Refuse, Live!Lose, Live!Recover, Live!GiveUp, Live!Settle
<1>2. /\ st \in SentStatus
      /\ st \in {"none", "REJECTED"} => ~Live!Reached(s)
      /\ st \in Live!LIVE_PLACED_STATUSES => Live!Reached(s)
  BY <1>1 DEF SentStatus, Live!LIVE_PLACED_STATUSES
<1> QED BY <1>1, <1>2, StatusStep

LEMMA TakeStep ==
    ASSUME LiveInv, NEW T, Live!Take(T),
           \A o, p \in Slice : Owner[o] = Owner[p] /\ o \in T => p \in T,
           \A o \in Slice \cap T : row[Owner[o]].status \notin {"none", "REJECTED"}
    PROVE  LiveInv'
<1>1. /\ book' = [o \in Live!Order |-> IF o \in T THEN [book[o] EXCEPT !.status = "OPEN"] ELSE book[o]]
      /\ day = "open" /\ UNCHANGED <<row, reading, readings, day, sweep>>
  BY DEF Live!Take
<1>2. book \in Books /\ Sound(book)
  BY DEF LiveInv, LiveTypes
<1>3. \A o \in Live!Order : /\ book'[o].status = IF o \in T THEN "OPEN" ELSE book[o].status
                            /\ book'[o].filled = book[o].filled
                            /\ book'[o] \in BookRow
  BY <1>1, <1>2 DEF Books, BookRow, BookStatus
<1>4. book' \in Books /\ Sound(book')
  BY <1>1, <1>2, <1>3 DEF Books, Sound
<1>5. \A o \in Live!Order : Placed(o)' <=> (Placed(o) \/ o \in T)
  BY <1>3 DEF Placed
<1>6. \A o, p \in Slice : Owner[o] = Owner[p] /\ Placed(o)' => Placed(p)'
  BY <1>5, AccountAre DEF LiveInv, Together
<1>7. \A o \in Slice : Placed(o)' => Placed(o) \/ row[Owner[o]].status \notin {"none", "REJECTED"}
  BY <1>5, AccountAre
<1>8. \A o \in Live!Order : Placed(o) => Placed(o)'
  BY <1>5
<1>9. day' \in {"open", "closed"}
  BY <1>1
<1> QED BY <1>1, <1>4, <1>6, <1>7, <1>8, <1>9, BookStep

LEMMA SendStep ==
    ASSUME LiveInv, NEW s \in Sub, Live!Send(s)
    PROVE  LiveInv'
<1>1. Live!Take(Live!Slices(s)) /\ row[s].status \in {"PREPARED", "UNKNOWN"}
  BY DEF Live!Send
<1>2. /\ \A o, p \in Slice : Owner[o] = Owner[p] /\ o \in Live!Slices(s) => p \in Live!Slices(s)
      /\ \A o \in Slice \cap Live!Slices(s) : row[Owner[o]].status \notin {"none", "REJECTED"}
  BY <1>1 DEF Live!Slices
<1> QED BY <1>1, <1>2, TakeStep

LEMMA PlaceByHandStep ==
    ASSUME LiveInv, NEW h \in Manual, Live!PlaceByHand(h)
    PROVE  LiveInv'
<1>1. Live!Take({h}) /\ Slice \cap {h} = {}
  BY AccountAre DEF Live!PlaceByHand
<1>2. \A o \in Slice : o \notin {h}
  BY <1>1
<1> QED BY <1>1, <1>2, TakeStep

\* A step that leaves every order where it is, but for what it fills and how it ends.
LEMMA MarketStep ==
    ASSUME LiveInv, day = "open", day' \in {"open", "closed"}, UNCHANGED <<row, reading, readings, sweep>>,
           book' \in [Live!Order -> BookRow],
           \A o \in Live!Order : /\ book'[o].status = "none" <=> book[o].status = "none"
                                 /\ book'[o].filled <= Quantity[o]
                                 /\ book[o].status = "none" => book'[o].filled = 0
    PROVE  LiveInv'
<1>1. book' \in Books /\ Sound(book')
  BY DEF Books, Sound
<1>2. \A o \in Live!Order : Placed(o)' <=> Placed(o)
  BY DEF Placed
<1>3. \A o, p \in Slice : Owner[o] = Owner[p] /\ Placed(o)' => Placed(p)'
  BY <1>2, AccountAre DEF LiveInv, Together
<1>4. /\ \A o \in Slice : Placed(o)' => Placed(o) \/ row[Owner[o]].status \notin {"none", "REJECTED"}
      /\ \A o \in Live!Order : Placed(o) => Placed(o)'
  BY <1>2, AccountAre
<1> QED BY <1>1, <1>3, <1>4, BookStep

LEMMA FillOrderStep ==
    ASSUME LiveInv, NEW o \in Live!Order, Live!Fill(o)
    PROVE  LiveInv'
<1> DEFINE left == Quantity[o] - book[o].filled
           q    == Live!Min({Lot[o], left})
           st   == IF book[o].filled + q = Quantity[o] THEN "COMPLETE" ELSE book[o].status
<1>1. book \in Books /\ Sound(book) /\ book[o] \in BookRow
  BY DEF LiveInv, LiveTypes, Books
<1>2. left \in Nat /\ Lot[o] \in Nat /\ Quantity[o] \in Nat /\ book[o].filled \in Nat
  BY <1>1, AccountAre DEF Sound, BookRow
<1>3. q \in {Lot[o], left} /\ q <= left
  <2> DEFINE c == IF Lot[o] <= left THEN Lot[o] ELSE left
  <2>1. c \in {Lot[o], left} /\ \A y \in {Lot[o], left} : c <= y
    BY <1>2
  <2> DEFINE least(l) == l \in {Lot[o], left} /\ \A y \in {Lot[o], left} : l <= y
  <2>2. least(c)
    BY <2>1
  <2>3. q = CHOOSE l : least(l)
    BY DEF Live!Min
  <2> HIDE DEF c, q
  <2>4. least(q)
    BY <2>2, <2>3
  <2> QED BY <2>4
<1>4. q \in Nat /\ book[o].filled + q <= Quantity[o]
  <2> HIDE DEF q
  <2> QED BY <1>2, <1>3
<1>5. /\ book' = [book EXCEPT ![o].filled = @ + q, ![o].status = st]
      /\ day = "open" /\ UNCHANGED <<row, reading, readings, day, sweep>>
      /\ book[o].status = "OPEN"
  BY DEF Live!Fill, Live!Working
<1> HIDE DEF q
<1>6. st \in {"COMPLETE", "OPEN"}
  BY <1>5
<1> HIDE DEF st
<1>7. /\ \A p \in Live!Order \ {o} : book'[p] = book[p]
      /\ book'[o] = [book[o] EXCEPT !.filled = @ + q, !.status = st]
      /\ book' = [p \in Live!Order |-> book'[p]]
  BY <1>1, <1>5 DEF Books
<1>8. book'[o].filled = book[o].filled + q /\ book'[o].status = st /\ book'[o] \in BookRow
  <2> DEFINE w == book[o]
             n == w.filled + q
  <2>1. w \in BookRow /\ n \in Nat /\ st \in BookStatus
    BY <1>1, <1>2, <1>4, <1>6 DEF BookStatus
  <2>2. book'[o] = [w EXCEPT !.filled = n, !.status = st]
    BY <1>7
  <2> HIDE DEF w, n
  <2>3. book'[o].filled = n /\ book'[o].status = st /\ book'[o] \in BookRow
    BY <2>1, <2>2 DEF BookRow
  <2> QED BY <2>3 DEF w, n
<1>9. book' \in [Live!Order -> BookRow]
  BY <1>1, <1>7, <1>8 DEF Books
<1>10. \A p \in Live!Order : /\ book'[p].status = "none" <=> book[p].status = "none"
                             /\ book'[p].filled <= Quantity[p]
                             /\ book[p].status = "none" => book'[p].filled = 0
  BY <1>1, <1>4, <1>5, <1>6, <1>7, <1>8 DEF Sound
<1>11. day' \in {"open", "closed"}
  BY <1>5
<1> QED BY <1>5, <1>9, <1>10, <1>11, MarketStep

LEMMA EndStep ==
    ASSUME LiveInv, (\E o \in Live!Order : Live!Withdraw(o)) \/ Live!Close
    PROVE  LiveInv'
<1>1. book \in Books /\ Sound(book)
  BY DEF LiveInv, LiveTypes
<1>2. /\ day = "open" /\ day' \in {"open", "closed"} /\ UNCHANGED <<row, reading, readings, sweep>>
      /\ book' = [p \in Live!Order |-> book'[p]]
      /\ \A p \in Live!Order : \/ book'[p] = book[p]
                               \/ book[p].status = "OPEN" /\ book'[p] = [book[p] EXCEPT !.status = "CANCELLED"]
  <2>1. ASSUME NEW o \in Live!Order, Live!Withdraw(o)
        PROVE  /\ day = "open" /\ day' \in {"open", "closed"} /\ UNCHANGED <<row, reading, readings, sweep>>
               /\ book' = [p \in Live!Order |-> book'[p]]
               /\ \A p \in Live!Order : \/ book'[p] = book[p]
                                        \/ book[p].status = "OPEN" /\ book'[p] = [book[p] EXCEPT !.status = "CANCELLED"]
    BY <1>1, <2>1 DEF Live!Withdraw, Live!Working, Books
  <2>2. CASE Live!Close
    BY <2>2 DEF Live!Close, Live!Working
  <2> QED BY <2>1, <2>2
<1>3. \A p \in Live!Order : /\ book'[p] \in BookRow
                            /\ book'[p].status = "none" <=> book[p].status = "none"
                            /\ book'[p].filled = book[p].filled
  BY <1>1, <1>2 DEF Books, BookRow, BookStatus
<1>4. book' \in [Live!Order -> BookRow]
  BY <1>2, <1>3
<1>5. \A p \in Live!Order : /\ book'[p].status = "none" <=> book[p].status = "none"
                            /\ book'[p].filled <= Quantity[p]
                            /\ book[p].status = "none" => book'[p].filled = 0
  BY <1>1, <1>3 DEF Sound
<1> QED BY <1>2, <1>4, <1>5, MarketStep

\* A step of a reading: what it now holds of the book is what it held, or the book as it is.
LEMMA ReadingStep ==
    ASSUME LiveInv, NEW r \in Reader, NEW v \in ReadingRow, reading' = [reading EXCEPT ![r] = v],
           UNCHANGED <<row, book, day, sweep>>, readings' \in 0..MaxMishaps,
           v.pc # "idle" => v.book = book \/ (reading[r].pc # "idle" /\ v.book = reading[r].book),
           v.pc = "positions" => /\ -Total(Reach(Sub \ Long), Slice) <= v.net - v.hand
                                 /\ v.net - v.hand <= Total(Reach(Long), Slice)
    PROVE  LiveInv'
<1>1. reading \in [Reader -> ReadingRow] /\ book \in Books /\ Sound(book)
  BY DEF LiveInv, LiveTypes
<1>2. reading'[r] = v /\ \A q \in Reader \ {r} : reading'[q] = reading[q]
  BY <1>1
<1>3. v.pc # "idle" => Sound(v.book) /\ \A o \in Live!Order : v.book[o].status # "none" => Placed(o)
  BY <1>1 DEF LiveInv, LiveTypes, Earlier, Placed
<1>4. LiveTypes'
  <2>1. reading' \in [Reader -> ReadingRow]
    BY <1>1
  <2>2. \A q \in Reader : reading'[q].pc # "idle" => Sound(reading'[q].book)
    BY <1>2, <1>3 DEF LiveInv, LiveTypes
  <2> QED BY <2>1, <2>2 DEF LiveInv, LiveTypes, Sound
<1>5. Together' /\ Recorded'
  BY DEF LiveInv, Together, Recorded, Placed
<1>6. NumbersTrue'
  BY DEF LiveInv, NumbersTrue, Live!Known, Live!Reached, Live!Slices
<1>7. \A side : Total(Reach(side), Slice)' = Total(Reach(side), Slice)
  BY DEF Reach, Placed, Total, Added, Taken
<1>8. Earlier'
  <2>1. \A o : Placed(o)' <=> Placed(o)
    BY DEF Placed
  <2>2. \A q \in Reader : reading'[q].pc # "idle" =>
            \A o \in Live!Order : reading'[q].book[o].status # "none" => Placed(o)
    BY <1>2, <1>3 DEF LiveInv, Earlier
  <2>3. \A q \in Reader : reading'[q].pc = "positions" =>
            /\ -Total(Reach(Sub \ Long), Slice) <= reading'[q].net - reading'[q].hand
            /\ reading'[q].net - reading'[q].hand <= Total(Reach(Long), Slice)
    BY <1>2 DEF LiveInv, Earlier
  <2> QED BY <1>7, <2>1, <2>2, <2>3 DEF Earlier
<1>9. Recording'
  <2>1. Current => Current'
    BY <1>2 DEF Current
  <2>2. \A s \in Sub : (Unsent(s)' <=> Unsent(s)) /\ Final(s)' = Final(s)
    BY DEF Unsent, Placed, Final
  <2> QED BY <2>1, <2>2 DEF LiveInv, Recording
<1> QED BY <1>4, <1>5, <1>6, <1>8, <1>9 DEF LiveInv

LEMMA ReadOrdersStep ==
    ASSUME LiveInv, NEW r \in Reader, Live!ReadOrders(r)
    PROVE  LiveInv'
<1> DEFINE v == [pc |-> "orders", book |-> book]
<1>1. /\ reading' = [reading EXCEPT ![r] = v] /\ UNCHANGED <<row, book, day, sweep>>
      /\ Live!Bounded /\ readings' = readings + 1
  BY DEF Live!ReadOrders
<1>2. v.pc = "orders" /\ v.book = book /\ v \in ReadingRow
  BY DEF LiveInv, LiveTypes, ReadingRow
<1>3. readings' \in 0..MaxMishaps
  <2>1. IsFiniteSet(Live!Lost)
    BY AccountAre, FS_Subset DEF Live!Lost
  <2>2. Cardinality(Live!Lost) \in Nat
    BY <2>1, FS_CardinalityType
  <2>3. Live!Cardinality(Live!Lost) = Cardinality(Live!Lost)
    BY DEF Live!Cardinality, Cardinality
  <2>4. readings \in 0..MaxMishaps /\ Cardinality(Live!Lost) + readings < MaxMishaps
    BY <1>1, <2>3 DEF LiveInv, LiveTypes, Live!Bounded
  <2> QED BY <1>1, <2>2, <2>4, AccountAre
<1> HIDE DEF v
<1>4. /\ v.pc = "positions" => /\ -Total(Reach(Sub \ Long), Slice) <= v.net - v.hand
                               /\ v.net - v.hand <= Total(Reach(Long), Slice)
      /\ v.pc # "idle" => v.book = book \/ (reading[r].pc # "idle" /\ v.book = reading[r].book)
      /\ v \in ReadingRow
  BY <1>2
<1>5. reading' = [reading EXCEPT ![r] = v] /\ UNCHANGED <<row, book, day, sweep>>
  BY <1>1
<1> QED BY <1>3, <1>4, <1>5, ReadingStep

LEMMA ReadPositionsStep ==
    ASSUME LiveInv, NEW r \in Reader, Live!ReadPositions(r)
    PROVE  LiveInv'
<1> DEFINE w == reading[r]
           v == [pc |-> "positions", book |-> w.book, net |-> Live!Net(Live!Order), hand |-> Live!Net(Manual)]
<1>1. /\ reading' = [reading EXCEPT ![r] = v] /\ UNCHANGED <<row, book, day, sweep>>
      /\ w.pc = "orders" /\ readings' = readings
  BY DEF Live!ReadPositions
<1>2. /\ v.pc = "positions" /\ v.book = w.book
      /\ v.net = Live!Net(Live!Order) /\ v.hand = Live!Net(Manual)
  OBVIOUS
<1>3. /\ v.net \in Int /\ v.hand \in Int
      /\ -Total(Reach(Sub \ Long), Slice) <= v.net - v.hand
      /\ v.net - v.hand <= Total(Reach(Long), Slice)
  BY <1>2, NetInReach DEF LiveInv, LiveTypes
<1>4. w.book \in Books
  BY <1>1 DEF LiveInv, LiveTypes, ReadingRow
<1>5. v \in ReadingRow
  <2> DEFINE n == Live!Net(Live!Order)
             h == Live!Net(Manual)
  <2>1. n \in Int /\ h \in Int
    BY <1>2, <1>3
  <2> HIDE DEF n, h
  <2>2. [pc |-> "positions", book |-> w.book, net |-> n, hand |-> h] \in ReadingRow
    BY <1>4, <2>1 DEF ReadingRow
  <2> QED BY <2>2 DEF n, h
<1>6. readings' \in 0..MaxMishaps
  BY <1>1 DEF LiveInv, LiveTypes
<1> HIDE DEF v
<1> QED BY <1>1, <1>2, <1>3, <1>5, <1>6, ReadingStep

LEMMA AbandonStep ==
    ASSUME LiveInv, NEW r \in Reader, Live!Abandon(r)
    PROVE  LiveInv'
<1>1. /\ reading' = [reading EXCEPT ![r] = Live!Idle] /\ UNCHANGED <<row, book, day, sweep>>
      /\ readings' \in 0..MaxMishaps
  BY DEF Live!Abandon, LiveInv, LiveTypes
<1>2. Live!Idle.pc = "idle" /\ Live!Idle \in ReadingRow
  BY DEF Live!Idle, ReadingRow
<1> QED BY <1>1, <1>2, ReadingStep

\* A reading ends: every row the broker has orders of is written over with what it saw.
LEMMA ConcludeStep ==
    ASSUME LiveInv, NEW r \in Reader, Live!Conclude(r)
    PROVE  LiveInv'
<1> DEFINE B    == reading[r].book
           f(s) == Live!RecordFill(row[s], B, s)
<1>1. /\ reading[r].pc = "positions" /\ UNCHANGED <<book, readings, day, sweep>>
      /\ row' = [s \in Sub |-> [row[s] EXCEPT !.fill = f(s)]]
      /\ reading' = [reading EXCEPT ![r] = Live!Idle]
  BY DEF Live!Conclude
<1>2. row \in [Sub -> SentRow] /\ reading \in [Reader -> ReadingRow] /\ book \in Books /\ B \in Books
  BY <1>1 DEF LiveInv, LiveTypes, ReadingRow
<1>3. ASSUME NEW s \in Sub
      PROVE  /\ f(s) \in Live!Fills
             /\ Mine(B, s) = {} => f(s) = row[s].fill
             /\ Mine(B, s) # {} => f(s) = Live!RecordFill([fill |-> Live!NoFill], B, s)
  <2> DEFINE R == row[s]
  <2>1. R.fill \in Live!Fills /\ B \in Books
    BY <1>2 DEF SentRow
  <2>2. f(s) = Live!RecordFill(R, B, s)
    OBVIOUS
  <2> HIDE DEF B, R, f
  <2>3. /\ Live!RecordFill(R, B, s) \in Live!Fills
        /\ Mine(B, s) = {} => Live!RecordFill(R, B, s) = R.fill
        /\ Mine(B, s) # {} => Live!RecordFill(R, B, s) = Live!RecordFill([fill |-> Live!NoFill], B, s)
    BY <2>1, RecordIs
  <2>4. R = row[s]
    BY DEF R
  <2> QED BY <2>2, <2>3, <2>4
<1> HIDE DEF f
<1>4. \A s \in Sub : /\ row'[s].fill = f(s) /\ row'[s].status = row[s].status
                     /\ row'[s] \in SentRow
  <2> SUFFICES ASSUME NEW s \in Sub
               PROVE  /\ row'[s].fill = f(s) /\ row'[s].status = row[s].status /\ row'[s] \in SentRow
    OBVIOUS
  <2>1. row[s] \in SentRow /\ row'[s] = [row[s] EXCEPT !.fill = f(s)] /\ f(s) \in Live!Fills
    BY <1>1, <1>2, <1>3
  <2> QED BY <2>1 DEF SentRow
<1>5. row' \in [Sub -> SentRow]
  BY <1>1, <1>4
<1>6. reading'[r] = Live!Idle /\ \A q \in Reader \ {r} : reading'[q] = reading[q]
  BY <1>1, <1>2
<1>7. Live!Idle.pc = "idle" /\ Live!Idle \in ReadingRow
  BY DEF Live!Idle, ReadingRow
<1>8. LiveTypes'
  <2>1. reading' \in [Reader -> ReadingRow]
    BY <1>1, <1>2, <1>7
  <2>2. \A q \in Reader : reading'[q].pc # "idle" => Sound(reading'[q].book)
    BY <1>6, <1>7 DEF LiveInv, LiveTypes
  <2> QED BY <1>1, <1>5, <2>1, <2>2 DEF LiveInv, LiveTypes, Sound
<1>9. Together' /\ Recorded' /\ NumbersTrue'
  <2>1. Together'
    BY <1>1 DEF LiveInv, Together, Placed
  <2>2. Recorded'
    BY <1>1, <1>4, AccountAre DEF LiveInv, Recorded, Placed
  <2>3. NumbersTrue'
    BY <1>1, <1>4 DEF LiveInv, NumbersTrue, Live!Known, Live!Reached, Live!Slices
  <2> QED BY <2>1, <2>2, <2>3
<1>10. Earlier'
  <2>1. \A side : Total(Reach(side), Slice)' = Total(Reach(side), Slice)
    BY <1>1 DEF Reach, Placed, Total, Added, Taken
  <2>2. \A o : Placed(o)' <=> Placed(o)
    BY <1>1 DEF Placed
  <2>3. \A q \in Reader : reading'[q].pc # "idle" => q # r /\ reading'[q] = reading[q]
    BY <1>6, <1>7
  <2> QED BY <1>7, <2>1, <2>2, <2>3, <1>6 DEF LiveInv, Earlier
<1>11. Recording'
  <2>1. Current => Current' /\ B = book
    BY <1>1, <1>6, <1>7 DEF Current
  <2>2. \A s \in Sub : (Unsent(s)' <=> Unsent(s)) /\ Final(s)' = Final(s)
    BY <1>1 DEF Unsent, Placed, Final
  <2>3. \A s \in Sub : Unsent(s) => Mine(B, s) = {}
    BY <1>1, AccountAre DEF LiveInv, Earlier, Mine, Unsent
  <2>4. \A s \in Sub : Unsent(s) => row'[s].fill = Live!NoFill
    BY <1>3, <1>4, <2>3 DEF LiveInv, Recording
  <2>5. ASSUME NEW s \in Sub, Current
        PROVE  row'[s].fill \in {row[s].fill, Final(s)} /\ (row[s].fill = Final(s) => row'[s].fill = Final(s))
    <3>1. B = book
      BY <2>1, <2>5
    <3>2. Final(s) = Live!RecordFill([fill |-> Live!NoFill], B, s)
      BY <3>1 DEF Final
    <3> HIDE DEF B
    <3> QED BY <1>3, <1>4, <3>2
  <2>6. sweep.pc = "rows" =>
          /\ day # "open" /\ Current
          /\ \A s \in Sub : /\ Unsent(s) => sweep.rows[s].fill = Live!NoFill
                            /\ row[s].fill \in {sweep.rows[s].fill, Final(s)}
    BY DEF LiveInv, Recording
  <2>7. day = "swept" => Current /\ \A s \in Sub : row[s].fill = Final(s)
    BY DEF LiveInv, Recording
  <2> HIDE DEF B
  <2>8. sweep.pc = "rows" =>
          /\ day # "open" /\ Current'
          /\ \A s \in Sub : /\ Unsent(s) => sweep.rows[s].fill = Live!NoFill
                            /\ row'[s].fill \in {sweep.rows[s].fill, Final(s)}
    BY <2>1, <2>5, <2>6
  <2>9. day = "swept" => Current' /\ \A s \in Sub : row'[s].fill = Final(s)
    BY <2>1, <2>5, <2>7
  <2> QED BY <1>1, <2>2, <2>4, <2>8, <2>9 DEF Recording
<1> QED BY <1>8, <1>9, <1>10, <1>11 DEF LiveInv

\* What a step of the sweep leaves alone.
LEMMA SweepStep ==
    ASSUME LiveInv, UNCHANGED <<book, reading, readings>>, row' \in [Sub -> SentRow],
           \A s \in Sub : row'[s].status = row[s].status,
           day' \in {"open", "closed", "swept"}, sweep' \in SweepRow, Recording'
    PROVE  LiveInv'
<1>1. LiveTypes'
  BY DEF LiveInv, LiveTypes, Sound
<1>2. Together' /\ Recorded'
  BY AccountAre DEF LiveInv, Together, Recorded, Placed
<1>3. NumbersTrue'
  BY DEF LiveInv, NumbersTrue, Live!Known, Live!Reached, Live!Slices
<1>4. Earlier'
  BY DEF LiveInv, Earlier, Placed, Reach, Total, Added, Taken
<1> QED BY <1>1, <1>2, <1>3, <1>4 DEF LiveInv

LEMMA SweepRowsStep ==
    ASSUME LiveInv, Live!SweepRows
    PROVE  LiveInv'
<1>1. /\ day = "closed" /\ sweep' = [pc |-> "rows", rows |-> row]
      /\ UNCHANGED <<row, book, reading, readings, day>> /\ Current
  BY DEF Live!SweepRows, Live!NoReadingFromToday, Current
<1>2. row \in [Sub -> SentRow] /\ sweep' \in SweepRow
  BY <1>1 DEF LiveInv, LiveTypes, SweepRow
<1>3. \A s \in Sub : (Unsent(s)' <=> Unsent(s)) /\ Final(s)' = Final(s)
  BY <1>1 DEF Unsent, Placed, Final
<1>4. Current'
  BY <1>1 DEF Current
<1>5. sweep'.rows = row
  BY <1>1
<1>6. Recording'
  BY <1>1, <1>3, <1>4, <1>5 DEF LiveInv, Recording
<1>7. day' \in {"open", "closed", "swept"} /\ UNCHANGED <<book, reading, readings>> /\ row' = row
  BY <1>1
<1> QED BY <1>2, <1>6, <1>7, SweepStep

LEMMA SweepFailsStep ==
    ASSUME LiveInv, Live!SweepFails
    PROVE  LiveInv'
<1>1. sweep' = [pc |-> "failed"] /\ UNCHANGED <<row, book, reading, readings, day>>
  BY DEF Live!SweepFails
<1>2. sweep' \in SweepRow /\ sweep'.pc # "rows"
  BY <1>1 DEF SweepRow
<1>3. \A s \in Sub : (Unsent(s)' <=> Unsent(s)) /\ Final(s)' = Final(s)
  BY <1>1 DEF Unsent, Placed, Final
<1>4. Current' <=> Current
  BY <1>1 DEF Current
<1>5. Recording'
  BY <1>1, <1>2, <1>3, <1>4 DEF LiveInv, Recording
<1>6. /\ row' \in [Sub -> SentRow] /\ day' \in {"open", "closed", "swept"}
      /\ UNCHANGED <<book, reading, readings>> /\ row' = row
  BY <1>1 DEF LiveInv, LiveTypes
<1> QED BY <1>2, <1>5, <1>6, SweepStep

LEMMA SweepBookStep ==
    ASSUME LiveInv, Live!SweepBook
    PROVE  LiveInv'
<1> DEFINE was(s) == sweep.rows[s]
           f(s)   == Live!RecordFill(was(s), book, s)
<1>1. /\ row' = [s \in Sub |-> IF f(s) = was(s).fill THEN row[s] ELSE [row[s] EXCEPT !.fill = f(s)]]
      /\ sweep.pc = "rows" /\ sweep' = Live!Idle /\ day' = "swept" /\ UNCHANGED <<book, reading, readings>>
  BY DEF Live!SweepBook
<1>2. row \in [Sub -> SentRow] /\ book \in Books /\ sweep.rows \in [Sub -> SentRow]
  BY <1>1 DEF LiveInv, LiveTypes, SweepRow
<1>3. ASSUME NEW s \in Sub
      PROVE  /\ f(s) \in Live!Fills
             /\ Unsent(s) => f(s) = was(s).fill /\ was(s).fill = Final(s) /\ row[s].fill = Final(s)
             /\ ~Unsent(s) => f(s) = Final(s)
             /\ row[s].fill \in {was(s).fill, Final(s)}
  <2>1. was(s).fill \in Live!Fills
    BY <1>2 DEF SentRow
  <2>2. /\ Unsent(s) => was(s).fill = Live!NoFill /\ row[s].fill = Live!NoFill
        /\ row[s].fill \in {was(s).fill, Final(s)}
    BY <1>1 DEF LiveInv, Recording
  <2>3. /\ Unsent(s) => Final(s) = Live!NoFill
        /\ Unsent(s) <=> Mine(book, s) = {}
    BY <1>2, FinalIs
  <2> HIDE DEF was
  <2>4. /\ f(s) \in Live!Fills
        /\ Mine(book, s) = {} => f(s) = was(s).fill
        /\ Mine(book, s) # {} => f(s) = Final(s)
    BY <1>2, <2>1, RecordIs DEF Final
  <2> HIDE DEF f
  <2> QED BY <2>2, <2>3, <2>4
<1> HIDE DEF was, f
<1>4. \A s \in Sub : row'[s].fill = Final(s) /\ row'[s].status = row[s].status /\ row'[s] \in SentRow
  <2> SUFFICES ASSUME NEW s \in Sub
               PROVE  row'[s].fill = Final(s) /\ row'[s].status = row[s].status /\ row'[s] \in SentRow
    OBVIOUS
  <2>1. row[s] \in SentRow
    BY <1>2
  <2>2. CASE f(s) = was(s).fill
    <3>1. row'[s] = row[s]
      BY <1>1, <2>2
    <3> QED BY <1>3, <2>1, <2>2, <3>1
  <2>3. CASE f(s) # was(s).fill
    <3>1. row'[s] = [row[s] EXCEPT !.fill = f(s)]
      BY <1>1, <2>3
    <3>2. f(s) = Final(s) /\ f(s) \in Live!Fills
      BY <1>3, <2>3
    <3> QED BY <2>1, <3>1, <3>2 DEF SentRow
  <2> QED BY <2>2, <2>3
<1>5. row' \in [Sub -> SentRow]
  BY <1>1, <1>4
<1>6. sweep'.pc = "idle" /\ sweep' \in SweepRow
  BY <1>1 DEF Live!Idle, SweepRow
<1>7. Recording'
  <2>1. \A s \in Sub : (Unsent(s)' <=> Unsent(s)) /\ Final(s)' = Final(s) /\ (Unsent(s) => Final(s) = Live!NoFill)
    BY <1>1, <1>2, FinalIs DEF Unsent, Placed, Final
  <2>2. Current'
    BY <1>1 DEF LiveInv, Recording, Current
  <2> QED BY <1>1, <1>4, <1>6, <2>1, <2>2 DEF Recording
<1>8. day' \in {"open", "closed", "swept"} /\ UNCHANGED <<book, reading, readings>>
  BY <1>1
<1>9. \A s \in Sub : row'[s].status = row[s].status
  BY <1>4
<1> QED BY <1>5, <1>6, <1>7, <1>8, <1>9, SweepStep

LEMMA LiveInit == Live!Init => LiveInv
<1> SUFFICES ASSUME Live!Init PROVE LiveInv
  OBVIOUS
<1>1. /\ row = [s \in Sub |-> [status |-> "none", fill |-> Live!NoFill]]
      /\ book = [o \in Live!Order |-> [status |-> "none", filled |-> 0]]
      /\ reading = [r \in Reader |-> Live!Idle]
      /\ readings = 0 /\ day = "open" /\ sweep = Live!Idle
  BY DEF Live!Init
<1>2. Live!Idle.pc = "idle" /\ Live!Idle \in ReadingRow /\ Live!Idle \in SweepRow
  BY DEF Live!Idle, ReadingRow, SweepRow
<1>3. [status |-> "none", fill |-> Live!NoFill] \in SentRow
  BY DEF SentRow, SentStatus, Live!NoFill, Live!Fills
<1>4. [status |-> "none", filled |-> 0] \in BookRow
  BY DEF BookRow, BookStatus
<1>5. \A s \in Sub : row[s].status = "none" /\ row[s].fill = Live!NoFill
  BY <1>1
<1>6. \A o \in Live!Order : ~Placed(o) /\ book[o].filled = 0
  BY <1>1 DEF Placed
<1>7. LiveTypes
  <2>1. row \in [Sub -> SentRow] /\ reading \in [Reader -> ReadingRow] /\ book \in Books
    BY <1>1, <1>2, <1>3, <1>4 DEF Books
  <2>2. Sound(book)
    BY <1>6, AccountAre DEF Sound
  <2>3. \A r \in Reader : reading[r].pc = "idle"
    BY <1>1, <1>2
  <2> QED BY <1>1, <1>2, <2>1, <2>2, <2>3, AccountAre DEF LiveTypes
<1>8. Together /\ Recorded /\ NumbersTrue
  <2>1. \A s \in Sub : ~Live!Known(s)
    BY <1>5 DEF Live!Known, Live!LIVE_PLACED_STATUSES
  <2> QED BY <1>6, <2>1, AccountAre DEF Together, Recorded, NumbersTrue
<1>9. Earlier
  BY <1>1, <1>2 DEF Earlier
<1>10. Recording
  BY <1>1, <1>2, <1>5 DEF Recording
<1> QED BY <1>7, <1>8, <1>9, <1>10 DEF LiveInv

LEMMA LiveNext ==
    ASSUME LiveInv, Live!Next
    PROVE  LiveInv'
<1>1. ASSUME NEW s \in Sub,
             \/ Live!WriteAhead(s) \/ Live!Send(s) \/ Live!Accept(s) \/ Live!Refuse(s)
             \/ Live!Lose(s) \/ Live!Recover(s) \/ Live!GiveUp(s)
      PROVE  LiveInv'
  BY <1>1, WriteAheadStep, SendStep, SettleRowStep
<1>2. ASSUME NEW h \in Manual, Live!PlaceByHand(h)
      PROVE  LiveInv'
  BY <1>2, PlaceByHandStep
<1>3. ASSUME NEW o \in Live!Order, Live!Fill(o) \/ Live!Withdraw(o)
      PROVE  LiveInv'
  BY <1>3, FillOrderStep, EndStep
<1>4. CASE Live!Close
  BY <1>4, EndStep
<1>5. CASE Live!Account
  BY <1>1, <1>2, <1>3, <1>4, <1>5 DEF Live!Account
<1>6. ASSUME NEW r \in Reader,
             Live!ReadOrders(r) \/ Live!ReadPositions(r) \/ Live!Abandon(r) \/ Live!Conclude(r)
      PROVE  LiveInv'
  BY <1>6, ReadOrdersStep, ReadPositionsStep, AbandonStep, ConcludeStep
<1>7. CASE Live!Sweep
  BY <1>7, SweepRowsStep, SweepBookStep, SweepFailsStep DEF Live!Sweep
<1> QED BY <1>5, <1>6, <1>7 DEF Live!Next, Live!Read

\* LiveInv holds in every state of the live account.
THEOREM LiveInvariant == Spec => [](OnAccount => LiveInv)
<1>1. Init => (OnAccount => LiveInv)
  BY LiveInit DEF Init, OnAccount, LiveUnused
<1>2. (OnAccount => LiveInv) /\ [Next]_<<paper, live, figures>> => (OnAccount => LiveInv)'
  <2>1. CASE OnAccount /\ Live!Next
    <3> SUFFICES ASSUME OnAccount => LiveInv PROVE (OnAccount => LiveInv)'
      BY DEF Next
    <3> QED BY <2>1, LiveNext
  <2>2. CASE UNCHANGED live
    <3> SUFFICES ASSUME OnAccount => LiveInv PROVE (OnAccount => LiveInv)'
      OBVIOUS
    <3>1. OnAccount' <=> OnAccount
      BY <2>2 DEF live, OnAccount
    <3>2. LiveTypes' <=> LiveTypes
      BY <2>2 DEF live, LiveTypes, Sound
    <3>3. (Together /\ Recorded /\ NumbersTrue)' <=> (Together /\ Recorded /\ NumbersTrue)
      BY <2>2 DEF live, Together, Recorded, NumbersTrue, Placed, Live!Known, Live!Reached, Live!Slices
    <3>4. Earlier' <=> Earlier
      BY <2>2 DEF live, Earlier, Placed, Reach, Total, Added, Taken
    <3>5. Recording' <=> Recording
      <4>1. \A s : (Unsent(s)' <=> Unsent(s)) /\ Final(s)' = Final(s)
        BY <2>2 DEF live, Unsent, Placed, Final
      <4> QED BY <2>2, <4>1 DEF live, Recording, Current
    <3> QED BY <3>1, <3>2, <3>3, <3>4, <3>5 DEF LiveInv
  <2> QED BY <2>1, <2>2 DEF Next
<1> QED BY <1>1, <1>2, PTL DEF Spec

-----------------------------------------------------------------------------
(* The live account: what follows from it.                                  *)

\* Every variable of the live account is of its type, and a row that says its orders exist
\* is right (live_orders.py, live_reconciliation.py).
THEOREM AccountTypes == Spec => [](OnAccount => Live!TypeOK)
<1>1. LiveInv => Live!TypeOK
  <2> SUFFICES ASSUME LiveInv PROVE Live!TypeOK
    OBVIOUS
  <2>1. \A s \in Sub : row[s] \in SentRow
    BY DEF LiveInv, LiveTypes
  <2>2. \A o \in Live!Order : book[o] \in BookRow /\ book[o].filled <= Quantity[o]
    BY DEF LiveInv, LiveTypes, Books, Sound
  <2>3. \A r \in Reader : reading[r] \in ReadingRow
    BY DEF LiveInv, LiveTypes
  <2>4. \A o \in Live!Order : book[o].filled \in 0..Quantity[o] /\ book[o].status \in BookStatus
    BY <2>2, AccountAre DEF BookRow
  <2>5. \A r \in Reader : reading[r].pc \in {"idle", "orders", "positions"}
    BY <2>3 DEF ReadingRow
  <2>6. \A s \in Sub : row[s].status \in SentStatus /\ row[s].fill \in Live!Fills
    BY <2>1 DEF SentRow
  <2> QED BY <2>4, <2>5, <2>6 DEF LiveInv, LiveTypes, NumbersTrue, Live!TypeOK, BookStatus, SentStatus
<1> QED BY <1>1, LiveInvariant, PTL

\* Once the rows are settled, those that say their orders exist are those whose orders do.
KnownOf(side) == {o \in Slice : Live!Known(Owner[o]) /\ Owner[o] \in side}
LEMMA SettledIs ==
    ASSUME LiveInv, Live!RowsSettled
    PROVE  \A o \in Slice : Live!Known(Owner[o]) <=> Placed(o)
<1> SUFFICES ASSUME NEW o \in Slice PROVE Live!Known(Owner[o]) <=> Placed(o)
  OBVIOUS
<1>1. Owner[o] \in Sub /\ row[Owner[o]] \in SentRow
  BY AccountAre DEF LiveInv, LiveTypes
<1>2. Placed(o) => Live!Reached(Owner[o])
  BY DEF Placed, Live!Reached, Live!Slices
<1>3. Live!Known(Owner[o]) => Placed(o)
  BY <1>1 DEF LiveInv, NumbersTrue, Together, Placed, Live!Reached, Live!Slices
<1>4. Placed(o) => Live!Known(Owner[o])
  BY <1>1, <1>2 DEF LiveInv, Recorded, Live!RowsSettled, SentRow, SentStatus, Live!Known, Live!LIVE_PLACED_STATUSES
<1> QED BY <1>3, <1>4

LEMMA GrossIs ==
    ASSUME LiveInv, Live!RowsSettled
    PROVE  /\ \A side : Live!Gross(side) = Total(Reach(side), Slice) /\ Live!Gross(side) \in Nat
           /\ Live!Gross(Sub) = Live!Gross(Long) + Live!Gross(Sub \ Long)
<1>1. ASSUME NEW side
      PROVE  /\ Live!Gross(side) = Total(Quantity, KnownOf(side)) /\ Live!Gross(side) \in Nat
             /\ Live!Gross(side) = Total(Reach(side), Slice)
             /\ Over(Quantity, KnownOf(side)) /\ IsFiniteSet(KnownOf(side))
  <2> DEFINE S == KnownOf(side)
             F == [o \in S |-> Quantity[o]]
  <2>1. S \subseteq Slice /\ IsFiniteSet(S) /\ \A o \in S : Quantity[o] \in Nat
    BY AccountAre, FS_Subset DEF KnownOf
  <2>2. Live!Gross(side) = Live!MapThenSumSet(LAMBDA o : Quantity[o], S)
    BY DEF Live!Gross, KnownOf
  <2>3. Reach(side) = [o \in Slice |-> IF o \in S THEN Quantity[o] ELSE 0]
    BY SettledIs DEF Reach, KnownOf
  <2> HIDE DEF S
  <2>4. Live!MapThenSumSet(LAMBDA o : Quantity[o], S) = Total([o \in S |-> Quantity[o]], S)
    <3>1. IsFiniteSet(S) /\ \A o \in S : Quantity[o] \in Int
      BY <2>1
    <3> QED BY <3>1, SumOfSizes
  <2>5. Over(F, S) /\ Over(Quantity, S) /\ \A o \in S : F[o] \in Nat /\ F[o] = Quantity[o]
    BY <2>1 DEF Over
  <2>6. Over(Reach(side), Slice) /\ \A o \in Slice : Reach(side)[o] = IF o \in S THEN Quantity[o] ELSE 0
    BY <2>3, ReachIs
  <2>7. Live!Gross(side) = Total(F, S)
    BY <2>2, <2>4
  <2> HIDE DEF F
  <2>8. Total(F, S) = Total(Quantity, S)
    BY <2>5, TotalSame
  <2>9. Total(Reach(side), Slice) = Total(Quantity, S)
    BY <2>1, <2>5, <2>6, TotalSame
  <2>10. Total(F, S) \in Nat
    BY <2>1, <2>5, TotalNat
  <2> QED BY <2>1, <2>5, <2>7, <2>8, <2>9, <2>10 DEF S
<1>2. KnownOf(Sub) = KnownOf(Long) \cup KnownOf(Sub \ Long) /\ KnownOf(Long) \cap KnownOf(Sub \ Long) = {}
  BY AccountAre DEF KnownOf
<1>3. Total(Quantity, KnownOf(Long) \cup KnownOf(Sub \ Long))
        = Total(Quantity, KnownOf(Long)) + Total(Quantity, KnownOf(Sub \ Long))
  <2>1. /\ Over(Quantity, KnownOf(Long)) /\ Over(Quantity, KnownOf(Sub \ Long))
        /\ IsFiniteSet(KnownOf(Long)) /\ IsFiniteSet(KnownOf(Sub \ Long))
    BY <1>1
  <2> QED BY <1>2, <2>1, TotalUnion
<1> QED BY <1>1, <1>2, <1>3

\* What a reading holds of our own, and what it may: in reach when the rows are settled.
LEMMA OwnIs ==
    ASSUME LiveInv, Live!RowsSettled, NEW r \in Reader, reading[r].pc = "positions"
    PROVE  /\ reading[r].net \in Int /\ reading[r].hand \in Int
           /\ -Live!Gross(Sub \ Long) <= reading[r].net - reading[r].hand
           /\ reading[r].net - reading[r].hand <= Live!Gross(Long)
<1>1. reading[r] \in ReadingRow
  BY DEF LiveInv, LiveTypes
<1>2. reading[r].net \in Int /\ reading[r].hand \in Int
  BY <1>1 DEF ReadingRow
<1>3. /\ -Total(Reach(Sub \ Long), Slice) <= reading[r].net - reading[r].hand
      /\ reading[r].net - reading[r].hand <= Total(Reach(Long), Slice)
  BY DEF LiveInv, Earlier
<1>4. Live!Gross(Long) = Total(Reach(Long), Slice) /\ Live!Gross(Sub \ Long) = Total(Reach(Sub \ Long), Slice)
  BY GrossIs
<1> QED BY <1>2, <1>3, <1>4

\* Nothing but our own orders was working and nothing is held by hand: whatever they did while
\* the books were read one after the other, the verdict lets the day go on once no row is open
\* (live_reconciliation.py:191-461).
THEOREM OwnAccountIsSafe_Holds == Spec => []OwnAccountIsSafe
<1>1. (OnAccount => LiveInv) => OwnAccountIsSafe
  <2> SUFFICES ASSUME LiveInv, NEW r \in Reader, reading[r].pc = "positions", reading[r].hand = 0,
                      \A h \in Manual : reading[r].book[h].status # "OPEN", Live!RowsSettled
               PROVE  Live!Verdict(reading[r].book, reading[r].net) # "BLOCKED"
    BY DEF OwnAccountIsSafe, Live!OwnAccountIsSafe
  <2>1. \A s \in Sub : row[s].status # "UNKNOWN"
    BY DEF Live!RowsSettled
  <2>2. \A o \in Live!Untracked(reading[r].book) : reading[r].book[o].status # "OPEN"
    <3>1. \A o \in Slice : reading[r].book[o].status # "none" => Live!Known(Owner[o])
      BY SettledIs, AccountAre DEF LiveInv, Earlier
    <3> QED BY <3>1, AccountAre DEF Live!Untracked
  <2>3. reading[r].net \in -Live!Gross(Sub \ Long)..Live!Gross(Long)
    <3>1. Live!Gross(Sub \ Long) \in Nat /\ Live!Gross(Long) \in Nat
      BY GrossIs
    <3>2. /\ reading[r].net \in Int
          /\ -Live!Gross(Sub \ Long) <= reading[r].net - reading[r].hand
          /\ reading[r].net - reading[r].hand <= Live!Gross(Long)
      BY OwnIs
    <3> QED BY <3>1, <3>2
  <2>4. ~Live!Blocking(reading[r].book, reading[r].net)
    BY <2>1, <2>2, <2>3 DEF Live!Blocking
  <2> QED BY <2>4 DEF Live!Verdict
<1> QED BY <1>1, LiveInvariant, PTL

\* An order of somebody else that works when the book is read stops the day, and so does a
\* holding by hand beyond what our own orders could hide (live_reconciliation.py:312-456).
THEOREM HandBlocks_Holds == Spec => []HandBlocks
<1>1. (OnAccount => LiveInv) => HandBlocks
  <2> SUFFICES ASSUME LiveInv, NEW r \in Reader, reading[r].pc = "positions",
                      \/ \E h \in Manual : reading[r].book[h].status = "OPEN"
                      \/ Live!RowsSettled /\ reading[r].hand \notin -Live!Gross(Sub)..Live!Gross(Sub)
               PROVE  Live!Blocking(reading[r].book, reading[r].net)
    BY DEF HandBlocks, Live!HandBlocks, Live!Verdict
  <2>1. ASSUME NEW h \in Manual, reading[r].book[h].status = "OPEN"
        PROVE  Live!Blocking(reading[r].book, reading[r].net)
    <3>1. h \in Live!Order /\ h \notin Slice
      BY AccountAre
    <3>2. h \in Live!Untracked(reading[r].book)
      BY <2>1, <3>1 DEF Live!Untracked
    <3> QED BY <2>1, <3>2 DEF Live!Blocking
  <2>2. CASE Live!RowsSettled /\ reading[r].hand \notin -Live!Gross(Sub)..Live!Gross(Sub)
    <3> DEFINE bought == Live!Gross(Long)
               sold   == Live!Gross(Sub \ Long)
               all    == Live!Gross(Sub)
               n      == reading[r].net
               h      == reading[r].hand
    <3>1. bought \in Nat /\ sold \in Nat /\ all = bought + sold
      BY <2>2, GrossIs
    <3>2. n \in Int /\ h \in Int /\ -sold <= n - h /\ n - h <= bought /\ h \notin -all..all
      BY <2>2, OwnIs
    <3> HIDE DEF bought, sold, all, n, h
    <3>3. n # 0 /\ n \notin -sold..bought
      BY <3>1, <3>2
    <3>4. n # 0 /\ n \notin -Live!Gross(Sub \ Long)..Live!Gross(Long)
      BY <3>3 DEF sold, bought
    <3> QED BY <3>4 DEF n, Live!Blocking
  <2> QED BY <2>1, <2>2
<1> QED BY <1>1, LiveInvariant, PTL

\* A sum of naturals that is zero is one of zeros.
LEMMA TotalZero ==
    ASSUME NEW F, NEW S, IsFiniteSet(S), \A e \in S : F[e] \in Nat, Total(F, S) = 0, NEW e \in S
    PROVE  F[e] = 0
<1>1. Over(F, S) /\ IsFiniteSet(S \ {e})
  BY FS_Subset DEF Over
<1>2. Total(F, S \ {e}) \in Nat
  BY <1>1, TotalNat
<1>3. Total(F, S) = F[e] + Total(F, S \ {e})
  BY <1>1, TotalRemove
<1> QED BY <1>2, <1>3

FilledBy == [o \in Slice |-> book[o].filled]
PaidBy   == [o \in Slice |-> book[o].filled * Price[o]]
LEMMA OrdersAre ==
    ASSUME LiveInv
    PROVE  /\ Over(FilledBy, Slice) /\ Over(PaidBy, Slice)
           /\ \A o \in Slice : /\ book[o].filled \in Nat /\ book[o].filled * Price[o] \in Nat
                               /\ FilledBy[o] = book[o].filled /\ PaidBy[o] = book[o].filled * Price[o]
                               /\ book[o].status \in BookStatus
                               /\ book[o].status = "none" => FilledBy[o] = 0 /\ PaidBy[o] = 0
<1>1. \A o \in Slice : /\ book[o] \in BookRow /\ Price[o] \in Nat
                       /\ book[o].status = "none" => book[o].filled = 0
  BY AccountAre DEF LiveInv, LiveTypes, Books, Sound
<1>2. \A o \in Slice : book[o].filled \in Nat /\ book[o].filled * Price[o] \in Nat /\ book[o].status \in BookStatus
  BY <1>1, ProductIsNat DEF BookRow
<1>3. \A i \in Nat : 0 * i = 0
  OBVIOUS
<1>4. \A o \in Slice : FilledBy[o] = book[o].filled /\ PaidBy[o] = book[o].filled * Price[o]
  BY DEF FilledBy, PaidBy
<1>5. \A o \in Slice : book[o].status = "none" => FilledBy[o] = 0 /\ PaidBy[o] = 0
  BY <1>1, <1>3, <1>4
<1>6. \A o \in Slice : FilledBy[o] \in Int /\ PaidBy[o] \in Int
  BY <1>2, <1>4
<1> QED BY <1>2, <1>4, <1>5, <1>6 DEF Over

\* What was filled of a submission, and paid for it, as sums over its slices.
LEMMA FilledOfIs ==
    ASSUME LiveInv, NEW s \in Sub
    PROVE  /\ Live!FilledOf(s) = Total(FilledBy, Of({s})) /\ Live!FilledOf(s) \in Nat
           /\ Live!PaidOf(s) = Total(PaidBy, Of({s})) /\ Live!PaidOf(s) \in Nat
           /\ Live!FilledOf(s) = 0 => Live!PaidOf(s) = 0
           /\ Unsent(s) => Live!FilledOf(s) = 0
<1> DEFINE S == Of({s})
           F == [o \in S |-> book[o].filled]
           P == [o \in S |-> book[o].filled * Price[o]]
<1>1. Live!Slices(s) = S /\ S \subseteq Slice /\ IsFiniteSet(S)
  BY AccountAre, FS_Subset DEF Live!Slices, Of
<1>2. Unsent(s) => \A o \in S : book[o].status = "none"
  BY DEF Unsent, Placed, Of
<1> HIDE DEF S
<1>3. \A o \in S : /\ book[o].filled \in Int /\ book[o].filled * Price[o] \in Int
                   /\ FilledBy[o] \in Nat /\ PaidBy[o] \in Nat
                   /\ F[o] = FilledBy[o] /\ P[o] = PaidBy[o]
  BY <1>1, OrdersAre
<1>4. Live!FilledOf(s) = Total(F, S)
  <2>1. \A o \in S : book[o].filled \in Int
    BY <1>3
  <2>2. Live!MapThenSumSet(LAMBDA o : book[o].filled, S) = Total([o \in S |-> book[o].filled], S)
    BY <1>1, <2>1, SumOfFilled
  <2> QED BY <1>1, <2>2 DEF Live!FilledOf
<1>5. Live!PaidOf(s) = Total(P, S)
  <2>1. \A o \in S : book[o].filled * Price[o] \in Int
    BY <1>3
  <2>2. Live!MapThenSumSet(LAMBDA o : book[o].filled * Price[o], S) = Total([o \in S |-> book[o].filled * Price[o]], S)
    BY <1>1, <2>1, SumOfPaid
  <2> QED BY <1>1, <2>2 DEF Live!PaidOf
<1> HIDE DEF F, P
<1>6. Total(F, S) = Total(FilledBy, S) /\ Total(P, S) = Total(PaidBy, S)
  <2>1. Over(F, S) /\ Over(P, S) /\ Over(FilledBy, S) /\ Over(PaidBy, S)
    BY <1>3 DEF Over
  <2> QED BY <1>3, <2>1, TotalSame
<1>7. Total(FilledBy, S) \in Nat /\ Total(PaidBy, S) \in Nat
  BY <1>1, <1>3, TotalNat
<1>8. ASSUME \A o \in S : FilledBy[o] = 0 /\ PaidBy[o] = 0
      PROVE  Total(FilledBy, S) = 0 /\ Total(PaidBy, S) = 0
  <2>1. /\ Over(FilledBy, S) /\ Over(PaidBy, S) /\ {} \in SUBSET S
        /\ Over(FilledBy, {}) /\ \A o \in S \ {} : FilledBy[o] = 0 /\ PaidBy[o] = 0
    BY <1>3, <1>8 DEF Over
  <2>2. Total(FilledBy, S) = Total(FilledBy, {}) /\ Total(PaidBy, S) = Total(FilledBy, {})
    BY <2>1, TotalSame
  <2> QED BY <2>2, TotalEmpty
<1>9. Total(FilledBy, S) = 0 => Total(PaidBy, S) = 0
  <2> SUFFICES ASSUME Total(FilledBy, S) = 0 PROVE Total(PaidBy, S) = 0
    OBVIOUS
  <2>1. \A o \in S : FilledBy[o] = 0
    BY <1>1, <1>3, TotalZero
  <2>2. \A i \in Nat : 0 * i = 0
    OBVIOUS
  <2>3. \A o \in S : PaidBy[o] = 0
    BY <1>1, <2>1, <2>2, OrdersAre, AccountAre
  <2> QED BY <1>8, <2>1, <2>3
<1>10. Unsent(s) => Total(FilledBy, S) = 0
  BY <1>1, <1>2, <1>8, OrdersAre
<1> QED BY <1>4, <1>5, <1>6, <1>7, <1>9, <1>10 DEF S

\* What a row says once it says what the broker does.
LEMMA FinalSums ==
    ASSUME LiveInv, NEW s \in Sub
    PROVE  /\ Final(s).quantity = Live!FilledOf(s) /\ Final(s).paid = Live!PaidOf(s)
           /\ Unsent(s) => Final(s).status = "none"
           /\ ~Unsent(s) => Final(s).status = Live!AgreedStatus({book[o].status : o \in Live!Slices(s)})
<1>1. book \in Books
  BY DEF LiveInv, LiveTypes
<1>2. Unsent(s) <=> Mine(book, s) = {}
  BY <1>1, FinalIs
<1>3. CASE Unsent(s)
  <2>1. Final(s) = [quantity |-> 0, paid |-> 0, status |-> "none"]
    BY <1>1, <1>3, FinalIs DEF Live!NoFill
  <2>2. Live!FilledOf(s) = 0 /\ Live!PaidOf(s) = 0
    BY <1>3, FilledOfIs
  <2> QED BY <1>3, <2>1, <2>2
<1>4. CASE ~Unsent(s)
  <2>1. Mine(book, s) = Live!Slices(s)
    BY <1>4 DEF LiveInv, Together, Unsent, Placed, Mine, Live!Slices
  <2> DEFINE none == [fill |-> Live!NoFill]
  <2>2. none.fill \in Live!Fills
    BY DEF Live!NoFill, Live!Fills
  <2> HIDE DEF none
  <2>3. Live!RecordFill(none, book, s) =
            [quantity |-> Live!MapThenSumSet(LAMBDA o : book[o].filled, Mine(book, s)),
             paid     |-> Live!MapThenSumSet(LAMBDA o : book[o].filled * Price[o], Mine(book, s)),
             status   |-> Live!AgreedStatus({book[o].status : o \in Mine(book, s)})]
    BY <1>1, <1>2, <1>4, <2>2, RecordIs
  <2>4. Final(s) = [quantity |-> Live!FilledOf(s), paid |-> Live!PaidOf(s),
                    status |-> Live!AgreedStatus({book[o].status : o \in Live!Slices(s)})]
    BY <2>1, <2>3 DEF Final, none, Live!FilledOf, Live!PaidOf
  <2> QED BY <1>4, <2>4
<1> QED BY <1>3, <1>4

\* After the sweep a row's status is one all its slices agree on, or says that they do not.
LEMMA AgreedIs ==
    ASSUME LiveInv, NEW s \in Sub, ~Unsent(s),
           NEW st, st = Live!AgreedStatus({book[o].status : o \in Live!Slices(s)})
    PROVE  IF st = "PARTIAL" THEN \E o, p \in Live!Slices(s) : book[o].status # book[p].status
                             ELSE \A o \in Live!Slices(s) : book[o].status = st
<1> DEFINE states == {book[o].status : o \in Live!Slices(s)}
<1>1. Live!Slices(s) # {} /\ \A o \in Live!Slices(s) : book[o].status \in BookStatus
  BY OrdersAre DEF Unsent, Live!Slices
<1>2. states # {} /\ "PARTIAL" \notin states /\ IsFiniteSet(states)
  <2>1. states \subseteq BookStatus /\ "PARTIAL" \notin BookStatus
    BY <1>1 DEF BookStatus
  <2>2. IsFiniteSet(BookStatus)
    <3>1. \A l : IsFiniteSet({l})
      BY FS_Singleton
    <3>2. IsFiniteSet({"none"} \cup {"OPEN"}) /\ IsFiniteSet({"COMPLETE"} \cup {"CANCELLED"})
      BY <3>1, FS_Union
    <3>3. IsFiniteSet(({"none"} \cup {"OPEN"}) \cup ({"COMPLETE"} \cup {"CANCELLED"}))
      BY <3>2, FS_Union
    <3>4. BookStatus = ({"none"} \cup {"OPEN"}) \cup ({"COMPLETE"} \cup {"CANCELLED"})
      BY DEF BookStatus
    <3> QED BY <3>3, <3>4
  <2> QED BY <1>1, <2>1, <2>2, FS_Subset
<1>3. CASE \E l : states = {l}
  <2>1. PICK l : states = {l}
    BY <1>3
  <2>2. Live!Cardinality(states) = 1
    <3>1. Cardinality({l}) = 1
      BY FS_Singleton
    <3>2. Live!Cardinality(states) = Cardinality(states)
      BY DEF Live!Cardinality, Cardinality
    <3> QED BY <2>1, <3>1, <3>2
  <2>3. st = l
    <3> HIDE DEF states
    <3>1. Live!AgreedStatus(states) = CHOOSE z \in states : TRUE
      BY <2>2 DEF Live!AgreedStatus
    <3>2. (CHOOSE z \in states : TRUE) \in states
      BY <1>2
    <3> QED BY <2>1, <3>1, <3>2 DEF states
  <2> QED BY <1>2, <2>1, <2>3
<1>4. CASE ~\E l : states = {l}
  <2>1. Live!Cardinality(states) # 1
    <3>1. Live!Cardinality(states) = Cardinality(states)
      BY DEF Live!Cardinality, Cardinality
    <3> HIDE DEF states
    <3>2. Cardinality(states) # 1
      BY <1>2, <1>4, FS_Singleton
    <3> QED BY <3>1, <3>2
  <2>2. st = "PARTIAL"
    <3> HIDE DEF states
    <3>1. Live!AgreedStatus(states) = "PARTIAL"
      BY <2>1 DEF Live!AgreedStatus
    <3> QED BY <3>1 DEF states
  <2>3. PICK o \in Live!Slices(s) : TRUE
    BY <1>1
  <2>4. PICK p \in Live!Slices(s) : book[p].status # book[o].status
    BY <1>4, <2>3
  <2> QED BY <2>2, <2>3, <2>4
<1> QED BY <1>3, <1>4

\* After the sweep every row says what the broker filled of it and at what cost, rows whose
\* answer was lost too, whatever readings recorded before it and after it and in whatever
\* order they committed (live_fills.py:61-115, 226-259).
THEOREM SweptIsFinal_Holds == Spec => []SweptIsFinal
<1>1. (OnAccount => LiveInv) => SweptIsFinal
  <2> SUFFICES ASSUME LiveInv, day = "swept", NEW s \in Sub
               PROVE  /\ row[s].fill.quantity = Live!FilledOf(s)
                      /\ row[s].fill.paid = Live!PaidOf(s)
                      /\ IF row[s].fill.status = "PARTIAL"
                         THEN \E o, p \in Live!Slices(s) : book[o].status # book[p].status
                         ELSE \A o \in Live!Slices(s) : book[o].status = row[s].fill.status
    BY DEF SweptIsFinal, Live!SweptIsFinal
  <2>1. row[s].fill = Final(s)
    BY DEF LiveInv, Recording
  <2>2. CASE Unsent(s)
    <3>1. Final(s).status = "none" /\ \A o \in Live!Slices(s) : book[o].status = "none"
      BY <2>2, FinalSums DEF Unsent, Placed, Live!Slices
    <3> QED BY <2>1, <3>1, FinalSums
  <2>3. CASE ~Unsent(s)
    <3>1. row[s].fill.status = Live!AgreedStatus({book[o].status : o \in Live!Slices(s)})
      BY <2>1, <2>3, FinalSums
    <3>2. IF row[s].fill.status = "PARTIAL"
          THEN \E o, p \in Live!Slices(s) : book[o].status # book[p].status
          ELSE \A o \in Live!Slices(s) : book[o].status = row[s].fill.status
      BY <2>3, <3>1, AgreedIs
    <3> QED BY <2>1, <3>2, FinalSums
  <2> QED BY <2>2, <2>3
<1> QED BY <1>1, LiveInvariant, PTL

\* What is aggregated of the rows of one side, after the sweep.
LEMMA AggregateIs ==
    ASSUME LiveInv, day = "swept", NEW D \in SUBSET Sub
    PROVE  /\ Live!Aggregate(row, D).quantity = Total(FilledBy, Of(D))
           /\ Live!Aggregate(row, D).paid = Live!MapThenSumSet(LAMBDA s : Live!PaidOf(s), D)
           /\ Total(FilledBy, Of(D)) \in Nat
           /\ Live!Aggregate(row, D).paid \in Int
<1> DEFINE S == Live!Filled(row) \cap D
           Q == [s \in S |-> row[s].fill.quantity]
           P == [s \in S |-> row[s].fill.paid]
           G == [s \in Sub |-> Total(FilledBy, Of({s}))]
           C == [s \in D |-> Live!PaidOf(s)]
<1>1. \A s \in Sub : row[s].fill.quantity = Live!FilledOf(s) /\ row[s].fill.paid = Live!PaidOf(s)
  BY FinalSums DEF LiveInv, Recording
<1>2. \A s \in Sub : /\ Live!FilledOf(s) = G[s] /\ Live!FilledOf(s) \in Nat /\ Live!PaidOf(s) \in Nat
                     /\ Live!FilledOf(s) = 0 => Live!PaidOf(s) = 0
  BY FilledOfIs
<1>3. \A s \in Sub : row[s].fill.quantity \in Int /\ row[s].fill.paid \in Int /\ Live!PaidOf(s) \in Int
  <2> HIDE DEF G
  <2> SUFFICES ASSUME NEW s \in Sub
               PROVE  row[s].fill.quantity \in Int /\ row[s].fill.paid \in Int /\ Live!PaidOf(s) \in Int
    OBVIOUS
  <2>1. Live!FilledOf(s) \in Nat /\ Live!PaidOf(s) \in Nat
    BY <1>2
  <2> QED BY <1>1, <2>1
<1>4. S \subseteq D /\ D \subseteq Sub /\ IsFiniteSet(S) /\ IsFiniteSet(D)
  BY AccountAre, FS_Subset
<1>5. \A s \in D : s \in S <=> row[s].fill.quantity > 0
  BY DEF Live!Filled
<1>6. /\ Live!Aggregate(row, D).quantity = Live!MapThenSumSet(LAMBDA s : row[s].fill.quantity, S)
      /\ Live!Aggregate(row, D).paid = Live!MapThenSumSet(LAMBDA s : row[s].fill.paid, S)
  BY DEF Live!Aggregate
<1>7. /\ \A s \in S : Q[s] = row[s].fill.quantity /\ P[s] = row[s].fill.paid
      /\ \A s \in D : C[s] = Live!PaidOf(s)
  OBVIOUS
<1> HIDE DEF S
<1>8. \A s \in S : row[s].fill.quantity \in Int
  BY <1>3, <1>4
<1>9. \A s \in S : row[s].fill.paid \in Int
  BY <1>3, <1>4
<1>10. Live!MapThenSumSet(LAMBDA s : row[s].fill.quantity, S) = Total([s \in S |-> row[s].fill.quantity], S)
  BY <1>4, <1>8, SumOfQuantities
<1>11. Live!MapThenSumSet(LAMBDA s : row[s].fill.paid, S) = Total([s \in S |-> row[s].fill.paid], S)
  BY <1>4, <1>9, SumOfAmounts
<1>12. Live!MapThenSumSet(LAMBDA s : Live!PaidOf(s), D) = Total([s \in D |-> Live!PaidOf(s)], D)
  <2>1. \A s \in D : Live!PaidOf(s) \in Int
    BY <1>3, <1>4
  <2> QED BY <1>4, <2>1, SumOfCash
<1>13. Total(G, D) = Total(FilledBy, Of(D))
  BY AccountAre, OrdersAre, TotalBySubmission
<1> HIDE DEF Q, P, G, C
<1>14. Over(Q, S) /\ Over(P, S) /\ Over(G, D) /\ Over(C, D)
  BY <1>1, <1>2, <1>4, <1>7 DEF Over
<1>15. \A s \in S : G[s] = Q[s] /\ C[s] = P[s]
  BY <1>1, <1>2, <1>4, <1>7
<1>16. \A s \in D \ S : G[s] = 0 /\ C[s] = 0
  BY <1>1, <1>2, <1>4, <1>5, <1>7
<1>17. Total(G, D) = Total(Q, S) /\ Total(C, D) = Total(P, S)
  BY <1>4, <1>14, <1>15, <1>16, TotalSame
<1>18. Total(G, D) \in Nat /\ Total(C, D) \in Int
  <2>1. \A s \in D : G[s] \in Nat
    BY <1>2, <1>4
  <2> QED BY <1>4, <1>14, <2>1, TotalNat, TotalType
<1> QED BY <1>6, <1>10, <1>11, <1>12, <1>13, <1>17, <1>18 DEF Q, P, C

\* Our net position is what was bought less what was sold.
LEMMA NetIs ==
    ASSUME LiveInv
    PROVE  Live!Net(Slice) = Total(FilledBy, Of(Long)) - Total(FilledBy, Of(Sub \ Long))
<1> DEFINE F == [o \in Slice |-> IF Live!Bought(o) THEN book[o].filled ELSE -book[o].filled]
           B == Of(Long)
           S == Of(Sub \ Long)
<1>1. Slice = B \cup S /\ B \cap S = {} /\ IsFiniteSet(B) /\ IsFiniteSet(S)
  BY AccountAre, FS_Subset DEF Of
<1>2. \A o \in Slice : book[o].filled \in Nat /\ FilledBy[o] = book[o].filled
  BY OrdersAre
<1>3. \A o \in Slice : (IF Live!Bought(o) THEN book[o].filled ELSE -book[o].filled) \in Int
  BY <1>2
<1>4. Live!Net(Slice) = Total(F, Slice)
  BY <1>3, AccountAre, SumOfSigned DEF Live!Net
<1>5. /\ \A o \in B : F[o] = FilledBy[o]
      /\ \A o \in S : F[o] = -FilledBy[o]
  BY <1>2 DEF Live!Bought, Of
<1> HIDE DEF B, S
<1>6. Over(F, B) /\ Over(F, S) /\ Over(FilledBy, B) /\ Over(FilledBy, S)
  BY <1>1, <1>2, <1>3 DEF Over
<1> HIDE DEF F
<1>7. Total(F, B \cup S) = Total(F, B) + Total(F, S)
  BY <1>1, <1>6, TotalUnion
<1>8. Total(F, B) = Total(FilledBy, B)
  BY <1>5, <1>6, TotalSame
<1>9. Total(F, S) = -Total(FilledBy, S)
  BY <1>1, <1>5, <1>6, TotalOpposite
<1>10. Total(FilledBy, B) \in Int /\ Total(FilledBy, S) \in Int
  BY <1>1, <1>6, TotalType
<1> QED BY <1>1, <1>4, <1>7, <1>8, <1>9, <1>10 DEF B, S

\* Multiplying out, for a trade that ended flat.
LEMMA FlatGross ==
    ASSUME NEW bought \in Int, NEW sold \in Int, NEW q \in Int
    PROVE  (sold * q - bought * q) * q = (sold - bought) * q * q
OBVIOUS

\* A trade that ended flat is booked after the sweep at what it left in cash, over slices, stops
\* that filled in part and orders found again (live_fills.py:166-223, trade_history.py:437-474).
THEOREM BookedIsCash_Holds == Spec => []BookedIsCash
<1>1. (OnAccount => LiveInv) => BookedIsCash
  <2> DEFINE buy  == Live!Aggregate(row, Long)
             sell == Live!Aggregate(row, Sub \ Long)
             in   == Live!MapThenSumSet(LAMBDA s : Live!PaidOf(s), Sub \ Long)
             out  == Live!MapThenSumSet(LAMBDA s : Live!PaidOf(s), Long)
             q    == Total(FilledBy, Of(Long))
  <2> SUFFICES ASSUME LiveInv, day = "swept", Live!Net(Slice) = 0, \E o \in Slice : book[o].filled > 0
               PROVE  /\ Live!Priced(buy, sell)
                      /\ Live!GrossTimes(buy, sell) = (in - out) * buy.quantity * sell.quantity
    BY DEF BookedIsCash, Live!BookedIsCash
  <2>1. Long \in SUBSET Sub /\ Sub \ Long \in SUBSET Sub
    BY AccountAre
  <2>2. buy.quantity = q /\ buy.paid = out /\ q \in Nat /\ buy.paid \in Int
    BY <2>1, AggregateIs
  <2>3. /\ sell.quantity = Total(FilledBy, Of(Sub \ Long)) /\ sell.paid = in
        /\ Total(FilledBy, Of(Sub \ Long)) \in Nat /\ sell.paid \in Int
    BY <2>1, AggregateIs
  <2>4. sell.quantity = q
    BY <2>2, <2>3, NetIs
  <2>5. q # 0
    <3> SUFFICES ASSUME q = 0 PROVE FALSE
      OBVIOUS
    <3>1. PICK o \in Slice : book[o].filled > 0
      OBVIOUS
    <3>2. PICK D \in {Of(Long), Of(Sub \ Long)} : o \in D
      BY AccountAre DEF Of
    <3>3. D \subseteq Slice /\ IsFiniteSet(D)
      BY <3>2, AccountAre, FS_Subset DEF Of
    <3>4. \A p \in D : FilledBy[p] \in Nat
      BY <3>3, OrdersAre
    <3>5. Total(FilledBy, D) = 0
      BY <2>2, <2>3, <2>4, <3>2
    <3>6. FilledBy[o] = 0
      BY <3>2, <3>3, <3>4, <3>5, TotalZero
    <3> QED BY <3>1, <3>6, OrdersAre
  <2> HIDE DEF buy, sell, in, out, q
  <2>6. Live!Priced(buy, sell)
    BY <2>2, <2>4, <2>5 DEF Live!Priced
  <2>7. Live!Min({buy.quantity, sell.quantity}) = q
    <3>1. Live!Min({q, q}) = CHOOSE l \in {q} : \A y \in {q} : l <= y
      BY DEF Live!Min
    <3>2. q <= q
      BY <2>2
    <3> QED BY <2>2, <2>4, <3>1, <3>2
  <2>8. Live!GrossTimes(buy, sell) = (in * q - out * q) * q
    BY <2>2, <2>3, <2>4, <2>7 DEF Live!GrossTimes
  <2>9. in \in Int /\ out \in Int /\ q \in Int
    BY <2>2, <2>3
  <2>10. (in * q - out * q) * q = (in - out) * q * q
    BY <2>9, FlatGross
  <2> QED BY <2>2, <2>4, <2>6, <2>8, <2>10
<1> QED BY <1>1, LiveInvariant, PTL

-----------------------------------------------------------------------------
(* The paper ledger: that it balances.                                      *)

Sold(o) == o["HALT"].filled + o["STOP"].filled + o["TARGET"].filled + o["TIME"].filled

FineOrder(o) ==
    /\ o.quantity \in 0..Qty /\ o.filled \in 0..Qty /\ o.after \in 0..MaxCandle + 1
    /\ o.status = "none" => o = Paper!NoOrder

EntryFine(o) == o.filled <= o.quantity /\ (Paper!Working(o) => o.filled < o.quantity)

\* The clock was not asked by a candle older than the one that signalled.
Timely(o) == o["TIME"].status = "none" \/ o["ENTRY"].after <= o["TIME"].after

\* Exits and position come after the entry; of the clock's exit only Timely says so.
Dated(o, p) ==
    /\ \A r \in Paper!EXIT_ROLES : o[r].status # "none" =>
         o["ENTRY"].status # "none" /\ (r # "TIME" => o["ENTRY"].after <= o[r].after)
    /\ p.status = "none" => p.open = 0 /\ p.opened = 0
    /\ p.status # "none" => 0 < p.opened /\ o["ENTRY"].status # "none" /\ o["ENTRY"].after <= p.opened

\* The orders and the position of one trade, as they are on record or in a pass.
Balanced(o, p) ==
    /\ \A r \in Role : FineOrder(o[r])
    /\ p.opened \in 0..MaxCandle + 1 /\ Dated(o, p)
    /\ EntryFine(o["ENTRY"]) /\ 0 <= p.open /\ p.open <= o["ENTRY"].filled
    /\ Timely(o) => /\ p.open = o["ENTRY"].filled - Sold(o)
                    /\ \A r \in Role : o[r].filled <= o[r].quantity

\* What a pass may do to the orders: it fills those it works on, and adds others.
Worked(from, to, work) == \A r \in Role :
    /\ r \notin work => to[r].filled = from[r].filled
    /\ from[r].status # "none" => to[r].status # "none" /\ to[r].after = from[r].after
    /\ r = "HALT" /\ from[r].status = "none" => to[r] = from[r]
    /\ r = "ENTRY" => from[r].filled <= to[r].filled /\ (r \notin work => to[r] = from[r])

\* What it may do to the position: once there it stays, and when it was opened.
Stays(from, to) == from.status # "none" => to.status # "none" /\ to.opened = from.opened

LEMMA WorkedTwice ==
    ASSUME NEW from \in [Role -> OrderRow], NEW via \in [Role -> OrderRow], NEW to \in [Role -> OrderRow],
           NEW work, Worked(from, via, work), Worked(via, to, work)
    PROVE  Worked(from, to, work)
<1> SUFFICES ASSUME NEW r \in Role
             PROVE  /\ r \notin work => to[r].filled = from[r].filled
                    /\ from[r].status # "none" => to[r].status # "none" /\ to[r].after = from[r].after
                    /\ r = "HALT" /\ from[r].status = "none" => to[r] = from[r]
                    /\ r = "ENTRY" => from[r].filled <= to[r].filled /\ (r \notin work => to[r] = from[r])
  BY DEF Worked
<1>1. from[r].filled \in Int /\ via[r].filled \in Int /\ to[r].filled \in Int
  BY DEF OrderRow
<1> QED BY <1>1 DEF Worked

\* A trade that balances is no larger than what its entry filled.
LEMMA BalancedIs ==
    ASSUME NEW o \in [Role -> OrderRow], NEW p \in PositionRow, Balanced(o, p), Qty \in Nat
    PROVE  /\ o["ENTRY"].filled \in 0..Qty /\ p.open \in 0..Qty
           /\ \A r \in Role : o[r].filled \in 0..Qty /\ o[r].quantity \in 0..Qty
<1>1. \A r \in Role : o[r].filled \in 0..Qty /\ o[r].quantity \in 0..Qty
  BY DEF Balanced, FineOrder
<1>2. o["ENTRY"].filled \in 0..Qty
  BY <1>1, Roles
<1>3. p.open \in Int /\ 0 <= p.open /\ p.open <= o["ENTRY"].filled
  BY DEF Balanced, PositionRow
<1> QED BY <1>1, <1>2, <1>3

\* The fill of an order that has room.
LEMMA FilledFine ==
    ASSUME NEW o \in OrderRow, FineOrder(o), o.status # "none", NEW q \in Nat, q <= o.quantity - o.filled, Qty \in Nat
    PROVE  LET R == Paper!Filled(o, q) IN
           /\ FineOrder(R) /\ R.filled = o.filled + q /\ R.after = o.after /\ R.status # "none"
           /\ R.quantity = o.quantity /\ EntryFine(R)
<1> DEFINE new == IF o.filled + q = o.quantity THEN "FILLED" ELSE "PARTIALLY_FILLED"
           R   == Paper!Filled(o, q)
<1>1. R = [o EXCEPT !.filled = o.filled + q, !.status = new]
  BY DEF Paper!Filled
<1>2. new # "none" /\ (o.filled + q = o.quantity => new = "FILLED")
  OBVIOUS
<1> HIDE DEF new
<1>3. R.status = new /\ R.filled = o.filled + q /\ R.after = o.after /\ R.quantity = o.quantity
  BY <1>1 DEF OrderRow
<1> HIDE DEF R
<1>4. /\ o.quantity \in 0..Qty /\ o.filled \in 0..Qty /\ o.filled + q \in 0..Qty /\ o.filled + q <= o.quantity
      /\ o.after \in 0..MaxCandle + 1
  BY DEF FineOrder
<1>5. FineOrder(R)
  BY <1>2, <1>3, <1>4 DEF FineOrder
<1>6. EntryFine(R)
  BY <1>2, <1>3, <1>4 DEF EntryFine, Paper!Working
<1> QED BY <1>2, <1>3, <1>5, <1>6 DEF R

LEMMA NewOrderFine ==
    ASSUME NEW q \in 0..Qty, NEW k \in 0..MaxCandle + 1, Qty \in Nat
    PROVE  LET R == Paper!NewOrder(q, k) IN
           /\ FineOrder(R) /\ R.filled = 0 /\ R.after = k /\ R.status = "PENDING" /\ R.quantity = q
           /\ R.filled <= R.quantity
BY DEF Paper!NewOrder, FineOrder

LEMMA NoOrderFine ==
    ASSUME Qty \in Nat, MaxCandle \in Nat
    PROVE  /\ FineOrder(Paper!NoOrder) /\ Paper!NoOrder.filled = 0 /\ Paper!NoOrder.quantity = 0
           /\ Paper!NoOrder.status = "none" /\ EntryFine(Paper!NoOrder)
BY DEF Paper!NoOrder, FineOrder, EntryFine, Paper!Working

LEMMA CancelledFine ==
    ASSUME NEW o \in OrderRow, FineOrder(o)
    PROVE  LET R == [o EXCEPT !.status = "CANCELLED"] IN
           /\ R \in OrderRow /\ FineOrder(R) /\ R.filled = o.filled /\ R.after = o.after
           /\ R.quantity = o.quantity /\ R.status = "CANCELLED" /\ ~Paper!Working(R)
<1> DEFINE R == [o EXCEPT !.status = "CANCELLED"]
<1>1. /\ R \in OrderRow /\ R.status = "CANCELLED" /\ R.filled = o.filled /\ R.after = o.after
      /\ R.quantity = o.quantity
  BY DEF OrderRow, OrderStatus
<1> HIDE DEF R
<1> QED BY <1>1 DEF FineOrder, R, Paper!Working

\* No order fills more than is left of it, and no exit more than is held; an entry that works fills some.
LEMMA FillableFits ==
    ASSUME NEW trade \in TradeRow, Balanced(trade.order, trade.position), NEW r \in Role, NEW capacity \in Nat \ {0}
    PROVE  LET q == Paper!Fillable(trade, r, capacity) IN
           /\ q \in Int /\ q <= trade.order[r].quantity - trade.order[r].filled
           /\ r \in Paper!EXIT_ROLES => q <= trade.position.open
           /\ r = "ENTRY" /\ Paper!Working(trade.order[r]) => q > 0
<1>1. trade.order[r] \in OrderRow /\ trade.position \in PositionRow
  BY DEF TradeRow
<1>2. trade.order[r].quantity \in Int /\ trade.order[r].filled \in Int /\ trade.position.open \in Int
  BY <1>1 DEF OrderRow, PositionRow
<1>3. 0 <= trade.position.open
      /\ (r = "ENTRY" /\ Paper!Working(trade.order[r]) => trade.order[r].filled < trade.order[r].quantity)
  BY DEF Balanced, EntryFine
<1> DEFINE left == Paper!Least(trade.order[r].quantity - trade.order[r].filled, capacity)
<1>4. /\ left \in Int /\ left <= trade.order[r].quantity - trade.order[r].filled
      /\ trade.order[r].filled < trade.order[r].quantity => left > 0
  BY <1>2 DEF Paper!Least
<1>5. Paper!Fillable(trade, r, capacity)
        = IF r \in Paper!EXIT_ROLES THEN Paper!Least(left, Paper!Most(0, trade.position.open)) ELSE left
  BY DEF Paper!Fillable
<1>6. "ENTRY" \notin Paper!EXIT_ROLES
  BY Roles
<1> HIDE DEF left
<1> QED BY <1>2, <1>3, <1>4, <1>5, <1>6 DEF Paper!Least, Paper!Most

\* Orders that keep their dates are timely only if they were before.
LEMMA TimelyBefore ==
    ASSUME NEW from, NEW to, NEW work, NEW p, Worked(from, to, work), Dated(from, p), Timely(to)
    PROVE  Timely(from)
BY Roles DEF Worked, Dated, Timely


\* An exit takes from the position what it fills.
LEMMA ExitBalances ==
    ASSUME NEW trade \in TradeRow, Balanced(trade.order, trade.position),
           NEW r \in Paper!EXIT_ROLES, Paper!Working(trade.order[r]),
           NEW q \in Nat \ {0}, q <= trade.order[r].quantity - trade.order[r].filled, q <= trade.position.open,
           NEW work, r \in work, Qty \in Nat
    PROVE  LET R == Paper!FillExit(trade, r, q) IN
           /\ Balanced(R.order, R.position) /\ Worked(trade.order, R.order, work)
           /\ Stays(trade.position, R.position)
           /\ R.order[r].filled # trade.order[r].filled /\ R.order["ENTRY"] = trade.order["ENTRY"]
           /\ \A l \in Role \ {r} : R.order[l].filled = trade.order[l].filled
<1> DEFINE open   == trade.position.open - q
           closes == open <= 0
           status == IF closes THEN "CLOSED" ELSE "REDUCING"
           orders == [l \in Role |->
                        IF l = r THEN Paper!Filled(trade.order[l], q)
                        ELSE IF closes /\ l \in Paper!EXIT_ROLES /\ Paper!Working(trade.order[l])
                        THEN [trade.order[l] EXCEPT !.status = "CANCELLED"]
                        ELSE trade.order[l]]
           moved  == [trade.position EXCEPT !.open = open, !.status = status]
<1>1. Paper!FillExit(trade, r, q) = [order |-> orders, position |-> moved, closed |-> closes]
  BY Roles DEF Paper!FillExit
<1>2. /\ trade.order \in [Role -> OrderRow] /\ trade.position \in PositionRow
      /\ \A l \in Role : trade.order[l] \in OrderRow /\ FineOrder(trade.order[l])
      /\ r \in Role /\ "ENTRY" \in Role /\ "ENTRY" \notin Paper!EXIT_ROLES
  BY Roles DEF TradeRow, Balanced
<1>3. trade.order[r].status # "none"
  BY DEF Paper!Working
<1>4. ASSUME NEW l \in Role
      PROVE  /\ FineOrder(orders[l])
             /\ orders[l].filled = IF l = r THEN trade.order[l].filled + q ELSE trade.order[l].filled
             /\ orders[l].quantity = trade.order[l].quantity
             /\ trade.order[l].status # "none" => orders[l].status # "none" /\ orders[l].after = trade.order[l].after
             /\ trade.order[l].status = "none" => orders[l] = trade.order[l]
             /\ l = "ENTRY" => orders[l] = trade.order[l]
  <2>1. CASE l = r
    <3>1. orders[l] = Paper!Filled(trade.order[l], q)
      BY <2>1
    <3> HIDE DEF orders
    <3>2. /\ FineOrder(orders[l]) /\ orders[l].filled = trade.order[l].filled + q
          /\ orders[l].quantity = trade.order[l].quantity
          /\ orders[l].after = trade.order[l].after /\ orders[l].status # "none"
      BY <1>2, <1>3, <2>1, <3>1, FilledFine
    <3> QED BY <1>2, <1>3, <2>1, <3>2
  <2>2. CASE l # r /\ closes /\ l \in Paper!EXIT_ROLES /\ Paper!Working(trade.order[l])
    <3>1. orders[l] = [trade.order[l] EXCEPT !.status = "CANCELLED"]
      BY <2>2
    <3> HIDE DEF orders
    <3>2. /\ FineOrder(orders[l]) /\ orders[l].filled = trade.order[l].filled
          /\ orders[l].quantity = trade.order[l].quantity
          /\ orders[l].after = trade.order[l].after /\ orders[l].status = "CANCELLED"
      BY <1>2, <3>1, CancelledFine
    <3>3. trade.order[l].status # "none"
      BY <2>2 DEF Paper!Working
    <3> QED BY <1>2, <2>2, <3>2, <3>3
  <2>3. CASE l # r /\ ~(closes /\ l \in Paper!EXIT_ROLES /\ Paper!Working(trade.order[l]))
    <3>1. orders[l] = trade.order[l]
      BY <2>3
    <3> HIDE DEF orders
    <3> QED BY <1>2, <2>3, <3>1
  <2> QED BY <2>1, <2>2, <2>3
<1>5. /\ trade.position.open \in Int /\ trade.order["ENTRY"].filled \in Int /\ 0 <= trade.position.open
      /\ trade.position.open <= trade.order["ENTRY"].filled /\ EntryFine(trade.order["ENTRY"])
      /\ trade.position.opened \in 0..MaxCandle + 1 /\ Dated(trade.order, trade.position)
  BY <1>2 DEF PositionRow, OrderRow, Balanced
<1>6. open \in Int /\ open = trade.position.open - q /\ 0 <= open /\ open <= trade.order["ENTRY"].filled
      /\ status # "none"
  BY <1>5
<1> HIDE DEF open, status
<1>7. moved.open = open /\ moved.opened = trade.position.opened /\ moved.status = status
  BY <1>2 DEF PositionRow
<1> DEFINE R == [order |-> orders, position |-> moved, closed |-> closes]
<1>8. R.order = orders /\ R.position = moved
  OBVIOUS
<1> HIDE DEF orders, moved
<1>9. \A l \in Role : trade.order[l].filled \in Int
  BY <1>2 DEF OrderRow
<1>10. orders["ENTRY"].filled - Sold(orders) = trade.order["ENTRY"].filled - Sold(trade.order) - q
  <2>1. r \in {"HALT", "STOP", "TARGET", "TIME"}
    BY Roles
  <2> QED BY <1>4, <1>9, <2>1, Roles DEF Sold
<1>11. trade.position.status # "none"
  BY <1>5 DEF Dated
<1>12. Dated(orders, moved)
  BY <1>2, <1>4, <1>5, <1>6, <1>7, <1>11, Roles DEF Dated
<1>13. ASSUME Timely(orders)
       PROVE  /\ moved.open = orders["ENTRY"].filled - Sold(orders)
              /\ \A l \in Role : orders[l].filled <= orders[l].quantity
  <2>1. Timely(trade.order)
    BY <1>4, <1>13, Roles DEF Timely
  <2>2. /\ trade.position.open = trade.order["ENTRY"].filled - Sold(trade.order)
        /\ \A l \in Role : trade.order[l].filled <= trade.order[l].quantity
    BY <2>1 DEF Balanced
  <2>3. \A l \in Role : trade.order[l].quantity \in Int
    BY <1>2 DEF OrderRow
  <2> QED BY <1>4, <1>5, <1>6, <1>7, <1>9, <1>10, <2>2, <2>3
<1>14. Balanced(orders, moved)
  BY <1>2, <1>4, <1>5, <1>6, <1>7, <1>12, <1>13 DEF Balanced
<1>15. Worked(trade.order, orders, work)
  BY <1>2, <1>4, <1>9, Roles DEF Worked
<1>16. Stays(trade.position, moved)
  BY <1>6, <1>7 DEF Stays
<1>17. /\ orders[r].filled # trade.order[r].filled /\ orders["ENTRY"] = trade.order["ENTRY"]
       /\ \A l \in Role \ {r} : orders[l].filled = trade.order[l].filled
  BY <1>2, <1>4, <1>9
<1> HIDE DEF R
<1>18. Paper!FillExit(trade, r, q) = R
  BY <1>1 DEF R
<1> QED BY <1>8, <1>14, <1>15, <1>16, <1>17, <1>18

\* A bracket is for what is held, and never for less than has filled.
LEMMA BracketFine ==
    ASSUME NEW o \in OrderRow, FineOrder(o), NEW open \in 0..Qty, NEW after \in 0..MaxCandle + 1, Qty \in Nat
    PROVE  LET R == Paper!Bracket(o, open, after) IN
           /\ FineOrder(R) /\ R.filled = o.filled
           /\ o.status # "none" => R.status # "none" /\ R.after = o.after
           /\ o.status = "none" => R.status # "none" /\ R.after = after
           /\ o.filled <= o.quantity => R.filled <= R.quantity
<1>1. CASE o.status = "none"
  <2>1. Paper!Bracket(o, open, after) = Paper!NewOrder(open, after)
    BY <1>1 DEF Paper!Bracket, Paper!Working
  <2>2. o.filled = 0
    BY <1>1 DEF FineOrder, Paper!NoOrder
  <2> QED BY <1>1, <2>1, <2>2, NewOrderFine
<1>2. CASE Paper!Working(o)
  <2> DEFINE R == [o EXCEPT !.quantity = Paper!Most(o.filled, open)]
  <2>1. Paper!Bracket(o, open, after) = R
    BY <1>2 DEF Paper!Bracket, Paper!Working
  <2>2. o.filled \in Int /\ o.quantity \in Int
    BY DEF OrderRow
  <2>3. R.quantity = Paper!Most(o.filled, open) /\ R.filled = o.filled /\ R.status = o.status /\ R.after = o.after
    BY DEF OrderRow
  <2> HIDE DEF R
  <2>4. o.status # "none"
    BY <1>2 DEF Paper!Working
  <2>5. FineOrder(R) /\ R.filled <= R.quantity
    BY <2>2, <2>3, <2>4 DEF FineOrder, Paper!Most
  <2> QED BY <2>1, <2>3, <2>4, <2>5
<1>3. CASE ~Paper!Working(o) /\ o.status # "none"
  <2>1. Paper!Bracket(o, open, after) = o
    BY <1>3 DEF Paper!Bracket
  <2> QED BY <1>3, <2>1
<1> QED BY <1>1, <1>2, <1>3

\* The entry adds to the position what it fills.
LEMMA EntryBalances ==
    ASSUME NEW trade \in TradeRow, Balanced(trade.order, trade.position), Paper!Working(trade.order["ENTRY"]),
           NEW q \in Nat \ {0}, q <= trade.order["ENTRY"].quantity - trade.order["ENTRY"].filled,
           NEW k \in 0..MaxCandle, trade.order["ENTRY"].after <= k,
           NEW work, "ENTRY" \in work, Qty \in Nat, MaxCandle \in Nat
    PROVE  LET R == Paper!FillEntry(trade, q, k) IN
           /\ Balanced(R.order, R.position) /\ Worked(trade.order, R.order, work)
           /\ Stays(trade.position, R.position)
           /\ R.order["ENTRY"].filled # trade.order["ENTRY"].filled
           /\ \A r \in Paper!EXIT_ROLES : R.order[r].filled = trade.order[r].filled
<1> DEFINE entry  == Paper!Filled(trade.order["ENTRY"], q)
           opened == IF trade.position.status = "none" THEN k + 1 ELSE trade.position.opened
           open   == trade.position.open + q
           status == IF entry.status = "FILLED" THEN "OPEN" ELSE "OPENING"
           orders == [r \in Role |-> CASE r = "ENTRY"              -> entry
                                       [] r \in {"STOP", "TARGET"} -> Paper!Bracket(trade.order[r], open, opened)
                                       [] OTHER                    -> trade.order[r]]
           moved  == [trade.position EXCEPT !.open = open, !.opened = opened, !.status = status]
<1>1. Paper!FillEntry(trade, q, k) = [trade EXCEPT !.order = orders, !.position = moved]
  BY Roles DEF Paper!FillEntry
<1>2. /\ trade.order \in [Role -> OrderRow] /\ trade.position \in PositionRow
      /\ \A l \in Role : trade.order[l] \in OrderRow /\ FineOrder(trade.order[l])
      /\ "ENTRY" \in Role /\ "HALT" \in Role
  BY Roles DEF TradeRow, Balanced
<1>3. trade.order["ENTRY"].status # "none"
  BY DEF Paper!Working
<1>4. /\ FineOrder(entry) /\ entry.filled = trade.order["ENTRY"].filled + q
      /\ entry.after = trade.order["ENTRY"].after /\ entry.status # "none" /\ EntryFine(entry)
  BY <1>2, <1>3, FilledFine
<1>5. /\ trade.position.open \in Int /\ 0 <= trade.position.open
      /\ trade.position.open <= trade.order["ENTRY"].filled
      /\ trade.position.opened \in 0..MaxCandle + 1 /\ Dated(trade.order, trade.position)
  BY <1>2 DEF PositionRow, Balanced
<1>6. \A l \in Role : trade.order[l].filled \in 0..Qty /\ trade.order[l].quantity \in 0..Qty
                      /\ trade.order[l].after \in Int
  BY <1>2 DEF FineOrder, OrderRow
<1>7. entry.filled \in 0..Qty /\ entry.filled <= trade.order["ENTRY"].quantity
  BY <1>2, <1>4, <1>6
<1>8. /\ open \in 0..Qty /\ open = trade.position.open + q /\ open <= entry.filled
      /\ opened \in 0..MaxCandle + 1 /\ trade.order["ENTRY"].after <= opened /\ 0 < opened
      /\ trade.position.status # "none" => opened = trade.position.opened
  <2>1. open \in 0..Qty /\ open <= entry.filled
    <3>1. trade.order["ENTRY"].filled \in Int /\ entry.filled \in 0..Qty
      BY <1>6, <1>7, Roles
    <3> QED BY <1>4, <1>5, <3>1
  <2>2. opened \in 0..MaxCandle + 1 /\ trade.order["ENTRY"].after <= opened /\ 0 < opened
    <3>1. CASE trade.position.status = "none"
      BY <1>2, <1>6, <3>1
    <3>2. CASE trade.position.status # "none"
      BY <1>5, <3>2 DEF Dated
    <3> QED BY <3>1, <3>2
  <2> QED BY <2>1, <2>2
<1>9. status # "none"
  OBVIOUS
<1>10. moved.open = open /\ moved.opened = opened /\ moved.status = status
  BY <1>2 DEF PositionRow
<1> HIDE DEF entry, opened, open, moved, status
<1>11. ASSUME NEW l \in Role
       PROVE  /\ FineOrder(orders[l])
              /\ orders[l].filled = IF l = "ENTRY" THEN trade.order[l].filled + q ELSE trade.order[l].filled
              /\ trade.order[l].status # "none" => orders[l].status # "none" /\ orders[l].after = trade.order[l].after
              /\ trade.order[l].status = "none" => \/ orders[l] = trade.order[l]
                                                   \/ l \in {"STOP", "TARGET"} /\ orders[l].after = opened
              /\ trade.order[l].filled <= trade.order[l].quantity => orders[l].filled <= orders[l].quantity
  <2>1. CASE l = "ENTRY"
    <3>1. orders[l] = entry
      BY <2>1
    <3> HIDE DEF orders
    <3> QED BY <1>3, <1>4, <2>1, <3>1 DEF EntryFine
  <2>2. CASE l \in {"STOP", "TARGET"}
    <3>1. orders[l] = Paper!Bracket(trade.order[l], open, opened)
      BY <2>2
    <3> HIDE DEF orders
    <3>2. l # "ENTRY"
      BY <2>2
    <3>3. /\ FineOrder(orders[l]) /\ orders[l].filled = trade.order[l].filled
          /\ trade.order[l].status # "none" => orders[l].status # "none" /\ orders[l].after = trade.order[l].after
          /\ trade.order[l].status = "none" => orders[l].after = opened
          /\ trade.order[l].filled <= trade.order[l].quantity => orders[l].filled <= orders[l].quantity
      BY <1>2, <1>8, <3>1, BracketFine
    <3> QED BY <2>2, <3>2, <3>3
  <2>3. CASE l \notin {"STOP", "TARGET", "ENTRY"}
    <3>1. orders[l] = trade.order[l]
      BY <2>3
    <3> HIDE DEF orders
    <3> QED BY <1>2, <2>3, <3>1
  <2> QED BY <2>1, <2>2, <2>3
<1>12. orders["HALT"] = trade.order["HALT"] /\ orders["TIME"] = trade.order["TIME"] /\ orders["ENTRY"] = entry
  BY <1>2, Roles
<1> DEFINE R == [trade EXCEPT !.order = orders, !.position = moved]
<1>13. R.order = orders /\ R.position = moved
  BY DEF TradeRow
<1> HIDE DEF orders
<1>14. orders["ENTRY"].filled - Sold(orders) = trade.order["ENTRY"].filled - Sold(trade.order) + q
  BY <1>6, <1>11, Roles DEF Sold
<1>15. Dated(orders, moved)
  <2>1. orders["ENTRY"].status # "none" /\ orders["ENTRY"].after = trade.order["ENTRY"].after
    BY <1>4, <1>12
  <2>2. ASSUME NEW r \in Paper!EXIT_ROLES, orders[r].status # "none", r # "TIME"
        PROVE  orders["ENTRY"].after <= orders[r].after
    <3>1. r \in Role
      BY Roles
    <3>2. CASE trade.order[r].status # "none"
      <4>1. trade.order["ENTRY"].after <= trade.order[r].after
        BY <1>5, <2>2, <3>2 DEF Dated
      <4> QED BY <1>11, <2>1, <3>1, <3>2, <4>1
    <3>3. CASE trade.order[r].status = "none"
      BY <1>8, <1>11, <2>1, <2>2, <3>1, <3>3
    <3> QED BY <3>2, <3>3
  <2> QED BY <1>8, <1>9, <1>10, <2>1, <2>2 DEF Dated
<1>16. ASSUME Timely(orders)
       PROVE  /\ moved.open = orders["ENTRY"].filled - Sold(orders)
              /\ \A l \in Role : orders[l].filled <= orders[l].quantity
  <2>1. Timely(trade.order)
    BY <1>4, <1>12, <1>16 DEF Timely
  <2>2. /\ trade.position.open = trade.order["ENTRY"].filled - Sold(trade.order)
        /\ \A l \in Role : trade.order[l].filled <= trade.order[l].quantity
    BY <2>1 DEF Balanced
  <2> QED BY <1>8, <1>10, <1>11, <1>14, <2>2
<1>17. Balanced(orders, moved)
  BY <1>4, <1>7, <1>8, <1>10, <1>11, <1>12, <1>15, <1>16 DEF Balanced
<1>18. Worked(trade.order, orders, work)
  <2>1. trade.order["ENTRY"].filled <= orders["ENTRY"].filled
    BY <1>4, <1>6, <1>12, Roles
  <2> QED BY <1>11, <1>12, <2>1 DEF Worked
<1>19. Stays(trade.position, moved)
  BY <1>8, <1>9, <1>10 DEF Stays
<1>20. /\ orders["ENTRY"].filled # trade.order["ENTRY"].filled
       /\ \A r \in Paper!EXIT_ROLES : orders[r].filled = trade.order[r].filled
  BY <1>4, <1>6, <1>11, <1>12, Roles
<1> HIDE DEF R
<1>21. Paper!FillEntry(trade, q, k) = R
  BY <1>1 DEF R
<1> QED BY <1>13, <1>17, <1>18, <1>19, <1>20, <1>21

\* A pass leaves a trade that balances when it found one; where it filled nothing it leaves it as it
\* was, and an exit that it filled was one it works on and, of a bracket, one the candle hit.
PassedWell(trade, R, work, hit) ==
    /\ Balanced(R.order, R.position) /\ Worked(trade.order, R.order, work)
    /\ Stays(trade.position, R.position)
    /\ (\A r \in Role : R.order[r].filled = trade.order[r].filled) => R = trade
    /\ \A r \in Paper!EXIT_ROLES : R.order[r].filled # trade.order[r].filled =>
         r \in work /\ (r \in {"STOP", "TARGET"} => r \in hit)

LEMMA FillsBalance ==
    ASSUME NEW trade \in TradeRow, Balanced(trade.order, trade.position),
           NEW work \in SUBSET Role, \A r \in work : Paper!Working(trade.order[r]),
           NEW hit, NEW capacity \in Nat \ {0}, NEW k \in 0..MaxCandle,
           "ENTRY" \in work => trade.order["ENTRY"].after <= k, Qty \in Nat, MaxCandle \in Nat
    PROVE  PassedWell(trade, Paper!Fills(trade, work, hit, capacity, k), work, hit)
<1> DEFINE able   == {r \in work \cap Paper!EXIT_ROLES :
                        /\ r \in {"STOP", "TARGET"} => r \in hit
                        /\ Paper!Fillable(trade, r, capacity) > 0}
           first  == CHOOSE r \in able : \A s \in able \ {r} : Paper!Before(r, s)
           taken  == Paper!Fillable(trade, first, capacity)
           exited == IF able = {} THEN trade ELSE Paper!FillExit(trade, first, taken)
           bought == Paper!Fillable(exited, "ENTRY", capacity)
<1>1. Paper!Fills(trade, work, hit, capacity, k)
        = IF "ENTRY" \in work THEN Paper!FillEntry(exited, bought, k) ELSE exited
  BY DEF Paper!Fills
<1>2. /\ able \subseteq Paper!EXIT_ROLES /\ able \subseteq Role /\ able \subseteq work
      /\ \A r \in able : (r \in {"STOP", "TARGET"} => r \in hit) /\ Paper!Fillable(trade, r, capacity) > 0
  BY Roles
<1>3. able # {} => first \in able
  BY <1>2, FirstIs
<1> HIDE DEF able, first
<1>4. Worked(trade.order, trade.order, work)
  <2>1. \A r \in Role : trade.order[r].filled \in Int
    BY DEF TradeRow, OrderRow
  <2> QED BY <2>1 DEF Worked
<1>5. /\ exited \in TradeRow /\ Balanced(exited.order, exited.position)
      /\ Worked(trade.order, exited.order, work) /\ Stays(trade.position, exited.position)
      /\ exited.order["ENTRY"] = trade.order["ENTRY"]
      /\ (\A r \in Role : exited.order[r].filled = trade.order[r].filled) => exited = trade
      /\ \A r \in Paper!EXIT_ROLES : exited.order[r].filled # trade.order[r].filled =>
           r \in work /\ (r \in {"STOP", "TARGET"} => r \in hit)
  <2>1. CASE able = {}
    BY <1>4, <2>1 DEF Stays
  <2>2. CASE able # {}
    <3>1. /\ first \in Paper!EXIT_ROLES /\ first \in Role /\ first \in work /\ Paper!Working(trade.order[first])
          /\ taken > 0 /\ (first \in {"STOP", "TARGET"} => first \in hit)
      BY <1>2, <1>3, <2>2
    <3>2. /\ taken \in Nat \ {0} /\ taken <= trade.order[first].quantity - trade.order[first].filled
          /\ taken <= trade.position.open
      BY <3>1, FillableFits
    <3> HIDE DEF taken
    <3> DEFINE R == Paper!FillExit(trade, first, taken)
    <3>3. R \in TradeRow
      BY <3>1, <3>2, ExitFill
    <3>4. /\ Balanced(R.order, R.position) /\ Worked(trade.order, R.order, work)
          /\ Stays(trade.position, R.position)
          /\ R.order[first].filled # trade.order[first].filled /\ R.order["ENTRY"] = trade.order["ENTRY"]
          /\ \A l \in Role \ {first} : R.order[l].filled = trade.order[l].filled
      BY <3>1, <3>2, ExitBalances
    <3> HIDE DEF R
    <3>5. exited = R
      BY <2>2 DEF R
    <3> HIDE DEF exited
    <3>6. \A r \in Paper!EXIT_ROLES : exited.order[r].filled # trade.order[r].filled => r = first
      BY <3>4, <3>5, Roles
    <3> QED BY <3>1, <3>3, <3>4, <3>5, <3>6
  <2> QED BY <2>1, <2>2
<1> HIDE DEF exited
<1>6. CASE "ENTRY" \in work
  <2>1. "ENTRY" \in Role /\ Paper!Working(exited.order["ENTRY"]) /\ exited.order["ENTRY"].after <= k
    BY <1>5, <1>6, Roles
  <2>2. bought \in Nat \ {0} /\ bought <= exited.order["ENTRY"].quantity - exited.order["ENTRY"].filled
    BY <1>5, <2>1, FillableFits
  <2> HIDE DEF bought
  <2> DEFINE R == Paper!FillEntry(exited, bought, k)
  <2>3. /\ Balanced(R.order, R.position) /\ Worked(exited.order, R.order, work)
        /\ Stays(exited.position, R.position)
        /\ R.order["ENTRY"].filled # exited.order["ENTRY"].filled
        /\ \A r \in Paper!EXIT_ROLES : R.order[r].filled = exited.order[r].filled
    BY <1>5, <1>6, <2>1, <2>2, EntryBalances
  <2>4. R \in TradeRow
    BY <1>5, <2>2, EntryFill
  <2> HIDE DEF R
  <2>5. Worked(trade.order, R.order, work)
    BY <1>5, <2>3, <2>4, WorkedTwice DEF TradeRow
  <2>6. Stays(trade.position, R.position)
    BY <1>5, <2>3 DEF Stays
  <2>7. Paper!Fills(trade, work, hit, capacity, k) = R
    BY <1>1, <1>6 DEF R
  <2>8. \A r \in Paper!EXIT_ROLES : R.order[r].filled # trade.order[r].filled =>
          r \in work /\ (r \in {"STOP", "TARGET"} => r \in hit)
    BY <1>5, <2>3
  <2>9. ~ \A r \in Role : R.order[r].filled = trade.order[r].filled
    BY <1>5, <2>1, <2>3
  <2> QED BY <2>3, <2>5, <2>6, <2>7, <2>8, <2>9 DEF PassedWell
<1>7. CASE "ENTRY" \notin work
  <2>1. Paper!Fills(trade, work, hit, capacity, k) = exited
    BY <1>1, <1>7
  <2> QED BY <1>5, <2>1 DEF PassedWell
<1> QED BY <1>6, <1>7

\* The mark and the clock: at most an order that was not there is added, and nothing is filled.
LEMMA ManageBalances ==
    ASSUME NEW trade \in TradeRow, Balanced(trade.order, trade.position),
           NEW pnl \in Int, NEW due \in BOOLEAN, NEW k \in 0..MaxCandle, Qty \in Nat, MaxCandle \in Nat
    PROVE  LET R == Paper!Manage(trade, pnl, due, k) IN
           /\ Balanced(R.order, R.position) /\ Worked(trade.order, R.order, {})
           /\ R.position.status = trade.position.status /\ R.position.opened = trade.position.opened
           /\ R.position.open = trade.position.open
           /\ \A r \in Role : R.order[r].filled = trade.order[r].filled
                              /\ (trade.order[r].status # "none" => R.order[r] = trade.order[r])
<1> DEFINE mark   == IF Paper!Running(trade.position) \/ trade.closed THEN pnl ELSE trade.position.pnl
           moved  == [trade.position EXCEPT !.pnl = mark]
           marked == [trade EXCEPT !.position = moved]
           timed  == Paper!NewOrder(marked.position.open, k + 1)
           queued == [marked EXCEPT !.order["TIME"] = timed]
<1>1. Paper!Manage(trade, pnl, due, k) = IF due THEN Paper!QueueTime(marked, k + 1) ELSE marked
  BY DEF Paper!Manage
<1>2. /\ trade.position \in PositionRow /\ trade.order \in [Role -> OrderRow]
      /\ \A r \in Role : trade.order[r] \in OrderRow /\ trade.order[r].filled \in Int
  BY DEF TradeRow, OrderRow
<1>3. moved.open = trade.position.open /\ moved.opened = trade.position.opened
      /\ moved.status = trade.position.status
  BY <1>2 DEF PositionRow
<1> HIDE DEF mark, moved
<1>4. marked.order = trade.order /\ marked.position = moved /\ marked.closed = trade.closed
  BY DEF TradeRow
<1>5. Balanced(trade.order, moved)
  BY <1>3 DEF Balanced, Dated
<1>6. Worked(trade.order, trade.order, {})
  BY <1>2 DEF Worked
<1>7. CASE due /\ trade.order["TIME"] = Paper!NoOrder /\ Paper!Running(moved)
           /\ Paper!Manage(trade, pnl, due, k) = queued
  <2>1. moved.open \in 0..Qty /\ k + 1 \in 0..MaxCandle + 1
    BY <1>2, <1>3, BalancedIs
  <2>2. FineOrder(timed) /\ timed.filled = 0 /\ timed.filled <= timed.quantity /\ timed.status # "none"
    BY <1>4, <2>1, NewOrderFine
  <2> HIDE DEF timed
  <2> DEFINE orders == [trade.order EXCEPT !["TIME"] = timed]
  <2>3. queued = [marked EXCEPT !.order = orders]
    BY <1>4 DEF TradeRow
  <2>4. queued.order = orders /\ queued.position = moved
    BY <1>4, <2>3 DEF TradeRow
  <2>5. "TIME" \in Role /\ \A l \in Role : orders[l] = IF l = "TIME" THEN timed ELSE trade.order[l]
    BY <1>2, Roles
  <2>6. trade.order["TIME"].filled = 0 /\ trade.order["TIME"].status = "none"
    BY <1>7 DEF Paper!NoOrder
  <2> HIDE DEF orders, queued
  <2>7. Sold(orders) = Sold(trade.order) /\ orders["ENTRY"] = trade.order["ENTRY"]
    BY <2>2, <2>5, <2>6, Roles DEF Sold
  <2>8. Dated(orders, moved)
    <3>1. moved.status # "none"
      BY <1>7 DEF Paper!Running
    <3>2. Dated(trade.order, moved) /\ trade.order["ENTRY"].status # "none"
      BY <1>5, <3>1 DEF Balanced, Dated
    <3>3. \A r \in Paper!EXIT_ROLES : r \in Role
      BY Roles
    <3> QED BY <2>5, <2>7, <3>1, <3>2, <3>3 DEF Dated
  <2>9. Timely(trade.order)
    BY <2>6 DEF Timely
  <2>10. Balanced(orders, moved)
    BY <1>5, <2>2, <2>5, <2>7, <2>8, <2>9 DEF Balanced
  <2>11. Worked(trade.order, orders, {})
    BY <1>2, <2>2, <2>5, <2>6, Roles DEF Worked
  <2> QED BY <1>3, <1>7, <2>2, <2>4, <2>5, <2>6, <2>10, <2>11
<1>8. CASE Paper!Manage(trade, pnl, due, k) = marked
  BY <1>3, <1>4, <1>5, <1>6, <1>8
<1>9. \/ /\ Paper!QueueTime(marked, k + 1) = queued /\ marked.order["TIME"] = Paper!NoOrder
         /\ Paper!Running(marked.position)
      \/ Paper!QueueTime(marked, k + 1) = marked
  BY DEF Paper!QueueTime
<1> QED BY <1>1, <1>4, <1>7, <1>8, <1>9

-----------------------------------------------------------------------------
(* The paper ledger: the inductive invariant of the balance.                *)

\* A pass that has chosen its orders, one that has locked them, one that has the position.
Moves(w)  == \E r \in Role : w.draft.order[r].filled # w.base.order[r].filled
Chosen(w) == w.pc \in {"lock", "fill"} \/ Ends(w)
Locked(w) == w.pc = "fill" \/ Ends(w)
Has(w)    == w.pc \in {"halt", "blocked", "commit"} /\ Moves(w)

\* Its orders are there and are due; once locked they stay as they were.
Chose(w) == Chosen(w) => \A r \in w.work : order[w.sig][r].status # "none" /\ order[w.sig][r].after <= w.k
Keeps(w) == Locked(w) => \A r \in w.work : Paper!Working(order[w.sig][r]) /\ w.base.order[r] = order[w.sig][r]

\* A pass with any order to fill has the entry, while it works: the entry was due before the exits.
Covers(w) ==
    Chosen(w) /\ Timely(order[w.sig]) /\ Paper!Working(order[w.sig]["ENTRY"]) /\ w.work # {} => "ENTRY" \in w.work

\* What it read balanced, and so does what it made of it.  One that has yet to lock the position has
\* filled the entry alone.
Drafted(w) == Ends(w) =>
    /\ Balanced(w.base.order, w.base.position) /\ Balanced(w.draft.order, w.draft.position)
    /\ Worked(w.base.order, w.draft.order, w.work) /\ Stays(w.base.position, w.draft.position)
    /\ ~Moves(w) => /\ w.draft.position.open = w.base.position.open
                    /\ \A r \in Role : w.base.order[r].status # "none" => w.draft.order[r] = w.base.order[r]
    /\ w.pc = "update" => \A r \in Paper!EXIT_ROLES : w.draft.order[r].filled = w.base.order[r].filled

\* What it read is still there; if it has filled any order, the quantities are still what they were.
Fresh(w) == Ends(w) =>
    /\ \A r \in Role : w.base.order[r].status # "none" =>
         order[w.sig][r].status # "none" /\ order[w.sig][r].after = w.base.order[r].after
    /\ w.base.order["ENTRY"].filled <= order[w.sig]["ENTRY"].filled
    /\ w.base.position.status # "none" => position[w.sig].status # "none"
    /\ Timely(order[w.sig]) /\ Moves(w) =>
         /\ position[w.sig].open = w.base.position.open
         /\ \A r \in Role : order[w.sig][r].filled = w.base.order[r].filled

PassFits(w) == Chose(w) /\ Keeps(w) /\ Covers(w) /\ Drafted(w) /\ Fresh(w)

\* One pass halts the day, and only its halt cancels orders and makes halt orders, for orders and
\* positions that are there.
Held(w, s) == IF w.sig = s THEN w.draft.position.status # "none" ELSE position[s].status # "none"
There(w, s, r) ==
    IF w.sig = s THEN w.draft.order[r].status # "none" ELSE order[s][r].status # "none"
HaltFits(w) ==
    /\ w.halting => ~halted /\ w.pc \in {"commit", "reserved"}
    /\ w.cancel # {} => w.halting
    /\ \A s \in Signal, r \in Role : <<s, r>> \in w.cancel => There(w, s, r)
    /\ \A s \in Signal : w.flat[s] \in 0..Qty /\ (w.flat[s] > 0 => w.halting /\ Held(w, s))
HaltedOnce ==
    /\ halted \/ \A s \in Signal : order[s]["HALT"] = Paper!NoOrder
    /\ \A t \in Task : HaltFits(task[t])
    /\ \A t, u \in Task : task[t].halting /\ task[u].halting => t = u

\* Of two passes of one instrument no order is locked by both, and one has the position.
Apart(v, w) ==
    /\ Locked(v) /\ Locked(w) => v.work \cap w.work = {}
    /\ ~(Has(v) /\ Has(w))

BooksBalance == \A s \in Signal : candle[s] \in 0..MaxCandle /\ Balanced(order[s], position[s])
InTime(w)    == w.pc # "idle" => 0 < w.k /\ w.k <= candle[w.sig]
PassesFit    == \A t \in Task : InTime(task[t]) /\ PassFits(task[t])
PassesApart  == \A t, u \in Task : t # u /\ task[t].sig = task[u].sig => Apart(task[t], task[u])

BalanceInv == BooksBalance /\ PassesFit /\ HaltedOnce /\ PassesApart

-----------------------------------------------------------------------------
(* The paper ledger: the steps of one coroutine keep the balance.           *)

LEMMA BalanceTask ==
    ASSUME PaperInv, BalanceInv, NEW t \in Task, NEW w, task' = [task EXCEPT ![t] = w],
           UNCHANGED <<order, position>>,
           \A s \in Signal : candle'[s] \in 0..MaxCandle /\ candle[s] <= candle'[s],
           halted => halted', halted' => halted \/ (task[t].halting /\ ~w.halting),
           PassFits(w), w.pc # "idle" => 0 < w.k /\ w.k <= candle'[w.sig],
           HaltFits(w), w.halting => \A u \in Task \ {t} : ~task[u].halting,
           \A u \in Task \ {t} : task[u].sig = w.sig => Apart(w, task[u]) /\ Apart(task[u], w)
    PROVE  BalanceInv'
<1>1. BooksBalance /\ PassesFit /\ HaltedOnce /\ PassesApart /\ PaperTypes
  BY DEF BalanceInv, PaperInv
<1>2. task'[t] = w /\ \A u \in Task \ {t} : task'[u] = task[u]
  BY <1>1 DEF PaperTypes
<1>3. BooksBalance'
  BY <1>1 DEF BooksBalance
<1>4. PassesFit'
  <2> SUFFICES ASSUME NEW u \in Task PROVE InTime(task[u])' /\ PassFits(task[u])'
    BY DEF PassesFit
  <2>1. CASE u = t
    <3>1. InTime(task[u])'
      BY <1>2, <2>1 DEF InTime
    <3>2. PassFits(task[u])'
      BY <1>2, <2>1 DEF PassFits, Chose, Keeps, Covers, Drafted, Fresh
    <3> QED BY <3>1, <3>2
  <2>2. CASE u # t
    <3>0. task'[u] = task[u] /\ InTime(task[u]) /\ PassFits(task[u]) /\ task[u] \in TaskRow
          /\ (task[u].pc # "idle" => task[u].sig \in Signal)
      BY <1>1, <1>2, <2>2 DEF PassesFit, PaperTypes
    <3>1. InTime(task[u])'
      <4>1. ASSUME task[u].pc # "idle" PROVE task[u].k <= candle'[task[u].sig]
        <5>1. task[u].sig \in Signal /\ task[u].k <= candle[task[u].sig] /\ task[u].k \in Int
          BY <3>0, <4>1 DEF InTime, TaskRow
        <5>2. candle[task[u].sig] <= candle'[task[u].sig] /\ candle[task[u].sig] \in Int
              /\ candle'[task[u].sig] \in Int
          BY <1>1, <5>1 DEF PaperTypes
        <5> QED BY <5>1, <5>2
      <4> QED BY <3>0, <4>1 DEF InTime
    <3>2. PassFits(task[u])'
      BY <3>0 DEF PassFits, Chose, Keeps, Covers, Drafted, Fresh
    <3> QED BY <3>1, <3>2
  <2> QED BY <2>1, <2>2
<1>5. HaltedOnce'
  <2>1. halted' \/ \A s \in Signal : order'[s]["HALT"] = Paper!NoOrder
    BY <1>1 DEF HaltedOnce
  <2>2. ASSUME NEW u \in Task
        PROVE  HaltFits(task[u])'
    <3>1. CASE u = t
      BY <1>1, <1>2, <3>1 DEF HaltFits, Held, There
    <3>2. CASE u # t
      <4>1. HaltFits(task[u]) /\ task'[u] = task[u]
        BY <1>1, <1>2, <3>2 DEF HaltedOnce
      <4>2. task[u].halting => ~halted'
        BY <1>1, <3>2 DEF HaltedOnce, HaltFits
      <4> QED BY <4>1, <4>2 DEF HaltFits, Held, There
    <3> QED BY <3>1, <3>2
  <2>3. \A u, v \in Task : task'[u].halting /\ task'[v].halting => u = v
    BY <1>1, <1>2 DEF HaltedOnce
  <2> QED BY <2>1, <2>2, <2>3 DEF HaltedOnce
<1>6. PassesApart'
  <2> SUFFICES ASSUME NEW u \in Task, NEW v \in Task, u # v, task'[u].sig = task'[v].sig
               PROVE  Apart(task[u], task[v])'
    BY DEF PassesApart
  <2>1. Apart(task'[u], task'[v])
    <3>1. CASE u = t
      BY <1>2, <3>1
    <3>2. CASE v = t
      BY <1>2, <3>2
    <3>3. CASE u # t /\ v # t
      BY <1>1, <1>2, <3>3 DEF PassesApart
    <3> QED BY <3>1, <3>2, <3>3
  <2> QED BY <2>1 DEF Apart
<1> QED BY <1>3, <1>4, <1>5, <1>6 DEF BalanceInv

\* A state outside a pass has nothing to fit.
LEMMA OutsideFits ==
    ASSUME NEW w, w.pc \in {"idle", "query", "settle", "next", "reserve", "reserved", "queue"}
    PROVE  PassFits(w) /\ \A v : Apart(w, v) /\ Apart(v, w)
<1>1. ~Chosen(w) /\ ~Locked(w) /\ ~Ends(w) /\ ~Has(w)
  BY DEF Chosen, Locked, Ends, Has
<1> QED BY <1>1 DEF PassFits, Chose, Keeps, Covers, Drafted, Fresh, Apart

LEMMA IdleHaltsNot ==
    /\ ~Paper!Idle.halting /\ Paper!Idle.k = 0
    /\ Qty \in Nat => /\ Paper!Idle.cancel = {}
                      /\ \A s \in Signal : Paper!Idle.flat[s] \in 0..Qty /\ ~(Paper!Idle.flat[s] > 0)
BY DEF Paper!Idle

LEMMA SumOfCandles ==
    ASSUME IsFiniteSet(Signal), \A r \in Signal : candle[r] \in Int
    PROVE  Paper!MapThenSumSet(LAMBDA r : candle[r], Signal) = Total([r \in Signal |-> candle[r]], Signal)
<1> DEFINE F    == [r \in Signal |-> candle[r]]
           P(h) == h = [s \in SUBSET Signal |-> IF s = {} THEN 0 ELSE candle[Pick(s)] + h[s \ {Pick(s)}]]
<1>1. Over(F, Signal)
  BY DEF Over
<1>2. \A h : P(h) <=> Folds(h, F, Signal)
  BY PicksAre DEF PicksIn, Folds
<1>3. Paper!MapThenSumSet(LAMBDA r : candle[r], Signal) = (CHOOSE h : P(h))[Signal]
  BY DEF Paper!MapThenSumSet, Paper!MapThenFoldSet, Pick
<1> HIDE DEF P, F
<1>4. P(CHOOSE h : P(h))
  BY <1>1, <1>2, FoldExists
<1> QED BY <1>1, <1>2, <1>3, <1>4, FoldIs DEF F


LEMMA CompleteKeeps ==
    ASSUME PaperInv, BalanceInv, NEW t \in Task, NEW s \in Signal, Paper!Complete(t, s),
           IsFiniteSet(Signal), Qty \in Nat, MaxCandle \in Nat
    PROVE  BalanceInv'
<1> DEFINE w == [Paper!Idle EXCEPT !.pc = "query", !.sig = s, !.k = candle[s] + 1]
<1>1. /\ PaperTypes /\ BooksBalance /\ PassesFit /\ HaltedOnce
      /\ candle' = [candle EXCEPT ![s] = candle[s] + 1]
      /\ Paper!MapThenSumSet(LAMBDA r : candle[r], Signal) < MaxCandle
      /\ UNCHANGED <<order, position, halted>>
  BY DEF PaperInv, BalanceInv, Paper!Complete, Paper!ledger
<1>2. \A r \in Signal : candle[r] \in 0..MaxCandle
  BY <1>1 DEF BooksBalance
<1>3. candle[s] + 1 \in 1..MaxCandle
  <2> DEFINE F == [r \in Signal |-> candle[r]]
  <2>1. /\ \A r \in Signal : F[r] \in Nat
        /\ \A r \in Signal \ {s} : F[r] \in Nat
        /\ F[s] = candle[s]
    BY <1>2
  <2>2. Paper!MapThenSumSet(LAMBDA r : candle[r], Signal) = Total(F, Signal)
    BY <1>2, SumOfCandles
  <2> HIDE DEF F
  <2>3. IsFiniteSet(Signal \ {s})
    BY FS_Subset
  <2>4. Total(F, Signal) = F[s] + Total(F, Signal \ {s}) /\ Total(F, Signal \ {s}) \in Nat
    BY <2>1, <2>3, TotalRemove, TotalNat DEF Over
  <2> QED BY <1>1, <1>2, <2>1, <2>2, <2>4
<1>4. /\ w \in TaskRow /\ w.pc = "query" /\ w.sig = s /\ w.k = candle[s] + 1
      /\ w.halting = Paper!Idle.halting /\ w.flat = Paper!Idle.flat /\ w.cancel = Paper!Idle.cancel
  <2>1. candle[s] + 1 \in Int /\ Paper!Idle \in TaskRow
    BY <1>3, IdleIs
  <2> QED BY <2>1 DEF TaskRow, Places
<1>5. task' = [task EXCEPT ![t] = w]
  BY DEF Paper!Complete
<1> HIDE DEF w
<1>6. ~w.halting /\ w.cancel = {} /\ \A r \in Signal : w.flat[r] \in 0..Qty /\ ~(w.flat[r] > 0)
  BY <1>4, IdleHaltsNot
<1>7. PassFits(w) /\ \A v : Apart(w, v) /\ Apart(v, w)
  BY <1>4, OutsideFits
<1>8. HaltFits(w)
  BY <1>6 DEF HaltFits
<1>9. \A r \in Signal : candle'[r] \in 0..MaxCandle /\ candle[r] <= candle'[r]
  BY <1>1, <1>2, <1>3 DEF PaperTypes
<1>10. 0 < w.k /\ w.k <= candle'[w.sig]
  BY <1>1, <1>3, <1>4 DEF PaperTypes
<1>11. UNCHANGED <<order, position>> /\ (halted => halted')
       /\ (halted' => halted \/ (task[t].halting /\ ~w.halting))
  BY <1>1
<1> QED BY <1>5, <1>6, <1>7, <1>8, <1>9, <1>10, <1>11, BalanceTask

\* A step outside a pass, or out of one that leaves nothing behind.
LEMMA OutsideKeeps ==
    ASSUME PaperInv, BalanceInv, NEW t \in Task, NEW w, task' = [task EXCEPT ![t] = w],
           w.pc \in {"idle", "settle", "next", "reserve", "reserved", "queue"},
           UNCHANGED <<candle, order, position>>,
           halted => halted', halted' => halted \/ (task[t].halting /\ ~w.halting),
           w.pc # "idle" => w.k = task[t].k /\ w.sig = task[t].sig /\ task[t].pc # "idle",
           w.halting => w.pc = "reserved" /\ ~halted /\ \A u \in Task \ {t} : ~task[u].halting,
           w.cancel = {} /\ \A s \in Signal : w.flat[s] \in 0..Qty /\ ~(w.flat[s] > 0)
    PROVE  BalanceInv'
<1>1. PassFits(w) /\ \A v : Apart(w, v) /\ Apart(v, w)
  BY OutsideFits
<1>2. \A s \in Signal : candle'[s] \in 0..MaxCandle /\ candle[s] <= candle'[s]
  BY DEF PaperInv, PaperTypes, BalanceInv, BooksBalance
<1>3. w.pc # "idle" => 0 < w.k /\ w.k <= candle'[w.sig]
  BY DEF BalanceInv, PassesFit, InTime
<1>4. HaltFits(w)
  BY DEF HaltFits
<1> QED BY <1>1, <1>2, <1>3, <1>4, BalanceTask

LEMMA UndoKeeps ==
    ASSUME PaperInv, BalanceInv, NEW t \in Task, Paper!Collide(t) \/ Paper!Fail(t), Qty \in Nat
    PROVE  BalanceInv'
<1>1. /\ task' = [task EXCEPT ![t] = Paper!Idle]
      /\ UNCHANGED <<candle, order, position, halted>>
  BY DEF Paper!Collide, Paper!Fail, Paper!ledger
<1>2. Paper!Idle.pc = "idle" /\ ~Paper!Idle.halting
      /\ Paper!Idle.cancel = {}
      /\ \A s \in Signal : Paper!Idle.flat[s] \in 0..Qty /\ ~(Paper!Idle.flat[s] > 0)
  BY IdleIs, IdleHaltsNot
<1> QED BY <1>1, <1>2, OutsideKeeps

\* A coroutine that is neither to commit nor to reserve has no halt to record.
LEMMA HaltsNot ==
    ASSUME BalanceInv, NEW t \in Task, task[t].pc \notin {"commit", "reserved"}
    PROVE  ~task[t].halting /\ task[t].cancel = {}
           /\ \A s \in Signal : task[t].flat[s] \in 0..Qty /\ ~(task[t].flat[s] > 0)
BY DEF BalanceInv, HaltedOnce, HaltFits

LEMMA SettleKeeps ==
    ASSUME PaperInv, BalanceInv, NEW t \in Task, Paper!SettleSignal(t)
    PROVE  BalanceInv'
<1> DEFINE p == task[t]
           w == [p EXCEPT !.pc = "next"]
<1>1. /\ p \in TaskRow /\ p.pc = "settle" /\ task \in [Task -> TaskRow]
      /\ UNCHANGED <<candle, order, position, halted>>
  BY DEF PaperInv, PaperTypes, Paper!SettleSignal, Paper!ledger
<1>2. task' = [task EXCEPT ![t] = w]
  BY <1>1 DEF Paper!SettleSignal
<1>3. w.pc = "next" /\ w.k = p.k /\ w.sig = p.sig /\ w.halting = p.halting /\ w.flat = p.flat
      /\ w.cancel = p.cancel
  BY <1>1 DEF TaskRow
<1>4. ~p.halting /\ p.cancel = {} /\ \A s \in Signal : p.flat[s] \in 0..Qty /\ ~(p.flat[s] > 0)
  BY <1>1, HaltsNot
<1> HIDE DEF w
<1> QED BY <1>1, <1>2, <1>3, <1>4, OutsideKeeps

LEMMA EvaluateKeeps ==
    ASSUME PaperInv, BalanceInv, NEW t \in Task, Paper!Evaluate(t), Qty \in Nat
    PROVE  BalanceInv'
<1> DEFINE p == task[t]
           w == [p EXCEPT !.pc = "reserve"]
<1>1. /\ p \in TaskRow /\ p.pc = "next" /\ task \in [Task -> TaskRow]
      /\ UNCHANGED <<candle, order, position, halted>>
  BY DEF PaperInv, PaperTypes, Paper!Evaluate, Paper!ledger
<1>2. task' = [task EXCEPT ![t] = w] \/ task' = [task EXCEPT ![t] = Paper!Idle]
  BY <1>1 DEF Paper!Evaluate
<1>3. w.pc = "reserve" /\ w.k = p.k /\ w.sig = p.sig /\ w.halting = p.halting /\ w.flat = p.flat
      /\ w.cancel = p.cancel
  BY <1>1 DEF TaskRow
<1>4. ~p.halting /\ p.cancel = {} /\ \A s \in Signal : p.flat[s] \in 0..Qty /\ ~(p.flat[s] > 0)
  BY <1>1, HaltsNot
<1>5. Paper!Idle.pc = "idle" /\ ~Paper!Idle.halting
      /\ Paper!Idle.cancel = {}
      /\ \A s \in Signal : Paper!Idle.flat[s] \in 0..Qty /\ ~(Paper!Idle.flat[s] > 0)
  BY IdleIs, IdleHaltsNot
<1> HIDE DEF w
<1>6. CASE task' = [task EXCEPT ![t] = w]
  BY <1>1, <1>3, <1>4, <1>6, OutsideKeeps
<1>7. CASE task' = [task EXCEPT ![t] = Paper!Idle]
  BY <1>1, <1>5, <1>7, OutsideKeeps
<1> QED BY <1>2, <1>6, <1>7

LEMMA ReserveReadKeeps ==
    ASSUME PaperInv, BalanceInv, NEW t \in Task, Paper!ReserveRead(t)
    PROVE  BalanceInv'
<1> DEFINE p    == task[t]
           halt == Paper!Verdict /\ ~halted
<1>1. /\ p \in TaskRow /\ p.pc = "reserve" /\ task \in [Task -> TaskRow]
      /\ UNCHANGED <<candle, order, position, halted>>
  BY DEF PaperInv, PaperTypes, Paper!ReserveRead, Paper!ledger
<1>2. PICK accepted \in {FALSE, Paper!Affordable} :
        task' = [task EXCEPT ![t].pc = "reserved", ![t].accepted = accepted, ![t].halting = halt]
  BY DEF Paper!ReserveRead
<1>3. halt => ~halted /\ \A u \in Task \ {t} : ~task[u].halting
  BY DEF Paper!ReserveRead, Paper!Inserting
<1> HIDE DEF halt
<1> DEFINE w == [p EXCEPT !.pc = "reserved", !.accepted = accepted, !.halting = halt]
<1>4. task' = [task EXCEPT ![t] = w]
  BY <1>1, <1>2
<1>5. w.pc = "reserved" /\ w.k = p.k /\ w.sig = p.sig /\ w.halting = halt /\ w.flat = p.flat
      /\ w.cancel = p.cancel
  BY <1>1 DEF TaskRow
<1>6. p.cancel = {} /\ \A s \in Signal : p.flat[s] \in 0..Qty /\ ~(p.flat[s] > 0)
  BY <1>1, HaltsNot
<1> HIDE DEF w
<1> QED BY <1>1, <1>3, <1>4, <1>5, <1>6, OutsideKeeps

LEMMA ReserveCommitKeeps ==
    ASSUME PaperInv, BalanceInv, NEW t \in Task, Paper!ReserveCommit(t), Qty \in Nat
    PROVE  BalanceInv'
<1> DEFINE p == task[t]
           q == [Paper!Idle EXCEPT !.pc = "queue", !.sig = p.sig, !.k = p.k]
           w == IF p.accepted THEN q ELSE Paper!Idle
<1>1. /\ p \in TaskRow /\ p.pc = "reserved" /\ task' = [task EXCEPT ![t] = w]
      /\ UNCHANGED <<candle, order, position>> /\ halted' = (halted \/ p.halting)
  BY DEF PaperInv, PaperTypes, Paper!ReserveCommit, Paper!ledger
<1>2. /\ Paper!Idle \in TaskRow /\ Paper!Idle.pc = "idle" /\ ~Paper!Idle.halting
      /\ Paper!Idle.cancel = {}
      /\ \A s \in Signal : Paper!Idle.flat[s] \in 0..Qty /\ ~(Paper!Idle.flat[s] > 0)
  BY IdleIs, IdleHaltsNot
<1>3. q.pc = "queue" /\ q.k = p.k /\ q.sig = p.sig
      /\ q.halting = Paper!Idle.halting /\ q.flat = Paper!Idle.flat /\ q.cancel = Paper!Idle.cancel
  BY <1>2 DEF TaskRow
<1> HIDE DEF q
<1>4. /\ w.pc \in {"idle", "queue"} /\ (w.pc # "idle" => w.k = p.k /\ w.sig = p.sig)
      /\ ~w.halting /\ w.cancel = {} /\ \A s \in Signal : w.flat[s] \in 0..Qty /\ ~(w.flat[s] > 0)
  BY <1>2, <1>3
<1> HIDE DEF w
<1>5. w.pc \in {"idle", "settle", "next", "reserve", "reserved", "queue"}
  BY <1>4
<1>6. (halted => halted') /\ (halted' => halted \/ (task[t].halting /\ ~w.halting))
  BY <1>1, <1>4
<1>7. w.pc # "idle" => w.k = task[t].k /\ w.sig = task[t].sig /\ task[t].pc # "idle"
  BY <1>1, <1>4
<1>8. w.halting => w.pc = "reserved" /\ ~halted /\ \A u \in Task \ {t} : ~task[u].halting
  BY <1>4
<1> QED BY <1>1, <1>4, <1>5, <1>6, <1>7, <1>8, OutsideKeeps

\* A pass that asks for an exit that is due asks for the entry too, if that works: of the two dates
\* the entry's is not the later one.
LEMMA QueryKeeps ==
    ASSUME PaperInv, BalanceInv, NEW t \in Task, Paper!Query(t)
    PROVE  BalanceInv'
<1> DEFINE p    == task[t]
           work == Paper!Eligible(p.sig, p.k)
           w    == [p EXCEPT !.pc = "lock", !.work = work]
<1>1. /\ PaperTypes /\ p \in TaskRow /\ p.pc = "query" /\ p.sig \in Signal
      /\ UNCHANGED <<candle, order, position, halted>>
  BY DEF PaperInv, PaperTypes, Paper!Query, Paper!ledger
<1>2. \A r : r \in work <=> r \in Role /\ Paper!Working(order[p.sig][r]) /\ order[p.sig][r].after <= p.k
  BY DEF Paper!Eligible, Role
<1>3. task' = [task EXCEPT ![t] = w]
  BY <1>1 DEF Paper!Query, PaperTypes
<1> HIDE DEF work
<1>4. /\ w.pc = "lock" /\ w.sig = p.sig /\ w.k = p.k /\ w.work = work
      /\ w.halting = p.halting /\ w.flat = p.flat /\ w.cancel = p.cancel
  BY <1>1 DEF TaskRow
<1> HIDE DEF w
<1>5. ASSUME Timely(order[p.sig]), Paper!Working(order[p.sig]["ENTRY"]), work # {} PROVE "ENTRY" \in work
  <2>1. PICK r \in work : TRUE
    BY <1>5
  <2>2. r \in Role /\ order[p.sig][r].status # "none" /\ order[p.sig][r].after <= p.k
    BY <1>2, <2>1 DEF Paper!Working
  <2>3. \A l \in Role : order[p.sig][l].after \in Int
    BY <1>1 DEF PaperTypes, OrderRow
  <2>4. order[p.sig]["ENTRY"].after <= order[p.sig][r].after
    <3>1. Dated(order[p.sig], position[p.sig])
      BY <1>1 DEF BalanceInv, BooksBalance, Balanced
    <3> QED BY <1>5, <2>2, <2>3, <3>1, Roles DEF Dated, Timely
  <2>5. order[p.sig]["ENTRY"].after <= p.k
    <3>1. p.k \in Int /\ order[p.sig]["ENTRY"].after \in Int
      BY <1>1, <2>3, Roles DEF TaskRow
    <3> QED BY <2>2, <2>3, <2>4, <3>1
  <2> QED BY <1>2, <1>5, <2>5, Roles
<1>6. PassFits(w)
  BY <1>2, <1>4, <1>5 DEF PassFits, Chose, Keeps, Covers, Drafted, Fresh, Locked, Ends, Paper!Working
<1>7. \A u \in Task : Apart(w, task[u]) /\ Apart(task[u], w)
  BY <1>4 DEF Apart, Locked, Has, Ends
<1>8. HaltFits(w) /\ ~w.halting
  BY <1>1, <1>4, HaltsNot DEF HaltFits
<1>9. \A s \in Signal : candle'[s] \in 0..MaxCandle /\ candle[s] <= candle'[s]
  BY <1>1 DEF PaperTypes, BalanceInv, BooksBalance
<1>10. 0 < w.k /\ w.k <= candle'[w.sig]
  BY <1>1, <1>4 DEF BalanceInv, PassesFit, InTime
<1>11. UNCHANGED <<order, position>> /\ (halted => halted')
       /\ (halted' => halted \/ (task[t].halting /\ ~w.halting))
  BY <1>1
<1> QED BY <1>3, <1>6, <1>7, <1>8, <1>9, <1>10, <1>11, BalanceTask

LEMMA LockKeeps ==
    ASSUME PaperInv, BalanceInv, NEW t \in Task, Paper!Lock(t)
    PROVE  BalanceInv'
<1> DEFINE p    == task[t]
           s    == p.sig
           work == {r \in p.work : Paper!Working(order[s][r])}
           base == Paper!Trade(s)
           w    == [p EXCEPT !.pc = "fill", !.base = base, !.work = work]
<1>1. /\ PaperTypes /\ p \in TaskRow /\ p.pc = "lock" /\ s \in Signal
      /\ UNCHANGED <<candle, order, position, halted>>
      /\ \A u \in Task \ {t}, r \in p.work : ~Paper!Holds(u, s, r)
  BY DEF PaperInv, PaperTypes, Paper!Lock, Paper!ledger
<1>2. base.order = order[s]
  BY <1>1, TradeIs
<1>3. task' = [task EXCEPT ![t] = w]
  BY <1>1 DEF Paper!Lock, PaperTypes
<1>4. \A r : r \in work <=> r \in p.work /\ Paper!Working(order[s][r])
  OBVIOUS
<1> HIDE DEF work, base
<1>5. /\ w.pc = "fill" /\ w.sig = s /\ w.k = p.k /\ w.work = work /\ w.base = base
      /\ w.halting = p.halting /\ w.flat = p.flat /\ w.cancel = p.cancel
  BY <1>1 DEF TaskRow
<1> HIDE DEF w
<1>6. Chosen(p) /\ Chose(p) /\ Covers(p) /\ InTime(p)
  BY <1>1 DEF Chosen, BalanceInv, PassesFit, PassFits
<1>7. PassFits(w)
  BY <1>2, <1>4, <1>5, <1>6 DEF PassFits, Chose, Keeps, Covers, Drafted, Fresh, Ends
<1>8. ASSUME NEW u \in Task \ {t}, task[u].sig = w.sig
      PROVE  Apart(w, task[u]) /\ Apart(task[u], w)
  <2>1. ASSUME Locked(task[u]) PROVE task[u].work \cap w.work = {}
    BY <1>1, <1>4, <1>5, <1>8, <2>1 DEF Locked, Ends, Paper!Holds
  <2>2. ~Has(w)
    BY <1>5 DEF Has
  <2> QED BY <2>1, <2>2 DEF Apart
<1>9. HaltFits(w) /\ ~w.halting
  BY <1>1, <1>5, HaltsNot DEF HaltFits
<1>10. \A r \in Signal : candle'[r] \in 0..MaxCandle /\ candle[r] <= candle'[r]
  BY <1>1 DEF PaperTypes, BalanceInv, BooksBalance
<1>11. 0 < w.k /\ w.k <= candle'[w.sig]
  BY <1>1, <1>5, <1>6 DEF InTime
<1>12. UNCHANGED <<order, position>> /\ (halted => halted')
       /\ (halted' => halted \/ (task[t].halting /\ ~w.halting))
  BY <1>1
<1> QED BY <1>3, <1>7, <1>8, <1>9, <1>10, <1>11, <1>12, BalanceTask

\* Nobody has the position that is free.
LEMMA PositionFreeIs ==
    ASSUME NEW t \in Task, Paper!PositionFree(t), NEW u \in Task \ {t}, task[u].sig = task[t].sig
    PROVE  ~Has(task[u])
BY Roles DEF Paper!PositionFree, Paper!HoldsPosition, Paper!Moved, Paper!Filling, Has, Moves

LEMMA FillKeeps ==
    ASSUME PaperInv, BalanceInv, NEW t \in Task, Paper!Fill(t), Qty \in Nat, MaxCandle \in Nat
    PROVE  BalanceInv'
<1> DEFINE p    == task[t]
           s    == p.sig
           here == Paper!Trade(s)
           read == [here EXCEPT !.order = [r \in Role |-> IF r \in p.work THEN p.base.order[r] ELSE here.order[r]]]
<1>1. /\ PaperTypes /\ p \in TaskRow /\ p.pc = "fill" /\ s \in Signal
      /\ UNCHANGED <<candle, order, position, halted>>
  BY DEF PaperInv, PaperTypes, Paper!Fill, Paper!ledger
<1>2. /\ order[s] \in [Role -> OrderRow] /\ position[s] \in PositionRow
      /\ p.work \in SUBSET Role /\ p.k \in Int
  BY <1>1 DEF PaperTypes, TaskRow
<1>3. /\ InTime(p) /\ PassFits(p) /\ Chosen(p) /\ Locked(p) /\ candle[s] \in 0..MaxCandle
      /\ Balanced(order[s], position[s])
  BY <1>1 DEF BalanceInv, PassesFit, BooksBalance, Chosen, Locked
<1>4. \A r \in p.work : /\ p.base.order[r] = order[s][r] /\ Paper!Working(order[s][r])
                        /\ order[s][r].after <= p.k
  BY <1>3 DEF PassFits, Keeps, Chose
<1>5. read \in TradeRow /\ ~read.closed /\ read.order = order[s] /\ read.position = position[s]
  <2> DEFINE orders == [r \in Role |-> IF r \in p.work THEN p.base.order[r] ELSE here.order[r]]
  <2>1. here \in TradeRow /\ here.order = order[s] /\ here.position = position[s] /\ ~here.closed
    BY <1>1, TradeIs
  <2> HIDE DEF here
  <2>2. orders = order[s]
    BY <1>2, <1>4, <2>1
  <2>3. read = [here EXCEPT !.order = orders]
    OBVIOUS
  <2> HIDE DEF orders, read
  <2> QED BY <1>2, <2>1, <2>2, <2>3 DEF TradeRow
<1> HIDE DEF read
<1>6. PICK hit \in SUBSET ({"STOP", "TARGET"} \cap p.work), capacity \in 1..Qty, pnl \in {-1, 0},
          due \in BOOLEAN :
        LET filled == Paper!Fills(read, p.work, hit, capacity, p.k)
            done   == Paper!Manage(filled, pnl, due, p.k)
        IN /\ hit \cup ({"HALT", "TIME"} \cap p.work) # {} => Paper!PositionFree(t)
           /\ task' = [task EXCEPT ![t].pc = Paper!AfterFills(s, read, done),
                                   ![t].base = read, ![t].draft = done]
  BY DEF Paper!Fill, read, Role
<1> DEFINE filled == Paper!Fills(read, p.work, hit, capacity, p.k)
           done   == Paper!Manage(filled, pnl, due, p.k)
           pc     == Paper!AfterFills(s, read, done)
           w      == [p EXCEPT !.pc = pc, !.base = read, !.draft = done]
<1>7. capacity \in Nat \ {0} /\ capacity \in Int /\ pnl \in Int /\ p.k \in 0..MaxCandle
  BY <1>1, <1>2, <1>3 DEF InTime
<1>8. filled \in TradeRow
  BY <1>2, <1>5, <1>7, FillsAre
<1>9. /\ Balanced(filled.order, filled.position) /\ Worked(read.order, filled.order, p.work)
      /\ Stays(read.position, filled.position)
      /\ (\A r \in Role : filled.order[r].filled = read.order[r].filled) => filled = read
      /\ \A r \in Paper!EXIT_ROLES : filled.order[r].filled # read.order[r].filled =>
           r \in p.work /\ (r \in {"STOP", "TARGET"} => r \in hit)
  <2>1. /\ \A r \in p.work : Paper!Working(read.order[r])
        /\ "ENTRY" \in p.work => read.order["ENTRY"].after <= p.k
        /\ Balanced(read.order, read.position)
    BY <1>3, <1>4, <1>5
  <2>2. p.work \in SUBSET Role
    BY <1>2
  <2>3. PassedWell(read, Paper!Fills(read, p.work, hit, capacity, p.k), p.work, hit)
    <3> HIDE DEF filled, p
    <3> QED BY <1>5, <1>7, <2>1, <2>2, LedgersAssumption, FillsBalance
  <2> QED BY <2>3 DEF PassedWell
<1>10. task' = [task EXCEPT ![t] = w]
  BY <1>1, <1>6 DEF PaperTypes
<1> HIDE DEF filled
<1>11. /\ Balanced(done.order, done.position) /\ Worked(filled.order, done.order, {})
       /\ done.position.status = filled.position.status /\ done.position.opened = filled.position.opened
       /\ done.position.open = filled.position.open
       /\ \A r \in Role : done.order[r].filled = filled.order[r].filled
                          /\ (filled.order[r].status # "none" => done.order[r] = filled.order[r])
  BY <1>7, <1>8, <1>9, ManageBalances
<1>12. done \in TradeRow
  BY <1>2, <1>7, <1>8, ManageIs
<1> HIDE DEF done
<1>13. /\ pc \in {"update", "halt", "commit"}
       /\ pc = "update" <=> {r \in Role : done.order[r].filled # read.order[r].filled} = {"ENTRY"}
  <2>1. Paper!Standing(s, done.position) \in {"halt", "commit"}
    BY DEF Paper!Standing
  <2> QED BY <2>1, Roles DEF Paper!AfterFills
<1> HIDE DEF pc
<1>14. Worked(read.order, done.order, p.work)
  <2>1. Worked(filled.order, done.order, p.work)
    BY <1>11 DEF Worked
  <2> QED BY <1>5, <1>8, <1>9, <1>12, <2>1, WorkedTwice DEF TradeRow
<1>15. Stays(read.position, done.position)
  BY <1>9, <1>11 DEF Stays
<1>16. /\ w.pc = pc /\ w.sig = s /\ w.k = p.k /\ w.work = p.work /\ w.base = read /\ w.draft = done
       /\ w.halting = p.halting /\ w.flat = p.flat /\ w.cancel = p.cancel
  BY <1>1 DEF TaskRow
<1> HIDE DEF w
<1>17. Locked(w) /\ Locked(p) /\ Ends(w) /\ Chosen(w)
  BY <1>1, <1>16, <1>13 DEF Locked, Ends, Chosen
<1>18. PassFits(w)
  <2>1. Chose(w) /\ Keeps(w) /\ Covers(w)
    BY <1>3, <1>4, <1>5, <1>16 DEF PassFits, Chose, Keeps, Covers
  <2>2. ASSUME ~Moves(w)
        PROVE  /\ done.position.open = read.position.open
               /\ \A r \in Role : read.order[r].status # "none" => done.order[r] = read.order[r]
    <3>1. filled = read
      BY <1>9, <1>11, <1>16, <2>2 DEF Moves
    <3> QED BY <1>11, <3>1
  <2>3. ASSUME pc = "update", NEW r \in Paper!EXIT_ROLES PROVE done.order[r].filled = read.order[r].filled
    BY <1>13, <2>3, Roles
  <2>4. Drafted(w)
    BY <1>3, <1>5, <1>11, <1>14, <1>15, <1>16, <2>2, <2>3 DEF Drafted
  <2>5. Fresh(w)
    <3>1. order[s]["ENTRY"].filled \in Int
      BY <1>2, Roles DEF OrderRow
    <3> QED BY <1>5, <1>16, <3>1 DEF Fresh
  <2> QED BY <2>1, <2>4, <2>5 DEF PassFits
<1>19. ASSUME Has(w), NEW u \in Task \ {t}, task[u].sig = s PROVE ~Has(task[u])
  <2>1. {r \in Role : done.order[r].filled # read.order[r].filled} \notin {{}, {"ENTRY"}}
    BY <1>13, <1>16, <1>19 DEF Has, Moves
  <2>2. PICK r \in Paper!EXIT_ROLES : filled.order[r].filled # read.order[r].filled
    BY <1>11, <2>1, Roles
  <2>3. hit \cup ({"HALT", "TIME"} \cap p.work) # {}
    BY <1>9, <2>2, Roles
  <2>4. Paper!PositionFree(t)
    BY <1>6, <2>3
  <2> QED BY <1>19, <2>4, PositionFreeIs
<1>20. ASSUME NEW u \in Task \ {t}, task[u].sig = w.sig
       PROVE  Apart(w, task[u]) /\ Apart(task[u], w)
  <2>1. Apart(p, task[u])
    BY <1>16, <1>20 DEF BalanceInv, PassesApart
  <2> QED BY <1>16, <1>17, <1>19, <1>20, <2>1 DEF Apart
<1>21. HaltFits(w) /\ ~w.halting
  BY <1>1, <1>16, HaltsNot DEF HaltFits
<1>22. \A r \in Signal : candle'[r] \in 0..MaxCandle /\ candle[r] <= candle'[r]
  BY <1>1 DEF PaperTypes, BalanceInv, BooksBalance
<1>23. w.pc # "idle" => 0 < w.k /\ w.k <= candle'[w.sig]
  BY <1>1, <1>3, <1>16 DEF InTime
<1>24. UNCHANGED <<order, position>> /\ (halted => halted')
       /\ (halted' => halted \/ (task[t].halting /\ ~w.halting))
  BY <1>1
<1> QED BY <1>10, <1>18, <1>20, <1>21, <1>22, <1>23, <1>24, BalanceTask

\* A pass that has filled goes on to its end: it stays apart from the others if it had the position
\* before, or if nobody has it.
LEMMA EndKeeps ==
    ASSUME PaperInv, BalanceInv, NEW t \in Task, Ends(task[t]), NEW w, task' = [task EXCEPT ![t] = w],
           w.pc \in {"halt", "blocked", "commit"}, w.sig = task[t].sig, w.k = task[t].k, w.work = task[t].work,
           w.base = task[t].base, w.draft = task[t].draft, UNCHANGED <<candle, order, position, halted>>,
           HaltFits(w), w.halting => \A u \in Task \ {t} : ~task[u].halting,
           Has(w) => Has(task[t]) \/ \A u \in Task \ {t} : task[u].sig = w.sig => ~Has(task[u])
    PROVE  BalanceInv'
<1> DEFINE p == task[t]
<1>1. PaperTypes /\ InTime(p) /\ PassFits(p) /\ Locked(p) /\ Chosen(p) /\ p.pc # "idle"
  BY DEF PaperInv, BalanceInv, PassesFit, Locked, Chosen, Ends
<1>2. Locked(w) /\ Ends(w) /\ Chosen(w) /\ (Moves(w) <=> Moves(p))
  BY DEF Locked, Ends, Chosen, Moves
<1>3. PassFits(w)
  <2>1. Chose(w) /\ Keeps(w) /\ Covers(w)
    BY <1>1, <1>2 DEF PassFits, Chose, Keeps, Covers
  <2>2. Drafted(w)
    BY <1>1, <1>2 DEF PassFits, Drafted
  <2>3. Fresh(w)
    BY <1>1, <1>2 DEF PassFits, Fresh
  <2> QED BY <2>1, <2>2, <2>3 DEF PassFits
<1>4. ASSUME NEW u \in Task \ {t}, task[u].sig = w.sig
      PROVE  Apart(w, task[u]) /\ Apart(task[u], w)
  <2>1. Apart(p, task[u]) /\ Apart(task[u], p)
    BY <1>4 DEF BalanceInv, PassesApart
  <2> QED BY <1>1, <1>2, <1>4, <2>1 DEF Apart
<1>5. \A r \in Signal : candle'[r] \in 0..MaxCandle /\ candle[r] <= candle'[r]
  BY <1>1 DEF PaperTypes, BalanceInv, BooksBalance
<1>6. w.pc # "idle" => 0 < w.k /\ w.k <= candle'[w.sig]
  BY <1>1 DEF InTime
<1>7. UNCHANGED <<order, position>> /\ (halted => halted')
      /\ (halted' => halted \/ (task[t].halting /\ ~w.halting))
  OBVIOUS
<1> QED BY <1>3, <1>4, <1>5, <1>6, <1>7, BalanceTask

\* The entry that filled alone takes the position once nobody has it.
LEMMA UpdateKeeps ==
    ASSUME PaperInv, BalanceInv, NEW t \in Task, Paper!Update(t)
    PROVE  BalanceInv'
<1> DEFINE p  == task[t]
           pc == Paper!Standing(p.sig, p.draft.position)
           w  == [p EXCEPT !.pc = pc]
<1>1. /\ PaperTypes /\ p \in TaskRow /\ p.pc = "update" /\ p.sig \in Signal /\ Paper!PositionFree(t)
      /\ UNCHANGED <<candle, order, position, halted>>
  BY DEF PaperInv, PaperTypes, Paper!Update, Paper!ledger
<1>2. task' = [task EXCEPT ![t] = w]
  BY <1>1 DEF Paper!Update, PaperTypes
<1>3. pc \in {"halt", "commit"}
  BY DEF Paper!Standing
<1> HIDE DEF pc
<1>4. /\ w.pc = pc /\ w.sig = p.sig /\ w.k = p.k /\ w.work = p.work /\ w.base = p.base
      /\ w.draft = p.draft /\ w.halting = p.halting /\ w.flat = p.flat /\ w.cancel = p.cancel
  BY <1>1 DEF TaskRow
<1> HIDE DEF w
<1>5. Ends(p)
  BY <1>1 DEF Ends
<1>6. HaltFits(w) /\ ~w.halting
  BY <1>1, <1>4, HaltsNot DEF HaltFits
<1>7. \A u \in Task \ {t} : task[u].sig = w.sig => ~Has(task[u])
  BY <1>1, <1>4, PositionFreeIs
<1> QED BY <1>1, <1>2, <1>3, <1>4, <1>5, <1>6, <1>7, EndKeeps

LEMMA HaltIsThereKeeps ==
    ASSUME PaperInv, BalanceInv, NEW t \in Task, Paper!HaltIsThere(t)
    PROVE  BalanceInv'
<1> DEFINE p  == task[t]
           pc == IF halted THEN "commit" ELSE "blocked"
           w  == [p EXCEPT !.pc = pc]
<1>1. /\ PaperTypes /\ p \in TaskRow /\ p.pc = "halt" /\ p.sig \in Signal
      /\ UNCHANGED <<candle, order, position, halted>>
  BY DEF PaperInv, PaperTypes, Paper!HaltIsThere, Paper!ledger
<1>2. task' = [task EXCEPT ![t] = w]
  BY <1>1 DEF Paper!HaltIsThere, PaperTypes
<1>3. pc \in {"commit", "blocked"}
  OBVIOUS
<1> HIDE DEF pc
<1>4. /\ w.pc = pc /\ w.sig = p.sig /\ w.k = p.k /\ w.work = p.work /\ w.base = p.base
      /\ w.draft = p.draft /\ w.halting = p.halting /\ w.flat = p.flat /\ w.cancel = p.cancel
  BY <1>1 DEF TaskRow
<1> HIDE DEF w
<1>5. Ends(p) /\ (Has(w) => Has(p))
  BY <1>1, <1>4 DEF Ends, Has, Moves
<1>6. HaltFits(w) /\ ~w.halting
  BY <1>1, <1>4, HaltsNot DEF HaltFits
<1> QED BY <1>1, <1>2, <1>3, <1>4, <1>5, <1>6, EndKeeps

LEMMA HaltIs ==
    ASSUME PaperInv, NEW t \in Task, Paper!Halt(t)
    PROVE  /\ PaperTypes /\ task[t] \in TaskRow /\ task[t].pc \in {"halt", "blocked"}
           /\ task[t].sig \in Signal /\ ~halted /\ UNCHANGED <<candle, order, position, halted>>
           /\ \A u \in Task \ {t} : ~task[u].halting
<1>1. task[t].pc \in {"halt", "blocked"} /\ ~halted /\ ~Paper!Inserting(t)
  BY Zenon DEF Paper!Halt
<1>2. UNCHANGED <<candle, order, position, halted>>
  BY Zenon DEF Paper!Halt, Paper!ledger
<1> QED BY <1>1, <1>2 DEF Paper!Inserting, PaperInv, PaperTypes

\* A halt is recorded by one pass, for what the trades still hold.
LEMMA HaltKeeps ==
    ASSUME PaperInv, BalanceInv, NEW t \in Task, Paper!Halt(t), Qty \in Nat
    PROVE  BalanceInv'
<1> DEFINE p       == task[t]
           s       == p.sig
           rows(r) == IF r = s THEN p.draft ELSE Paper!Trade(r)
           cancel  == {c \in Signal \X Role : Paper!Working(rows(c[1]).order[c[2]])}
           flat    == [r \in Signal |-> IF Paper!Running(rows(r).position)
                                        THEN Paper!Most(0, rows(r).position.open) ELSE 0]
           yes     == TRUE
           w       == [p EXCEPT !.pc = "commit", !.halting = yes, !.cancel = cancel, !.flat = flat]
<1>1. /\ PaperTypes /\ p \in TaskRow /\ p.pc \in {"halt", "blocked"} /\ s \in Signal /\ ~halted
      /\ UNCHANGED <<candle, order, position, halted>>
      /\ \A u \in Task \ {t} : ~task[u].halting
  BY HaltIs
<1>2. Ends(p) /\ PassFits(p) /\ BooksBalance
  BY <1>1 DEF BalanceInv, PassesFit, Ends
<1>3. ASSUME NEW r \in Signal
      PROVE  /\ flat[r] \in 0..Qty
             /\ flat[r] > 0 => IF s = r THEN p.draft.position.status # "none" ELSE position[r].status # "none"
  <2>1. CASE r = s
    <3>1. p.draft \in TradeRow /\ Balanced(p.draft.order, p.draft.position)
      BY <1>1, <1>2 DEF TaskRow, PassFits, Drafted
    <3>2. p.draft.position.open \in 0..Qty
      BY <3>1, BalancedIs DEF TradeRow
    <3> QED BY <2>1, <3>2 DEF Paper!Most, Paper!Running
  <2>2. CASE r # s
    <3>1. position[r].open \in 0..Qty
      BY <1>1, <1>2, BalancedIs DEF PaperTypes, BooksBalance
    <3>2. rows(r).position = position[r]
      BY <2>2 DEF Paper!Trade
    <3> HIDE DEF rows
    <3> QED BY <2>2, <3>1, <3>2 DEF Paper!Most, Paper!Running
  <2> QED BY <2>1, <2>2
<1>4. \A q \in Signal, r \in Role : <<q, r>> \in cancel =>
        IF s = q THEN p.draft.order[r].status # "none" ELSE order[q][r].status # "none"
  BY DEF Paper!Trade, Paper!Working
<1>5. task' = [task EXCEPT ![t] = w]
  <2>1. task \in [Task -> TaskRow]
    BY <1>1 DEF PaperTypes
  <2> QED BY <2>1, Roles, Zenon DEF Paper!Halt
<1>9. yes
  OBVIOUS
<1> HIDE DEF cancel, flat, yes
<1>6. /\ w.pc = "commit" /\ w.sig = s /\ w.k = p.k /\ w.work = p.work /\ w.base = p.base
      /\ w.draft = p.draft /\ w.halting = yes /\ w.flat = flat /\ w.cancel = cancel
  BY <1>1 DEF TaskRow
<1> HIDE DEF w
<1>7. HaltFits(w)
  BY <1>1, <1>3, <1>4, <1>6, <1>9 DEF HaltFits, Held, There
<1>8. Has(w) => Has(p)
  BY <1>1, <1>6 DEF Has, Moves
<1> QED BY <1>1, <1>2, <1>5, <1>6, <1>7, <1>8, EndKeeps

-----------------------------------------------------------------------------
(* The paper ledger: the steps that write it keep the balance.              *)

\* A step that writes the ledger leaves its pass: the others fit what is now on record.
LEMMA WriterKeeps ==
    ASSUME PaperInv, BalanceInv, NEW t \in Task, NEW w, task' = [task EXCEPT ![t] = w],
           w.pc \in {"idle", "settle", "next"}, UNCHANGED candle,
           w.pc # "idle" => w.k = task[t].k /\ w.sig = task[t].sig /\ task[t].pc # "idle",
           BooksBalance', HaltedOnce',
           \A u \in Task \ {t} : PassFits(task[u])'
    PROVE  BalanceInv'
<1>1. task'[t] = w /\ \A u \in Task \ {t} : task'[u] = task[u]
  BY DEF PaperInv, PaperTypes
<1>2. PassesFit'
  <2>1. ASSUME NEW u \in Task PROVE InTime(task[u])'
    <3>1. InTime(task[u]) /\ InTime(task[t])
      BY <2>1 DEF BalanceInv, PassesFit
    <3> QED BY <1>1, <3>1 DEF InTime
  <2>2. PassFits(task[t])'
    BY <1>1 DEF PassFits, Chose, Keeps, Covers, Drafted, Fresh, Chosen, Locked, Ends
  <2> QED BY <2>1, <2>2 DEF PassesFit
<1>3. PassesApart'
  <2> SUFFICES ASSUME NEW u \in Task, NEW v \in Task, u # v, task'[u].sig = task'[v].sig
               PROVE  Apart(task[u], task[v])'
    BY DEF PassesApart
  <2>1. Apart(task'[u], task'[v])
    <3>1. CASE u = t \/ v = t
      BY <1>1, <3>1, OutsideFits
    <3>2. CASE u # t /\ v # t
      BY <1>1, <3>2 DEF BalanceInv, PassesApart
    <3> QED BY <3>1, <3>2
  <2> QED BY <2>1 DEF Apart
<1> QED BY <1>2, <1>3 DEF BalanceInv

\* Before the entry of a trade is queued there is none of its orders, and no pass fills any.
LEMMA QueueKeeps ==
    ASSUME PaperInv, BalanceInv, NEW t \in Task, Paper!Queue(t), Qty \in Nat \ {0}, MaxCandle \in Nat
    PROVE  BalanceInv'
<1> DEFINE p     == task[t]
           s     == p.sig
           entry == Paper!NewOrder(Qty, p.k + 1)
<1>1. /\ PaperTypes /\ OneEnters /\ p \in TaskRow /\ p.pc = "queue" /\ s \in Signal
      /\ task' = [task EXCEPT ![t] = Paper!Idle]
      /\ order' = [order EXCEPT ![s]["ENTRY"] = entry]
      /\ UNCHANGED <<candle, position, halted>>
  BY DEF PaperInv, PaperTypes, Paper!Queue
<1>2. BooksBalance /\ PassesFit /\ HaltedOnce /\ InTime(p)
  BY DEF BalanceInv, PassesFit
<1>3. p.k + 1 \in 0..MaxCandle + 1
  BY <1>1, <1>2 DEF BooksBalance, InTime, TaskRow
<1>4. /\ entry \in OrderRow /\ entry.status = "PENDING" /\ FineOrder(entry) /\ entry.filled = 0
      /\ EntryFine(entry)
  BY <1>3, NewOrderIs, NewOrderFine DEF EntryFine
<1> HIDE DEF entry
<1>5. /\ order'[s]["ENTRY"] = entry
      /\ \A r \in Role \ {"ENTRY"} : order'[s][r] = order[s][r]
      /\ \A q \in Signal \ {s} : order'[q] = order[q]
  <2>1. order' = [order EXCEPT ![s] = [order[s] EXCEPT !["ENTRY"] = entry]]
    BY <1>1 DEF PaperTypes
  <2>2. "ENTRY" \in Role
    BY Roles
  <2> QED BY <1>1, <2>1, <2>2 DEF PaperTypes
<1>6. Balanced(order[s], position[s]) /\ candle[s] \in 0..MaxCandle
  BY <1>1, <1>2 DEF BooksBalance
<1>7. \A r \in Role : order[s][r] = Paper!NoOrder
  <2>1. order[s]["ENTRY"].status = "none"
    BY <1>1 DEF OneEnters, Enters, Unentered
  <2>2. \A r \in Role : order[s][r].status = "none"
    BY <1>6, <2>1, Roles DEF Balanced, Dated
  <2> QED BY <1>6, <2>2 DEF Balanced, FineOrder
<1>8. \A r \in Role : order[s][r].status = "none" /\ order[s][r].filled = 0 /\ order[s][r].quantity = 0
  BY <1>7 DEF Paper!NoOrder
<1>9. Balanced(order'[s], position'[s])
  <2>1. position[s].status = "none" /\ position[s].open = 0 /\ position[s].opened = 0
    BY <1>6, <1>8, Roles DEF Balanced, Dated
  <2>2. Sold(order'[s]) = 0
    BY <1>5, <1>8, Roles DEF Sold
  <2>3. \A r \in Role : FineOrder(order'[s][r])
    BY <1>4, <1>5, <1>6 DEF Balanced
  <2>4. Dated(order'[s], position'[s])
    BY <1>1, <1>5, <1>8, <2>1, Roles DEF Dated
  <2>5. \A r \in Role : order'[s][r].filled <= order'[s][r].quantity
    BY <1>4, <1>5, <1>8 DEF EntryFine
  <2> QED BY <1>1, <1>4, <1>5, <1>6, <2>1, <2>2, <2>3, <2>4, <2>5 DEF Balanced
<1>10. BooksBalance'
  BY <1>1, <1>2, <1>5, <1>9 DEF BooksBalance
<1>11. task'[t] = Paper!Idle /\ \A u \in Task \ {t} : task'[u] = task[u]
  BY <1>1 DEF PaperTypes
<1>12. HaltedOnce'
  <2>1. \A q \in Signal : order'[q]["HALT"] = order[q]["HALT"]
    BY <1>5, Roles
  <2>2. ~Paper!Idle.halting /\ Paper!Idle.cancel = {}
        /\ \A q \in Signal : Paper!Idle.flat[q] \in 0..Qty /\ ~(Paper!Idle.flat[q] > 0)
    BY IdleHaltsNot
  <2>3. HaltFits(task[t])'
    BY <1>11, <2>2 DEF HaltFits
  <2>4. ASSUME NEW u \in Task \ {t} PROVE HaltFits(task[u])'
    <3>1. HaltFits(task[u])
      BY <1>2 DEF HaltedOnce
    <3>2. \A q \in Signal, r \in Role : order[q][r].status # "none" => order'[q][r].status # "none"
      BY <1>5, <1>8
    <3> QED BY <1>1, <1>11, <3>1, <3>2 DEF HaltFits, Held, There
  <2>5. \A u, v \in Task : task'[u].halting /\ task'[v].halting => u = v
    BY <1>2, <1>11, <2>2 DEF HaltedOnce
  <2> QED BY <1>1, <1>2, <2>1, <2>3, <2>4, <2>5 DEF HaltedOnce
<1>13. ASSUME NEW u \in Task \ {t} PROVE PassFits(task[u])'
  <2> DEFINE v == task[u]
  <2>1. PassFits(v) /\ task'[u] = v /\ v \in TaskRow
    BY <1>1, <1>2, <1>11 DEF PassesFit, PaperTypes
  <2>2. Chosen(v) => v.sig \in Signal
    BY <1>1 DEF PaperTypes, Chosen, Ends
  <2>3. (Locked(v) => Chosen(v)) /\ (Ends(v) => Chosen(v))
    BY DEF Locked, Chosen
  <2>4. CASE Chosen(v) /\ v.sig = s
    <3>1. v.work = {}
      BY <1>8, <2>1, <2>4 DEF PassFits, Chose, TaskRow
    <3>2. Chose(v)' /\ Keeps(v)' /\ Covers(v)'
      BY <2>1, <3>1 DEF Chose, Keeps, Covers
    <3>3. Drafted(v)'
      BY <2>1 DEF PassFits, Drafted, Ends, Moves
    <3>4. Fresh(v)'
      <4> SUFFICES ASSUME Ends(v)
                   PROVE  /\ \A r \in Role : v.base.order[r].status # "none" =>
                               order'[s][r].status # "none" /\ order'[s][r].after = v.base.order[r].after
                          /\ v.base.order["ENTRY"].filled <= order'[s]["ENTRY"].filled
                          /\ v.base.position.status # "none" => position'[s].status # "none"
                          /\ ~Moves(v)
        BY <2>1, <2>4 DEF Fresh, Ends, Moves
      <4>1. Fresh(v) /\ Worked(v.base.order, v.draft.order, v.work)
        BY <2>1 DEF PassFits, Drafted
      <4>2. ~Moves(v)
        BY <3>1, <4>1 DEF Worked, Moves
      <4>3. \A r \in Role : v.base.order[r].status = "none"
        BY <1>8, <2>4, <4>1 DEF Fresh
      <4>4. v.base.order["ENTRY"].filled <= order'[s]["ENTRY"].filled
        BY <1>4, <1>5, <1>8, <2>4, <4>1, Roles DEF Fresh
      <4>5. v.base.position.status # "none" => position'[s].status # "none"
        BY <1>1, <2>4, <4>1 DEF Fresh
      <4> QED BY <4>2, <4>3, <4>4, <4>5
    <3> QED BY <2>1, <3>2, <3>3, <3>4 DEF PassFits, Chose, Keeps, Covers, Drafted, Fresh
  <2>5. CASE Chosen(v) /\ v.sig # s
    <3>1. order'[v.sig] = order[v.sig] /\ position'[v.sig] = position[v.sig]
      BY <1>1, <1>5, <2>2, <2>5
    <3> QED BY <2>1, <3>1 DEF PassFits, Chose, Keeps, Covers, Drafted, Fresh, Ends, Moves
  <2>6. CASE ~Chosen(v)
    BY <2>1, <2>3, <2>6 DEF PassFits, Chose, Keeps, Covers, Drafted, Fresh, Ends, Locked, Chosen
  <2> QED BY <2>4, <2>5, <2>6
<1>14. Paper!Idle.pc = "idle"
  BY IdleIs
<1>15. UNCHANGED candle
  BY <1>1
<1> QED BY <1>1, <1>10, <1>12, <1>13, <1>14, <1>15, WriterKeeps

\* What a commit leaves of one order.  It stays there, with its date; one that the pass neither
\* changed nor cancels stays as it was; the quantities are those of the pass if it filled any.
OrderLeft(t, q, r, R) ==
    LET p == task[t]  o == order[q][r]  to == p.draft.order[r] IN
    /\ FineOrder(R)
    /\ o.status # "none" => R.status # "none" /\ R.after = o.after
    /\ o.status # "none" /\ <<q, r>> \notin Paper!Touched(t) => R = o
    /\ q # p.sig \/ ~Moves(p) => R.filled = o.filled
    /\ q = p.sig /\ Moves(p) /\ Timely(order[q]) => R.filled = to.filled
    /\ q = p.sig /\ to.status # "none" => R.status # "none" /\ R.after = to.after
    /\ r = "ENTRY" => /\ EntryFine(R) /\ o.filled <= R.filled /\ (Paper!Working(R) => Paper!Working(o))
                      /\ q = p.sig => to.filled <= R.filled
    /\ Timely(order[q]) /\ (q = p.sig => Timely(p.draft.order)) => R.filled <= R.quantity

\* What is there comes from the record or from the pass.
Sourced(t, q, r, R) ==
    R.status # "none" => order[q][r].status # "none" \/ (q = task[t].sig /\ task[t].draft.order[r].status # "none")

LEMMA KeptLeft ==
    ASSUME PaperInv, BalanceInv, NEW t \in Task, task[t].pc = "commit", ~Paper!Clash(t),
           NEW q \in Signal, NEW r \in Role, Qty \in Nat, MaxCandle \in Nat
    PROVE  LET R == Paper!Kept(t, q, r) IN
           /\ R \in OrderRow /\ OrderLeft(t, q, r, R) /\ Sourced(t, q, r, R)
           /\ r = "HALT" /\ order[q][r] = Paper!NoOrder => R = Paper!NoOrder
<1> DEFINE p    == task[t]
           o    == order[q][r]
           from == p.base.order[r]
           to   == p.draft.order[r]
           R    == Paper!Kept(t, q, r)
<1>1. PaperTypes /\ p \in TaskRow /\ p.pc = "commit" /\ p.sig \in Signal /\ Ends(p) /\ Locked(p)
  BY DEF PaperInv, PaperTypes, Ends, Locked
<1>2. BooksBalance /\ PassFits(p)
  BY DEF BalanceInv, PassesFit
<1>3. o \in OrderRow /\ from \in OrderRow /\ to \in OrderRow
  BY <1>1 DEF PaperTypes, TaskRow, TradeRow
<1>4. Balanced(order[q], position[q]) /\ Balanced(p.draft.order, p.draft.position) /\ Balanced(p.base.order, p.base.position)
  BY <1>1, <1>2 DEF BooksBalance, PassFits, Drafted
<1>5. /\ FineOrder(o) /\ FineOrder(from) /\ FineOrder(to)
      /\ r = "ENTRY" => EntryFine(o) /\ EntryFine(to)
      /\ Timely(order[q]) => o.filled <= o.quantity
      /\ Timely(p.draft.order) => to.filled <= to.quantity
  BY <1>4 DEF Balanced
<1>6. /\ r \notin p.work => to.filled = from.filled
      /\ from.status # "none" => to.status # "none" /\ to.after = from.after
      /\ r = "HALT" /\ from.status = "none" => to = from
      /\ r = "ENTRY" => from.filled <= to.filled /\ (r \notin p.work => to = from)
  BY <1>1, <1>2 DEF PassFits, Drafted, Worked
<1>7. ~Moves(p) => /\ to.filled = from.filled
                   /\ from.status # "none" => to = from
  BY <1>1, <1>2 DEF PassFits, Drafted, Moves
<1>8. p.sig = q => /\ from.status # "none" => o.status # "none" /\ o.after = from.after
                   /\ Moves(p) /\ Timely(order[q]) => o.filled = from.filled
                   /\ r = "ENTRY" => from.filled <= o.filled
                   /\ r \in p.work => from = o /\ Paper!Working(o)
  BY <1>1, <1>2 DEF PassFits, Fresh, Keeps
<1>9. p.sig = q /\ from = Paper!NoOrder => to = Paper!NoOrder \/ o = Paper!NoOrder
  BY Roles DEF Paper!Clash
<1>10. p.sig = q /\ to # from => <<q, r>> \in Paper!Touched(t)
  BY Roles DEF Paper!Touched
<1>11. Paper!NoOrder.status = "none" /\ Paper!NoOrder.filled = 0
  BY DEF Paper!NoOrder
<1>12. /\ o.status = "none" => o = Paper!NoOrder
       /\ from.status = "none" => from = Paper!NoOrder
       /\ to.status = "none" => to = Paper!NoOrder
  BY <1>5 DEF FineOrder
<1>13. /\ p.sig # q => R = o
       /\ p.sig = q =>
            /\ R.status = Paper!Column(from.status, to.status, o.status)
            /\ R.quantity = Paper!Column(from.quantity, to.quantity, o.quantity)
            /\ R.filled = Paper!Column(from.filled, to.filled, o.filled)
            /\ R.after = Paper!Column(from.after, to.after, o.after)
            /\ R = [status |-> R.status, quantity |-> R.quantity, filled |-> R.filled, after |-> R.after]
  BY DEF Paper!Kept
<1>14. /\ o = [status |-> o.status, quantity |-> o.quantity, filled |-> o.filled, after |-> o.after]
       /\ to = [status |-> to.status, quantity |-> to.quantity, filled |-> to.filled, after |-> to.after]
  BY <1>3 DEF OrderRow
<1>15. o.filled \in Int /\ from.filled \in Int /\ to.filled \in Int
  BY <1>3 DEF OrderRow
<1> HIDE DEF p, o, from, to, R
<1>16. CASE p.sig # q \/ to = from
  <2>1. R = o
    BY <1>13, <1>14, <1>16 DEF Paper!Column
  <2>2. OrderLeft(t, q, r, R)
    <3>1. q = p.sig /\ to.status # "none" => R.status # "none" /\ R.after = to.after
      BY <1>8, <1>16, <2>1
    <3>2. q = p.sig /\ Moves(p) /\ Timely(order[q]) => R.filled = to.filled
      BY <1>8, <1>16, <2>1
    <3>3. r = "ENTRY" => EntryFine(R) /\ o.filled <= R.filled /\ (q = p.sig => to.filled <= R.filled)
      BY <1>5, <1>8, <1>15, <1>16, <2>1
    <3>4. Timely(order[q]) => R.filled <= R.quantity
      BY <1>5, <2>1
    <3> QED BY <1>5, <2>1, <3>1, <3>2, <3>3, <3>4 DEF OrderLeft, p, o, to
  <2>3. Sourced(t, q, r, R)
    BY <2>1 DEF Sourced, o
  <2> QED BY <1>3, <2>1, <2>2, <2>3 DEF o, R
<1>17. CASE p.sig = q /\ to # from /\ from = o
  <2>1. R = to
    BY <1>13, <1>14, <1>17 DEF Paper!Column
  <2>2. OrderLeft(t, q, r, R)
    <3>1. /\ o.status # "none" => R.status # "none" /\ R.after = o.after
          /\ ~Moves(p) => R.filled = o.filled
      BY <1>6, <1>7, <1>17, <2>1
    <3>2. r = "ENTRY" => /\ EntryFine(R) /\ o.filled <= R.filled /\ (Paper!Working(R) => Paper!Working(o))
                         /\ to.filled <= R.filled
      BY <1>5, <1>6, <1>8, <1>15, <1>17, <2>1
    <3>3. Timely(p.draft.order) => R.filled <= R.quantity
      BY <1>5, <2>1
    <3> QED BY <1>5, <1>10, <1>17, <2>1, <3>1, <3>2, <3>3 DEF OrderLeft, p, o, to
  <2>3. Sourced(t, q, r, R)
    BY <1>17, <2>1 DEF Sourced, p, to
  <2>4. r = "HALT" /\ o = Paper!NoOrder => R = Paper!NoOrder
    BY <1>6, <1>11, <1>17
  <2> QED BY <1>3, <2>1, <2>2, <2>3, <2>4 DEF o, R
<1>18. CASE p.sig = q /\ to # from /\ from # o
  <2>1. r \notin p.work /\ from.status # "none" /\ Moves(p)
    BY <1>7, <1>8, <1>9, <1>11, <1>12, <1>18
  <2>2. to.filled = from.filled /\ to.status # "none" /\ to.after = from.after /\ r # "ENTRY"
        /\ o.status # "none" /\ o.after = from.after
    BY <1>6, <1>8, <1>18, <2>1
  <2>3. /\ R.status \in {to.status, o.status} /\ R.quantity \in {to.quantity, o.quantity}
        /\ R.filled = o.filled /\ R.after = o.after
    BY <1>13, <1>18, <2>2 DEF Paper!Column
  <2>4. R \in OrderRow /\ R.status # "none" /\ FineOrder(R)
    <3>1. R \in OrderRow
      BY <1>3, <1>13, <1>18, <2>3 DEF OrderRow
    <3> QED BY <1>5, <2>2, <2>3, <3>1 DEF FineOrder
  <2>5. ASSUME Timely(order[q]) PROVE R.filled = to.filled
    BY <1>8, <1>18, <2>1, <2>2, <2>3, <2>5
  <2>6. Timely(order[q]) /\ Timely(p.draft.order) => R.filled <= R.quantity
    BY <1>5, <2>3, <2>5
  <2>7. OrderLeft(t, q, r, R)
    BY <1>10, <1>18, <2>1, <2>2, <2>3, <2>4, <2>5, <2>6 DEF OrderLeft, p, o, to
  <2>8. Sourced(t, q, r, R)
    BY <2>2 DEF Sourced, o
  <2>9. o # Paper!NoOrder
    BY <1>11, <2>2
  <2> QED BY <2>4, <2>7, <2>8, <2>9 DEF o, R
<1> QED BY <1>16, <1>17, <1>18

\* What is written: the halt cancels orders, and adds its own from when the position was opened.
LEMMA WrittenBalances ==
    ASSUME PaperInv, BalanceInv, NEW t \in Task, task[t].pc = "commit", ~Paper!Clash(t),
           NEW q \in Signal, NEW r \in Role, Qty \in Nat, MaxCandle \in Nat,
           Paper!WrittenPosition(t, q).opened \in 0..MaxCandle + 1
    PROVE  LET R == Paper!Written(t, q)[r] IN
           /\ OrderLeft(t, q, r, R)
           /\ Sourced(t, q, r, R) \/ /\ r = "HALT" /\ Held(task[t], q)
                                     /\ R.after = Paper!WrittenPosition(t, q).opened
           /\ r = "HALT" /\ ~halted /\ ~task[t].halting => R = Paper!NoOrder
<1> DEFINE p      == task[t]
           o      == order[q][r]
           mine   == Paper!Kept(t, q, r)
           opened == Paper!WrittenPosition(t, q).opened
           R      == IF <<q, r>> \in p.cancel THEN [mine EXCEPT !.status = "CANCELLED"]
                     ELSE IF r = "HALT" /\ p.flat[q] > 0 THEN Paper!NewOrder(p.flat[q], opened)
                     ELSE mine
<1>1. PaperTypes /\ p \in TaskRow
  BY DEF PaperInv, PaperTypes
<1>2. Paper!Written(t, q)[r] = R
  BY Roles DEF Paper!Written
<1>3. /\ mine \in OrderRow /\ OrderLeft(t, q, r, mine) /\ Sourced(t, q, r, mine)
      /\ r = "HALT" /\ o = Paper!NoOrder => mine = Paper!NoOrder
  BY KeptLeft
<1>4. <<q, r>> \in p.cancel => <<q, r>> \in Paper!Touched(t)
  BY DEF Paper!Touched
<1>5. HaltedOnce /\ HaltFits(p)
  BY DEF BalanceInv, HaltedOnce
<1>6. /\ p.flat[q] \in 0..Qty /\ (p.flat[q] > 0 => p.halting /\ Held(p, q))
      /\ <<q, r>> \in p.cancel => p.halting
      /\ p.halting => ~halted
      /\ ~halted /\ r = "HALT" => o = Paper!NoOrder
  BY <1>5 DEF HaltedOnce, HaltFits
<1>7. Paper!NoOrder.status = "none" /\ Paper!NoOrder.filled = 0
  BY DEF Paper!NoOrder
<1>8. opened \in 0..MaxCandle + 1
  OBVIOUS
<1> HIDE DEF p, o, mine, opened
<1>9. CASE <<q, r>> \in p.cancel
  <2>1. R = [mine EXCEPT !.status = "CANCELLED"]
    BY <1>9
  <2> HIDE DEF R
  <2>2. FineOrder(mine)
    BY <1>3 DEF OrderLeft
  <2>3. FineOrder(R) /\ R.filled = mine.filled /\ R.after = mine.after /\ R.status = "CANCELLED"
        /\ R.quantity = mine.quantity /\ ~Paper!Working(R)
    BY <1>3, <2>1, <2>2, CancelledFine
  <2>4. R \in OrderRow
    BY <1>3, <2>1, <2>2, CancelledFine
  <2>5. q = p.sig /\ p.draft.order[r].status # "none" => mine.status # "none" /\ R.after = p.draft.order[r].after
    BY <1>3, <2>3 DEF OrderLeft, p
  <2>6. EntryFine(mine) => EntryFine(R)
    BY <2>3 DEF EntryFine
  <2>7. OrderLeft(t, q, r, R)
    BY <1>3, <1>4, <1>9, <2>3, <2>5, <2>6 DEF OrderLeft, p
  <2>8. Sourced(t, q, r, R)
    <3>1. There(p, q, r)
      BY <1>5, <1>9 DEF HaltFits
    <3> QED BY <3>1 DEF Sourced, There, p
  <2> QED BY <1>2, <1>6, <1>9, <2>7, <2>8 DEF p
<1>10. CASE <<q, r>> \notin p.cancel /\ r = "HALT" /\ p.flat[q] > 0
  <2>1. R = Paper!NewOrder(p.flat[q], opened)
    BY <1>10
  <2> HIDE DEF R
  <2>2. /\ FineOrder(R) /\ R.filled = 0 /\ R.after = opened /\ R.filled <= R.quantity /\ R.status = "PENDING"
    BY <1>6, <1>8, <2>1, NewOrderFine
  <2>3. mine = Paper!NoOrder /\ o = Paper!NoOrder
    BY <1>3, <1>6, <1>10
  <2>4. q = p.sig => p.draft.order[r].status = "none"
    BY <1>3, <1>7, <2>3 DEF OrderLeft, p
  <2>5. OrderLeft(t, q, r, R)
    BY <1>3, <1>7, <1>10, <2>2, <2>3, <2>4 DEF OrderLeft, p, o
  <2> QED BY <1>2, <1>6, <1>10, <2>2, <2>5 DEF p, opened
<1>11. CASE <<q, r>> \notin p.cancel /\ ~(r = "HALT" /\ p.flat[q] > 0)
  <2>1. R = mine
    BY <1>11
  <2> HIDE DEF R
  <2> QED BY <1>2, <1>3, <1>6, <2>1 DEF p, o
<1> QED BY <1>9, <1>10, <1>11

\* What a commit leaves of the position: once there it stays, and it holds what the pass made of it
\* if that filled any order.
LEMMA WrittenPositionBalances ==
    ASSUME PaperInv, BalanceInv, NEW t \in Task, task[t].pc = "commit", NEW q \in Signal
    PROVE  LET p == task[t]  R == Paper!WrittenPosition(t, q) IN
           /\ R.opened \in 0..MaxCandle + 1 /\ R.open \in Int
           /\ q # p.sig \/ ~Moves(p) => R.open = position[q].open
           /\ q = p.sig /\ Moves(p) /\ Timely(order[q]) => R.open = p.draft.position.open
           /\ R.open = position[q].open \/ (q = p.sig /\ R.open = p.draft.position.open)
           /\ position[q].status # "none" => R.status # "none"
           /\ Held(p, q) => R.status # "none"
           /\ R.status = "none" => R.open = 0 /\ R.opened = 0
           /\ R.status # "none" =>
                \/ position[q].status # "none" /\ R.opened = position[q].opened
                \/ q = p.sig /\ p.draft.position.status # "none" /\ R.opened = p.draft.position.opened
<1> DEFINE p    == task[t]
           from == p.base.position
           to   == p.draft.position
           now  == position[q]
           R    == Paper!WrittenPosition(t, q)
<1>1. PaperTypes /\ p \in TaskRow /\ p.pc = "commit" /\ Ends(p)
  BY DEF PaperInv, PaperTypes, Ends
<1>2. from \in PositionRow /\ to \in PositionRow /\ now \in PositionRow
  BY <1>1 DEF TaskRow, TradeRow, PaperTypes
<1>3. BooksBalance /\ PassFits(p)
  BY DEF BalanceInv, PassesFit
<1>4. /\ Balanced(order[q], now) /\ Balanced(p.draft.order, to) /\ Balanced(p.base.order, from)
      /\ Stays(from, to)
      /\ ~Moves(p) => to.open = from.open
  BY <1>1, <1>3 DEF BooksBalance, PassFits, Drafted
<1>5. /\ now.opened \in 0..MaxCandle + 1 /\ to.opened \in 0..MaxCandle + 1
      /\ now.status = "none" => now.open = 0 /\ now.opened = 0
      /\ now.status # "none" => 0 < now.opened
      /\ to.status = "none" => to.open = 0 /\ to.opened = 0
      /\ to.status # "none" => 0 < to.opened
      /\ from.status = "none" => from.open = 0 /\ from.opened = 0
  BY <1>4 DEF Balanced, Dated
<1>6. from.status # "none" => to.status # "none" /\ to.opened = from.opened
  BY <1>4 DEF Stays
<1>7. q = p.sig => /\ from.status # "none" => now.status # "none"
                   /\ Timely(order[q]) /\ Moves(p) => now.open = from.open
  BY <1>1, <1>3 DEF PassFits, Fresh
<1>8. /\ p.sig # q => R = now
      /\ p.sig = q => /\ R.status = Paper!Column(from.status, to.status, now.status)
                      /\ R.open = Paper!Column(from.open, to.open, now.open)
                      /\ R.opened = Paper!Column(from.opened, to.opened, now.opened)
  BY DEF Paper!WrittenPosition
<1>9. Held(p, q) <=> IF p.sig = q THEN to.status # "none" ELSE now.status # "none"
  BY DEF Held
<1>10. now.open \in Int /\ to.open \in Int /\ now.opened \in Int
  BY <1>2 DEF PositionRow
<1> HIDE DEF p, from, to, now, R
<1>11. CASE p.sig # q
  BY <1>5, <1>8, <1>9, <1>10, <1>11 DEF p, now, R
<1>12. CASE p.sig = q
  <2>1. /\ R.opened \in 0..MaxCandle + 1 /\ R.open \in Int
        /\ ~Moves(p) => R.open = now.open
        /\ R.open \in {now.open, to.open}
    BY <1>4, <1>5, <1>8, <1>10, <1>12 DEF Paper!Column
  <2>2. Moves(p) /\ Timely(order[q]) => R.open = to.open
    BY <1>7, <1>8, <1>12 DEF Paper!Column
  <2>3. /\ now.status # "none" => R.status # "none"
        /\ to.status # "none" => R.status # "none"
    BY <1>6, <1>7, <1>8, <1>12 DEF Paper!Column
  <2>4. ASSUME R.status = "none" PROVE R.open = 0 /\ R.opened = 0
    BY <1>5, <1>7, <1>8, <1>12, <2>3, <2>4 DEF Paper!Column
  <2>5. ASSUME R.status # "none"
        PROVE  \/ now.status # "none" /\ R.opened = now.opened
               \/ to.status # "none" /\ R.opened = to.opened
    <3>1. now.status # "none" \/ to.status # "none"
      BY <1>8, <1>12, <2>5 DEF Paper!Column
    <3>2. CASE to.opened = from.opened
      <4>1. R.opened = now.opened
        BY <1>8, <1>12, <3>2 DEF Paper!Column
      <4>2. now.status # "none"
        <5>1. ASSUME now.status = "none" PROVE FALSE
          BY <1>5, <1>7, <1>12, <3>1, <3>2, <5>1
        <5> QED BY <5>1
      <4> QED BY <4>1, <4>2
    <3>3. CASE to.opened # from.opened
      <4>1. R.opened = to.opened /\ to.status # "none"
        BY <1>5, <1>6, <1>8, <1>12, <3>3 DEF Paper!Column
      <4> QED BY <4>1
    <3> QED BY <3>2, <3>3
  <2> QED BY <1>9, <1>12, <2>1, <2>2, <2>3, <2>4, <2>5 DEF p, to, now, R
<1> QED BY <1>11, <1>12

\* Orders that a commit leaves timely were timely before, and in the pass.
LEMMA TimelyLeft ==
    ASSUME NEW t, NEW q, NEW o, OrderLeft(t, q, "TIME", o["TIME"]), OrderLeft(t, q, "ENTRY", o["ENTRY"]),
           Dated(order[q], position[q]), Timely(o)
    PROVE  /\ Timely(order[q])
           /\ q = task[t].sig /\ Dated(task[t].draft.order, task[t].draft.position) => Timely(task[t].draft.order)
BY Roles DEF OrderLeft, Dated, Timely

LEMMA CommitBalances ==
    ASSUME PaperInv, BalanceInv, NEW t \in Task, task[t].pc = "commit", ~Paper!Clash(t),
           NEW q \in Signal, Qty \in Nat, MaxCandle \in Nat
    PROVE  Balanced(Paper!Written(t, q), Paper!WrittenPosition(t, q))
<1> DEFINE p == task[t]
           o == Paper!Written(t, q)
           R == Paper!WrittenPosition(t, q)
<1>1. PaperTypes /\ p \in TaskRow /\ p.pc = "commit" /\ Ends(p)
  BY DEF PaperInv, PaperTypes, Ends
<1>2. Balanced(order[q], position[q]) /\ Balanced(p.draft.order, p.draft.position)
  BY <1>1 DEF BalanceInv, BooksBalance, PassesFit, PassFits, Drafted
<1>3. /\ R.opened \in 0..MaxCandle + 1 /\ R.open \in Int
      /\ q # p.sig \/ ~Moves(p) => R.open = position[q].open
      /\ q = p.sig /\ Moves(p) /\ Timely(order[q]) => R.open = p.draft.position.open
      /\ R.open = position[q].open \/ (q = p.sig /\ R.open = p.draft.position.open)
      /\ position[q].status # "none" => R.status # "none"
      /\ Held(p, q) => R.status # "none"
      /\ R.status = "none" => R.open = 0 /\ R.opened = 0
      /\ R.status # "none" =>
           \/ position[q].status # "none" /\ R.opened = position[q].opened
           \/ q = p.sig /\ p.draft.position.status # "none" /\ R.opened = p.draft.position.opened
  BY WrittenPositionBalances
<1>4. \A r \in Role : /\ OrderLeft(t, q, r, o[r])
                      /\ Sourced(t, q, r, o[r]) \/ (r = "HALT" /\ Held(p, q) /\ o[r].after = R.opened)
  BY <1>3, WrittenBalances
<1>5. /\ order[q] \in [Role -> OrderRow] /\ position[q] \in PositionRow
      /\ p.draft.order \in [Role -> OrderRow] /\ p.draft.position \in PositionRow
  BY <1>1 DEF PaperTypes, TaskRow, TradeRow
<1> HIDE DEF o, R
<1>6. \A r \in Role : FineOrder(o[r])
  BY <1>4 DEF OrderLeft
<1>7. "ENTRY" \in Role /\ "TIME" \in Role
  BY Roles
<1>8. /\ EntryFine(o["ENTRY"]) /\ order[q]["ENTRY"].filled <= o["ENTRY"].filled
      /\ q = p.sig => p.draft.order["ENTRY"].filled <= o["ENTRY"].filled
      /\ order[q]["ENTRY"].status # "none" => o["ENTRY"].status # "none" /\ o["ENTRY"].after = order[q]["ENTRY"].after
      /\ q = p.sig /\ p.draft.order["ENTRY"].status # "none" =>
           o["ENTRY"].status # "none" /\ o["ENTRY"].after = p.draft.order["ENTRY"].after
  BY <1>4, <1>7 DEF OrderLeft
<1>9. 0 <= R.open /\ R.open <= o["ENTRY"].filled
  <2>1. /\ 0 <= position[q].open /\ position[q].open <= order[q]["ENTRY"].filled
        /\ 0 <= p.draft.position.open /\ p.draft.position.open <= p.draft.order["ENTRY"].filled
    BY <1>2 DEF Balanced
  <2>2. /\ order[q]["ENTRY"].filled \in Int /\ p.draft.order["ENTRY"].filled \in Int /\ o["ENTRY"].filled \in Int
        /\ position[q].open \in Int /\ p.draft.position.open \in Int
    BY <1>5, <1>6, <1>7 DEF OrderRow, PositionRow, FineOrder
  <2> QED BY <1>3, <1>8, <2>1, <2>2
<1>10. R.status # "none" => 0 < R.opened /\ o["ENTRY"].status # "none" /\ o["ENTRY"].after <= R.opened
  <2>1. /\ position[q].status # "none" =>
             0 < position[q].opened /\ order[q]["ENTRY"].status # "none" /\ order[q]["ENTRY"].after <= position[q].opened
        /\ p.draft.position.status # "none" =>
             /\ 0 < p.draft.position.opened /\ p.draft.order["ENTRY"].status # "none"
             /\ p.draft.order["ENTRY"].after <= p.draft.position.opened
    BY <1>2 DEF Balanced, Dated
  <2> QED BY <1>3, <1>8, <2>1
<1>11. ASSUME NEW r \in Paper!EXIT_ROLES, o[r].status # "none"
       PROVE  o["ENTRY"].status # "none" /\ (r # "TIME" => o["ENTRY"].after <= o[r].after)
  <2>1. /\ r \in Role /\ OrderLeft(t, q, r, o[r])
        /\ Sourced(t, q, r, o[r]) \/ (r = "HALT" /\ Held(p, q) /\ o[r].after = R.opened)
    BY <1>4, <1>11, Roles
  <2>2. CASE order[q][r].status # "none"
    <3>1. order[q]["ENTRY"].status # "none" /\ (r # "TIME" => order[q]["ENTRY"].after <= order[q][r].after)
      BY <1>2, <1>11, <2>2 DEF Balanced, Dated
    <3>2. o[r].after = order[q][r].after
      BY <2>1, <2>2 DEF OrderLeft
    <3> QED BY <1>8, <3>1, <3>2
  <2>3. CASE q = p.sig /\ p.draft.order[r].status # "none"
    <3>1. /\ p.draft.order["ENTRY"].status # "none"
          /\ r # "TIME" => p.draft.order["ENTRY"].after <= p.draft.order[r].after
      BY <1>2, <1>11, <2>3 DEF Balanced, Dated
    <3>2. o[r].after = p.draft.order[r].after
      BY <2>1, <2>3 DEF OrderLeft
    <3> QED BY <1>8, <2>3, <3>1, <3>2
  <2>4. CASE Held(p, q) /\ o[r].after = R.opened
    BY <1>3, <1>10, <2>4
  <2> QED BY <1>11, <2>1, <2>2, <2>3, <2>4 DEF Sourced
<1>12. Dated(o, R)
  BY <1>3, <1>10, <1>11 DEF Dated
<1>13. ASSUME Timely(o)
       PROVE  R.open = o["ENTRY"].filled - Sold(o) /\ \A r \in Role : o[r].filled <= o[r].quantity
  <2>1. Timely(order[q]) /\ (q = p.sig => Timely(p.draft.order))
    <3>1. Dated(order[q], position[q]) /\ Dated(p.draft.order, p.draft.position)
      BY <1>2 DEF Balanced
    <3> QED BY <1>4, <1>7, <1>13, <3>1, TimelyLeft
  <2>2. \A r \in Role : o[r].filled <= o[r].quantity
    BY <1>4, <2>1 DEF OrderLeft
  <2>3. CASE q # p.sig \/ ~Moves(p)
    <3>1. \A r \in Role : o[r].filled = order[q][r].filled
      BY <1>4, <2>3 DEF OrderLeft
    <3>2. Sold(o) = Sold(order[q]) /\ o["ENTRY"].filled = order[q]["ENTRY"].filled
      BY <3>1, Roles DEF Sold
    <3> QED BY <1>2, <1>3, <2>1, <2>2, <2>3, <3>2 DEF Balanced
  <2>4. CASE q = p.sig /\ Moves(p)
    <3>1. \A r \in Role : o[r].filled = p.draft.order[r].filled
      BY <1>4, <2>1, <2>4 DEF OrderLeft
    <3>2. Sold(o) = Sold(p.draft.order) /\ o["ENTRY"].filled = p.draft.order["ENTRY"].filled
      BY <3>1, Roles DEF Sold
    <3> QED BY <1>2, <1>3, <2>1, <2>2, <2>4, <3>2 DEF Balanced
  <2> QED BY <2>3, <2>4
<1> QED BY <1>3, <1>6, <1>8, <1>9, <1>12, <1>13 DEF Balanced, o, R

\* What a pass has chosen stays there through another's commit, what it has locked as it was; and of
\* two passes that have filled orders of one instrument the second waits for the first.
LEMMA CommitLeavesPass ==
    ASSUME PaperInv, BalanceInv, NEW t \in Task, Paper!Commit(t), NEW u \in Task \ {t}, Qty \in Nat, MaxCandle \in Nat
    PROVE  PassFits(task[u])'
<1> DEFINE p == task[t]
           v == task[u]
           q == v.sig
<1>1. /\ PaperTypes /\ p.pc = "commit" /\ ~Paper!Clash(t)
      /\ \A z \in Task \ {t} : ~Paper!Waits(t, z)
      /\ order' = [s \in Signal |-> Paper!Written(t, s)]
      /\ position' = [s \in Signal |-> Paper!WrittenPosition(t, s)]
  BY DEF PaperInv, PaperTypes, Paper!Commit
<1>2. task'[u] = v
  BY <1>1 DEF Paper!Commit, PaperTypes
<1>3. PassFits(v) /\ PassFits(p) /\ v \in TaskRow /\ Ends(p) /\ Chosen(p) /\ Locked(p)
  BY <1>1 DEF BalanceInv, PassesFit, PaperTypes, Ends, Chosen, Locked
<1>4. (Locked(v) => Chosen(v)) /\ (Ends(v) => Locked(v))
  BY DEF Locked, Chosen
<1>5. CASE ~Chosen(v)
  BY <1>2, <1>4, <1>5 DEF PassFits, Chose, Keeps, Covers, Drafted, Fresh, Ends, Locked, Chosen
<1>6. CASE Chosen(v)
  <2>1. q \in Signal
    BY <1>1, <1>6 DEF PaperTypes, Chosen, Ends
  <2>2. /\ Paper!WrittenPosition(t, q).opened \in 0..MaxCandle + 1
        /\ position[q].status # "none" => Paper!WrittenPosition(t, q).status # "none"
        /\ q # p.sig \/ ~Moves(p) => Paper!WrittenPosition(t, q).open = position[q].open
    BY <1>1, <2>1, WrittenPositionBalances
  <2>3. /\ position[q].status # "none" => position'[q].status # "none"
        /\ q # p.sig \/ ~Moves(p) => position'[q].open = position[q].open
    BY <1>1, <2>1, <2>2
  <2>4. \A r \in Role : OrderLeft(t, q, r, order'[q][r])
    BY <1>1, <2>1, <2>2, WrittenBalances
  <2>5. Balanced(order[q], position[q]) /\ order[q] \in [Role -> OrderRow]
    BY <1>1, <2>1 DEF BalanceInv, BooksBalance, PaperTypes
  <2>6. Timely(order'[q]) => Timely(order[q])
    BY <2>4, <2>5, Roles, TimelyLeft DEF Balanced
  <2>7. Chose(v)'
    <3>1. ASSUME NEW r \in v.work PROVE order'[q][r].status # "none" /\ order'[q][r].after <= v.k
      <4>1. r \in Role /\ order[q][r].status # "none" /\ order[q][r].after <= v.k
        BY <1>3, <1>6 DEF PassFits, Chose, TaskRow
      <4> QED BY <2>4, <4>1 DEF OrderLeft
    <3> QED BY <1>2, <3>1 DEF Chose
  <2>8. Keeps(v)'
    <3>1. ASSUME Locked(v), NEW r \in v.work
          PROVE  Paper!Working(order'[q][r]) /\ v.base.order[r] = order'[q][r]
      <4>1. r \in Role /\ Paper!Working(order[q][r]) /\ v.base.order[r] = order[q][r]
        BY <1>3, <3>1 DEF PassFits, Keeps, TaskRow
      <4>2. Paper!Holds(u, q, r)
        BY <3>1 DEF Paper!Holds, Locked, Ends
      <4>3. <<q, r>> \notin Paper!Touched(t)
        BY <1>1, <4>2 DEF Paper!Waits
      <4>4. order[q][r].status # "none"
        BY <4>1 DEF Paper!Working
      <4> QED BY <2>4, <4>1, <4>3, <4>4 DEF OrderLeft
    <3> QED BY <1>2, <3>1 DEF Keeps, Locked, Ends
  <2>9. Covers(v)'
    <3>1. Paper!Working(order'[q]["ENTRY"]) => Paper!Working(order[q]["ENTRY"])
      BY <2>4, Roles DEF OrderLeft
    <3> QED BY <1>2, <1>3, <1>6, <2>6, <3>1 DEF PassFits, Covers
  <2>10. Drafted(v)'
    BY <1>2, <1>3 DEF PassFits, Drafted, Ends, Moves
  <2>11. ASSUME Ends(v), Moves(v), Timely(order[q]) PROVE q # p.sig \/ ~Moves(p)
    <3> SUFFICES ASSUME q = p.sig, Moves(p) PROVE FALSE
      OBVIOUS
    <3>1. Apart(p, v) /\ Has(p)
      BY <1>1 DEF BalanceInv, PassesApart, Has
    <3>2. v.pc = "update"
      BY <2>11, <3>1 DEF Apart, Has, Ends
    <3>3. /\ Worked(v.base.order, v.draft.order, v.work) /\ Worked(p.base.order, p.draft.order, p.work)
          /\ \A r \in Paper!EXIT_ROLES : v.draft.order[r].filled = v.base.order[r].filled
      BY <1>3, <2>11, <3>2 DEF PassFits, Drafted
    <3>4. "ENTRY" \in v.work
      BY <2>11, <3>3, Roles DEF Moves, Worked
    <3>5. Paper!Working(order[q]["ENTRY"])
      BY <1>3, <1>4, <2>11, <3>4 DEF PassFits, Keeps
    <3>6. p.work # {}
      BY <3>3 DEF Moves, Worked
    <3>7. "ENTRY" \in p.work
      BY <1>3, <2>11, <3>5, <3>6 DEF PassFits, Covers
    <3> QED BY <1>3, <1>4, <2>11, <3>1, <3>4, <3>7 DEF Apart
  <2>12. Fresh(v)'
    <3> SUFFICES ASSUME Ends(v)
                 PROVE  /\ \A r \in Role : v.base.order[r].status # "none" =>
                             order'[q][r].status # "none" /\ order'[q][r].after = v.base.order[r].after
                        /\ v.base.order["ENTRY"].filled <= order'[q]["ENTRY"].filled
                        /\ v.base.position.status # "none" => position'[q].status # "none"
                        /\ Timely(order'[q]) /\ Moves(v) =>
                             /\ position'[q].open = v.base.position.open
                             /\ \A r \in Role : order'[q][r].filled = v.base.order[r].filled
      BY <1>2 DEF Fresh, Ends, Moves
    <3>1. Fresh(v) /\ Balanced(v.base.order, v.base.position)
      BY <1>3 DEF PassFits, Drafted
    <3>2. ASSUME NEW r \in Role, v.base.order[r].status # "none"
          PROVE  order'[q][r].status # "none" /\ order'[q][r].after = v.base.order[r].after
      <4>1. order[q][r].status # "none" /\ order[q][r].after = v.base.order[r].after
        BY <3>1, <3>2 DEF Fresh
      <4> QED BY <2>4, <4>1 DEF OrderLeft
    <3>3. v.base.order["ENTRY"].filled <= order'[q]["ENTRY"].filled
      <4>1. v.base.order["ENTRY"].filled <= order[q]["ENTRY"].filled
        BY <3>1 DEF Fresh
      <4>2. order[q]["ENTRY"].filled <= order'[q]["ENTRY"].filled /\ FineOrder(order'[q]["ENTRY"])
        BY <2>4, Roles DEF OrderLeft
      <4>3. /\ v.base.order["ENTRY"].filled \in Int /\ order[q]["ENTRY"].filled \in Int
            /\ order'[q]["ENTRY"].filled \in Int
        BY <1>3, <2>5, <4>2, Roles DEF TaskRow, TradeRow, OrderRow, FineOrder
      <4> QED BY <4>1, <4>2, <4>3
    <3>4. v.base.position.status # "none" => position'[q].status # "none"
      BY <2>3, <3>1 DEF Fresh
    <3>5. ASSUME Timely(order'[q]), Moves(v)
          PROVE  /\ position'[q].open = v.base.position.open
                 /\ \A r \in Role : order'[q][r].filled = v.base.order[r].filled
      <4>1. /\ position[q].open = v.base.position.open
            /\ \A r \in Role : order[q][r].filled = v.base.order[r].filled
        BY <2>6, <3>1, <3>5 DEF Fresh
      <4>2. q # p.sig \/ ~Moves(p)
        BY <2>6, <2>11, <3>5
      <4>3. \A r \in Role : order'[q][r].filled = order[q][r].filled
        BY <2>4, <4>2 DEF OrderLeft
      <4> QED BY <2>3, <4>1, <4>2, <4>3
    <3> QED BY <3>2, <3>3, <3>4, <3>5
  <2> QED BY <2>7, <2>8, <2>9, <2>10, <2>12 DEF PassFits
<1> QED BY <1>5, <1>6

LEMMA CommitKeeps ==
    ASSUME PaperInv, BalanceInv, NEW t \in Task, Paper!Commit(t), Qty \in Nat, MaxCandle \in Nat
    PROVE  BalanceInv'
<1> DEFINE p  == task[t]
           s  == p.sig
           at == IF p.draft.closed THEN "settle" ELSE "next"
           w  == [Paper!Idle EXCEPT !.pc = at, !.sig = s, !.k = p.k]
<1>1. /\ PaperTypes /\ p \in TaskRow /\ p.pc = "commit" /\ s \in Signal /\ ~Paper!Clash(t)
      /\ task' = [task EXCEPT ![t] = w]
      /\ order' = [q \in Signal |-> Paper!Written(t, q)]
      /\ position' = [q \in Signal |-> Paper!WrittenPosition(t, q)]
      /\ halted' = (halted \/ p.halting)
      /\ UNCHANGED candle
  BY DEF PaperInv, PaperTypes, Paper!Commit
<1>2. BooksBalance /\ PassesFit /\ HaltedOnce
  BY DEF BalanceInv
<1>3. at \in {"settle", "next"}
  OBVIOUS
<1> HIDE DEF at
<1>4. /\ w.pc = at /\ w.sig = s /\ w.k = p.k /\ w.halting = Paper!Idle.halting
      /\ w.flat = Paper!Idle.flat /\ w.cancel = Paper!Idle.cancel
  BY IdleIs DEF TaskRow
<1> HIDE DEF w
<1>5. task'[t] = w /\ \A u \in Task \ {t} : task'[u] = task[u]
  BY <1>1 DEF PaperTypes
<1>6. \A q \in Signal : order'[q] = Paper!Written(t, q) /\ position'[q] = Paper!WrittenPosition(t, q)
  BY <1>1
<1>7. BooksBalance'
  <2>1. \A q \in Signal : Balanced(order'[q], position'[q])
    BY <1>1, <1>6, CommitBalances
  <2> QED BY <1>1, <1>2, <2>1 DEF BooksBalance
<1>8. ASSUME NEW q \in Signal
      PROVE  /\ \A r \in Role : OrderLeft(t, q, r, order'[q][r])
             /\ position[q].status # "none" => position'[q].status # "none"
             /\ ~halted' => order'[q]["HALT"] = Paper!NoOrder
  <2>1. /\ Paper!WrittenPosition(t, q).opened \in 0..MaxCandle + 1
        /\ position[q].status # "none" => Paper!WrittenPosition(t, q).status # "none"
    BY <1>1, WrittenPositionBalances
  <2>2. "HALT" \in Role
    BY Roles
  <2> QED BY <1>1, <1>6, <2>1, <2>2, WrittenBalances
<1>9. HaltedOnce'
  <2>1. ~w.halting /\ w.cancel = {} /\ \A q \in Signal : w.flat[q] \in 0..Qty /\ ~(w.flat[q] > 0)
    BY <1>4, IdleHaltsNot
  <2>2. \A u \in Task \ {t} : task[u].halting => ~p.halting
    BY <1>2 DEF HaltedOnce
  <2>3. HaltFits(task[t])'
    BY <1>5, <2>1 DEF HaltFits
  <2>4. ASSUME NEW u \in Task \ {t} PROVE HaltFits(task[u])'
    <3>1. HaltFits(task[u])
      BY <1>2 DEF HaltedOnce
    <3>2. task[u].halting => ~halted'
      BY <1>1, <2>2, <3>1 DEF HaltFits
    <3>3. \A q \in Signal, r \in Role : order[q][r].status # "none" => order'[q][r].status # "none"
      BY <1>8 DEF OrderLeft
    <3> QED BY <1>5, <1>8, <3>1, <3>2, <3>3 DEF HaltFits, Held, There
  <2>5. \A u, v \in Task : task'[u].halting /\ task'[v].halting => u = v
    BY <1>2, <1>5, <2>1 DEF HaltedOnce
  <2> QED BY <1>8, <2>3, <2>4, <2>5 DEF HaltedOnce
<1>10. \A u \in Task \ {t} : PassFits(task[u])'
  BY CommitLeavesPass
<1>11. /\ w.pc \in {"idle", "settle", "next"}
       /\ w.pc # "idle" => w.k = task[t].k /\ w.sig = task[t].sig /\ task[t].pc # "idle"
  BY <1>1, <1>3, <1>4
<1>12. UNCHANGED candle
  BY <1>1
<1> QED BY <1>1, <1>7, <1>9, <1>10, <1>11, <1>12, WriterKeeps

-----------------------------------------------------------------------------
(* The paper ledger: that it balances in every behaviour.                   *)

LEMMA BalanceInit ==
    ASSUME Paper!Init, Qty \in Nat \ {0}, MaxCandle \in Nat
    PROVE  BalanceInv
<1> DEFINE entry == Paper!NewOrder(Qty, 0)
<1>1. /\ candle = [s \in Signal |-> 0]
      /\ order = [s \in Signal |-> [r \in Role |->
                    IF s \in signalled /\ r = "ENTRY" THEN entry ELSE Paper!NoOrder]]
      /\ position = [s \in Signal |-> Paper!NoPosition]
      /\ task = [t \in Task |-> Paper!Idle]
  BY DEF Paper!Init, Role
<1>2. /\ FineOrder(entry) /\ entry.filled = 0 /\ EntryFine(entry)
      /\ FineOrder(Paper!NoOrder) /\ Paper!NoOrder.filled = 0 /\ EntryFine(Paper!NoOrder)
      /\ Paper!NoOrder.status = "none"
  BY NewOrderFine, NoOrderFine DEF EntryFine
<1> HIDE DEF entry
<1>3. BooksBalance
  <2> SUFFICES ASSUME NEW s \in Signal
               PROVE  candle[s] \in 0..MaxCandle /\ Balanced(order[s], position[s])
    BY DEF BooksBalance
  <2>1. \A r \in Role : FineOrder(order[s][r]) /\ order[s][r].filled = 0 /\ EntryFine(order[s][r])
    BY <1>1, <1>2
  <2>2. position[s].open = 0 /\ position[s].opened = 0 /\ position[s].status = "none"
    BY <1>1 DEF Paper!NoPosition
  <2>3. order[s]["ENTRY"].filled = 0 /\ Sold(order[s]) = 0
    BY <2>1, Roles DEF Sold
  <2>4. Dated(order[s], position[s])
    <3>1. \A r \in Paper!EXIT_ROLES : order[s][r].status = "none"
      BY <1>1, <1>2, Roles
    <3> QED BY <2>2, <3>1 DEF Dated
  <2>5. EntryFine(order[s]["ENTRY"])
    BY <2>1, Roles
  <2> QED BY <1>1, <2>1, <2>2, <2>3, <2>4, <2>5 DEF Balanced, EntryFine
<1>4. \A t \in Task : task[t] = Paper!Idle
  BY <1>1
<1>5. Paper!Idle.pc = "idle"
  BY IdleIs
<1>6. PassesFit /\ PassesApart
  <2>1. PassFits(Paper!Idle) /\ \A v : Apart(Paper!Idle, v)
    BY <1>5, OutsideFits
  <2> QED BY <1>4, <1>5, <2>1 DEF PassesFit, PassesApart, InTime
<1>7. HaltedOnce
  <2>1. \A s \in Signal : order[s]["HALT"] = Paper!NoOrder
    BY <1>1, Roles
  <2>2. HaltFits(Paper!Idle)
    BY IdleHaltsNot DEF HaltFits
  <2> QED BY <1>4, <2>1, <2>2, IdleHaltsNot DEF HaltedOnce
<1> QED BY <1>3, <1>6, <1>7 DEF BalanceInv

LEMMA BalanceNext ==
    ASSUME PaperInv, BalanceInv, Paper!Next, IsFiniteSet(Signal), Qty \in Nat \ {0}, MaxCandle \in Nat
    PROVE  BalanceInv'
<1>1. PICK t \in Task : Paper!Step(t) \/ Paper!Fail(t) \/ \E s \in Signal : Paper!Complete(t, s)
  BY DEF Paper!Next
<1>2. CASE Paper!Query(t)          BY <1>2, QueryKeeps
<1>3. CASE Paper!Lock(t)           BY <1>3, LockKeeps
<1>4. CASE Paper!Fill(t)           BY <1>4, FillKeeps
<1>5. CASE Paper!Halt(t)           BY <1>5, HaltKeeps
<1>6. CASE Paper!HaltIsThere(t)    BY <1>6, HaltIsThereKeeps
<1>7. CASE Paper!Commit(t)         BY <1>7, CommitKeeps
<1>8. CASE Paper!SettleSignal(t)   BY <1>8, SettleKeeps
<1>9. CASE Paper!Evaluate(t)       BY <1>9, EvaluateKeeps
<1>10. CASE Paper!ReserveRead(t)   BY <1>10, ReserveReadKeeps
<1>11. CASE Paper!ReserveCommit(t) BY <1>11, ReserveCommitKeeps
<1>12. CASE Paper!Queue(t)         BY <1>12, QueueKeeps
<1>13. CASE Paper!Collide(t) \/ Paper!Fail(t)
  BY <1>13, UndoKeeps
<1>14. CASE \E s \in Signal : Paper!Complete(t, s)
  BY <1>14, CompleteKeeps
<1>15. CASE Paper!Update(t)        BY <1>15, UpdateKeeps
<1> QED
  BY <1>1, <1>2, <1>3, <1>4, <1>5, <1>6, <1>7, <1>8, <1>9, <1>10, <1>11, <1>12, <1>13, <1>14, <1>15
     DEF Paper!Step

\* BalanceInv holds in every state of a day kept on paper, however many coroutines there are.
THEOREM BalanceInvariant == Spec => [](OnPaper => PaperInv /\ BalanceInv)
<1>1. IsFiniteSet(Signal) /\ Qty \in Nat \ {0} /\ MaxCandle \in Nat
  BY LedgersAssumption
<1>2. Init => (OnPaper => BalanceInv)
  BY <1>1, BalanceInit DEF Init, OnPaper, PaperUnused
<1>3. (OnPaper => PaperInv) /\ (OnPaper => BalanceInv) /\ [Next]_<<paper, live, figures>>
        => (OnPaper => BalanceInv)'
  <2> SUFFICES ASSUME OnPaper => PaperInv /\ BalanceInv, [Next]_<<paper, live, figures>>
               PROVE  (OnPaper => BalanceInv)'
    OBVIOUS
  <2>1. CASE OnPaper /\ Paper!Next
    BY <1>1, <2>1, BalanceNext
  <2>2. CASE UNCHANGED paper
    <3>1. UNCHANGED <<candle, order, position, halted, task>>
      BY <2>2 DEF paper
    <3>2. BooksBalance' = BooksBalance /\ HaltedOnce' = HaltedOnce
      BY <3>1 DEF BooksBalance, HaltedOnce, HaltFits, Held, There
    <3>3. PassesFit' = PassesFit
      BY <3>1 DEF PassesFit, InTime, PassFits, Chose, Keeps, Covers, Drafted, Fresh, Chosen, Locked, Ends, Moves
    <3>4. PassesApart' = PassesApart
      BY <3>1 DEF PassesApart, Apart, Has, Moves, Locked, Ends
    <3> QED BY <3>1, <3>2, <3>3, <3>4 DEF OnPaper, BalanceInv
  <2> QED BY <2>1, <2>2 DEF Next
<1> QED BY <1>2, <1>3, PaperInvariant, PTL DEF Spec

\* What the exits have filled, as the property adds it up.
LEMMA SumOfExits ==
    ASSUME NEW o \in [Role -> OrderRow]
    PROVE  Paper!MapThenSumSet(LAMBDA r : o[r].filled, Paper!EXIT_ROLES) = Sold(o)
<1> DEFINE S    == Paper!EXIT_ROLES
           F    == [r \in S |-> o[r].filled]
           P(h) == h = [q \in SUBSET S |-> IF q = {} THEN 0 ELSE o[Pick(q)].filled + h[q \ {Pick(q)}]]
<1>1. /\ S = {"HALT", "STOP", "TARGET", "TIME"} /\ IsFiniteSet(S)
      /\ Over(F, S)
      /\ F["HALT"] = o["HALT"].filled /\ F["STOP"] = o["STOP"].filled
      /\ F["TARGET"] = o["TARGET"].filled /\ F["TIME"] = o["TIME"].filled
  <2>1. S = {"HALT", "STOP", "TARGET", "TIME"} /\ S \subseteq Role
    BY Roles
  <2>2. \A r \in S : F[r] = o[r].filled /\ F[r] \in Int
    BY <2>1 DEF OrderRow
  <2>3. IsFiniteSet({"HALT", "STOP", "TARGET", "TIME"})
    <3>1. {"HALT", "STOP", "TARGET", "TIME"} = (({"TIME"} \cup {"TARGET"}) \cup {"STOP"}) \cup {"HALT"}
      OBVIOUS
    <3>2. IsFiniteSet({"TIME"})
      BY FS_Singleton
    <3>3. IsFiniteSet({"TIME"} \cup {"TARGET"})
      BY <3>2, FS_AddElement
    <3>4. IsFiniteSet(({"TIME"} \cup {"TARGET"}) \cup {"STOP"})
      BY <3>3, FS_AddElement
    <3>5. IsFiniteSet((({"TIME"} \cup {"TARGET"}) \cup {"STOP"}) \cup {"HALT"})
      BY <3>4, FS_AddElement
    <3> QED BY <3>1, <3>5
  <2>4. Over(F, S)
    BY <2>2 DEF Over
  <2> HIDE DEF F
  <2> QED BY <2>1, <2>2, <2>3, <2>4
<1>2. \A h : P(h) <=> Folds(h, F, S)
  BY PicksAre DEF PicksIn, Folds
<1>3. Paper!MapThenSumSet(LAMBDA r : o[r].filled, S) = (CHOOSE h : P(h))[S]
  BY DEF Paper!MapThenSumSet, Paper!MapThenFoldSet, Pick
<1> HIDE DEF P, F, S
<1>4. P(CHOOSE h : P(h))
  BY <1>1, <1>2, FoldExists
<1>5. Paper!MapThenSumSet(LAMBDA r : o[r].filled, S) = Total(F, S)
  BY <1>1, <1>2, <1>3, <1>4, FoldIs
<1>6. Total(F, S) = F["HALT"] + F["STOP"] + F["TARGET"] + F["TIME"]
  <2> DEFINE T == S \ {"HALT"}
             U == T \ {"STOP"}
             V == U \ {"TARGET"}
  <2>1. T = {"STOP", "TARGET", "TIME"} /\ U = {"TARGET", "TIME"} /\ V = {"TIME"}
    BY <1>1
  <2>2. Over(F, T) /\ Over(F, U) /\ F["TIME"] \in Int /\ F["HALT"] \in Int /\ F["STOP"] \in Int
        /\ F["TARGET"] \in Int
    BY <1>1 DEF Over
  <2>3. IsFiniteSet(T) /\ IsFiniteSet(U)
    BY <1>1, FS_Subset
  <2>4. Total(F, S) = F["HALT"] + Total(F, T)
    BY <1>1, TotalRemove
  <2> HIDE DEF T
  <2>5. Total(F, T) = F["STOP"] + Total(F, U)
    BY <2>1, <2>2, <2>3, TotalRemove
  <2> HIDE DEF U
  <2>6. Total(F, U) = F["TARGET"] + Total(F, V)
    BY <2>1, <2>2, <2>3, TotalRemove
  <2> HIDE DEF V
  <2>7. Total(F, {"TIME"}) = F["TIME"]
    BY <2>2, TotalOne
  <2>8. Total(F, {"TIME"}) \in Int
    BY <2>2, <2>7
  <2> QED BY <2>1, <2>2, <2>4, <2>5, <2>6, <2>7, <2>8
<1>7. S = Paper!EXIT_ROLES
  BY DEF S
<1> QED BY <1>1, <1>5, <1>6, <1>7 DEF Sold

\* However many coroutines overlap, and wherever one is cut off, a position holds what its entry
\* filled less what its exits filled, and no exit sells more than is held, but where the clock was
\* asked by a candle older than the one that signalled (test_paper_exit_quantity.py:1,
\* paper_execution.py:629).
THEOREM LedgerBalances_Holds == Spec => []LedgerBalances
<1>1. (OnPaper => PaperInv /\ BalanceInv) => LedgerBalances
  <2> SUFFICES ASSUME OnPaper, PaperInv, BalanceInv, NEW s \in Signal, ~Paper!TooEarly(s)
               PROVE  /\ position[s].open >= 0
                      /\ position[s].open = order[s]["ENTRY"].filled
                           - Paper!MapThenSumSet(LAMBDA r : order[s][r].filled, Paper!EXIT_ROLES)
    BY DEF LedgerBalances, Paper!LedgerBalances
  <2>1. Balanced(order[s], position[s]) /\ order[s] \in [Role -> OrderRow] /\ position[s] \in PositionRow
    BY DEF BalanceInv, BooksBalance, PaperInv, PaperTypes
  <2>2. Paper!MapThenSumSet(LAMBDA r : order[s][r].filled, Paper!EXIT_ROLES) = Sold(order[s])
    BY <2>1, SumOfExits
  <2>3. Timely(order[s])
    <3>1. order[s]["TIME"].after \in Int /\ order[s]["ENTRY"].after \in Int
      BY <2>1, Roles DEF OrderRow
    <3> QED BY <3>1 DEF Paper!TooEarly, Timely
  <2>4. position[s].open \in Int /\ 0 <= position[s].open
    BY <2>1 DEF Balanced, PositionRow
  <2> QED BY <2>1, <2>2, <2>3, <2>4 DEF Balanced
<1> QED BY <1>1, BalanceInvariant, PTL

-----------------------------------------------------------------------------
(* The paper ledger: its types, with the bounds of what is counted.         *)

LEMMA FaultsNext ==
    ASSUME PaperInv, Paper!Next, faults \in 0..MaxFaults, MaxFaults \in Nat
    PROVE  faults' \in 0..MaxFaults
<1>1. PICK t \in Task : Paper!Step(t) \/ Paper!Fail(t) \/ \E s \in Signal : Paper!Complete(t, s)
  BY DEF Paper!Next
<1>2. CASE Paper!Fail(t)
  BY <1>2 DEF Paper!Fail
<1>3. CASE ~Paper!Fail(t)
  <2>1. faults' = faults
    <3>1. CASE Paper!Query(t)          BY <3>1 DEF Paper!Query
    <3>2. CASE Paper!Lock(t)           BY <3>2 DEF Paper!Lock
    <3>3. CASE Paper!Fill(t)           BY <3>3, Zenon DEF Paper!Fill
    <3>4. CASE Paper!Halt(t)           BY <3>4, Zenon DEF Paper!Halt
    <3>5. CASE Paper!HaltIsThere(t)    BY <3>5 DEF Paper!HaltIsThere
    <3>6. CASE Paper!Commit(t)         BY <3>6 DEF Paper!Commit
    <3>7. CASE Paper!SettleSignal(t)   BY <3>7 DEF Paper!SettleSignal
    <3>8. CASE Paper!Evaluate(t)       BY <3>8 DEF Paper!Evaluate
    <3>9. CASE Paper!ReserveRead(t)    BY <3>9 DEF Paper!ReserveRead
    <3>10. CASE Paper!ReserveCommit(t) BY <3>10 DEF Paper!ReserveCommit
    <3>11. CASE Paper!Queue(t)         BY <3>11 DEF Paper!Queue
    <3>12. CASE Paper!Collide(t)       BY <3>12 DEF Paper!Collide
    <3>13. CASE \E s \in Signal : Paper!Complete(t, s)
      BY <3>13 DEF Paper!Complete
    <3>14. CASE Paper!Update(t)        BY <3>14 DEF Paper!Update
    <3> QED
      BY <1>1, <1>3, <3>1, <3>2, <3>3, <3>4, <3>5, <3>6, <3>7, <3>8, <3>9, <3>10, <3>11, <3>12, <3>13, <3>14
         DEF Paper!Step
  <2> QED BY <2>1
<1> QED BY <1>2, <1>3

LEMMA FaultsBounded == Spec => [](OnPaper => faults \in 0..MaxFaults)
<1>1. MaxFaults \in Nat
  BY LedgersAssumption
<1>2. Init => (OnPaper => faults \in 0..MaxFaults)
  BY <1>1 DEF Init, OnPaper, PaperUnused, Paper!Init
<1>3. (OnPaper => PaperInv) /\ (OnPaper => faults \in 0..MaxFaults) /\ [Next]_<<paper, live, figures>>
        => (OnPaper => faults \in 0..MaxFaults)'
  <2> SUFFICES ASSUME OnPaper => PaperInv /\ faults \in 0..MaxFaults, [Next]_<<paper, live, figures>>
               PROVE  (OnPaper => faults \in 0..MaxFaults)'
    OBVIOUS
  <2>1. CASE OnPaper /\ Paper!Next
    BY <1>1, <2>1, FaultsNext
  <2>2. CASE UNCHANGED paper
    BY <2>2 DEF paper, OnPaper
  <2> QED BY <2>1, <2>2 DEF Next
<1> QED BY <1>2, <1>3, PaperInvariant, PTL DEF Spec

\* What the invariants say of the types, the counters' bounds among it.
LEMMA PaperTypesAre ==
    ASSUME PaperInv, BalanceInv, faults \in 0..MaxFaults, Qty \in Nat
    PROVE  Paper!TypeOK
<1>1. /\ candle \in [Signal -> Int]
      /\ order \in [Signal -> [Role -> OrderRow]]
      /\ position \in [Signal -> PositionRow]
      /\ reservation \in [Signal -> {"none", "ACTIVE", "SETTLED", "REJECTED"}]
      /\ halted \in BOOLEAN /\ signalled \subseteq Signal
  BY DEF PaperInv, PaperTypes
<1>2. \A s \in Signal : candle[s] \in 0..MaxCandle /\ Balanced(order[s], position[s])
  BY DEF BalanceInv, BooksBalance
<1>3. candle \in [Signal -> 0..MaxCandle]
  BY <1>1, <1>2
<1>4. ASSUME NEW s \in Signal, NEW r \in Role
      PROVE  order[s][r] \in Paper!OrderRow /\ (Paper!TooEarly(s) \/ order[s][r].filled <= order[s][r].quantity)
  <2> DEFINE o == order[s][r]
  <2>1. o \in OrderRow /\ FineOrder(o) /\ (Timely(order[s]) => o.filled <= o.quantity)
    BY <1>1, <1>2 DEF Balanced
  <2>2. o.quantity \in 0..Qty /\ o.filled \in 0..Qty
    BY <1>1, <1>2, BalancedIs
  <2> HIDE DEF o
  <2>3. o \in Paper!OrderRow
    BY <2>1, <2>2 DEF OrderRow, OrderStatus, Paper!OrderRow, FineOrder
  <2>4. Paper!TooEarly(s) \/ Timely(order[s])
    <3>1. order[s]["TIME"].after \in Int /\ order[s]["ENTRY"].after \in Int
      BY <1>1, Roles DEF OrderRow
    <3> QED BY <3>1 DEF Paper!TooEarly, Timely
  <2> QED BY <2>1, <2>3, <2>4 DEF o
<1>5. order \in [Signal -> [Role -> Paper!OrderRow]]
  BY <1>1, <1>4
<1>6. \A s \in Signal : position[s].open \in 0..Qty
  BY <1>1, <1>2, BalancedIs
<1> QED BY <1>1, <1>3, <1>4, <1>5, <1>6, Roles DEF Paper!TypeOK

-----------------------------------------------------------------------------
(* The broker's figures: what is left of a pass is of its own days.         *)

Within(p) == p.left \subseteq p.days /\ p.done \subseteq p.days
DaysShape ==
    /\ hour \in {"open", "evening"} /\ ran \subseteq {"catchup", "figures"}
    /\ \A w \in Who : Within(pass[w])

LEMMA ShapeStep ==
    ASSUME DaysInv, DaysShape, NEW w \in Who, NEW q, Within(q), pass' = [pass EXCEPT ![w] = q],
           hour' \in {"open", "evening"}, ran' \subseteq {"catchup", "figures"}
    PROVE  DaysShape'
<1>1. pass'[w] = q /\ \A v \in Who \ {w} : pass'[v] = pass[v]
  BY DEF DaysInv, DaysTypes
<1> QED BY <1>1 DEF DaysShape, Within, Who

LEMMA ShapeNext ==
    ASSUME DaysInv, DaysShape, Days!Next
    PROVE  DaysShape'
<1>1. /\ hour \in {"open", "evening"} /\ ran \subseteq {"catchup", "figures"}
      /\ \A w \in Who : Within(pass[w]) /\ pass[w] \in PassRow
      /\ Job \in Who /\ Operator \in Who
  BY DEF DaysShape, DaysInv, DaysTypes, Who, Days!Who
<1>2. Days!Idle \in PassRow /\ Days!Idle.left = {} /\ Days!Idle.done = {} /\ Within(Days!Idle)
  BY IdlePass DEF Days!Idle, Within
<1>3. CASE Days!Tick
  BY <1>1, <1>3 DEF Days!Tick, DaysShape
<1>4. CASE Days!Trade \/ \E d \in DaysOn : \/ Days!FoundPlaced(d)
                                           \/ \E figure \in {"rows", "charges"} : Days!Publish(d, figure)
  BY <1>1, <1>4 DEF Days!Trade, Days!FoundPlaced, Days!Publish, Days!clock, DaysShape
<1>5. CASE Days!CatchUp
  <2> DEFINE days    == Days!Upto(today)
             waiting == Days!DatesAwaiting(days)
             due     == {d \in days \cap Days!Published : sent[d] = "placed"} \ Days!Others(Job)
             q       == [Days!Idle EXCEPT !.at = "look", !.days = days, !.waiting = waiting, !.due = due]
  <2>1. pass' = [pass EXCEPT ![Job] = q] /\ hour' = hour /\ ran' = ran \cup {"catchup"}
    BY <1>5 DEF Days!CatchUp
  <2> HIDE DEF days, waiting, due
  <2>2. Within(q)
    BY <1>2 DEF Within, PassRow
  <2> HIDE DEF q
  <2>3. hour' \in {"open", "evening"} /\ ran' \subseteq {"catchup", "figures"}
    BY <1>1, <2>1
  <2> QED BY <1>1, <2>1, <2>2, <2>3, ShapeStep
<1>6. CASE Days!Look
  <2> DEFINE p == pass[Job]
             q == [p EXCEPT !.at = "open", !.waiting = {}]
  <2>1. /\ pass' = [pass EXCEPT ![Job] = Days!Idle] \/ pass' = [pass EXCEPT ![Job] = q]
        /\ hour' = hour /\ ran' = ran
    BY <1>6 DEF Days!Look, Days!clock
  <2>2. Within(q)
    BY <1>1 DEF Within, PassRow
  <2> HIDE DEF q
  <2>3. hour' \in {"open", "evening"} /\ ran' \subseteq {"catchup", "figures"}
    BY <1>1, <2>1
  <2> QED BY <1>1, <1>2, <2>1, <2>2, <2>3, ShapeStep
<1>7. CASE Days!Evening
  <2> DEFINE days == {today}
             q    == [Days!Idle EXCEPT !.at = "open", !.days = days]
  <2>1. pass' = [pass EXCEPT ![Job] = q] /\ hour' = hour /\ ran' = ran \cup {"figures"}
    BY <1>7 DEF Days!Evening
  <2> HIDE DEF days
  <2>2. Within(q)
    BY <1>2 DEF Within, PassRow
  <2> HIDE DEF q
  <2>3. hour' \in {"open", "evening"} /\ ran' \subseteq {"catchup", "figures"}
    BY <1>1, <2>1
  <2> QED BY <1>1, <2>1, <2>2, <2>3, ShapeStep
<1>8. ASSUME NEW from \in DaysOn, NEW force \in BOOLEAN, Days!Backfill(from, force)
      PROVE  DaysShape'
  <2> DEFINE days == from..today
             q    == [Days!Idle EXCEPT !.at = "open", !.days = days, !.force = force]
  <2>1. pass' = [pass EXCEPT ![Operator] = q] /\ hour' = hour /\ ran' = ran
    BY <1>8 DEF Days!Backfill, Days!clock
  <2> HIDE DEF days
  <2>2. Within(q)
    BY <1>2 DEF Within, PassRow
  <2> HIDE DEF q
  <2>3. hour' \in {"open", "evening"} /\ ran' \subseteq {"catchup", "figures"}
    BY <1>1, <2>1
  <2> QED BY <1>1, <2>1, <2>2, <2>3, ShapeStep
<1>9. ASSUME NEW d \in DaysOn, Days!FetchDay(d)
      PROVE  DaysShape'
  <2> DEFINE days == {d}
             due  == {d} \cap Days!Published
             q    == [Days!Idle EXCEPT !.at = "one", !.days = days, !.began = begun + 1, !.due = due]
  <2>1. pass' = [pass EXCEPT ![Operator] = q] /\ hour' = hour /\ ran' = ran
    BY <1>9 DEF Days!FetchDay, Days!clock
  <2> HIDE DEF days, due
  <2>2. Within(q)
    BY <1>2 DEF Within, PassRow
  <2> HIDE DEF q
  <2>3. hour' \in {"open", "evening"} /\ ran' \subseteq {"catchup", "figures"}
    BY <1>1, <2>1
  <2> QED BY <1>1, <2>1, <2>2, <2>3, ShapeStep
<1>10. ASSUME NEW w \in Who, Days!Open(w)
       PROVE  DaysShape'
  <2> DEFINE p    == pass[w]
             done == IF p.force THEN {} ELSE Days!SettledDates(p.days)
             due  == (p.days \cap Days!Published) \ (done \cap Days!Others(w))
             q    == [p EXCEPT !.at = "rows", !.began = begun + 1, !.done = done, !.due = due]
  <2>1. pass' = [pass EXCEPT ![w] = q] /\ hour' = hour /\ ran' = ran
    BY <1>10 DEF Days!Open, Days!clock
  <2>2. done \subseteq p.days
    BY DEF Days!SettledDates
  <2> HIDE DEF done, due
  <2>3. Within(q)
    BY <1>1, <2>2 DEF Within, PassRow
  <2> HIDE DEF q
  <2>4. hour' \in {"open", "evening"} /\ ran' \subseteq {"catchup", "figures"}
    BY <1>1, <2>1
  <2> QED BY <2>1, <2>3, <2>4, ShapeStep
<1>11. ASSUME NEW w \in Who, Days!FetchRows(w)
       PROVE  DaysShape'
  <2> DEFINE p    == pass[w]
             rows == Days!RowsOf(p.days)
             left == IF p.at = "one" THEN p.days ELSE rows \ p.done
             q    == [p EXCEPT !.at = "charges", !.rows = rows, !.left = left]
  <2>1. pass' = [pass EXCEPT ![w] = q] /\ hour' = hour /\ ran' = ran
    BY <1>11 DEF Days!FetchRows, Days!clock
  <2>2. left \subseteq p.days
    BY DEF Days!RowsOf
  <2> HIDE DEF rows, left
  <2>3. Within(q)
    BY <1>1, <2>2 DEF Within, PassRow
  <2> HIDE DEF q
  <2>4. hour' \in {"open", "evening"} /\ ran' \subseteq {"catchup", "figures"}
    BY <1>1, <2>1
  <2> QED BY <2>1, <2>3, <2>4, ShapeStep
<1>12. ASSUME NEW w \in Who, Days!FetchCharges(w)
       PROVE  DaysShape'
  <2> DEFINE p       == pass[w]
             e       == Days!Min(p.left)
             row1    == [day |-> e, realised |-> e \in p.rows,
                         charges |-> Days!SettledCharges(Days!TotalOf(e))]
             left    == p.left \ {e}
             written == p.written \cup {row1}
             q       == [p EXCEPT !.left = left, !.written = written]
  <2>1. pass' = [pass EXCEPT ![w] = q] /\ hour' = hour /\ ran' = ran
    BY <1>1, <1>12 DEF Days!FetchCharges, Days!clock, DaysInv, DaysTypes
  <2>2. left \subseteq p.left
    OBVIOUS
  <2> HIDE DEF left, written
  <2>3. Within(q)
    BY <1>1, <2>2 DEF Within, PassRow
  <2> HIDE DEF q
  <2>4. hour' \in {"open", "evening"} /\ ran' \subseteq {"catchup", "figures"}
    BY <1>1, <2>1
  <2> QED BY <2>1, <2>3, <2>4, ShapeStep
<1>13. ASSUME NEW w \in Who, Days!Refused(w) \/ Days!Commit(w)
       PROVE  DaysShape'
  <2>1. pass' = [pass EXCEPT ![w] = Days!Idle] /\ hour' = hour /\ ran' = ran
    BY <1>13 DEF Days!Refused, Days!Commit, Days!clock
  <2>2. hour' \in {"open", "evening"} /\ ran' \subseteq {"catchup", "figures"}
    BY <1>1, <2>1
  <2> QED BY <1>2, <2>1, <2>2, ShapeStep
<1> QED
  BY <1>3, <1>4, <1>5, <1>6, <1>7, <1>8, <1>9, <1>10, <1>11, <1>12, <1>13 DEF Days!Next, DaysOn, Who

\* The broker's figures keep their types.
LEMMA FiguresTypes == Spec => [](OnFigures => Days!TypeOK)
<1>1. Init => (OnFigures => DaysShape)
  <2>1. Within(Days!Idle)
    BY DEF Days!Idle, Within
  <2> QED BY <2>1 DEF Init, OnFigures, DaysUnused, Days!Init, DaysShape, Who
<1>2. (OnFigures => DaysInv) /\ (OnFigures => DaysShape) /\ [Next]_<<paper, live, figures>>
        => (OnFigures => DaysShape)'
  <2> SUFFICES ASSUME OnFigures => DaysInv /\ DaysShape, [Next]_<<paper, live, figures>>
               PROVE  (OnFigures => DaysShape)'
    OBVIOUS
  <2>1. CASE OnFigures /\ Days!Next
    BY <2>1, ShapeNext
  <2>2. CASE UNCHANGED figures
    BY <2>2 DEF figures, OnFigures, DaysShape, Within
  <2> QED BY <2>1, <2>2 DEF Next
<1>3. (OnFigures => DaysInv) /\ (OnFigures => DaysShape) => (OnFigures => Days!TypeOK)
  <2> SUFFICES ASSUME DaysInv, DaysShape PROVE Days!TypeOK
    OBVIOUS
  <2>1. DaysTypes /\ \A d \in DaysOn : newest[d].began <= begun
    BY DEF DaysInv
  <2>2. \A d \in DaysOn : newest[d].charges \in {"none", "cost"}
    BY <2>1 DEF DaysTypes, SnapshotRow, Charge
  <2> QED BY <2>1, <2>2 DEF DaysTypes, DaysShape, Within, Days!TypeOK, DaysOn, Who
<1> QED BY <1>1, <1>2, <1>3, DaysInvariant, PTL DEF Spec

\* The three books keep their types, however many coroutines keep the paper ledger, and with them
\* every count stays within its bound: no order is filled beyond its quantity (but where the clock
\* was asked by a candle older than the one that signalled), no position exceeds what a signal may
\* buy, nothing is due later than the candle after the last.
THEOREM LedgersTypes == Spec => []TypeOK
<1>1. Qty \in Nat
  BY LedgersAssumption
<1>2. (OnPaper => PaperInv /\ BalanceInv) /\ (OnPaper => faults \in 0..MaxFaults) => (OnPaper => Paper!TypeOK)
  BY <1>1, PaperTypesAre
<1>3. (OnPaper => Paper!TypeOK) /\ (OnAccount => Live!TypeOK) /\ (OnFigures => Days!TypeOK) => TypeOK
  BY DEF TypeOK
<1> QED BY <1>2, <1>3, BalanceInvariant, FaultsBounded, AccountTypes, FiguresTypes, PTL
=============================================================================
