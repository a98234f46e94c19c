---------------------------- MODULE PaperLedger ----------------------------
(***************************************************************************)
(* One paper-trading account and the run that advances it one session      *)
(* (papertrading/runner.py).  Every table of the account is one frame in   *)
(* SQLite, written whole in one transaction; the run as a whole is not a   *)
(* transaction, so it may be killed between any two writes and is then     *)
(* started again, for the same session or for a later one.  The fills and  *)
(* cash_events tables are the facts: each run rebuilds cash and positions  *)
(* from them.  The account lock serialises the runs, so there is one       *)
(* runner here and its actions are the steps between two writes.           *)
(*                                                                         *)
(* Sessions are numbered, shares and money are integers, and the slippage  *)
(* and fee models are reduced to a price per share and a fee per fill.     *)
(***************************************************************************)
EXTENDS Integers, Sequences, FiniteSets, FiniteSetsExt, Sums

CONSTANTS
  NumTickers,   \* tickers are 1..NumTickers, in their alphabetical order
  LastDay,      \* sessions are 1..LastDay
  Open,         \* [Tickers -> [Days -> Nat]], 0 when the session has no open
  Close,        \* [Tickers -> [Days -> Nat \ {0}]]
  Cap,          \* [Tickers -> [Days -> Nat]], shares the volume share allows
  Div,          \* [Tickers -> [Days -> Nat]], dividend on the ex-date
  InitialCash,
  Fee,          \* per fill; the fee models cap it below one share's price
  Targets       \* the share targets a rebalance may aim at

Tickers == 1..NumTickers
Days == 1..LastDay

ASSUME LedgerAssumption ==
  /\ NumTickers \in Nat /\ LastDay \in Nat
  /\ InitialCash \in Nat /\ Fee \in Nat
  /\ Targets \subseteq [Tickers -> Nat]
  /\ Open \in [Tickers -> [Days -> Nat]]
  /\ Close \in [Tickers -> [Days -> Nat \ {0}]]
  /\ Cap \in [Tickers -> [Days -> Nat]]
  /\ Div \in [Tickers -> [Days -> Nat]]
  /\ \A t \in Tickers, d \in Days : Open[t][d] > 0 => Fee < Open[t][d]

Never == LastDay + 1

VARIABLES
  \* tables
  fills,      \* set of [n, order, ticker, side, qty, date], n = row number
  events,     \* set of dividend rows [ticker, date, qty]
  orders,     \* sequence of rows, the row number is the order_id
  positions,  \* [Tickers -> Int], the positions table
  curve,      \* [Days -> valuations], the equity_curve table
  reports,    \* [Days -> valuations], position_history and runs
  account,    \* [mark, cash, error]: last_mark_date, cash, last_error
  \* locals of the run
  pc, cutoff, committed, todo, batch, bOrders, bEvents, execDay, cash, held

tables == <<fills, events, orders, positions, curve, reports, account>>
locals == <<cutoff, committed, todo, batch, bOrders, bEvents, execDay, cash,
            held>>
ledgerVars == <<tables, pc, locals>>

\* Mutant of Valuation: the cash of the last commit.
ValuationStale(c, shares) == [held |-> shares, cash |-> account.cash]
Valuation(c, shares) == [held |-> shares, cash |-> c]
NoRow == [held |-> [t \in Tickers |-> 0], cash |-> -1]

-----------------------------------------------------------------------------
(* Replaying the ledger *)

UpTo(S, d) == {x \in S : x.date <= d}
BeforeDay(S, d) == {x \in S : x.date < d}

\* The order of the replay: by session, then by row.
Precedes(f, g) == f.date < g.date \/ (f.date = g.date /\ f.n <= g.n)

\* The shares of a ticker that a fill adds or takes away.
Change(f, t) ==
  IF f.ticker # t THEN 0 ELSE IF f.side = "BUY" THEN f.qty ELSE -f.qty
Shares(fs, t) == SumOver([f \in fs |-> Change(f, t)], fs)

HeldIn(fs) == [t \in Tickers |-> Shares(fs, t)]

\* What a dividend pays, and what a fill pays or costs with its fee.
Payment(e) == e.qty * Div[e.ticker][e.date]
Flow(f) ==
  LET value == f.qty * Open[f.ticker][f.date]
  IN  IF f.side = "SELL" THEN value - Fee ELSE -(value + Fee)
CashIn(fs, es) ==
  InitialCash + SumOver([e \in es |-> Payment(e)], es)
              + SumOver([f \in fs |-> Flow(f)], fs)

\* _state_from_fill_ledger raises when a prefix of the replay oversells or,
\* with validate_cash, uses cash that is not there yet.
Oversells(fs) ==
  \E f \in fs : f.side = "SELL"
                  /\ Shares({g \in fs : Precedes(g, f)}, f.ticker) < 0
Overspends(fs, es) ==
  \E f \in fs : CashIn({g \in fs : Precedes(g, f)}, UpTo(es, f.date)) < 0

\* The dividends due up to a session, on the shares held before each ex-date.
Entitled(fs, t, d) == Shares(BeforeDay(fs, d), t)
DueEvents(fs, asof) ==
  {[ticker |-> p[1], date |-> p[2], qty |-> Entitled(fs, p[1], p[2])] :
     p \in {q \in Tickers \X (1..asof) :
              Div[q[1]][q[2]] > 0 /\ Entitled(fs, q[1], q[2]) > 0}}

SameEvent(e, x) == e.ticker = x.ticker /\ e.date = x.date

\* Mutant of Accrue: a dividend is posted a session after its ex-date.
AccrueLate(fs, es, asof) ==
  es \cup {e \in DueEvents(fs, asof - 1) : \A x \in es : ~SameEvent(e, x)}

\* _accrue_dividend_cash_events: post what is due and not posted yet ...
Accrue(fs, es, asof) ==
  es \cup {e \in DueEvents(fs, asof) : \A x \in es : ~SameEvent(e, x)}
\* ... and raise when a posted event no longer has its quantity.
Restated(fs, es, asof) ==
  \E e \in DueEvents(fs, asof), x \in es : SameEvent(e, x) /\ e.qty # x.qty

-----------------------------------------------------------------------------
(* Starting and ending a run *)

Pending(os) == {i \in DOMAIN os : os[i].status = "PENDING"}

FillsOf(fs, i) == {f \in fs : f.order = i}
Filled(fs, i) ==
  SumOver([f \in FillsOf(fs, i) |-> f.qty], FillsOf(fs, i))
\* Mutant of Remaining: trust the projection instead of the ledger.
RemainingOnRow(i) == orders[i].qty - orders[i].filled
Remaining(i) == orders[i].qty - Filled(fills, i)

Dates(S) == {x.date : x \in S}
CommittedThrough == Max({account.mark} \cup Dates(fills) \cup Dates(events))

Nobody == [t \in Tickers |-> 0]

\* Every run reads the frames anew: nothing of an earlier run is left.
Forget ==
  /\ pc' = "idle"
  /\ cutoff' = 0 /\ committed' = 0 /\ todo' = {} /\ batch' = {}
  /\ bOrders' = <<>> /\ bEvents' = {} /\ execDay' = 0
  /\ cash' = 0 /\ held' = Nobody

\* An exception ends the run; the account records it as last_error.
Fail(what) ==
  /\ Forget
  /\ account' = [account EXCEPT !.error = what]
  /\ UNCHANGED <<fills, events, orders, positions, curve, reports>>

\* A run for session d.  With orders to fill it is refused before the last
\* committed mark, fill or cash event.  _validate_execution_units is left out,
\* which refuses every run before the last mark or fill: an account without
\* orders may run here for an earlier session than the code lets it.
Begin(d) ==
  /\ pc = "idle"
  /\ IF Oversells(fills)
       THEN Fail("oversells")
     ELSE IF orders # <<>> /\ d < CommittedThrough
       THEN Fail("too early")
       ELSE /\ pc' = IF orders = <<>> THEN "accruing" ELSE "filling"
            /\ cutoff' = d
            /\ committed' = CommittedThrough
            /\ todo' = Pending(orders)
            /\ batch' = {}
            /\ bOrders' = orders
            /\ bEvents' = events
            /\ execDay' = 0
            /\ cash' = CashIn(fills, events)
            /\ held' = HeldIn(fills)
            /\ UNCHANGED tables

Crash ==
  /\ pc # "idle"
  /\ Forget
  /\ UNCHANGED tables

-----------------------------------------------------------------------------
(* Filling the pending orders, in memory *)

\* Mutant of OpenDays: not_before is left out.
OpenDaysAnyTime(i) ==
  {d \in Days : /\ d > orders[i].decision
                /\ \A f \in FillsOf(fills, i) : d > f.date
                /\ d <= cutoff
                /\ Open[orders[i].ticker][d] > 0}

\* _first_open_after: the sessions at whose open order i may still fill.
OpenDays(i) ==
  {d \in Days : /\ d > orders[i].decision
                /\ \A f \in FillsOf(fills, i) : d > f.date
                /\ d >= committed
                /\ d <= cutoff
                /\ Open[orders[i].ticker][d] > 0}
FillDay(i) == IF OpenDays(i) = {} THEN Never ELSE Min(OpenDays(i))

\* pending_idx.sort(key=scheduled_open): earlier opens first, at one open the
\* sales before the purchases, then by row.
Rank(i) == IF orders[i].side = "SELL" THEN 0 ELSE 1
\* Mutant of Earlier: the orders in the order of their rows.
EarlierByRow(i, j) == i <= j
Earlier(i, j) ==
  \/ FillDay(i) < FillDay(j)
  \/ FillDay(i) = FillDay(j) /\ Rank(i) < Rank(j)
  \/ FillDay(i) = FillDay(j) /\ Rank(i) = Rank(j) /\ i <= j
Turn(i) ==
  /\ pc = "filling"
  /\ i \in todo
  /\ \A j \in todo : Earlier(i, j)

\* The order leaves the loop with the given change to its row.
Done(i, row) ==
  /\ todo' = todo \ {i}
  /\ bOrders' = [bOrders EXCEPT ![i] = row]
  /\ UNCHANGED <<tables, pc, cutoff, committed, bEvents, execDay>>

AlreadyFilled(i) ==
  /\ Turn(i)
  /\ Remaining(i) <= 0
  /\ Done(i, [orders[i] EXCEPT !.status = "FILLED",
                               !.filled = Filled(fills, i)])
  /\ UNCHANGED <<batch, cash, held>>

NoOpen(i) ==
  /\ Turn(i)
  /\ Remaining(i) > 0
  /\ FillDay(i) = Never
  /\ Done(i, orders[i])
  /\ UNCHANGED <<batch, cash, held>>

\* The loop reaches a later open: accrue in memory what was due by then and
\* replay the ledger as of that session.
NextSession(i) ==
  LET ledger == fills \cup batch
      day == FillDay(i)
      accrued == Accrue(ledger, bEvents, day)
  IN  /\ Turn(i)
      /\ Remaining(i) > 0
      /\ day \notin {Never, execDay}
      /\ IF Restated(ledger, bEvents, day)
           THEN Fail("restated")
         ELSE IF Oversells(ledger) \/ Overspends(UpTo(ledger, day), accrued)
           THEN Fail("unfunded")
         ELSE /\ bEvents' = accrued
              /\ execDay' = day
              /\ cash' = CashIn(UpTo(ledger, day), UpTo(accrued, day))
              /\ held' = HeldIn(UpTo(ledger, day))
              /\ UNCHANGED <<tables, pc, cutoff, committed, todo, batch,
                             bOrders>>

\* The open at which order i is executed now.
Executes(i) ==
  /\ Turn(i)
  /\ Remaining(i) > 0
  /\ FillDay(i) # Never
  /\ FillDay(i) = execDay
Limit(i) == Cap[orders[i].ticker][execDay]
Price(i) == Open[orders[i].ticker][execDay]

\* The volume share rounds down to nothing: the order stays as it is.
Illiquid(i) ==
  /\ Executes(i)
  /\ Limit(i) = 0
  /\ Done(i, orders[i])
  /\ UNCHANGED <<batch, cash, held>>

\* Mutant of Reject: a status the runner does not know.
RejectUnknown(i) ==
  /\ Done(i, [orders[i] EXCEPT !.status = "CANCELLED"])
  /\ UNCHANGED <<batch, cash, held>>
Reject(i) ==
  /\ Done(i, [orders[i] EXCEPT !.status = "REJECTED"])
  /\ UNCHANGED <<batch, cash, held>>

Execute(i, qty) ==
  LET total == Filled(fills, i) + qty
      t == orders[i].ticker
      sign == IF orders[i].side = "BUY" THEN 1 ELSE -1
  IN  /\ batch' = batch \cup {[n |-> Cardinality(fills \cup batch) + 1,
                               order |-> i, ticker |-> t,
                               side |-> orders[i].side, qty |-> qty,
                               date |-> execDay]}
      /\ cash' = cash - sign * qty * Price(i) - Fee
      /\ held' = [held EXCEPT ![t] = @ + sign * qty]
      /\ Done(i, [orders[i] EXCEPT
                    !.status = IF total >= orders[i].qty
                                THEN "FILLED" ELSE "PENDING",
                    !.filled = total])

SellableNow(i) ==
  Min({Remaining(i), held[orders[i].ticker], Limit(i)})

Sell(i) ==
  /\ Executes(i)
  /\ Limit(i) > 0
  /\ orders[i].side = "SELL"
  /\ IF SellableNow(i) <= 0 THEN Reject(i) ELSE Execute(i, SellableNow(i))

\* Mutant of BuyableNow: the fee is left out of the budget.
BuyableWithoutFee(i) ==
  Max({0} \cup {q \in 1..Min({Remaining(i), Limit(i)}) :
                  q * Price(i) <= cash})
\* max_buy_quantity_for_cash: the most shares the cash of that open pays for.
BuyableNow(i) ==
  Max({0} \cup {q \in 1..Min({Remaining(i), Limit(i)}) :
                  q * Price(i) + Fee <= cash})

Buy(i) ==
  /\ Executes(i)
  /\ Limit(i) > 0
  /\ orders[i].side = "BUY"
  /\ IF BuyableNow(i) = 0 THEN Reject(i) ELSE Execute(i, BuyableNow(i))

-----------------------------------------------------------------------------
(* The writes of the run, in their order *)

Goto(from, to) ==
  /\ pc = from
  /\ pc' = to

SaveFills ==
  /\ todo = {}
  /\ Goto("filling", "filled")
  /\ fills' = fills \cup batch
  /\ UNCHANGED <<events, orders, positions, curve, reports, account,
                 locals>>

SaveEvents ==
  /\ Goto("filled", "posted")
  /\ events' = bEvents
  /\ UNCHANGED <<fills, orders, positions, curve, reports, account,
                 locals>>

SaveOrders ==
  /\ Goto("posted", "accruing")
  /\ orders' = bOrders
  /\ UNCHANGED <<fills, events, positions, curve, reports, account,
                 locals>>

\* The dividends due by the session itself, from the re-read tables.
AccrueDividends ==
  IF Restated(fills, events, cutoff)
    THEN pc = "accruing" /\ Fail("restated")
    ELSE /\ Goto("accruing", "accrued")
         /\ events' = Accrue(fills, events, cutoff)
         /\ UNCHANGED <<fills, orders, positions, curve, reports, account, locals>>

\* The ledger is replayed once more, and _mark_equity writes the positions ...
MarkPositions ==
  IF Oversells(fills) \/ Overspends(fills, events)
    THEN pc = "accrued" /\ Fail("unfunded")
    ELSE /\ Goto("accrued", "positioned")
         /\ cash' = CashIn(fills, events)
         /\ held' = HeldIn(fills)
         /\ positions' = HeldIn(fills)
         /\ UNCHANGED <<fills, events, orders, curve, reports, account, cutoff,
                        committed, todo, batch, bOrders, bEvents, execDay>>

\* ... and the equity row of the session.
MarkEquity ==
  /\ Goto("positioned", "marked")
  /\ curve' = [curve EXCEPT ![cutoff] = Valuation(cash, held)]
  /\ UNCHANGED <<fills, events, orders, positions, reports, account, locals>>

\* No rebalance: not a rebalance day, an order still pending, or this
\* session already decided.
KeepOrders ==
  /\ Goto("marked", "decided")
  /\ UNCHANGED <<tables, locals>>

\* Mutant of MayDecide: pending orders do not block a rebalance.
MayDecideAnyway == \A i \in DOMAIN orders : orders[i].decision # cutoff
MayDecide ==
  /\ Pending(orders) = {}
  /\ \A i \in DOMAIN orders : orders[i].decision # cutoff

Worth(shares) ==
  SumOver([t \in Tickers |-> shares[t] * Close[t][cutoff]], Tickers)

\* The tickers of a set from the first to the last.
InOrder(S) ==
  {s \in [1..Cardinality(S) -> S] :
     \A i, j \in DOMAIN s : i < j => s[i] < s[j]}

\* The order that turns the marked holding of a ticker into its target.
OrderFor(t, target) ==
  [decision |-> cutoff, ticker |-> t,
   side |-> IF target[t] > held[t] THEN "BUY" ELSE "SELL",
   qty |-> IF target[t] > held[t] THEN target[t] - held[t]
           ELSE held[t] - target[t],
   status |-> "PENDING", filled |-> 0]

CreateOrders(target) ==
  /\ Goto("marked", "decided")
  /\ MayDecide
  /\ Worth(target) <= cash + Worth(held)
  /\ \E s \in InOrder({t \in Tickers : target[t] # held[t]}) :
       orders' = orders \o [k \in DOMAIN s |-> OrderFor(s[k], target)]
  /\ UNCHANGED <<fills, events, positions, curve, reports, account,
                 locals>>

\* What only readers use: the position history and the row of the runs table.
SaveReports ==
  /\ Goto("decided", "reported")
  /\ reports' = [reports EXCEPT ![cutoff] = Valuation(cash, held)]
  /\ UNCHANGED <<fills, events, orders, positions, curve, account, locals>>

\* The last write: the account record with last_mark_date.
Commit ==
  /\ pc = "reported"
  /\ account' = [mark |-> cutoff, cash |-> cash, error |-> "none"]
  /\ Forget
  /\ UNCHANGED <<fills, events, orders, positions, curve, reports>>

-----------------------------------------------------------------------------
LedgerInit ==
  /\ fills = {} /\ events = {} /\ orders = <<>>
  /\ positions = Nobody
  /\ curve = [d \in Days |-> NoRow]
  /\ reports = [d \in Days |-> NoRow]
  /\ account = [mark |-> 0, cash |-> InitialCash, error |-> "none"]
  /\ pc = "idle"
  /\ cutoff = 0 /\ committed = 0 /\ todo = {} /\ batch = {}
  /\ bOrders = <<>> /\ bEvents = {} /\ execDay = 0
  /\ cash = 0 /\ held = Nobody

FillOne(i) ==
  \/ AlreadyFilled(i)
  \/ NoOpen(i)
  \/ NextSession(i)
  \/ Illiquid(i)
  \/ Sell(i)
  \/ Buy(i)

SaveNext ==
  \/ SaveFills \/ SaveEvents \/ SaveOrders
  \/ AccrueDividends \/ MarkPositions \/ MarkEquity
  \/ KeepOrders
  \/ \E target \in Targets : CreateOrders(target)
  \/ SaveReports \/ Commit

LedgerNext ==
  \/ \E d \in Days : Begin(d)
  \/ \E i \in todo : FillOne(i)
  \/ SaveNext
  \/ Crash

LedgerSpec == LedgerInit /\ [][LedgerNext]_ledgerVars

-----------------------------------------------------------------------------
(* Properties *)

Sides == {"BUY", "SELL"}
FillRows == [n : Nat, order : Nat, ticker : Tickers, side : Sides, qty : Nat,
             date : Days]
EventRows == [ticker : Tickers, date : Days, qty : Nat]
OrderRows == [decision : Days, ticker : Tickers, side : Sides, qty : Nat,
              status : {"PENDING", "FILLED", "REJECTED"}, filled : Nat]
Valuations == [held : [Tickers -> Int], cash : Int]
Phases == {"idle", "filling", "filled", "posted", "accruing", "accrued",
           "positioned", "marked", "decided", "reported"}

\* The tables and the locals of the run have their types (store.py,
\* load_account_artifacts; runner.py, _run_account_once_locked).
LedgerTypeOK ==
  /\ fills \in SUBSET FillRows /\ batch \in SUBSET FillRows
  /\ events \in SUBSET EventRows /\ bEvents \in SUBSET EventRows
  /\ orders \in Seq(OrderRows) /\ bOrders \in Seq(OrderRows)
  /\ positions \in [Tickers -> Int]
  /\ curve \in [Days -> Valuations] /\ reports \in [Days -> Valuations]
  /\ account \in [mark : 0..LastDay, cash : Int,
                  error : {"none", "too early", "oversells", "restated",
                           "unfunded"}]
  /\ pc \in Phases
  /\ cutoff \in 0..LastDay /\ committed \in 0..LastDay
  /\ execDay \in 0..LastDay
  /\ todo \in SUBSET Nat
  /\ cash \in Int /\ held \in [Tickers -> Int]

\* A killed run is started again and meets its own fills: whatever the order
\* of kills and retries, an order never fills more shares than it asked for
\* (trading_costs.md: a retry never fills twice).
NoOverfill ==
  \A i \in DOMAIN orders : Filled(fills \cup batch, i) <= orders[i].qty

\* No run is ever turned away by its own ledger: no replay oversells, spends
\* cash of a later session or finds a posted dividend restated, so an account
\* never needs a repair by hand after a kill.
NeverRejected == account.error \in {"none", "too early"}

\* Every prefix of the ledger, with the dividends due by then, is funded and
\* covered by shares: also between two writes, when events are still missing.
LedgerSolvent ==
  /\ ~Oversells(fills)
  /\ ~Overspends(fills, Accrue(fills, events, LastDay))

\* A posted dividend is the one earned by the shares held before its ex-date,
\* for ever, and every dividend due by the last committed mark is posted.
DividendsExact ==
  /\ \A e \in events : e.qty = Entitled(fills, e.ticker, e.date)
  /\ DueEvents(fills, account.mark) \subseteq events

\* Two decisions are never executed against each other: all the orders that
\* wait for an open come from one rebalance.
OneRebalanceAtATime ==
  \A i, j \in Pending(orders) : orders[i].decision = orders[j].decision

\* The facts are append-only and only ever grow at their end: a fill is dated
\* after its decision, not after the cutoff of its run and not before anything
\* already committed ("never back in time").
LedgerGrowsForward ==
  [][/\ fills \subseteq fills' /\ events \subseteq events'
     /\ \A f \in fills' \ fills :
          /\ orders[f.order].decision < f.date
          /\ CommittedThrough <= f.date
          /\ f.date <= cutoff]_ledgerVars

\* What a run publishes when it commits is one consistent view: positions, the
\* session's equity row, its reports and the account's cash are all the replay
\* of the durable ledger, and no fully filled order still waits.
CommitIsConsistent ==
  [][account'.mark # account.mark =>
       LET replay == [held |-> HeldIn(fills), cash |-> CashIn(fills, events)]
       IN  /\ positions = replay.held
           /\ account'.cash = replay.cash
           /\ curve[account'.mark] = replay
           /\ reports[account'.mark] = replay
           /\ \A i \in Pending(orders) : Filled(fills, i) < orders[i].qty
    ]_ledgerVars

\* runner.py: "If this write fails, the next run reconstructs filled_quantity
\* from the durable fill ledger."  If so, when a run commits every order row
\* shows the quantity the ledger has for it.
FilledQuantityReconstructed ==
  [][account'.mark # account.mark =>
       \A i \in DOMAIN orders : orders[i].filled = Filled(fills, i)]_ledgerVars
=============================================================================
