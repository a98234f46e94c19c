------------------------- MODULE PaperLedgerProofs -------------------------
(***************************************************************************)
(* The ledger of one account is sound whatever the prices, the volumes,    *)
(* the dividends and the targets, and wherever its runs are killed.  The   *)
(* runner replays the ledger and refuses an account whose replay oversells *)
(* or overspends; what is proved here is that it never writes such a       *)
(* ledger itself, that it never fills an order twice, and that what it     *)
(* publishes is the replay of what it has made durable.                    *)
(***************************************************************************)
EXTENDS PaperLedger, SumTheorems, SequenceTheorems

-----------------------------------------------------------------------------
(* The inductive invariant *)

Ledger == fills \cup batch
Replay(fs, f) == {g \in fs : Precedes(g, f)}

\* The rows are numbered in the order of their sessions, every row is of an
\* order and fills something, and every prefix of the replay is covered.
SoundLedger(fs, os) ==
  /\ \A f \in fs : /\ f.qty > 0
                   /\ f.order \in DOMAIN os
                   /\ f.n <= Cardinality(fs)
  /\ \A f, g \in fs : f.n = g.n => f = g
  /\ \A f, g \in fs : f.n <= g.n => f.date <= g.date
  /\ ~Oversells(fs)
  /\ \A f \in fs : CashIn(Replay(fs, f), DueEvents(fs, f.date)) >= 0

\* No order has more than its quantity, and one that waits has less.
NoneOverfilled(fs, os) ==
  \A i \in DOMAIN os : Filled(fs, i) <= os[i].qty
WaitingIsOpen(fs, os, S) ==
  \A i \in S : os[i].status = "PENDING" => Filled(fs, i) < os[i].qty

\* What a run changes of the orders it has read: their progress.
SameOrders(os, ps) ==
  /\ DOMAIN os = DOMAIN ps
  /\ \A i \in DOMAIN os : /\ os[i].decision = ps[i].decision
                          /\ os[i].qty = ps[i].qty
                          /\ ps[i].status = "PENDING" => os[i].status = "PENDING"

Durable ==
  /\ IsFiniteSet(fills)
  /\ SoundLedger(fills, orders)
  /\ NoneOverfilled(fills, orders)
  /\ OneRebalanceAtATime
  /\ events \subseteq DueEvents(fills, LastDay)
  /\ DueEvents(fills, account.mark) \subseteq events
  /\ NeverRejected
  /\ pc = "idle" => batch = {}
  /\ pc # "idle" => cutoff \in Days
  /\ pc \notin {"idle", "filling"} => batch \subseteq fills

\* While the run fills orders in memory, at the open execDay.
Filling ==
  /\ IsFiniteSet(batch)
  /\ SoundLedger(Ledger, orders)
  /\ NoneOverfilled(Ledger, orders)
  /\ SameOrders(orders, bOrders)
  /\ WaitingIsOpen(Ledger, bOrders, DOMAIN bOrders \ todo)
  /\ todo \subseteq Pending(orders)
  /\ committed = CommittedThrough
  /\ execDay <= cutoff
  /\ execDay # 0 => committed <= execDay
  /\ committed <= cutoff
  /\ \A i \in todo : execDay <= FillDay(i)
  /\ \A f \in batch : /\ f.order \notin todo
                      /\ orders[f.order].decision < f.date
                      /\ committed <= f.date /\ f.date <= execDay
  /\ events \subseteq bEvents
  /\ bEvents \subseteq DueEvents(Ledger, LastDay)
  /\ \A e \in bEvents : e.date <= committed \/ e.date <= execDay
  /\ execDay # 0 => /\ held = HeldIn(Ledger)
                    /\ cash = CashIn(Ledger, DueEvents(Ledger, execDay))
                    /\ cash >= 0

\* Between the writes of what was filled.
Saving ==
  /\ pc = "filled" => /\ events \subseteq bEvents
                      /\ bEvents \subseteq DueEvents(fills, LastDay)
  /\ SameOrders(orders, bOrders)
  /\ WaitingIsOpen(fills, bOrders, DOMAIN bOrders)

\* From the accrual to the commit.
Valuing ==
  /\ WaitingIsOpen(fills, orders, DOMAIN orders)
  /\ pc # "accruing" => DueEvents(fills, cutoff) \subseteq events
  /\ pc \notin {"accruing", "accrued"} =>
       /\ held = HeldIn(fills) /\ positions = held
       /\ cash = CashIn(fills, events)
       /\ pc # "positioned" => curve[cutoff] = [held |-> held, cash |-> cash]
  /\ pc = "reported" => reports[cutoff] = [held |-> held, cash |-> cash]

LedgerInv ==
  /\ LedgerTypeOK
  /\ Durable
  /\ pc = "filling" => Filling
  /\ pc \in {"filled", "posted"} => Saving
  /\ pc \notin {"idle", "filling", "filled", "posted"} => Valuing
  /\ pc \notin {"idle", "filling"} => \A f \in fills : f.date <= cutoff

-----------------------------------------------------------------------------
(* The sums of the replay *)

\* A session is a number from 1 to the last.
LEMMA DayIs ==
  \A d \in Days : d \in Nat /\ d # 0 /\ d \in 0..LastDay /\ d <= LastDay
BY LedgerAssumption DEF Days

\* The fields of a fill.
LEMMA FillFields ==
  ASSUME NEW f \in FillRows
  PROVE  /\ f.n \in Nat /\ f.order \in Nat /\ f.qty \in Nat
         /\ f.ticker \in Tickers /\ f.side \in Sides
         /\ f.date \in Days /\ f.date \in Nat /\ f.date \in 0..LastDay
         /\ f.date <= LastDay
<1>1. f.date \in Days
  BY DEF FillRows
<1>2. f.date \in Nat /\ f.date \in 0..LastDay /\ f.date <= LastDay
  BY <1>1, LedgerAssumption DEF Days
<1> QED BY <1>1, <1>2 DEF FillRows

\* What a fill moves and what a dividend pays are integers.
LEMMA RowValues ==
  /\ \A f \in FillRows, t \in Tickers : Change(f, t) \in Int
  /\ \A f \in FillRows : Flow(f) \in Int
  /\ \A e \in EventRows : Payment(e) \in Nat
<1>1. ASSUME NEW f \in FillRows, NEW t \in Tickers PROVE Change(f, t) \in Int
  BY DEF FillRows, Change
<1>2. ASSUME NEW f \in FillRows PROVE Flow(f) \in Int
  <2>1. PICK q \in Nat, p \in Nat : q = f.qty /\ p = Open[f.ticker][f.date]
    BY LedgerAssumption DEF FillRows
  <2>2. q * p \in Int /\ Fee \in Int
    BY LedgerAssumption
  <2> QED BY <2>1, <2>2 DEF Flow
<1>3. ASSUME NEW e \in EventRows PROVE Payment(e) \in Nat
  <2>1. PICK q \in Nat, p \in Nat : q = e.qty /\ p = Div[e.ticker][e.date]
    BY LedgerAssumption DEF EventRows
  <2>2. q * p \in Nat
    OBVIOUS
  <2> QED BY <2>1, <2>2 DEF Payment
<1> QED BY <1>1, <1>2, <1>3

\* An empty ledger holds no shares.
LEMMA SharesNone ==
  ASSUME NEW t
  PROVE  Shares({}, t) = 0
BY SumEmpty DEF Shares

\* The shares of a ticker are a whole number.
LEMMA SharesType ==
  ASSUME NEW fs \in SUBSET FillRows, IsFiniteSet(fs), NEW t \in Tickers
  PROVE  Shares(fs, t) \in Int
<1>1. PICK v : v = [f \in fs |-> Change(f, t)]
  OBVIOUS
<1>2. \A f \in fs : v[f] \in Int
  BY <1>1, RowValues
<1> QED BY <1>1, <1>2, SumType DEF Shares

\* A new fill changes the shares of a ticker by what it moves.
LEMMA SharesAdd ==
  ASSUME NEW fs \in SUBSET FillRows, IsFiniteSet(fs), NEW t \in Tickers,
         NEW f \in FillRows, f \notin fs
  PROVE  Shares(fs \cup {f}, t) = Shares(fs, t) + Change(f, t)
<1>1. PICK v : v = [g \in fs |-> Change(g, t)]
  OBVIOUS
<1>2. PICK w : w = [g \in fs \cup {f} |-> Change(g, t)]
  OBVIOUS
<1>3. \A g \in fs : w[g] = v[g] /\ w[g] \in Int
  BY <1>1, <1>2, RowValues
<1>4. w[f] = Change(f, t) /\ w[f] \in Int
  BY <1>2, RowValues
<1>5. SumOver(w, fs \cup {f}) = SumOver(w, fs) + w[f]
  BY <1>3, <1>4, SumAdd
<1>6. SumOver(v, fs) = SumOver(w, fs)
  BY <1>3, SumSame
<1> QED BY <1>1, <1>2, <1>4, <1>5, <1>6 DEF Shares

\* The cash of the replay is a whole number.
LEMMA CashParts ==
  ASSUME NEW fs \in SUBSET FillRows, IsFiniteSet(fs),
         NEW es \in SUBSET EventRows, IsFiniteSet(es)
  PROVE  /\ SumOver([e \in es |-> Payment(e)], es) \in Nat
         /\ SumOver([f \in fs |-> Flow(f)], fs) \in Int
         /\ CashIn(fs, es) \in Int
<1>1. PICK v : v = [e \in es |-> Payment(e)]
  OBVIOUS
<1>2. PICK w : w = [f \in fs |-> Flow(f)]
  OBVIOUS
<1>3. (\A e \in es : v[e] \in Nat) /\ (\A f \in fs : w[f] \in Int)
  BY <1>1, <1>2, RowValues
<1>4. SumOver(v, es) \in Nat /\ SumOver(w, fs) \in Int
  BY <1>3, SumNatural, SumType
<1> QED BY <1>1, <1>2, <1>4, LedgerAssumption DEF CashIn

\* A new fill changes the cash by what it pays or costs.
LEMMA CashAdd ==
  ASSUME NEW fs \in SUBSET FillRows, IsFiniteSet(fs),
         NEW es \in SUBSET EventRows, IsFiniteSet(es),
         NEW f \in FillRows, f \notin fs
  PROVE  CashIn(fs \cup {f}, es) = CashIn(fs, es) + Flow(f)
<1>1. PICK v : v = [g \in fs |-> Flow(g)]
  OBVIOUS
<1>2. PICK w : w = [g \in fs \cup {f} |-> Flow(g)]
  OBVIOUS
<1>3. \A g \in fs : w[g] = v[g] /\ w[g] \in Int
  BY <1>1, <1>2, RowValues
<1>4. w[f] = Flow(f) /\ w[f] \in Int
  BY <1>2, RowValues
<1>5. SumOver(w, fs \cup {f}) = SumOver(w, fs) + w[f]
  BY <1>3, <1>4, SumAdd
<1>6. SumOver(v, fs) = SumOver(w, fs)
  BY <1>3, SumSame
<1>7. PICK p, q : p = SumOver([e \in es |-> Payment(e)], es) /\ q = SumOver(v, fs)
  OBVIOUS
<1>8. p \in Int /\ q \in Int
  BY <1>1, <1>7, CashParts
<1>9. CashIn(fs, es) = InitialCash + p + q
  BY <1>1, <1>7 DEF CashIn
<1>10. CashIn(fs \cup {f}, es) = InitialCash + p + (q + Flow(f))
  BY <1>2, <1>4, <1>5, <1>6, <1>7 DEF CashIn
<1> QED BY <1>4, <1>8, <1>9, <1>10, LedgerAssumption

\* A dividend never reduces the cash.
LEMMA CashMore ==
  ASSUME NEW fs \in SUBSET FillRows, IsFiniteSet(fs),
         NEW es \in SUBSET EventRows, IsFiniteSet(es), NEW ds \in SUBSET es
  PROVE  CashIn(fs, ds) <= CashIn(fs, es)
<1>1. PICK v : v = [e \in es |-> Payment(e)]
  OBVIOUS
<1>2. PICK w : w = [e \in ds |-> Payment(e)]
  OBVIOUS
<1>3. (\A e \in es : v[e] \in Int /\ v[e] >= 0) /\ (\A e \in ds : v[e] = w[e])
  BY <1>1, <1>2, RowValues
<1>4. IsFiniteSet(ds)
  BY FS_Subset
<1>5. SumOver(v, ds) <= SumOver(v, es) /\ SumOver(v, ds) = SumOver(w, ds)
  BY <1>3, <1>4, SumMore, SumSame
<1>6. PICK a, b, c : /\ a = SumOver(v, es) /\ b = SumOver(w, ds)
                     /\ c = SumOver([f \in fs |-> Flow(f)], fs)
  OBVIOUS
<1>7. a \in Int /\ b \in Int /\ c \in Int /\ b <= a
  BY <1>1, <1>2, <1>4, <1>5, <1>6, CashParts
<1>8. CashIn(fs, es) = InitialCash + a + c /\ CashIn(fs, ds) = InitialCash + b + c
  BY <1>1, <1>2, <1>6 DEF CashIn
<1> QED BY <1>7, <1>8, LedgerAssumption

\* The cash before the first fill, without a dividend.
LEMMA CashNone ==
  CashIn({}, {}) = InitialCash
<1>1. /\ SumOver([e \in {} |-> Payment(e)], {}) = 0
      /\ SumOver([f \in {} |-> Flow(f)], {}) = 0
  BY SumEmpty
<1> QED BY <1>1, LedgerAssumption DEF CashIn

\* What an order has filled is a natural number.
LEMMA FilledType ==
  ASSUME NEW fs \in SUBSET FillRows, IsFiniteSet(fs), NEW i
  PROVE  Filled(fs, i) \in Nat
<1>1. PICK S : S = FillsOf(fs, i)
  OBVIOUS
<1>2. S \subseteq fs /\ IsFiniteSet(S)
  BY <1>1, FS_Subset DEF FillsOf
<1>3. PICK v : v = [f \in S |-> f.qty]
  OBVIOUS
<1>4. \A f \in S : v[f] \in Nat
  BY <1>2, <1>3 DEF FillRows
<1> QED BY <1>1, <1>2, <1>3, <1>4, SumNatural DEF Filled

\* An order without fills has filled nothing.
LEMMA FilledNone ==
  ASSUME NEW fs, NEW i, \A f \in fs : f.order # i
  PROVE  Filled(fs, i) = 0
<1>1. FillsOf(fs, i) = {}
  BY DEF FillsOf
<1> QED BY <1>1, SumEmpty DEF Filled

\* Only its own fills count for an order.
LEMMA FilledSame ==
  ASSUME NEW fs, NEW gs, NEW i, FillsOf(fs, i) = FillsOf(gs, i)
  PROVE  Filled(fs, i) = Filled(gs, i)
BY DEF Filled

\* A new fill counts for its own order, and for no other.
LEMMA FilledAdd ==
  ASSUME NEW fs \in SUBSET FillRows, IsFiniteSet(fs),
         NEW f \in FillRows, f \notin fs
  PROVE  /\ Filled(fs \cup {f}, f.order) = Filled(fs, f.order) + f.qty
         /\ \A i : i # f.order => Filled(fs \cup {f}, i) = Filled(fs, i)
<1>1. ASSUME NEW i, i # f.order
      PROVE  Filled(fs \cup {f}, i) = Filled(fs, i)
  <2>1. FillsOf(fs \cup {f}, i) = FillsOf(fs, i)
    BY <1>1 DEF FillsOf
  <2> QED BY <2>1 DEF Filled
<1>2. PICK S : S = FillsOf(fs, f.order)
  OBVIOUS
<1>3. S \subseteq fs /\ IsFiniteSet(S) /\ f \notin S
  BY <1>2, FS_Subset DEF FillsOf
<1>4. FillsOf(fs \cup {f}, f.order) = S \cup {f}
  BY <1>2 DEF FillsOf
<1>5. PICK v : v = [g \in S |-> g.qty]
  OBVIOUS
<1>6. PICK w : w = [g \in S \cup {f} |-> g.qty]
  OBVIOUS
<1>7. (\A g \in S : w[g] = v[g] /\ w[g] \in Int) /\ w[f] = f.qty /\ w[f] \in Int
  BY <1>3, <1>5, <1>6 DEF FillRows
<1>8. SumOver(w, S \cup {f}) = SumOver(w, S) + f.qty
  BY <1>3, <1>7, SumAdd
<1>9. SumOver(v, S) = SumOver(w, S)
  BY <1>3, <1>7, SumSame
<1> QED BY <1>1, <1>2, <1>4, <1>5, <1>6, <1>8, <1>9 DEF Filled

-----------------------------------------------------------------------------
(* The dividends that are due *)

\* A dividend of DueEvents is of a ticker and a session, for the shares held
\* before it.
LEMMA DueIs ==
  ASSUME NEW fs, NEW a \in 0..LastDay, NEW e
  PROVE  e \in DueEvents(fs, a) <=>
           \E t \in Tickers, d \in 1..a :
             /\ Div[t][d] > 0 /\ Entitled(fs, t, d) > 0
             /\ e = [ticker |-> t, date |-> d, qty |-> Entitled(fs, t, d)]
<1>1. ASSUME e \in DueEvents(fs, a)
      PROVE  \E t \in Tickers, d \in 1..a :
               /\ Div[t][d] > 0 /\ Entitled(fs, t, d) > 0
               /\ e = [ticker |-> t, date |-> d, qty |-> Entitled(fs, t, d)]
  <2>1. PICK p \in Tickers \X (1..a) :
          /\ Div[p[1]][p[2]] > 0 /\ Entitled(fs, p[1], p[2]) > 0
          /\ e = [ticker |-> p[1], date |-> p[2], qty |-> Entitled(fs, p[1], p[2])]
    BY <1>1 DEF DueEvents
  <2>2. p[1] \in Tickers /\ p[2] \in 1..a
    OBVIOUS
  <2> QED BY <2>1, <2>2
<1>2. ASSUME NEW t \in Tickers, NEW d \in 1..a,
             Div[t][d] > 0, Entitled(fs, t, d) > 0,
             e = [ticker |-> t, date |-> d, qty |-> Entitled(fs, t, d)]
      PROVE  e \in DueEvents(fs, a)
  <2>1. PICK p : p = <<t, d>>
    OBVIOUS
  <2>2. p \in Tickers \X (1..a) /\ p[1] = t /\ p[2] = d
    BY <2>1
  <2> QED BY <1>2, <2>2 DEF DueEvents
<1> QED BY <1>1, <1>2

\* Of a finite ledger they are finitely many rows with the right types.
LEMMA DueType ==
  ASSUME NEW fs \in SUBSET FillRows, IsFiniteSet(fs), NEW a \in 0..LastDay
  PROVE  /\ DueEvents(fs, a) \in SUBSET EventRows
         /\ IsFiniteSet(DueEvents(fs, a))
         /\ \A e \in DueEvents(fs, a) : e.date <= a
<1>1. ASSUME NEW e \in DueEvents(fs, a)
      PROVE  e \in EventRows /\ e.date <= a
  <2>1. PICK t \in Tickers, d \in 1..a :
          /\ Entitled(fs, t, d) > 0
          /\ e = [ticker |-> t, date |-> d, qty |-> Entitled(fs, t, d)]
    BY DueIs
  <2>2. PICK S : S = BeforeDay(fs, d)
    OBVIOUS
  <2>3. S \in SUBSET FillRows /\ IsFiniteSet(S)
    BY <2>2, FS_Subset DEF BeforeDay
  <2>4. Entitled(fs, t, d) \in Int
    BY <2>2, <2>3, SharesType DEF Entitled
  <2>5. d \in Days /\ d <= a
    BY LedgerAssumption DEF Days
  <2> QED BY <2>1, <2>4, <2>5 DEF EventRows
<1>2. IsFiniteSet(Tickers) /\ IsFiniteSet(1..a)
  BY FS_Interval, LedgerAssumption DEF Tickers
<1>3. IsFiniteSet(Tickers \X (1..a))
  BY <1>2, FS_Product
<1>4. PICK Q : Q = {q \in Tickers \X (1..a) :
                      Div[q[1]][q[2]] > 0 /\ Entitled(fs, q[1], q[2]) > 0}
  OBVIOUS
<1>5. IsFiniteSet(Q)
  BY <1>3, <1>4, FS_Subset
<1>6. PICK h : h = [p \in Q |-> [ticker |-> p[1], date |-> p[2],
                                 qty |-> Entitled(fs, p[1], p[2])]]
  OBVIOUS
<1>7. DueEvents(fs, a) = {h[p] : p \in Q}
  BY <1>4, <1>6 DEF DueEvents
<1>8. IsFiniteSet({h[p] : p \in Q})
  <2>1. PICK T : T = {h[p] : p \in Q}
    OBVIOUS
  <2>2. h \in Surjection(Q, T)
    BY <1>6, <2>1 DEF Surjection
  <2> QED BY <1>5, <2>1, <2>2, FS_Surjection
<1> QED BY <1>1, <1>7, <1>8

\* What is due by a session is what is due by a later one up to it.
LEMMA DueUpTo ==
  ASSUME NEW fs, NEW a \in 0..LastDay, NEW b \in a..LastDay
  PROVE  DueEvents(fs, a) = UpTo(DueEvents(fs, b), a)
<1>1. ASSUME NEW e \in DueEvents(fs, a)
      PROVE  e \in DueEvents(fs, b) /\ e.date <= a
  <2>1. PICK t \in Tickers, d \in 1..a :
          /\ Div[t][d] > 0 /\ Entitled(fs, t, d) > 0
          /\ e = [ticker |-> t, date |-> d, qty |-> Entitled(fs, t, d)]
    BY DueIs
  <2>2. d \in 1..b /\ b \in 0..LastDay
    BY LedgerAssumption
  <2>3. e \in DueEvents(fs, b)
    BY <2>1, <2>2, DueIs
  <2> QED BY <2>1, <2>3
<1>2. ASSUME NEW e \in DueEvents(fs, b), e.date <= a
      PROVE  e \in DueEvents(fs, a)
  <2>0. b \in 0..LastDay
    BY LedgerAssumption
  <2>1. PICK t \in Tickers, d \in 1..b :
          /\ Div[t][d] > 0 /\ Entitled(fs, t, d) > 0
          /\ e = [ticker |-> t, date |-> d, qty |-> Entitled(fs, t, d)]
    BY <2>0, DueIs
  <2>2. d \in 1..a
    BY <1>2, <2>1, LedgerAssumption
  <2> QED BY <2>1, <2>2, DueIs
<1> QED BY <1>1, <1>2 DEF UpTo

\* Fills of a session or later do not change what was due by it.
LEMMA DueKept ==
  ASSUME NEW fs \in SUBSET FillRows, NEW gs \in SUBSET FillRows, fs \subseteq gs,
         NEW a \in 0..LastDay, \A g \in gs \ fs : a <= g.date
  PROVE  DueEvents(gs, a) = DueEvents(fs, a)
<1>1. ASSUME NEW t, NEW d \in 1..a
      PROVE  Entitled(gs, t, d) = Entitled(fs, t, d)
  <2>1. \A g \in gs : g.date \in Int
    BY LedgerAssumption DEF FillRows, Days
  <2>2. BeforeDay(gs, d) = BeforeDay(fs, d)
    BY <2>1 DEF BeforeDay
  <2> QED BY <2>2 DEF Entitled
<1>2. \A e : e \in DueEvents(gs, a) <=> e \in DueEvents(fs, a)
  BY <1>1, DueIs
<1> QED BY <1>2

\* When every posted dividend is as it is due, posting the rest finds none
\* restated and adds exactly what is missing.
LEMMA AccrueIs ==
  ASSUME NEW fs, NEW es \in SUBSET DueEvents(fs, LastDay), NEW a \in 0..LastDay
  PROVE  /\ ~Restated(fs, es, a)
         /\ Accrue(fs, es, a) = es \cup DueEvents(fs, a)
         /\ Accrue(fs, es, a) \in SUBSET DueEvents(fs, LastDay)
<1>1. LastDay \in 0..LastDay /\ LastDay \in a..LastDay
  BY LedgerAssumption
<1>2. DueEvents(fs, a) \subseteq DueEvents(fs, LastDay)
  BY <1>1, DueUpTo DEF UpTo
<1>3. ASSUME NEW e \in DueEvents(fs, LastDay), NEW x \in DueEvents(fs, LastDay),
             SameEvent(e, x)
      PROVE  e = x
  <2>1. PICK t \in Tickers, d \in 1..LastDay :
          e = [ticker |-> t, date |-> d, qty |-> Entitled(fs, t, d)]
    BY <1>1, DueIs
  <2>2. PICK u \in Tickers, c \in 1..LastDay :
          x = [ticker |-> u, date |-> c, qty |-> Entitled(fs, u, c)]
    BY <1>1, DueIs
  <2>3. t = u /\ d = c
    BY <1>3, <2>1, <2>2 DEF SameEvent
  <2> QED BY <2>1, <2>2, <2>3
<1>4. ~Restated(fs, es, a)
  BY <1>2, <1>3 DEF Restated
<1>5. Accrue(fs, es, a) = es \cup DueEvents(fs, a)
  <2>1. \A e \in DueEvents(fs, a) : e \in es \/ \A x \in es : ~SameEvent(e, x)
    BY <1>2, <1>3
  <2> QED BY <2>1 DEF Accrue
<1> QED BY <1>2, <1>4, <1>5

-----------------------------------------------------------------------------
(* The replay of a sound ledger *)

\* A sound ledger is funded by whatever dividends are posted, as long as
\* those due by its last session are and none is wrong.
LEMMA SoundIsFunded ==
  ASSUME NEW fs \in SUBSET FillRows, IsFiniteSet(fs),
         NEW os, SoundLedger(fs, os),
         NEW a \in 0..LastDay, \A f \in fs : f.date <= a,
         NEW es \in SUBSET DueEvents(fs, LastDay), DueEvents(fs, a) \subseteq es
  PROVE  ~Overspends(fs, es)
<1> SUFFICES ASSUME NEW f \in fs PROVE ~(CashIn(Replay(fs, f), UpTo(es, f.date)) < 0)
  BY DEF Overspends, Replay
<1>1. f.date \in 0..LastDay /\ a \in f.date..LastDay /\ LastDay \in f.date..LastDay
  BY LedgerAssumption DEF FillRows, Days
<1>2. DueEvents(fs, f.date) = UpTo(DueEvents(fs, a), f.date)
  BY <1>1, DueUpTo
<1>3. DueEvents(fs, f.date) = UpTo(DueEvents(fs, LastDay), f.date)
  BY <1>1, DueUpTo
<1>4. UpTo(es, f.date) = DueEvents(fs, f.date)
  BY <1>2, <1>3 DEF UpTo
<1>5. CashIn(Replay(fs, f), DueEvents(fs, f.date)) >= 0
  BY DEF SoundLedger
<1>6. CashIn(Replay(fs, f), DueEvents(fs, f.date)) \in Int
  <2>1. Replay(fs, f) \in SUBSET FillRows /\ IsFiniteSet(Replay(fs, f))
    BY FS_Subset DEF Replay
  <2>2. /\ DueEvents(fs, f.date) \in SUBSET EventRows
        /\ IsFiniteSet(DueEvents(fs, f.date))
    BY <1>1, DueType
  <2> QED BY <2>1, <2>2, CashParts
<1> QED BY <1>4, <1>5, <1>6

\* After its last session a sound ledger still has cash: dividends only add
\* to what the last fill left.
LEMMA CashAtTheEnd ==
  ASSUME NEW fs \in SUBSET FillRows, IsFiniteSet(fs),
         NEW os, SoundLedger(fs, os),
         NEW a \in 0..LastDay, \A f \in fs : f.date <= a
  PROVE  CashIn(fs, DueEvents(fs, a)) >= 0
<1>1. CASE fs = {}
  <2>1. \A t, d : Entitled(fs, t, d) = 0
    <3>1. \A d : BeforeDay(fs, d) = {}
      BY <1>1 DEF BeforeDay
    <3> QED BY <3>1, SharesNone DEF Entitled
  <2>2. DueEvents(fs, a) = {}
    BY <2>1, DueIs
  <2>3. CashIn(fs, DueEvents(fs, a)) = CashIn({}, {})
    BY <1>1, <2>2
  <2> QED BY <2>3, CashNone, LedgerAssumption
<1>2. CASE fs # {}
  <2>1. PICK N : N = {f.n : f \in fs}
    OBVIOUS
  <2>2. N \in SUBSET (0..Cardinality(fs)) /\ N # {} /\ Cardinality(fs) \in Nat
    BY <1>2, <2>1, FS_CardinalityType DEF SoundLedger, FillRows
  <2>3. PICK n \in N : \A m \in N : m <= n
    BY <2>2, GreatestNatural
  <2>4. PICK f \in fs : f.n = n
    BY <2>1, <2>3
  <2>5. \A g \in fs : g.n <= f.n /\ g.n \in Nat /\ g.date \in Int
    <3>1. \A g \in fs : g.n <= f.n
      BY <2>1, <2>3, <2>4
    <3> QED BY <3>1, LedgerAssumption DEF FillRows, Days
  <2>6. \A g \in fs : g.date <= f.date
    BY <2>5 DEF SoundLedger
  <2>7. Replay(fs, f) = fs
    BY <2>5, <2>6 DEF Replay, Precedes
  <2>8. f.date \in 0..LastDay /\ a \in f.date..LastDay
    BY LedgerAssumption DEF FillRows, Days
  <2>9. DueEvents(fs, f.date) \subseteq DueEvents(fs, a)
    BY <2>8, DueUpTo DEF UpTo
  <2>10. PICK b, c : b = DueEvents(fs, f.date) /\ c = DueEvents(fs, a)
    OBVIOUS
  <2>11. /\ b \in SUBSET EventRows /\ IsFiniteSet(b)
         /\ c \in SUBSET EventRows /\ IsFiniteSet(c)
         /\ b \in SUBSET c
    BY <2>8, <2>9, <2>10, DueType
  <2>12. /\ CashIn(fs, b) <= CashIn(fs, c)
         /\ CashIn(fs, b) \in Int /\ CashIn(fs, c) \in Int
    BY <2>11, CashMore, CashParts
  <2>13. CashIn(fs, b) >= 0
    BY <2>7, <2>10 DEF SoundLedger
  <2> QED BY <2>10, <2>12, <2>13
<1> QED BY <1>1, <1>2

\* A fill appended to a sound ledger leaves it sound: it is numbered after
\* the others and not dated before them, a sale is of shares that are held
\* and the cash of its session pays for it.
LEMMA AppendFill ==
  ASSUME NEW fs \in SUBSET FillRows, IsFiniteSet(fs),
         NEW os, SoundLedger(fs, os),
         NEW f \in FillRows, f.n = Cardinality(fs) + 1,
         f.qty > 0, f.order \in DOMAIN os, \A g \in fs : g.date <= f.date,
         f.side = "SELL" => f.qty <= Shares(fs, f.ticker),
         CashIn(fs, DueEvents(fs, f.date)) + Flow(f) >= 0
  PROVE  /\ f \notin fs
         /\ IsFiniteSet(fs \cup {f})
         /\ SoundLedger(fs \cup {f}, os)
         /\ DueEvents(fs \cup {f}, f.date) = DueEvents(fs, f.date)
<1> DEFINE gs == fs \cup {f}
<1>1. Cardinality(fs) \in Nat /\ f.n \in Nat /\ f.date \in Days /\ f.date \in 0..LastDay
  BY FS_CardinalityType, LedgerAssumption DEF FillRows, Days
<1>2. \A g \in fs : /\ g.n \in Nat /\ g.n <= Cardinality(fs) /\ g.n < f.n
                    /\ g.date \in 0..LastDay /\ g.date <= f.date
  <2> SUFFICES ASSUME NEW g \in fs
               PROVE  /\ g.n \in Nat /\ g.n <= Cardinality(fs) /\ g.n < f.n
                      /\ g.date \in 0..LastDay /\ g.date <= f.date
    OBVIOUS
  <2>1. g.n \in Nat /\ g.date \in 0..LastDay
    BY FillFields
  <2>2. g.n <= Cardinality(fs)
    BY DEF SoundLedger
  <2> QED BY <1>1, <2>1, <2>2
<1>3. f \notin fs
  BY <1>1, <1>2
<1>4. gs \in SUBSET FillRows /\ IsFiniteSet(gs) /\ Cardinality(gs) = Cardinality(fs) + 1
  BY <1>3, FS_AddElement
<1>5. \A a \in 0..LastDay : a <= f.date => DueEvents(gs, a) = DueEvents(fs, a)
  BY <1>4, DueKept
<1>6. /\ \A g \in fs : Replay(gs, g) = Replay(fs, g)
      /\ Replay(gs, f) = gs
  <2>1. \A g \in fs : ~Precedes(f, g)
    BY <1>1, <1>2 DEF Precedes
  <2>2. \A g \in gs : Precedes(g, f)
    BY <1>1, <1>2 DEF Precedes
  <2> QED BY <2>1, <2>2 DEF Replay
<1>7. ~Oversells(gs)
  <2>1. ASSUME NEW g \in fs, g.side = "SELL"
        PROVE  ~(Shares({h \in gs : Precedes(h, g)}, g.ticker) < 0)
    BY <1>6, <2>1 DEF Replay, SoundLedger, Oversells
  <2>2. ASSUME f.side = "SELL"
        PROVE  ~(Shares({h \in gs : Precedes(h, f)}, f.ticker) < 0)
    <3>1. Shares({h \in gs : Precedes(h, f)}, f.ticker)
            = Shares(fs, f.ticker) + Change(f, f.ticker)
      BY <1>3, <1>6, SharesAdd DEF Replay, FillRows
    <3>2. Change(f, f.ticker) = -f.qty /\ f.qty \in Nat
      BY <2>2 DEF Change, FillRows
    <3>3. Shares(fs, f.ticker) \in Int
      BY SharesType DEF FillRows
    <3> QED BY <2>2, <3>1, <3>2, <3>3
  <2> QED BY <2>1, <2>2 DEF Oversells
<1>8. ASSUME NEW g \in gs PROVE CashIn(Replay(gs, g), DueEvents(gs, g.date)) >= 0
  <2>1. CASE g \in fs
    BY <1>2, <1>5, <1>6, <2>1 DEF SoundLedger
  <2>2. CASE g = f
    <3>1. PICK es : es = DueEvents(fs, f.date)
      OBVIOUS
    <3>2. es \in SUBSET EventRows /\ IsFiniteSet(es)
      BY <1>1, <3>1, DueType
    <3>3. CashIn(gs, es) = CashIn(fs, es) + Flow(f)
      BY <1>3, <3>2, CashAdd
    <3>4. DueEvents(gs, g.date) = es /\ Replay(gs, g) = gs
      <4>1. f.date <= f.date
        BY <1>1
      <4>2. DueEvents(gs, f.date) = DueEvents(fs, f.date)
        BY <1>1, <1>5, <4>1
      <4> QED BY <1>6, <2>2, <3>1, <4>2
    <3> QED BY <3>1, <3>3, <3>4
  <2> QED BY <2>1, <2>2
<1>9. SoundLedger(gs, os)
  <2>1. \A g \in gs : g.qty > 0 /\ g.order \in DOMAIN os /\ g.n <= Cardinality(gs)
    BY <1>1, <1>2, <1>4 DEF SoundLedger
  <2>2. \A g, h \in gs : g.n = h.n => g = h
    BY <1>1, <1>2 DEF SoundLedger
  <2>3. \A g, h \in gs : g.n <= h.n => g.date <= h.date
    BY <1>1, <1>2 DEF SoundLedger
  <2> QED BY <1>7, <1>8, <2>1, <2>2, <2>3 DEF SoundLedger
<1> QED BY <1>1, <1>3, <1>4, <1>5, <1>9

-----------------------------------------------------------------------------
(* What the run has read and where it stands *)

\* Nothing in the tables is dated after the committed session.
LEMMA CommittedIs ==
  ASSUME LedgerTypeOK
  PROVE  /\ CommittedThrough \in 0..LastDay
         /\ account.mark \in 0..LastDay /\ account.mark <= CommittedThrough
         /\ \A f \in fills : f.date <= CommittedThrough
         /\ \A e \in events : e.date <= CommittedThrough
<1> DEFINE S == {account.mark} \cup Dates(fills) \cup Dates(events)
<1>1. account.mark \in 0..LastDay
  BY DEF LedgerTypeOK
<1>2. \A f \in fills : f.date \in 0..LastDay
  BY FillFields DEF LedgerTypeOK
<1>3. \A e \in events : e.date \in 0..LastDay
  <2>1. \A e \in events : e.date \in Days
    BY DEF LedgerTypeOK, EventRows
  <2> QED BY <2>1, LedgerAssumption DEF Days
<1>4. S \in SUBSET (0..LastDay) /\ S # {} /\ LastDay \in Nat
  BY <1>1, <1>2, <1>3, LedgerAssumption DEF Dates
<1>5. PICK n \in S : \A m \in S : m <= n
  BY <1>4, GreatestNatural
<1>6. \A m \in S : n >= m
  BY <1>4, <1>5
<1>7. CommittedThrough \in S /\ \A m \in S : CommittedThrough >= m
  BY <1>5, <1>6 DEF CommittedThrough, Max
<1>8. \A m \in S : m <= CommittedThrough
  BY <1>4, <1>7
<1> QED BY <1>1, <1>4, <1>7, <1>8 DEF Dates

\* An order fills at its first open day, if it has one.
LEMMA FillDayIs ==
  ASSUME NEW i
  PROVE  \/ FillDay(i) = Never
         \/ /\ FillDay(i) \in OpenDays(i) /\ FillDay(i) # Never
            /\ FillDay(i) \in Days /\ FillDay(i) \in 1..LastDay
            /\ \A d \in OpenDays(i) : FillDay(i) <= d
<1>1. OpenDays(i) \in SUBSET Days
  BY DEF OpenDays
<1>2. \A d \in Days : d # Never /\ d \in 1..LastDay /\ d \in Nat
  BY LedgerAssumption DEF Days, Never
<1>3. CASE OpenDays(i) = {}
  BY <1>2, <1>3 DEF FillDay
<1>4. CASE OpenDays(i) # {}
  <2>1. PICK S : S = OpenDays(i)
    OBVIOUS
  <2>2. S \in SUBSET Nat /\ S # {}
    BY <1>1, <1>2, <1>4, <2>1
  <2>3. PICK n \in S : \A m \in S : n <= m
    BY <2>2, LeastNatural
  <2>4. Min(S) \in S /\ \A m \in S : Min(S) <= m
    BY <2>3 DEF Min
  <2> QED BY <1>1, <1>2, <1>4, <2>1, <2>4 DEF FillDay
<1> QED BY <1>3, <1>4

\* The day an order fills, or never does, is a number.
LEMMA FillDayType == \A i : FillDay(i) \in Nat
BY FillDayIs, LedgerAssumption DEF Never

\* It depends on the tables and on what the run has read at its beginning.
LEMMA FillDaySame ==
  ASSUME UNCHANGED <<fills, orders, committed, cutoff>>
  PROVE  \A i : FillDay(i)' = FillDay(i)
BY DEF FillDay, OpenDays

\* The order whose turn it is fills no later than the others.
LEMMA TurnIsFirst ==
  ASSUME NEW i, Turn(i)
  PROVE  \A j \in todo : FillDay(i) <= FillDay(j)
BY FillDayType DEF Turn, Earlier

-----------------------------------------------------------------------------
(* The beginning and the end of a run *)

Accounts == [mark : 0..LastDay, cash : Int,
             error : {"none", "too early", "oversells", "restated", "unfunded"}]

\* The locals of no run have their types.
LEMMA IdleTypes ==
  /\ 0 \in 0..LastDay /\ 0 \in Int
  /\ <<>> \in Seq(OrderRows)
  /\ Nobody \in [Tickers -> Int]
<1>1. 0 \in 0..LastDay /\ 0 \in Int
  BY LedgerAssumption
<1>2. <<>> \in Seq(OrderRows)
  OBVIOUS
<1>3. Nobody \in [Tickers -> Int]
  BY DEF Nobody
<1> QED BY <1>1, <1>2, <1>3

\* A run may end at any time: what is durable does not depend on it.
LEMMA EndInv ==
  ASSUME LedgerInv, Forget,
         UNCHANGED <<fills, events, orders, positions, curve, reports>>,
         account' \in Accounts, account'.error \in {"none", "too early"},
         DueEvents(fills, account'.mark) \subseteq events
  PROVE  LedgerInv'
<1>1. LedgerTypeOK'
  <2>1. /\ cutoff' = 0 /\ committed' = 0 /\ execDay' = 0 /\ cash' = 0
        /\ todo' = {} /\ batch' = {} /\ bEvents' = {} /\ bOrders' = <<>>
        /\ held' = Nobody /\ pc' = "idle"
    BY DEF Forget
  <2> QED BY <2>1, IdleTypes DEF LedgerInv, LedgerTypeOK, Accounts, Phases
<1>2. Durable'
  BY DEF Forget, LedgerInv, Durable, NeverRejected, OneRebalanceAtATime
<1> QED BY <1>1, <1>2 DEF Forget, LedgerInv

\* A run killed between two writes leaves what is durable.
LEMMA CrashInv ==
  ASSUME LedgerInv, Crash
  PROVE  LedgerInv'
<1>1. account \in Accounts
  BY DEF LedgerInv, LedgerTypeOK, Accounts
<1> QED BY <1>1, EndInv DEF Crash, tables, LedgerInv, Durable, NeverRejected

\* The mark moves to a session whose dividends are all posted.
LEMMA CommitInv ==
  ASSUME LedgerInv, Commit
  PROVE  LedgerInv'
<1>1. account' \in Accounts /\ account'.mark = cutoff /\ account'.error = "none"
  BY DEF Commit, LedgerInv, LedgerTypeOK, Accounts
<1>2. DueEvents(fills, cutoff) \subseteq events
  BY DEF Commit, LedgerInv, Valuing
<1> QED BY <1>1, <1>2, EndInv DEF Commit

\* A run that begins meets a ledger that replays: it is refused only when it
\* is for a session before the committed one.
LEMMA BeginInv ==
  ASSUME LedgerInv, NEW d \in Days, Begin(d)
  PROVE  LedgerInv'
<1>1. ~Oversells(fills)
  BY DEF LedgerInv, Durable, SoundLedger
<1>2. CASE orders # <<>> /\ d < CommittedThrough
  <2>1. Fail("too early")
    BY <1>1, <1>2 DEF Begin
  <2>2. account' \in Accounts /\ account'.mark = account.mark
        /\ account'.error = "too early"
    BY <2>1 DEF Fail, LedgerInv, LedgerTypeOK, Accounts
  <2> QED BY <2>1, <2>2, EndInv DEF Fail, LedgerInv, Durable
<1>3. CASE ~(orders # <<>> /\ d < CommittedThrough)
  <2>1. /\ pc = "idle" /\ batch' = {} /\ execDay' = 0 /\ cutoff' = d
        /\ pc' = IF orders = <<>> THEN "accruing" ELSE "filling"
        /\ committed' = CommittedThrough /\ todo' = Pending(orders)
        /\ bOrders' = orders /\ bEvents' = events
        /\ cash' = CashIn(fills, events) /\ held' = HeldIn(fills)
        /\ UNCHANGED <<fills, events, orders, positions, curve, reports, account>>
    BY <1>1, <1>3 DEF Begin, tables
  <2>2. /\ LedgerTypeOK /\ Durable /\ batch = {}
    BY <2>1 DEF LedgerInv, Durable
  <2>3. CommittedThrough' = CommittedThrough /\ CommittedThrough \in 0..LastDay
    BY <2>1, <2>2, CommittedIs DEF CommittedThrough
  <2>4. /\ CashIn(fills, events) \in Int /\ HeldIn(fills) \in [Tickers -> Int]
    <3>1. /\ fills \in SUBSET FillRows /\ IsFiniteSet(fills)
          /\ events \in SUBSET EventRows /\ IsFiniteSet(events)
      <4>1. LastDay \in 0..LastDay
        BY LedgerAssumption
      <4> QED BY <2>2, <4>1, DueType, FS_Subset DEF LedgerTypeOK, Durable
    <3> QED BY <3>1, CashParts, SharesType DEF HeldIn
  <2>5. Pending(orders) \in SUBSET Nat
    <3>1. orders \in Seq(OrderRows)
      BY <2>2 DEF LedgerTypeOK
    <3>2. DOMAIN orders \in SUBSET Nat
      BY <3>1
    <3> QED BY <3>2 DEF Pending
  <2>6. LedgerTypeOK'
    <3>1. d \in 0..LastDay /\ 0 \in 0..LastDay /\ {} \in SUBSET FillRows
      BY LedgerAssumption DEF Days
    <3> QED BY <2>1, <2>2, <2>3, <2>4, <2>5, <3>1 DEF LedgerTypeOK, Phases
  <2>7. Durable'
    BY <2>1, <2>2 DEF Durable, NeverRejected, OneRebalanceAtATime
  <2>8. CASE orders # <<>>
    <3>1. pc' = "filling"
      BY <2>1, <2>8
    <3>2. Ledger' = fills
      BY <2>1 DEF Ledger
    <3>3. /\ CommittedThrough <= d /\ d \in Nat /\ 0 <= d
      BY <1>3, <2>3, <2>8, LedgerAssumption DEF Days
    <3>4. \A i : FillDay(i)' >= 0
      <4>1. (\A i : FillDay(i) \in Nat)'
        BY FillDayType, PTL
      <4> QED BY <4>1
    <3>5. \A e \in events : e.date <= CommittedThrough
      BY <2>2, CommittedIs
    <3>6. WaitingIsOpen(fills, orders, DOMAIN orders \ Pending(orders))
      BY DEF WaitingIsOpen, Pending
    <3>7. SameOrders(orders, orders)
      BY DEF SameOrders
    <3>8. Filling'
      BY <2>1, <2>2, <2>3, <3>2, <3>3, <3>4, <3>5, <3>6, <3>7, FS_EmptySet
      DEF Filling, Durable
    <3> QED BY <2>6, <2>7, <3>1, <3>8 DEF LedgerInv
  <2>9. CASE orders = <<>>
    <3>1. pc' = "accruing"
      BY <2>1, <2>9
    <3>2. fills = {}
      BY <2>2, <2>9 DEF Durable, SoundLedger
    <3>3. Valuing'
      BY <2>1, <2>9, <3>1 DEF Valuing, WaitingIsOpen
    <3> QED BY <2>1, <2>6, <2>7, <3>1, <3>2, <3>3 DEF LedgerInv
  <2> QED BY <2>8, <2>9
<1> QED BY <1>2, <1>3

-----------------------------------------------------------------------------
(* Filling the orders *)

\* What the run fills is typed like what it saves.
LEMMA LedgerTypes ==
  ASSUME LedgerInv, pc = "filling"
  PROVE  /\ fills \in SUBSET FillRows /\ IsFiniteSet(fills)
         /\ Ledger \in SUBSET FillRows /\ IsFiniteSet(Ledger)
         /\ SoundLedger(Ledger, orders)
         /\ \A i \in todo : /\ i \in DOMAIN orders /\ i \in Nat
                            /\ orders[i] \in OrderRows
                            /\ orders[i].status = "PENDING"
                            /\ FillsOf(Ledger, i) = FillsOf(fills, i)
<1>1. LedgerTypeOK /\ Durable /\ Filling
  BY DEF LedgerInv
<1>2. IsFiniteSet(Ledger)
  BY <1>1, FS_Union DEF Durable, Filling, Ledger
<1>3. ASSUME NEW i \in todo
      PROVE  /\ i \in DOMAIN orders /\ i \in Nat /\ orders[i] \in OrderRows
             /\ orders[i].status = "PENDING"
             /\ FillsOf(Ledger, i) = FillsOf(fills, i)
  <2>1. i \in DOMAIN orders /\ orders[i].status = "PENDING"
    BY <1>1 DEF Filling, Pending
  <2>2. orders \in Seq(OrderRows)
    BY <1>1 DEF LedgerTypeOK
  <2>3. i \in Nat /\ orders[i] \in OrderRows
    BY <2>1, <2>2
  <2>4. \A f \in batch : f.order # i
    BY <1>1 DEF Filling
  <2> QED BY <2>1, <2>3, <2>4 DEF FillsOf, Ledger
<1> QED BY <1>1, <1>2, <1>3 DEF LedgerTypeOK, Durable, Filling, Ledger

\* The row an order leaves the loop with.
RowDone(i, row, n) ==
  /\ row \in OrderRows
  /\ row.decision = orders[i].decision /\ row.qty = orders[i].qty
  /\ row.status = "PENDING" => n < orders[i].qty

\* The rows the run will save, when one more order has left the loop.
LEMMA DoneRows ==
  ASSUME LedgerInv, pc = "filling", NEW i \in todo, NEW row, Done(i, row),
         NEW fs, RowDone(i, row, Filled(fs, i)),
         \A j \in DOMAIN orders : j # i => Filled(fs, j) = Filled(Ledger, j)
  PROVE  /\ bOrders' \in Seq(OrderRows)
         /\ SameOrders(orders, bOrders')
         /\ WaitingIsOpen(fs, bOrders', DOMAIN bOrders' \ todo')
<1>1. LedgerTypeOK /\ Filling
  BY DEF LedgerInv
<1>2. i \in DOMAIN orders /\ DOMAIN orders = DOMAIN bOrders /\ bOrders \in Seq(OrderRows)
      /\ orders[i].status = "PENDING"
  BY <1>1, LedgerTypes DEF Filling, SameOrders, LedgerTypeOK
<1>3. bOrders' = [bOrders EXCEPT ![i] = row] /\ todo' = todo \ {i}
  BY DEF Done
<1>4. row \in OrderRows
  BY DEF RowDone
<1>5. /\ DOMAIN bOrders' = DOMAIN bOrders
      /\ bOrders'[i] = row
      /\ \A j \in DOMAIN bOrders : j # i => bOrders'[j] = bOrders[j]
  BY <1>2, <1>3
<1>6. bOrders' \in Seq(OrderRows)
  BY <1>2, <1>3, <1>4
<1>7. SameOrders(orders, bOrders')
  BY <1>1, <1>2, <1>5 DEF SameOrders, Filling, RowDone
<1>8. ASSUME NEW j \in DOMAIN bOrders' \ todo', bOrders'[j].status = "PENDING"
      PROVE  Filled(fs, j) < bOrders'[j].qty
  <2>1. CASE j = i
    BY <1>5, <1>8, <2>1 DEF RowDone
  <2>2. CASE j # i
    <3>1. j \in DOMAIN bOrders \ todo /\ bOrders'[j] = bOrders[j] /\ j \in DOMAIN orders
      BY <1>2, <1>3, <1>5, <2>2
    <3>2. Filled(fs, j) = Filled(Ledger, j)
      BY <2>2, <3>1
    <3> QED BY <1>1, <1>8, <3>1, <3>2 DEF Filling, WaitingIsOpen
  <2> QED BY <2>1, <2>2
<1> QED BY <1>6, <1>7, <1>8 DEF WaitingIsOpen

\* An order that leaves the loop without a fill.
LEMMA DropInv ==
  ASSUME LedgerInv, NEW i, Turn(i), NEW row, Done(i, row),
         UNCHANGED <<batch, cash, held>>, RowDone(i, row, Filled(fills, i))
  PROVE  LedgerInv'
<1>1. /\ pc = "filling" /\ i \in todo /\ pc' = "filling" /\ todo' = todo \ {i}
      /\ UNCHANGED <<fills, events, orders, positions, curve, reports, account,
                     cutoff, committed, batch, bEvents, execDay, cash, held>>
  BY DEF Turn, Done, tables
<1>2. LedgerTypeOK /\ Durable /\ Filling
  BY <1>1 DEF LedgerInv
<1>3. Filled(Ledger, i) = Filled(fills, i)
  BY <1>1, LedgerTypes, FilledSame
<1>4. /\ bOrders' \in Seq(OrderRows)
      /\ SameOrders(orders, bOrders')
      /\ WaitingIsOpen(Ledger, bOrders', DOMAIN bOrders' \ todo')
  BY <1>1, <1>3, DoneRows
<1>5. Ledger' = Ledger /\ CommittedThrough' = CommittedThrough
  BY <1>1 DEF Ledger, CommittedThrough
<1>6. LedgerTypeOK'
  BY <1>1, <1>2, <1>4 DEF LedgerTypeOK
<1>7. Durable'
  BY <1>1, <1>2 DEF Durable, NeverRejected, OneRebalanceAtATime
<1>8. Filling'
  <2>1. \A j \in todo' : execDay' <= FillDay(j)'
    BY <1>1, <1>2, FillDaySame DEF Filling
  <2> QED BY <1>1, <1>2, <1>4, <1>5, <2>1 DEF Filling
<1> QED BY <1>1, <1>6, <1>7, <1>8 DEF LedgerInv

\* An order whose fills are all in the ledger is marked filled.
LEMMA AlreadyFilledInv ==
  ASSUME LedgerInv, NEW i, AlreadyFilled(i)
  PROVE  LedgerInv'
<1>1. Turn(i) /\ pc = "filling" /\ i \in todo
  BY DEF AlreadyFilled, Turn
<1>2. PICK r, n : r = orders[i] /\ n = Filled(fills, i)
  OBVIOUS
<1>3. r \in OrderRows /\ n \in Nat
  BY <1>1, <1>2, LedgerTypes, FilledType
<1>4. PICK row : row = [r EXCEPT !.status = "FILLED", !.filled = n]
  OBVIOUS
<1>5. row \in OrderRows /\ row.decision = r.decision /\ row.qty = r.qty
      /\ row.status = "FILLED"
  BY <1>3, <1>4 DEF OrderRows
<1>6. RowDone(i, row, n)
  BY <1>2, <1>5 DEF RowDone
<1> QED BY <1>1, <1>2, <1>4, <1>6, DropInv DEF AlreadyFilled

\* The order stays as it is, and it is not filled yet.
LEMMA KeptInv ==
  ASSUME LedgerInv, NEW i, Turn(i), Remaining(i) > 0, Done(i, orders[i]),
         UNCHANGED <<batch, cash, held>>
  PROVE  LedgerInv'
<1>1. pc = "filling" /\ i \in todo
  BY DEF Turn
<1>2. orders[i] \in OrderRows /\ Filled(fills, i) \in Nat /\ orders[i].qty \in Nat
  BY <1>1, LedgerTypes, FilledType DEF OrderRows
<1>3. Filled(fills, i) < orders[i].qty
  BY <1>2 DEF Remaining
<1>4. RowDone(i, orders[i], Filled(fills, i))
  BY <1>2, <1>3 DEF RowDone
<1> QED BY <1>4, DropInv

\* An order that nothing can be filled of is rejected.
LEMMA RejectInv ==
  ASSUME LedgerInv, NEW i, Turn(i), Reject(i)
  PROVE  LedgerInv'
<1>1. pc = "filling" /\ i \in todo
  BY DEF Turn
<1>2. PICK r, row : r = orders[i] /\ row = [r EXCEPT !.status = "REJECTED"]
  OBVIOUS
<1>3. row \in OrderRows /\ row.decision = r.decision /\ row.qty = r.qty
      /\ row.status = "REJECTED"
  BY <1>1, <1>2, LedgerTypes DEF OrderRows
<1>4. RowDone(i, row, Filled(fills, i))
  BY <1>2, <1>3 DEF RowDone
<1> QED BY <1>2, <1>4, DropInv DEF Reject

\* What the dates of the ledger are bounded by, in memory as well.
LEMMA LedgerDates ==
  ASSUME LedgerInv, pc = "filling"
  PROVE  /\ \A f \in Ledger : f.date \in Nat /\ (f.date <= committed \/ f.date <= execDay)
         /\ bEvents \in SUBSET DueEvents(Ledger, LastDay)
         /\ committed \in 0..LastDay /\ execDay \in 0..LastDay /\ cutoff \in 0..LastDay
         /\ LastDay \in Nat
<1>1. LedgerTypeOK /\ Filling
  BY DEF LedgerInv
<1>2. \A f \in Ledger : f.date \in Nat
  BY LedgerTypes, FillFields
<1>3. \A f \in fills : f.date <= committed
  BY <1>1, CommittedIs DEF Filling
<1>4. \A f \in batch : f.date <= execDay
  BY <1>1 DEF Filling
<1> QED BY <1>1, <1>2, <1>3, <1>4, LedgerAssumption DEF LedgerTypeOK, Filling, Ledger

\* At a later open the replay of what there is by then never fails, so the
\* run goes on with the cash and the shares of that session.
LEMMA NextSessionInv ==
  ASSUME LedgerInv, NEW i, NextSession(i)
  PROVE  LedgerInv'
<1>1. pc = "filling" /\ i \in todo /\ Turn(i)
  BY DEF NextSession, Turn
<1>2. LedgerTypeOK /\ Durable /\ Filling
  BY <1>1 DEF LedgerInv
<1>3. PICK day : day = FillDay(i)
  OBVIOUS
<1>4. PICK L : L = Ledger
  OBVIOUS
<1>5. /\ L \in SUBSET FillRows /\ IsFiniteSet(L) /\ SoundLedger(L, orders)
      /\ bEvents \in SUBSET DueEvents(L, LastDay)
  BY <1>1, <1>4, LedgerTypes, LedgerDates
<1>6. /\ day \in Days /\ day \in 0..LastDay /\ day # 0
      /\ committed <= day /\ day <= cutoff /\ execDay <= day
  <2>1. day \in OpenDays(i)
    BY <1>3, FillDayIs DEF NextSession
  <2>2. day \in Days /\ committed <= day /\ day <= cutoff
    <3>1. day \in Days /\ day >= committed /\ day <= cutoff
      BY <2>1 DEF OpenDays
    <3>2. day \in Nat /\ committed \in Nat
      BY <1>1, <3>1, LedgerAssumption, LedgerDates DEF Days
    <3> QED BY <3>1, <3>2
  <2>3. execDay <= day
    BY <1>1, <1>2, <1>3 DEF Filling
  <2> QED BY <2>2, <2>3, LedgerAssumption DEF Days
<1>7. \A f \in L : f.date <= day
  <2>1. /\ \A f \in L : f.date \in Nat /\ (f.date <= committed \/ f.date <= execDay)
        /\ committed \in Nat /\ execDay \in Nat /\ day \in Nat
    BY <1>1, <1>4, <1>6, LedgerDates
  <2> QED BY <1>6, <2>1
<1>8. UpTo(L, day) = L
  BY <1>7 DEF UpTo
<1>9. PICK es : es = Accrue(L, bEvents, day)
  OBVIOUS
<1>10. /\ ~Restated(L, bEvents, day)
       /\ es = bEvents \cup DueEvents(L, day)
       /\ es \in SUBSET DueEvents(L, LastDay)
  BY <1>5, <1>6, <1>9, AccrueIs
<1>11. ~Oversells(L) /\ ~Overspends(L, es)
  <2>1. ~Oversells(L)
    BY <1>5 DEF SoundLedger
  <2>2. DueEvents(L, day) \subseteq es
    BY <1>10
  <2>3. ~Overspends(L, es)
    BY <1>5, <1>6, <1>7, <1>10, <2>2, SoundIsFunded
  <2> QED BY <2>1, <2>3
<1>12. UpTo(es, day) = DueEvents(L, day)
  <2>1. LastDay \in day..LastDay
    BY <1>6, LedgerAssumption
  <2>2. DueEvents(L, day) = UpTo(DueEvents(L, LastDay), day)
    BY <1>6, <2>1, DueUpTo
  <2> QED BY <1>10, <2>2 DEF UpTo
<1>13. /\ bEvents' = es /\ execDay' = day
       /\ cash' = CashIn(L, DueEvents(L, day)) /\ held' = HeldIn(L)
       /\ UNCHANGED <<fills, events, orders, positions, curve, reports, account,
                      pc, cutoff, committed, todo, batch, bOrders>>
  BY <1>3, <1>4, <1>8, <1>9, <1>10, <1>11, <1>12 DEF NextSession, Ledger, tables
<1>14. /\ es \in SUBSET EventRows
       /\ \A e \in DueEvents(L, day) : e.date <= day
       /\ cash' \in Int /\ cash' >= 0 /\ held' \in [Tickers -> Int]
  <2>1. DueEvents(L, LastDay) \in SUBSET EventRows
    BY <1>5, LedgerAssumption, DueType
  <2>2. /\ DueEvents(L, day) \in SUBSET EventRows /\ IsFiniteSet(DueEvents(L, day))
        /\ \A e \in DueEvents(L, day) : e.date <= day
    BY <1>5, <1>6, DueType
  <2>3. CashIn(L, DueEvents(L, day)) \in Int
    BY <1>5, <2>2, CashParts
  <2>4. CashIn(L, DueEvents(L, day)) >= 0
    BY <1>5, <1>6, <1>7, CashAtTheEnd
  <2>5. HeldIn(L) \in [Tickers -> Int]
    BY <1>5, SharesType DEF HeldIn
  <2> QED BY <1>10, <1>13, <2>1, <2>2, <2>3, <2>4, <2>5
<1>15. Ledger' = L /\ CommittedThrough' = CommittedThrough
  BY <1>4, <1>13 DEF Ledger, CommittedThrough
<1>16. LedgerTypeOK'
  BY <1>2, <1>6, <1>13, <1>14 DEF LedgerTypeOK
<1>17. Durable'
  BY <1>2, <1>13 DEF Durable, NeverRejected, OneRebalanceAtATime
<1>18. \A j \in todo : day <= FillDay(j)'
  BY <1>1, <1>3, <1>13, TurnIsFirst, FillDaySame
<1>19. \A f \in batch : f.date <= day
  BY <1>4, <1>7 DEF Ledger
<1>20. \A e \in es : e.date <= committed \/ e.date <= day
  <2>1. \A e \in bEvents : e.date \in Nat
    <3>1. \A e \in bEvents : e.date \in Days
      BY <1>2 DEF LedgerTypeOK, EventRows
    <3> QED BY <3>1, LedgerAssumption DEF Days
  <2>2. \A e \in bEvents : e.date <= committed \/ e.date <= execDay
    BY <1>2 DEF Filling
  <2>3. execDay \in Nat /\ day \in Nat
    BY <1>1, <1>6, LedgerDates
  <2>4. \A e \in bEvents : e.date <= committed \/ e.date <= day
    BY <1>6, <2>1, <2>2, <2>3
  <2> QED BY <1>10, <1>14, <2>4
<1>21. Filling'
  <2>1. /\ IsFiniteSet(batch') /\ SoundLedger(Ledger', orders')
        /\ NoneOverfilled(Ledger', orders') /\ SameOrders(orders', bOrders')
        /\ WaitingIsOpen(Ledger', bOrders', DOMAIN bOrders' \ todo')
        /\ todo' \subseteq Pending(orders') /\ committed' = CommittedThrough'
        /\ committed' <= cutoff'
    BY <1>2, <1>4, <1>13, <1>15 DEF Filling
  <2>2. \A f \in batch' : /\ f.order \notin todo'
                          /\ orders'[f.order].decision < f.date
                          /\ committed' <= f.date /\ f.date <= execDay'
    BY <1>2, <1>13, <1>19 DEF Filling
  <2>3. events' \subseteq bEvents' /\ bEvents' \subseteq DueEvents(Ledger', LastDay)
    BY <1>2, <1>10, <1>13, <1>15 DEF Filling
  <2> QED BY <1>6, <1>13, <1>14, <1>15, <1>18, <1>20, <2>1, <2>2, <2>3 DEF Filling
<1> QED BY <1>1, <1>13, <1>16, <1>17, <1>21 DEF LedgerInv

\* Appending a fill of the session to the ledger in memory adds nothing to
\* what is due by then and takes nothing posted back.
LEMMA EventsKept ==
  ASSUME LedgerInv, pc = "filling", execDay # 0,
         NEW f \in FillRows, f.date = execDay,
         DueEvents(Ledger \cup {f}, execDay) = DueEvents(Ledger, execDay),
         IsFiniteSet(Ledger \cup {f})
  PROVE  bEvents \subseteq DueEvents(Ledger \cup {f}, LastDay)
<1>1. /\ bEvents \subseteq DueEvents(Ledger, LastDay)
      /\ committed <= execDay
      /\ \A e \in bEvents : e.date <= committed \/ e.date <= execDay
  BY DEF LedgerInv, Filling
<1>2. /\ committed \in Nat /\ execDay \in 0..LastDay /\ execDay \in Nat
      /\ LastDay \in execDay..LastDay
  BY LedgerDates
<1>3. \A e \in bEvents : e.date \in Nat
  <2>1. \A e \in bEvents : e.date \in Days
    BY DEF LedgerInv, LedgerTypeOK, EventRows
  <2> QED BY <2>1, LedgerAssumption DEF Days
<1>4. \A e \in bEvents : e.date <= execDay
  BY <1>1, <1>2, <1>3
<1>5. \A fs : DueEvents(fs, execDay) = UpTo(DueEvents(fs, LastDay), execDay)
  BY <1>2, DueUpTo
<1> QED BY <1>1, <1>4, <1>5 DEF UpTo

\* A fill that is neither more than the order still asks for nor more than
\* the shares held or the cash of the session cover.
LEMMA ExecuteInv ==
  ASSUME LedgerInv, NEW i, Executes(i), NEW q \in Nat, q > 0, Execute(i, q),
         q <= Remaining(i),
         orders[i].side = "SELL" => q <= held[orders[i].ticker],
         orders[i].side = "BUY" => q * Price(i) + Fee <= cash
  PROVE  LedgerInv'
<1>1. pc = "filling" /\ i \in todo /\ Turn(i) /\ FillDay(i) = execDay
      /\ FillDay(i) # Never
  BY DEF Executes, Turn
<1>2. LedgerTypeOK /\ Durable /\ Filling
  BY <1>1 DEF LedgerInv
<1>3. PICK L, r : L = Ledger /\ r = orders[i]
  OBVIOUS
<1>4. /\ L \in SUBSET FillRows /\ IsFiniteSet(L) /\ SoundLedger(L, orders)
      /\ fills \in SUBSET FillRows /\ IsFiniteSet(fills) /\ Cardinality(L) \in Nat
      /\ i \in DOMAIN orders /\ i \in Nat /\ r \in OrderRows /\ r.status = "PENDING"
      /\ Filled(L, i) = Filled(fills, i) /\ Filled(L, i) \in Nat
  BY <1>1, <1>3, LedgerTypes, FilledType, FilledSame, FS_CardinalityType
<1>5. r.ticker \in Tickers /\ r.side \in Sides /\ r.qty \in Nat /\ r.decision \in Days
  BY <1>4 DEF OrderRows
<1>6. /\ execDay \in Days /\ execDay \in Nat /\ execDay # 0 /\ execDay \in 0..LastDay
      /\ committed <= execDay /\ r.decision < execDay /\ Open[r.ticker][execDay] > 0
  <2>1. execDay \in OpenDays(i)
    BY <1>1, FillDayIs
  <2>2. /\ execDay \in Days /\ execDay > r.decision /\ execDay >= committed
        /\ Open[r.ticker][execDay] > 0
    BY <1>3, <2>1 DEF OpenDays
  <2>3. /\ execDay \in Nat /\ execDay # 0 /\ execDay \in 0..LastDay
        /\ committed \in Nat /\ r.decision \in Nat
    BY <1>1, <1>5, <2>2, DayIs, LedgerDates
  <2> QED BY <2>2, <2>3
<1>7. PICK f : f = [n |-> Cardinality(L) + 1, order |-> i, ticker |-> r.ticker,
                    side |-> r.side, qty |-> q, date |-> execDay]
  OBVIOUS
<1>8. /\ f \in FillRows /\ f.n = Cardinality(L) + 1 /\ f.order = i
      /\ f.ticker = r.ticker /\ f.side = r.side /\ f.qty = q /\ f.date = execDay
  BY <1>4, <1>5, <1>6, <1>7 DEF FillRows
<1>9. PICK p, v : p = Open[r.ticker][execDay] /\ v = q * p
  OBVIOUS
<1>10. /\ p \in Nat /\ v \in Nat /\ Fee \in Nat /\ Fee < p /\ p <= v
  <2>1. p \in Nat /\ p > 0 /\ Fee \in Nat /\ Fee < p
    BY <1>5, <1>6, <1>9, LedgerAssumption
  <2>2. v \in Nat /\ p <= v
    BY <1>9, <2>1
  <2> QED BY <2>1, <2>2
<1>11. Flow(f) = IF r.side = "SELL" THEN v - Fee ELSE -(v + Fee)
  BY <1>8, <1>9 DEF Flow
<1>12. /\ held = HeldIn(L) /\ cash = CashIn(L, DueEvents(L, execDay)) /\ cash >= 0
       /\ cash \in Int
  BY <1>2, <1>3, <1>6 DEF Filling, LedgerTypeOK
<1>13. cash + Flow(f) >= 0
  <2>1. CASE r.side = "SELL"
    BY <1>10, <1>11, <1>12, <2>1
  <2>2. CASE r.side = "BUY"
    <3>1. v + Fee <= cash
      BY <1>3, <1>9, <2>2 DEF Price
    <3> QED BY <1>10, <1>11, <1>12, <2>2, <3>1
  <2> QED BY <1>5, <2>1, <2>2 DEF Sides
<1>14. \A g \in L : g.date <= f.date
  <2>1. /\ \A g \in L : g.date \in Nat /\ (g.date <= committed \/ g.date <= execDay)
        /\ committed \in Nat /\ execDay \in Nat
    BY <1>1, <1>3, LedgerDates
  <2> QED BY <1>6, <1>8, <2>1
<1>15. f.side = "SELL" => f.qty <= Shares(L, f.ticker)
  BY <1>3, <1>5, <1>8, <1>12 DEF HeldIn
<1>16. PICK M : M = L \cup {f}
  OBVIOUS
<1>17. /\ f \notin L /\ M \in SUBSET FillRows /\ IsFiniteSet(M) /\ SoundLedger(M, orders)
       /\ DueEvents(M, execDay) = DueEvents(L, execDay)
  BY <1>4, <1>8, <1>12, <1>13, <1>14, <1>15, <1>16, AppendFill
<1>18. PICK row : row = [r EXCEPT !.status = IF Filled(fills, i) + q >= r.qty
                                             THEN "FILLED" ELSE "PENDING",
                                  !.filled = Filled(fills, i) + q]
  OBVIOUS
<1>19. PICK sign : sign = IF r.side = "BUY" THEN 1 ELSE -1
  OBVIOUS
<1>20. /\ batch' = batch \cup {f}
       /\ cash' = cash - sign * q * p - Fee
       /\ held' = [held EXCEPT ![r.ticker] = @ + sign * q]
       /\ Done(i, row)
  BY <1>3, <1>7, <1>9, <1>18, <1>19 DEF Execute, Ledger, Price
<1>21. /\ todo' = todo \ {i}
       /\ UNCHANGED <<fills, events, orders, positions, curve, reports, account,
                      pc, cutoff, committed, bEvents, execDay>>
  BY <1>20 DEF Done, tables
<1>22. Ledger' = M /\ CommittedThrough' = CommittedThrough
  BY <1>3, <1>16, <1>20, <1>21 DEF Ledger, CommittedThrough
<1>23. cash' = CashIn(M, DueEvents(M, execDay)) /\ cash' >= 0 /\ cash' \in Int
  <2>1. PICK es : es = DueEvents(L, execDay)
    OBVIOUS
  <2>2. es \in SUBSET EventRows /\ IsFiniteSet(es)
    BY <1>4, <1>6, <2>1, DueType
  <2>3. CashIn(M, es) = CashIn(L, es) + Flow(f)
    BY <1>4, <1>8, <1>16, <1>17, <2>2, CashAdd
  <2>4. cash' = cash + Flow(f)
    <3>1. CASE r.side = "BUY"
      <4>1. cash' = cash - 1 * q * p - Fee
        BY <1>19, <1>20, <3>1
      <4>2. 1 * q * p = v
        BY <1>9, <1>10
      <4> QED BY <1>10, <1>11, <1>12, <3>1, <4>1, <4>2
    <3>2. CASE r.side = "SELL"
      <4>1. cash' = cash - (-1) * q * p - Fee
        BY <1>19, <1>20, <3>2
      <4>2. (-1) * q * p = -v
        BY <1>9, <1>10
      <4> QED BY <1>10, <1>11, <1>12, <3>2, <4>1, <4>2
    <3> QED BY <1>5, <3>1, <3>2 DEF Sides
  <2>5. Flow(f) \in Int
    BY <1>8, RowValues
  <2> QED BY <1>12, <1>13, <1>17, <2>1, <2>3, <2>4, <2>5
<1>24. held' = HeldIn(M) /\ held' \in [Tickers -> Int]
  <2>1. ASSUME NEW t \in Tickers
        PROVE  /\ Shares(M, t) = Shares(L, t) + Change(f, t)
               /\ Shares(L, t) \in Int /\ Shares(M, t) \in Int
    BY <1>4, <1>8, <1>16, <1>17, SharesAdd, SharesType
  <2>2. ASSUME NEW t \in Tickers
        PROVE  Change(f, t) = IF t = r.ticker THEN sign * q ELSE 0
    BY <1>5, <1>8, <1>19 DEF Change, Sides
  <2>3. held = [t \in Tickers |-> Shares(L, t)]
    BY <1>12 DEF HeldIn
  <2>4. ASSUME NEW t \in Tickers PROVE held'[t] = Shares(M, t)
    <3>1. CASE t = r.ticker
      BY <1>20, <2>1, <2>2, <2>3, <3>1
    <3>2. CASE t # r.ticker
      BY <1>20, <2>1, <2>2, <2>3, <3>2
    <3> QED BY <3>1, <3>2
  <2>5. held' = [t \in Tickers |-> held'[t]]
    BY <1>20, <2>3
  <2> QED BY <2>1, <2>4, <2>5 DEF HeldIn
<1>25. /\ Filled(M, i) = Filled(L, i) + q
       /\ \A j : j # i => Filled(M, j) = Filled(L, j)
  BY <1>4, <1>8, <1>16, <1>17, FilledAdd
<1>26. Filled(M, i) <= r.qty
  BY <1>3, <1>4, <1>5, <1>25 DEF Remaining
<1>27. RowDone(i, row, Filled(M, i))
  <2>1. row \in OrderRows /\ row.decision = r.decision /\ row.qty = r.qty
    <3>1. PICK n : n = Filled(fills, i) + q
      OBVIOUS
    <3>2. PICK st : st = IF n >= r.qty THEN "FILLED" ELSE "PENDING"
      OBVIOUS
    <3>3. n \in Nat /\ st \in {"PENDING", "FILLED", "REJECTED"}
      BY <1>4, <3>1, <3>2
    <3>4. row = [r EXCEPT !.status = st, !.filled = n]
      BY <1>18, <3>1, <3>2
    <3> QED BY <1>4, <3>3, <3>4 DEF OrderRows
  <2>2. row.status = IF Filled(M, i) >= r.qty THEN "FILLED" ELSE "PENDING"
    BY <1>4, <1>18, <1>25 DEF OrderRows
  <2>3. Filled(M, i) \in Nat
    BY <1>4, <1>25
  <2> QED BY <1>3, <1>5, <2>1, <2>2, <2>3 DEF RowDone
<1>28. /\ bOrders' \in Seq(OrderRows)
       /\ SameOrders(orders, bOrders')
       /\ WaitingIsOpen(M, bOrders', DOMAIN bOrders' \ todo')
  BY <1>1, <1>3, <1>20, <1>25, <1>27, DoneRows
<1>29. LedgerTypeOK'
  <2>1. batch' \in SUBSET FillRows
    BY <1>2, <1>8, <1>20 DEF LedgerTypeOK
  <2> QED BY <1>2, <1>21, <1>23, <1>24, <1>28, <2>1 DEF LedgerTypeOK
<1>30. Durable'
  BY <1>1, <1>2, <1>21 DEF Durable, NeverRejected, OneRebalanceAtATime
<1>31. bEvents \subseteq DueEvents(M, LastDay)
  BY <1>1, <1>3, <1>6, <1>8, <1>16, <1>17, EventsKept
<1>32. Filling'
  <2>1. IsFiniteSet(batch')
    BY <1>2, <1>20, FS_AddElement DEF Filling
  <2>2. NoneOverfilled(M, orders)
    BY <1>2, <1>3, <1>25, <1>26 DEF Filling, NoneOverfilled
  <2>3. \A j \in todo' : execDay' <= FillDay(j)'
    BY <1>2, <1>21, FillDaySame DEF Filling
  <2>4. ASSUME NEW g \in batch'
        PROVE  /\ g.order \notin todo' /\ orders[g.order].decision < g.date
               /\ committed <= g.date /\ g.date <= execDay
    <3>1. CASE g \in batch
      BY <1>2, <1>21, <3>1 DEF Filling
    <3>2. CASE g = f
      BY <1>3, <1>6, <1>8, <1>21, <3>2
    <3> QED BY <1>20, <2>4, <3>1, <3>2
  <2>5. /\ committed' = CommittedThrough' /\ execDay' <= cutoff' /\ committed' <= cutoff'
        /\ todo' \subseteq Pending(orders') /\ events' \subseteq bEvents'
        /\ \A e \in bEvents' : e.date <= committed' \/ e.date <= execDay'
    BY <1>2, <1>21, <1>22 DEF Filling
  <2> QED BY <1>6, <1>17, <1>21, <1>22, <1>23, <1>24, <1>28, <1>31,
             <2>1, <2>2, <2>3, <2>4, <2>5 DEF Filling
<1> QED BY <1>1, <1>21, <1>29, <1>30, <1>32 DEF LedgerInv

\* A sale is of what is held, and of nothing when nothing is.
LEMMA SellInv ==
  ASSUME LedgerInv, NEW i, Sell(i)
  PROVE  LedgerInv'
<1>1. pc = "filling" /\ i \in todo /\ Turn(i) /\ Executes(i) /\ orders[i].side = "SELL"
  BY DEF Sell, Executes, Turn
<1>2. PICK a, b, c : a = Remaining(i) /\ b = held[orders[i].ticker] /\ c = Limit(i)
  OBVIOUS
<1>3. orders[i] \in OrderRows /\ Filled(fills, i) \in Nat
  BY <1>1, LedgerTypes, FilledType
<1>4. a \in Int /\ b \in Int /\ c \in Nat
  <2>1. orders[i].qty \in Nat /\ orders[i].ticker \in Tickers
    BY <1>3 DEF OrderRows
  <2>3. a \in Int
    BY <1>2, <1>3, <2>1 DEF Remaining
  <2>4. b \in Int
    BY <1>2, <2>1 DEF LedgerInv, LedgerTypeOK
  <2>2. execDay \in Days
    BY <1>1, FillDayIs DEF Executes
  <2> QED BY <1>2, <2>1, <2>2, <2>3, <2>4, LedgerAssumption DEF Limit
<1>5. PICK m : m = Min({a, b, c})
  OBVIOUS
<1>6. m \in {a, b, c} /\ m <= a /\ m <= b
  <2>1. \E x \in {a, b, c} : \A y \in {a, b, c} : x <= y
    BY <1>4
  <2> QED BY <1>5, <2>1 DEF Min
<1>7. SellableNow(i) = m
  BY <1>2, <1>5 DEF SellableNow
<1>8. CASE m <= 0
  BY <1>1, <1>7, <1>8, RejectInv DEF Sell
<1>9. CASE ~(m <= 0)
  <2>1. m \in Nat /\ m > 0
    BY <1>4, <1>6, <1>9
  <2>2. Execute(i, m)
    BY <1>7, <1>9 DEF Sell
  <2> QED BY <1>1, <1>2, <1>6, <2>1, <2>2, ExecuteInv
<1> QED BY <1>8, <1>9

\* A purchase is of what the cash of its session pays for with the fee.
LEMMA BuyInv ==
  ASSUME LedgerInv, NEW i, Buy(i)
  PROVE  LedgerInv'
<1>1. pc = "filling" /\ i \in todo /\ Turn(i) /\ Executes(i) /\ orders[i].side = "BUY"
  BY DEF Buy, Executes, Turn
<1>2. PICK a, c : a = Remaining(i) /\ c = Limit(i)
  OBVIOUS
<1>3. orders[i] \in OrderRows /\ Filled(fills, i) \in Nat
  BY <1>1, LedgerTypes, FilledType
<1>4. a \in Int /\ c \in Nat
  <2>1. a \in Int
    BY <1>2, <1>3 DEF OrderRows, Remaining
  <2>2. execDay \in Days
    BY <1>1, FillDayIs DEF Executes
  <2> QED BY <1>2, <1>3, <2>1, <2>2, LedgerAssumption DEF OrderRows, Limit
<1>5. PICK m : m = Min({a, c})
  OBVIOUS
<1>6. m \in {a, c} /\ m <= a /\ m <= c
  <2>1. \E x \in {a, c} : \A y \in {a, c} : x <= y
    BY <1>4
  <2> QED BY <1>5, <2>1 DEF Min
<1>7. PICK S : S = {0} \cup {q \in 1..m : q * Price(i) + Fee <= cash}
  OBVIOUS
<1>8. S \in SUBSET (0..c) /\ S # {} /\ c \in Nat
  BY <1>4, <1>6, <1>7
<1>9. PICK n \in S : \A q \in S : q <= n
  BY <1>8, GreatestNatural
<1>10. Max(S) \in S
  <2>1. \A q \in S : n >= q
    BY <1>8, <1>9
  <2> QED BY <2>1 DEF Max
<1>11. BuyableNow(i) = Max(S)
  BY <1>2, <1>5, <1>7 DEF BuyableNow
<1>12. PICK q : q = Max(S)
  OBVIOUS
<1>13. CASE q = 0
  BY <1>1, <1>11, <1>12, <1>13, RejectInv DEF Buy
<1>14. CASE q # 0
  <2>1. q \in 1..m /\ q * Price(i) + Fee <= cash
    BY <1>7, <1>10, <1>12, <1>14
  <2>2. q \in Nat /\ q > 0 /\ q <= a
    BY <1>4, <1>6, <2>1
  <2>3. Execute(i, q)
    BY <1>11, <1>12, <1>14 DEF Buy
  <2> QED BY <1>1, <1>2, <2>1, <2>2, <2>3, ExecuteInv
<1> QED BY <1>13, <1>14

-----------------------------------------------------------------------------
(* The writes of the run *)

\* What was filled in memory becomes durable: it is dated after everything
\* committed, so no dividend already due changes.
LEMMA SaveFillsInv ==
  ASSUME LedgerInv, SaveFills
  PROVE  LedgerInv'
<1>1. /\ pc = "filling" /\ pc' = "filled" /\ todo = {} /\ fills' = Ledger
      /\ UNCHANGED <<events, orders, positions, curve, reports, account, cutoff,
                     committed, todo, batch, bOrders, bEvents, execDay, cash, held>>
  BY DEF SaveFills, Goto, Ledger, locals
<1>2. LedgerTypeOK /\ Durable /\ Filling
  BY <1>1 DEF LedgerInv
<1>3. /\ fills \in SUBSET FillRows /\ Ledger \in SUBSET FillRows
      /\ IsFiniteSet(Ledger) /\ SoundLedger(Ledger, orders) /\ fills \subseteq Ledger
  BY <1>1, LedgerTypes DEF Ledger
<1>4. LedgerTypeOK'
  BY <1>1, <1>2, <1>3 DEF LedgerTypeOK, Phases
<1>5. DueEvents(Ledger, account.mark) = DueEvents(fills, account.mark)
  <2>1. account.mark \in 0..LastDay /\ account.mark <= committed
    BY <1>2, CommittedIs DEF Filling
  <2>2. \A f \in Ledger \ fills : committed <= f.date /\ f.date \in Nat
    BY <1>1, <1>2, LedgerDates DEF Filling, Ledger
  <2>3. committed \in Nat
    BY <1>1, LedgerDates
  <2>4. \A f \in Ledger \ fills : account.mark <= f.date
    BY <2>1, <2>2, <2>3
  <2> QED BY <1>3, <2>1, <2>4, DueKept
<1>6. Durable'
  <2>1. /\ IsFiniteSet(fills') /\ SoundLedger(fills', orders')
        /\ NoneOverfilled(fills', orders')
    BY <1>1, <1>2, <1>3 DEF Filling
  <2>2. /\ events' \subseteq DueEvents(fills', LastDay)
        /\ DueEvents(fills', account'.mark) \subseteq events'
    BY <1>1, <1>2, <1>5 DEF Durable, Filling
  <2>3. OneRebalanceAtATime' /\ NeverRejected' /\ cutoff' \in Days
    BY <1>1, <1>2 DEF Durable, OneRebalanceAtATime, NeverRejected
  <2>4. batch' \subseteq fills'
    BY <1>1 DEF Ledger
  <2> QED BY <1>1, <2>1, <2>2, <2>3, <2>4 DEF Durable
<1>7. Saving'
  <2>1. WaitingIsOpen(fills', bOrders', DOMAIN bOrders')
    BY <1>1, <1>2 DEF Filling, WaitingIsOpen
  <2> QED BY <1>1, <1>2, <2>1 DEF Filling, Saving
<1>8. \A f \in fills' : f.date <= cutoff'
  <2>1. /\ \A f \in Ledger : f.date \in Nat /\ (f.date <= committed \/ f.date <= execDay)
        /\ committed \in Nat /\ execDay \in Nat /\ cutoff \in Nat
    BY <1>1, LedgerDates
  <2>2. committed <= cutoff /\ execDay <= cutoff
    BY <1>2 DEF Filling
  <2> QED BY <1>1, <2>1, <2>2
<1> QED BY <1>1, <1>4, <1>6, <1>7, <1>8 DEF LedgerInv

\* The dividends accrued in memory are as they are due in the saved ledger.
LEMMA SaveEventsInv ==
  ASSUME LedgerInv, SaveEvents
  PROVE  LedgerInv'
<1>1. /\ pc = "filled" /\ pc' = "posted" /\ events' = bEvents
      /\ UNCHANGED <<fills, orders, positions, curve, reports, account, cutoff,
                     committed, todo, batch, bOrders, bEvents, execDay, cash, held>>
  BY DEF SaveEvents, Goto, locals
<1>2. LedgerTypeOK /\ Durable /\ Saving /\ \A f \in fills : f.date <= cutoff
  BY <1>1 DEF LedgerInv
<1>3. events \subseteq bEvents /\ bEvents \subseteq DueEvents(fills, LastDay)
  BY <1>1, <1>2 DEF Saving
<1>4. LedgerTypeOK'
  BY <1>1, <1>2 DEF LedgerTypeOK, Phases
<1>5. Durable'
  BY <1>1, <1>2, <1>3 DEF Durable, OneRebalanceAtATime, NeverRejected
<1>6. Saving'
  BY <1>1, <1>2 DEF Saving
<1> QED BY <1>1, <1>2, <1>4, <1>5, <1>6 DEF LedgerInv

\* The saved rows name the same orders, and none that is filled waits.
LEMMA SaveOrdersInv ==
  ASSUME LedgerInv, SaveOrders
  PROVE  LedgerInv'
<1>1. /\ pc = "posted" /\ pc' = "accruing" /\ orders' = bOrders
      /\ UNCHANGED <<fills, events, positions, curve, reports, account, cutoff,
                     committed, todo, batch, bOrders, bEvents, execDay, cash, held>>
  BY DEF SaveOrders, Goto, locals
<1>2. /\ LedgerTypeOK /\ Durable /\ Saving /\ \A f \in fills : f.date <= cutoff
  BY <1>1 DEF LedgerInv
<1>3. SameOrders(orders, bOrders) /\ WaitingIsOpen(fills, bOrders, DOMAIN bOrders)
  BY <1>2 DEF Saving
<1>4. LedgerTypeOK'
  BY <1>1, <1>2 DEF LedgerTypeOK, Phases
<1>5. Durable'
  <2>1. SoundLedger(fills, bOrders) /\ NoneOverfilled(fills, bOrders)
    BY <1>2, <1>3 DEF Durable, SoundLedger, NoneOverfilled, SameOrders
  <2>2. OneRebalanceAtATime'
    BY <1>1, <1>2, <1>3 DEF Durable, OneRebalanceAtATime, Pending, SameOrders
  <2> QED BY <1>1, <1>2, <2>1, <2>2 DEF Durable, NeverRejected
<1>6. Valuing'
  BY <1>1, <1>3 DEF Valuing
<1> QED BY <1>1, <1>2, <1>4, <1>5, <1>6 DEF LedgerInv

\* After the accrual every dividend due by the session is posted.
LEMMA AccrueInv ==
  ASSUME LedgerInv, AccrueDividends
  PROVE  LedgerInv'
<1>1. pc = "accruing"
  BY DEF AccrueDividends, Goto
<1>2. LedgerTypeOK /\ Durable /\ Valuing /\ \A f \in fills : f.date <= cutoff
  BY <1>1 DEF LedgerInv
<1>3. cutoff \in 0..LastDay /\ events \in SUBSET DueEvents(fills, LastDay)
  BY <1>2 DEF LedgerTypeOK, Durable
<1>4. PICK es : es = Accrue(fills, events, cutoff)
  OBVIOUS
<1>5. /\ ~Restated(fills, events, cutoff)
      /\ es = events \cup DueEvents(fills, cutoff)
      /\ es \in SUBSET DueEvents(fills, LastDay)
  BY <1>3, <1>4, AccrueIs
<1>6. /\ pc' = "accrued" /\ events' = es
      /\ UNCHANGED <<fills, orders, positions, curve, reports, account, cutoff,
                     committed, todo, batch, bOrders, bEvents, execDay, cash, held>>
  BY <1>4, <1>5 DEF AccrueDividends, Goto, locals
<1>7. LedgerTypeOK'
  <2>0. LastDay \in 0..LastDay
    BY LedgerAssumption
  <2>1. DueEvents(fills, LastDay) \in SUBSET EventRows
    BY <1>2, <2>0, DueType DEF LedgerTypeOK, Durable
  <2> QED BY <1>2, <1>5, <1>6, <2>1 DEF LedgerTypeOK, Phases
<1>8. Durable'
  BY <1>1, <1>2, <1>5, <1>6 DEF Durable, OneRebalanceAtATime, NeverRejected
<1>9. Valuing'
  BY <1>2, <1>5, <1>6 DEF Valuing
<1> QED BY <1>2, <1>6, <1>7, <1>8, <1>9 DEF LedgerInv

\* The ledger replays, so the positions are written from the replay.
LEMMA MarkPositionsInv ==
  ASSUME LedgerInv, MarkPositions
  PROVE  LedgerInv'
<1>1. pc = "accrued"
  BY DEF MarkPositions, Goto
<1>2. LedgerTypeOK /\ Durable /\ Valuing /\ \A f \in fills : f.date <= cutoff
  BY <1>1 DEF LedgerInv
<1>3. /\ fills \in SUBSET FillRows /\ IsFiniteSet(fills) /\ SoundLedger(fills, orders)
      /\ cutoff \in 0..LastDay /\ events \in SUBSET DueEvents(fills, LastDay)
      /\ DueEvents(fills, cutoff) \subseteq events
  BY <1>1, <1>2 DEF LedgerTypeOK, Durable, Valuing
<1>4. ~Oversells(fills) /\ ~Overspends(fills, events)
  <2>1. ~Oversells(fills)
    BY <1>3 DEF SoundLedger
  <2>2. ~Overspends(fills, events)
    BY <1>2, <1>3, SoundIsFunded
  <2> QED BY <2>1, <2>2
<1>5. /\ pc' = "positioned" /\ cash' = CashIn(fills, events)
      /\ held' = HeldIn(fills) /\ positions' = HeldIn(fills)
      /\ UNCHANGED <<fills, events, orders, curve, reports, account, cutoff,
                     committed, todo, batch, bOrders, bEvents, execDay>>
  BY <1>4 DEF MarkPositions, Goto
<1>6. CashIn(fills, events) \in Int /\ HeldIn(fills) \in [Tickers -> Int]
  <2>1. events \in SUBSET EventRows /\ IsFiniteSet(events)
    <3>1. LastDay \in 0..LastDay
      BY LedgerAssumption
    <3>2. IsFiniteSet(DueEvents(fills, LastDay))
      BY <1>3, <3>1, DueType
    <3> QED BY <1>2, <1>3, <3>2, FS_Subset DEF LedgerTypeOK
  <2> QED BY <1>3, <2>1, CashParts, SharesType DEF HeldIn
<1>7. LedgerTypeOK'
  BY <1>2, <1>5, <1>6 DEF LedgerTypeOK, Phases
<1>8. Durable'
  BY <1>1, <1>2, <1>5 DEF Durable, OneRebalanceAtATime, NeverRejected
<1>9. Valuing'
  BY <1>2, <1>3, <1>5 DEF Valuing
<1> QED BY <1>2, <1>5, <1>7, <1>8, <1>9 DEF LedgerInv

\* The equity row is the replay.
LEMMA MarkEquityInv ==
  ASSUME LedgerInv, MarkEquity
  PROVE  LedgerInv'
<1>1. /\ pc = "positioned" /\ pc' = "marked"
      /\ curve' = [curve EXCEPT ![cutoff] = [held |-> held, cash |-> cash]]
      /\ UNCHANGED <<fills, events, orders, positions, reports, account, cutoff,
                     committed, todo, batch, bOrders, bEvents, execDay, cash, held>>
  BY DEF MarkEquity, Goto, locals, Valuation
<1>2. LedgerTypeOK /\ Durable /\ Valuing /\ \A f \in fills : f.date <= cutoff
  BY <1>1 DEF LedgerInv
<1>3. PICK v : v = [held |-> held, cash |-> cash]
  OBVIOUS
<1>4. v \in Valuations /\ cutoff \in Days /\ curve \in [Days -> Valuations]
  BY <1>1, <1>2, <1>3 DEF LedgerTypeOK, Durable, Valuations
<1>5. curve' \in [Days -> Valuations] /\ curve'[cutoff] = v
  BY <1>1, <1>3, <1>4
<1>6. LedgerTypeOK'
  BY <1>1, <1>2, <1>5 DEF LedgerTypeOK, Phases
<1>7. Durable'
  BY <1>1, <1>2 DEF Durable, OneRebalanceAtATime, NeverRejected
<1>8. Valuing'
  BY <1>1, <1>2, <1>3, <1>5 DEF Valuing
<1> QED BY <1>1, <1>2, <1>6, <1>7, <1>8 DEF LedgerInv

\* Nothing is written without a rebalance.
LEMMA KeepOrdersInv ==
  ASSUME LedgerInv, KeepOrders
  PROVE  LedgerInv'
<1>1. /\ pc = "marked" /\ pc' = "decided"
      /\ UNCHANGED <<fills, events, orders, positions, curve, reports, account,
                     cutoff, committed, todo, batch, bOrders, bEvents, execDay,
                     cash, held>>
  BY DEF KeepOrders, Goto, locals, tables
<1>2. LedgerTypeOK /\ Durable /\ Valuing /\ \A f \in fills : f.date <= cutoff
  BY <1>1 DEF LedgerInv
<1>3. LedgerTypeOK'
  BY <1>1, <1>2 DEF LedgerTypeOK, Phases
<1>4. Durable'
  BY <1>1, <1>2 DEF Durable, OneRebalanceAtATime, NeverRejected
<1>5. Valuing'
  BY <1>1, <1>2 DEF Valuing
<1> QED BY <1>1, <1>2, <1>3, <1>4, <1>5 DEF LedgerInv

\* A rebalance appends orders of one decision, each for something.
LEMMA NewOrders ==
  ASSUME LedgerInv, cutoff \in Days, NEW target \in Targets,
         NEW s \in InOrder({t \in Tickers : target[t] # held[t]}), NEW w,
         w = [k \in DOMAIN s |-> OrderFor(s[k], target)]
  PROVE  /\ w \in Seq(OrderRows)
         /\ \A k \in DOMAIN w : w[k].decision = cutoff /\ w[k].qty > 0
<1> DEFINE S == {t \in Tickers : target[t] # held[t]}
<1>1. /\ s \in [1..Cardinality(S) -> S] /\ Cardinality(S) \in Nat
  <2>1. IsFiniteSet(Tickers)
    BY FS_Interval, LedgerAssumption DEF Tickers
  <2>2. IsFiniteSet(S)
    BY <2>1, FS_Subset
  <2> QED BY <2>2, FS_CardinalityType DEF InOrder
<1>2. /\ \A t \in Tickers : target[t] \in Nat /\ held[t] \in Int
  BY LedgerAssumption DEF LedgerInv, LedgerTypeOK
<1>3. ASSUME NEW t \in S
      PROVE  /\ OrderFor(t, target) \in OrderRows
             /\ OrderFor(t, target).decision = cutoff
             /\ OrderFor(t, target).qty > 0
  <2>1. PICK a, b : a = target[t] /\ b = held[t]
    OBVIOUS
  <2>2. a \in Nat /\ b \in Int /\ a # b
    BY <1>2, <2>1
  <2>3. PICK sd, q : /\ sd = IF a > b THEN "BUY" ELSE "SELL"
                     /\ q = IF a > b THEN a - b ELSE b - a
    OBVIOUS
  <2>4. sd \in Sides /\ q \in Nat /\ q > 0
    BY <2>2, <2>3 DEF Sides
  <2>5. OrderFor(t, target) = [decision |-> cutoff, ticker |-> t, side |-> sd,
                               qty |-> q, status |-> "PENDING", filled |-> 0]
    BY <2>1, <2>3 DEF OrderFor
  <2> QED BY <2>4, <2>5 DEF OrderRows
<1>4. \A k \in DOMAIN s : s[k] \in S
  BY <1>1
<1>5. w \in [1..Cardinality(S) -> OrderRows]
  BY <1>1, <1>3, <1>4
<1>6. w \in Seq(OrderRows)
  BY <1>1, <1>5, SeqDef
<1> QED BY <1>1, <1>3, <1>4, <1>6

\* A rebalance finds no order waiting, so the new ones stand alone.
LEMMA CreateOrdersInv ==
  ASSUME LedgerInv, NEW target \in Targets, CreateOrders(target)
  PROVE  LedgerInv'
<1>1. /\ pc = "marked" /\ pc' = "decided" /\ MayDecide
      /\ UNCHANGED <<fills, events, positions, curve, reports, account,
                     cutoff, committed, todo, batch, bOrders, bEvents, execDay,
                     cash, held>>
  BY DEF CreateOrders, Goto, locals
<1>2. LedgerTypeOK /\ Durable /\ Valuing /\ \A f \in fills : f.date <= cutoff
  BY <1>1 DEF LedgerInv
<1>3. PICK s \in InOrder({t \in Tickers : target[t] # held[t]}) :
        orders' = orders \o [k \in DOMAIN s |-> OrderFor(s[k], target)]
  BY DEF CreateOrders
<1>4. PICK w : w = [k \in DOMAIN s |-> OrderFor(s[k], target)]
  OBVIOUS
<1>5. cutoff \in Days
  BY <1>1, <1>2 DEF Durable
<1>6. /\ w \in Seq(OrderRows) /\ orders \in Seq(OrderRows) /\ orders' = orders \o w
      /\ \A k \in DOMAIN w : w[k].decision = cutoff /\ w[k].qty > 0
  BY <1>2, <1>3, <1>4, <1>5, NewOrders DEF LedgerTypeOK
<1>7. PICK n, m : n = Len(orders) /\ m = Len(w)
  OBVIOUS
<1>8. /\ n \in Nat /\ m \in Nat /\ DOMAIN orders = 1..n /\ DOMAIN w = 1..m
      /\ orders' \in Seq(OrderRows) /\ DOMAIN orders' = 1..(n + m)
      /\ \A i \in 1..n : orders'[i] = orders[i]
      /\ \A i \in (1..(n + m)) \ (1..n) : orders'[i] = w[i - n] /\ i - n \in 1..m
  <2>1. /\ n \in Nat /\ m \in Nat /\ DOMAIN orders = 1..n /\ DOMAIN w = 1..m
    BY <1>6, <1>7
  <2>2. orders' \in Seq(OrderRows) /\ Len(orders') = n + m
    BY <1>6, <1>7
  <2>3. DOMAIN orders' = 1..(n + m)
    BY <2>2
  <2>4. \A i \in 1..(n + m) : orders'[i] = IF i <= n THEN orders[i] ELSE w[i - n]
    BY <1>6, <1>7, <2>1
  <2>5. \A i \in (1..(n + m)) \ (1..n) : i > n /\ ~(i <= n) /\ i - n \in 1..m
    BY <2>1
  <2> QED BY <2>1, <2>2, <2>3, <2>4, <2>5
<1>9. \A i \in DOMAIN orders' \ DOMAIN orders :
         /\ orders'[i].decision = cutoff /\ orders'[i].qty > 0
         /\ orders'[i].qty \in Nat
         /\ Filled(fills, i) = 0
  <2>1. \A f \in fills : f.order \in DOMAIN orders
    BY <1>2 DEF Durable, SoundLedger
  <2>2. ASSUME NEW i \in DOMAIN orders' \ DOMAIN orders
        PROVE  /\ orders'[i].decision = cutoff /\ orders'[i].qty > 0
               /\ orders'[i].qty \in Nat /\ Filled(fills, i) = 0
    <3>1. Filled(fills, i) = 0
      BY <2>1, FilledNone
    <3>2. orders'[i] = w[i - n] /\ i - n \in DOMAIN w
      BY <1>8
    <3>3. w[i - n] \in OrderRows
      BY <1>6, <3>2
    <3>4. w[i - n].qty \in Nat
      BY <3>3 DEF OrderRows
    <3> QED BY <1>6, <3>1, <3>2, <3>4
  <2> QED BY <2>2
<1>10. \A i \in DOMAIN orders : i \in DOMAIN orders' /\ orders'[i] = orders[i]
  BY <1>8
<1>11. LedgerTypeOK'
  BY <1>1, <1>2, <1>8 DEF LedgerTypeOK, Phases
<1>12. Durable'
  <2>1. SoundLedger(fills, orders')
    BY <1>2, <1>10 DEF Durable, SoundLedger
  <2>2. NoneOverfilled(fills, orders')
    <3>1. ASSUME NEW i \in DOMAIN orders' PROVE Filled(fills, i) <= orders'[i].qty
      <4>1. CASE i \in DOMAIN orders
        BY <1>2, <1>10, <4>1 DEF Durable, NoneOverfilled
      <4>2. CASE i \notin DOMAIN orders
        BY <1>9, <4>2
      <4> QED BY <4>1, <4>2
    <3> QED BY <3>1 DEF NoneOverfilled
  <2>3. \A i \in Pending(orders') : orders'[i].decision = cutoff
    <3>1. \A i \in Pending(orders') : i \in DOMAIN orders' \ DOMAIN orders
      BY <1>1, <1>10 DEF MayDecide, Pending
    <3> QED BY <1>9, <3>1
  <2>4. OneRebalanceAtATime'
    BY <2>3 DEF OneRebalanceAtATime
  <2> QED BY <1>1, <1>2, <2>1, <2>2, <2>4 DEF Durable, NeverRejected
<1>13. Valuing'
  <2>1. WaitingIsOpen(fills, orders', DOMAIN orders')
    <3>1. ASSUME NEW i \in DOMAIN orders', orders'[i].status = "PENDING"
          PROVE  Filled(fills, i) < orders'[i].qty
      <4>1. CASE i \in DOMAIN orders
        BY <1>2, <1>10, <3>1, <4>1 DEF Valuing, WaitingIsOpen
      <4>2. CASE i \notin DOMAIN orders
        BY <1>9, <4>2
      <4> QED BY <4>1, <4>2
    <3> QED BY <3>1 DEF WaitingIsOpen
  <2> QED BY <1>1, <1>2, <2>1 DEF Valuing
<1> QED BY <1>1, <1>2, <1>11, <1>12, <1>13 DEF LedgerInv

\* The reports are the replay.
LEMMA SaveReportsInv ==
  ASSUME LedgerInv, SaveReports
  PROVE  LedgerInv'
<1>1. /\ pc = "decided" /\ pc' = "reported"
      /\ reports' = [reports EXCEPT ![cutoff] = [held |-> held, cash |-> cash]]
      /\ UNCHANGED <<fills, events, orders, positions, curve, account, cutoff,
                     committed, todo, batch, bOrders, bEvents, execDay, cash, held>>
  BY DEF SaveReports, Goto, locals, Valuation
<1>2. LedgerTypeOK /\ Durable /\ Valuing /\ \A f \in fills : f.date <= cutoff
  BY <1>1 DEF LedgerInv
<1>3. PICK v : v = [held |-> held, cash |-> cash]
  OBVIOUS
<1>4. v \in Valuations /\ cutoff \in Days /\ reports \in [Days -> Valuations]
  BY <1>1, <1>2, <1>3 DEF LedgerTypeOK, Durable, Valuations
<1>5. reports' \in [Days -> Valuations] /\ reports'[cutoff] = v
  BY <1>1, <1>3, <1>4
<1>6. LedgerTypeOK'
  BY <1>1, <1>2, <1>5 DEF LedgerTypeOK, Phases
<1>7. Durable'
  BY <1>1, <1>2 DEF Durable, OneRebalanceAtATime, NeverRejected
<1>8. Valuing'
  BY <1>1, <1>2, <1>3, <1>5 DEF Valuing
<1> QED BY <1>1, <1>2, <1>6, <1>7, <1>8 DEF LedgerInv

-----------------------------------------------------------------------------
(* Every reachable state *)

\* An account begins with nothing to replay.
LEMMA InitInv ==
  ASSUME LedgerInit
  PROVE  LedgerInv
<1>1. LedgerTypeOK
  <2>1. NoRow \in Valuations
    BY DEF NoRow, Valuations
  <2>2. /\ curve \in [Days -> Valuations] /\ reports \in [Days -> Valuations]
    BY <2>1 DEF LedgerInit
  <2>3. /\ positions = Nobody /\ held = Nobody /\ orders = <<>> /\ bOrders = <<>>
        /\ fills = {} /\ events = {} /\ batch = {} /\ bEvents = {} /\ todo = {}
        /\ cutoff = 0 /\ committed = 0 /\ execDay = 0 /\ cash = 0 /\ pc = "idle"
    BY DEF LedgerInit
  <2>4. account \in [mark : 0..LastDay, cash : Int,
                     error : {"none", "too early", "oversells", "restated",
                              "unfunded"}]
    BY LedgerAssumption DEF LedgerInit
  <2> QED BY <2>2, <2>3, <2>4, IdleTypes DEF LedgerTypeOK, Phases
<1>2. Durable
  <2>1. fills = {} /\ orders = <<>> /\ batch = {} /\ pc = "idle" /\ events = {}
        /\ account.mark = 0 /\ account.error = "none"
    BY DEF LedgerInit
  <2>2. IsFiniteSet(fills)
    BY <2>1, FS_EmptySet
  <2>3. SoundLedger(fills, orders)
    BY <2>1 DEF SoundLedger, Oversells
  <2>4. DOMAIN orders = {}
    BY <2>1
  <2>5. NoneOverfilled(fills, orders) /\ OneRebalanceAtATime
    BY <2>4 DEF NoneOverfilled, OneRebalanceAtATime, Pending
  <2>6. DueEvents(fills, 0) = {}
    <3>1. 0 \in 0..LastDay /\ \A d : d \notin 1..0
      BY LedgerAssumption
    <3> QED BY <3>1, DueIs
  <2> QED BY <2>1, <2>2, <2>3, <2>5, <2>6 DEF Durable, NeverRejected
<1> QED BY <1>1, <1>2 DEF LedgerInv, LedgerInit

\* Every step of the run preserves the invariant.
LEMMA NextInv ==
  ASSUME LedgerInv, [LedgerNext]_ledgerVars
  PROVE  LedgerInv'
<1>1. ASSUME NEW i \in todo, FillOne(i) PROVE LedgerInv'
  <2>1. CASE AlreadyFilled(i)
    BY <2>1, AlreadyFilledInv
  <2>2. CASE NoOpen(i)
    BY <2>2, KeptInv DEF NoOpen
  <2>3. CASE NextSession(i)
    BY <2>3, NextSessionInv
  <2>4. CASE Illiquid(i)
    BY <2>4, KeptInv DEF Illiquid, Executes
  <2>5. CASE Sell(i)
    BY <2>5, SellInv
  <2>6. CASE Buy(i)
    BY <2>6, BuyInv
  <2> QED BY <1>1, <2>1, <2>2, <2>3, <2>4, <2>5, <2>6 DEF FillOne
<1>2. ASSUME SaveNext PROVE LedgerInv'
  BY <1>2, SaveFillsInv, SaveEventsInv, SaveOrdersInv, AccrueInv, MarkPositionsInv,
     MarkEquityInv, KeepOrdersInv, CreateOrdersInv, SaveReportsInv, CommitInv
  DEF SaveNext
<1>3. ASSUME UNCHANGED ledgerVars PROVE LedgerInv'
  <2>1. UNCHANGED <<fills, events, orders, positions, curve, reports, account, pc,
                    cutoff, committed, todo, batch, bOrders, bEvents, execDay,
                    cash, held>>
    BY <1>3 DEF ledgerVars, tables, locals
  <2>2. LedgerTypeOK'
    BY <2>1 DEF LedgerInv, LedgerTypeOK
  <2>3. Durable'
    BY <2>1 DEF LedgerInv, Durable, OneRebalanceAtATime, NeverRejected
  <2>4. Ledger' = Ledger /\ CommittedThrough' = CommittedThrough
    BY <2>1 DEF Ledger, CommittedThrough
  <2>5. pc' = "filling" => Filling'
    BY <2>1, <2>4, FillDaySame DEF LedgerInv, Filling
  <2>6. pc' \in {"filled", "posted"} => Saving'
    BY <2>1 DEF LedgerInv, Saving
  <2>7. pc' \notin {"idle", "filling", "filled", "posted"} => Valuing'
    BY <2>1 DEF LedgerInv, Valuing
  <2> QED BY <2>1, <2>2, <2>3, <2>5, <2>6, <2>7 DEF LedgerInv
<1> QED BY <1>1, <1>2, <1>3, BeginInv, CrashInv DEF LedgerNext

\* The invariant holds in every reachable state, for any market, any cash
\* and any targets (runner.py, _run_account_once_locked).
THEOREM LedgerInvariant == LedgerSpec => []LedgerInv
BY InitInv, NextInv, PTL DEF LedgerSpec

\* The tables and the locals always have their types.
THEOREM LedgerTyping == LedgerSpec => []LedgerTypeOK
<1>1. LedgerInv => LedgerTypeOK
  BY DEF LedgerInv
<1> QED BY <1>1, LedgerInvariant, PTL

\* However often a run is killed and started again, an order never fills
\* more than it asked for.
THEOREM FillsOnce == LedgerSpec => []NoOverfill
<1>1. LedgerInv => NoOverfill
  <2> SUFFICES ASSUME LedgerInv PROVE NoOverfill
    OBVIOUS
  <2>1. CASE pc = "filling"
    BY <2>1 DEF LedgerInv, Filling, Ledger, NoneOverfilled, NoOverfill
  <2>2. CASE pc # "filling"
    <3>1. fills \cup batch = fills
      BY <2>2 DEF LedgerInv, Durable
    <3> QED BY <3>1 DEF LedgerInv, Durable, NoneOverfilled, NoOverfill
  <2> QED BY <2>1, <2>2
<1> QED BY <1>1, LedgerInvariant, PTL

\* No run is turned away by the ledger that earlier runs left.
THEOREM RunsAreAccepted == LedgerSpec => []NeverRejected
<1>1. LedgerInv => NeverRejected
  BY DEF LedgerInv, Durable
<1> QED BY <1>1, LedgerInvariant, PTL

\* Every prefix of the durable ledger is covered by shares and by cash, also
\* while dividends it has earned are not posted yet.
THEOREM LedgerIsSolvent == LedgerSpec => []LedgerSolvent
<1>1. LedgerInv => LedgerSolvent
  <2> SUFFICES ASSUME LedgerInv PROVE LedgerSolvent
    OBVIOUS
  <2>0. LastDay \in 0..LastDay
    BY LedgerAssumption
  <2>1. /\ fills \in SUBSET FillRows /\ IsFiniteSet(fills) /\ SoundLedger(fills, orders)
        /\ events \in SUBSET DueEvents(fills, LastDay) /\ LastDay \in 0..LastDay
    BY <2>0 DEF LedgerInv, LedgerTypeOK, Durable
  <2>2. \A f \in fills : f.date <= LastDay
    BY <2>1, FillFields
  <2>3. PICK es : es = Accrue(fills, events, LastDay)
    OBVIOUS
  <2>4. es \in SUBSET DueEvents(fills, LastDay) /\ DueEvents(fills, LastDay) \subseteq es
    BY <2>1, <2>3, AccrueIs
  <2>5. ~Overspends(fills, es)
    BY <2>1, <2>2, <2>4, SoundIsFunded
  <2> QED BY <2>1, <2>3, <2>5 DEF LedgerSolvent, SoundLedger
<1> QED BY <1>1, LedgerInvariant, PTL

\* A posted dividend is the one its ticker earned, and none that was due by
\* the committed mark is missing.
THEOREM DividendsAreExact == LedgerSpec => []DividendsExact
<1>1. LedgerInv => DividendsExact
  <2> SUFFICES ASSUME LedgerInv PROVE DividendsExact
    OBVIOUS
  <2>1. /\ events \subseteq DueEvents(fills, LastDay) /\ LastDay \in 0..LastDay
        /\ DueEvents(fills, account.mark) \subseteq events
    BY LedgerAssumption DEF LedgerInv, Durable
  <2>2. ASSUME NEW e \in events PROVE e.qty = Entitled(fills, e.ticker, e.date)
    <3>1. PICK t \in Tickers, d \in 1..LastDay :
            e = [ticker |-> t, date |-> d, qty |-> Entitled(fills, t, d)]
      BY <2>1, DueIs
    <3> QED BY <3>1
  <2> QED BY <2>1, <2>2 DEF DividendsExact
<1> QED BY <1>1, LedgerInvariant, PTL

\* All the orders that wait for an open come from one rebalance.
THEOREM OneRebalance == LedgerSpec => []OneRebalanceAtATime
<1>1. LedgerInv => OneRebalanceAtATime
  BY DEF LedgerInv, Durable
<1> QED BY <1>1, LedgerInvariant, PTL

-----------------------------------------------------------------------------
(* Every step *)

\* The facts change in three of the writes only, and the mark in the last.
LEMMA FactsKept ==
  ASSUME LedgerNext, ~SaveFills, ~SaveEvents, ~AccrueDividends
  PROVE  fills' = fills /\ events' = events
<1>1. ASSUME NEW d, Begin(d) PROVE fills' = fills /\ events' = events
  BY <1>1 DEF Begin, Fail, tables
<1>2. ASSUME NEW i, FillOne(i) PROVE fills' = fills /\ events' = events
  <2>1. CASE AlreadyFilled(i)
    BY <2>1 DEF AlreadyFilled, Done, tables
  <2>2. CASE NoOpen(i)
    BY <2>2 DEF NoOpen, Done, tables
  <2>3. CASE NextSession(i)
    BY <2>3 DEF NextSession, Fail, tables
  <2>4. CASE Illiquid(i)
    BY <2>4 DEF Illiquid, Done, tables
  <2>5. CASE Sell(i)
    BY <2>5 DEF Sell, Reject, Execute, Done, tables
  <2>6. CASE Buy(i)
    BY <2>6 DEF Buy, Reject, Execute, Done, tables
  <2> QED BY <1>2, <2>1, <2>2, <2>3, <2>4, <2>5, <2>6 DEF FillOne
<1>3. CASE SaveNext
  BY <1>3 DEF SaveNext, SaveOrders, MarkPositions, MarkEquity, KeepOrders,
              CreateOrders, SaveReports, Commit, Fail, tables
<1>4. CASE Crash
  BY <1>4 DEF Crash, tables
<1> QED BY <1>1, <1>2, <1>3, <1>4 DEF LedgerNext

\* Only the commit moves the mark.
LEMMA MarkKept ==
  ASSUME LedgerInv, LedgerNext, ~Commit
  PROVE  account'.mark = account.mark
<1>0. account \in Accounts
  BY DEF LedgerInv, LedgerTypeOK, Accounts
<1>1. ASSUME NEW what, Fail(what) PROVE account'.mark = account.mark
  BY <1>0, <1>1 DEF Fail, Accounts
<1>2. ASSUME NEW d, Begin(d) PROVE account'.mark = account.mark
  BY <1>1, <1>2 DEF Begin, tables
<1>3. ASSUME NEW i, FillOne(i) PROVE account'.mark = account.mark
  <2>1. CASE AlreadyFilled(i)
    BY <2>1 DEF AlreadyFilled, Done, tables
  <2>2. CASE NoOpen(i)
    BY <2>2 DEF NoOpen, Done, tables
  <2>3. CASE NextSession(i)
    BY <1>1, <2>3 DEF NextSession, tables
  <2>4. CASE Illiquid(i)
    BY <2>4 DEF Illiquid, Done, tables
  <2>5. CASE Sell(i)
    BY <2>5 DEF Sell, Reject, Execute, Done, tables
  <2>6. CASE Buy(i)
    BY <2>6 DEF Buy, Reject, Execute, Done, tables
  <2> QED BY <1>3, <2>1, <2>2, <2>3, <2>4, <2>5, <2>6 DEF FillOne
<1>4. CASE SaveNext
  <2>1. CASE AccrueDividends
    BY <1>1, <2>1 DEF AccrueDividends
  <2>2. CASE MarkPositions
    BY <1>1, <2>2 DEF MarkPositions
  <2> QED BY <1>4, <2>1, <2>2 DEF SaveNext, SaveFills, SaveEvents, SaveOrders,
          MarkEquity, KeepOrders, CreateOrders, SaveReports, tables
<1>5. CASE Crash
  BY <1>5 DEF Crash, tables
<1> QED BY <1>2, <1>3, <1>4, <1>5 DEF LedgerNext

\* The ledger is append-only, and a new fill is dated after its decision, not
\* after the session of its run and not before anything already committed.
THEOREM LedgerOnlyGrowsForward == LedgerSpec => LedgerGrowsForward
<1> DEFINE Forward ==
      /\ fills \subseteq fills' /\ events \subseteq events'
      /\ \A f \in fills' \ fills :
           /\ orders[f.order].decision < f.date
           /\ CommittedThrough <= f.date
           /\ f.date <= cutoff
<1>1. ASSUME LedgerInv, [LedgerNext]_ledgerVars
      PROVE  [Forward]_ledgerVars
  <2>1. CASE UNCHANGED ledgerVars
    BY <2>1
  <2>2. CASE SaveFills
    <3>1. pc = "filling" /\ fills' = fills \cup batch /\ events' = events
      BY <2>2 DEF SaveFills, Goto
    <3>2. LedgerTypeOK /\ Filling
      BY <1>1, <3>1 DEF LedgerInv
    <3>3. ASSUME NEW f \in batch
          PROVE  /\ orders[f.order].decision < f.date
                 /\ CommittedThrough <= f.date /\ f.date <= cutoff
      <4>1. f.date \in Nat /\ execDay \in Nat /\ cutoff \in Nat
        BY <1>1, <3>1, LedgerDates DEF Ledger
      <4> QED BY <3>2, <4>1 DEF Filling
    <3> QED BY <3>1, <3>3
  <2>3. CASE SaveEvents
    <3>1. pc = "filled" /\ fills' = fills /\ events' = bEvents
      BY <2>3 DEF SaveEvents, Goto
    <3> QED BY <1>1, <3>1 DEF LedgerInv, Saving
  <2>4. CASE AccrueDividends
    <3>1. CASE Restated(fills, events, cutoff)
      BY <2>4, <3>1 DEF AccrueDividends, Fail
    <3>2. CASE ~Restated(fills, events, cutoff)
      BY <2>4, <3>2 DEF AccrueDividends, Accrue
    <3> QED BY <3>1, <3>2
  <2>5. CASE LedgerNext /\ ~SaveFills /\ ~SaveEvents /\ ~AccrueDividends
    BY <2>5, FactsKept
  <2> QED BY <1>1, <2>1, <2>2, <2>3, <2>4, <2>5
<1>2. LedgerSpec => [][Forward]_ledgerVars
  BY <1>1, LedgerInvariant, PTL DEF LedgerSpec
<1> QED BY <1>2 DEF LedgerGrowsForward

\* What a committing run has published is the replay of the durable ledger,
\* and no fully filled order still waits.
THEOREM CommitsAreConsistent == LedgerSpec => CommitIsConsistent
<1> DEFINE replay == [held |-> HeldIn(fills), cash |-> CashIn(fills, events)]
           Consistent ==
             account'.mark # account.mark =>
               /\ positions = replay.held
               /\ account'.cash = replay.cash
               /\ curve[account'.mark] = replay
               /\ reports[account'.mark] = replay
               /\ \A i \in Pending(orders) : Filled(fills, i) < orders[i].qty
<1>1. ASSUME LedgerInv, [LedgerNext]_ledgerVars
      PROVE  [Consistent]_ledgerVars
  <2>1. CASE UNCHANGED ledgerVars
    BY <2>1
  <2>2. CASE Commit
    <3>1. pc = "reported" /\ account' = [mark |-> cutoff, cash |-> cash, error |-> "none"]
      BY <2>2 DEF Commit
    <3>2. Valuing
      BY <1>1, <3>1 DEF LedgerInv
    <3>3. /\ held = HeldIn(fills) /\ positions = held /\ cash = CashIn(fills, events)
          /\ curve[cutoff] = [held |-> held, cash |-> cash]
          /\ reports[cutoff] = [held |-> held, cash |-> cash]
      BY <3>1, <3>2 DEF Valuing
    <3>4. \A i \in Pending(orders) : Filled(fills, i) < orders[i].qty
      BY <3>2 DEF Valuing, WaitingIsOpen, Pending
    <3> QED BY <3>1, <3>3, <3>4
  <2>3. CASE LedgerNext /\ ~Commit
    BY <1>1, <2>3, MarkKept
  <2> QED BY <1>1, <2>1, <2>2, <2>3
<1>2. LedgerSpec => [][Consistent]_ledgerVars
  BY <1>1, LedgerInvariant, PTL DEF LedgerSpec
<1> QED BY <1>2 DEF CommitIsConsistent
=============================================================================
