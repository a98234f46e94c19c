-------------------------- MODULE IntradayWatchProofs --------------------------
(***************************************************************************)
(* IntradayMonitor and IntradayWatch for every set of tickers, every       *)
(* length of a session and every policy constant: the types, the cooldown  *)
(* between messages about a ticker, that only a promoted monitor sends,    *)
(* that an outage shows, and that the signal outbox implements             *)
(* AtMostOnceDelivery.                                                     *)
(***************************************************************************)
EXTENDS IntradayWatch, TLAPS

Statuses == {"SHADOW", "PENDING", "SENDING", "SENT", "FAILED", "UNKNOWN",
             "SUPPRESSED_COOLDOWN"}

OutboxRows == [status : Statuses, attempts : Nat, retry : BOOLEAN,
               created : Nat, sent : Nat]

Steps == {"off", "loop", "once", "stage", "cup", "drain", "send", "mark",
          "finalizeCup", "finished"}

States == [pc : Steps, mode : [Families -> {"shadow", "live"}], now : Nat,
           broad : Nat, due : BOOLEAN, open : BOOLEAN, left : Int,
           claim : SUBSET Signals,
           reply : {"none", "confirmed", "uncertain", "retryable", "rejected"}]

\* The types the steps need beside IntradayTypeOK.
MonitorTypes ==
  /\ tick \in Ticks
  /\ DOMAIN outbox \subseteq Signals
  /\ outbox \in [DOMAIN outbox -> OutboxRows]
  /\ observed \in [Sessions -> [Families -> Verdicts]]
  /\ proc \in [Processes -> States]
  /\ accepted \in [Signals -> Nat]
  /\ incidents \subseteq Fingerprints

InCycle(p) == proc[p].pc \in {"stage", "cup", "drain", "send", "mark"}

\* A cycle belongs to the session it began in: no process works overnight.
CycleIsOfToday ==
  \A p \in Processes :
    /\ proc[p].now <= tick
    /\ InCycle(p) => Session(proc[p].now) = Session(tick)

\* Rows exist in the last session only, and are never older than it.
RowsAreOfToday ==
  \A k \in DOMAIN outbox :
    /\ Session(tick) = LastSession
    /\ Session(outbox[k].created) = k.session
    /\ outbox[k].sent <= tick
    /\ outbox[k].attempts <= MaxAttempts
    /\ outbox[k].status = "PENDING" => outbox[k].attempts = 0

\* One row at a time is being sent, and no two processes have the same row.
ClaimsAreOwned ==
  /\ \A p \in Processes :
       /\ proc[p].pc \in {"send", "mark"} =>
            \E k \in DOMAIN outbox :
              /\ proc[p].claim = {k}
              /\ outbox[k].status \in {"SENDING", "UNKNOWN"}
       /\ proc[p].pc \notin {"send", "mark"} => proc[p].claim = {}
  /\ \A p, q \in Processes :
       p # q => proc[p].claim \cap proc[q].claim = {}
  /\ \A j, k \in DOMAIN outbox :
       outbox[j].status = "SENDING" /\ outbox[k].status = "SENDING" => j = k

\* What the rows and the processes know agrees with what the channel did.
ChannelAgrees ==
  /\ \A k \in Signals :
       /\ accepted[k] \in {0, 1}
       /\ k \notin DOMAIN outbox => accepted[k] = 0
  /\ \A k \in DOMAIN outbox :
       /\ outbox[k].status \in {"SHADOW", "PENDING", "FAILED",
                                "SUPPRESSED_COOLDOWN"} => accepted[k] = 0
       /\ outbox[k].status = "SENT" => accepted[k] = 1
  /\ \A p \in Processes : \A k \in proc[p].claim :
       /\ proc[p].pc = "send" => accepted[k] = 0
       /\ proc[p].pc = "mark" =>
            /\ proc[p].reply # "none"
            /\ proc[p].reply = "confirmed" => accepted[k] = 1
            /\ proc[p].reply \in {"retryable", "rejected"} => accepted[k] = 0

\* A row that is being sent had no confirmed message of its ticker within the
\* cooldown when it was claimed, and none can have been confirmed since.
ClaimIsCool ==
  \A p \in Processes : \A k \in proc[p].claim :
    outbox[k].status = "SENDING" =>
      \A j \in DOMAIN outbox :
        j.ticker = k.ticker /\ outbox[j].status = "SENT" =>
          outbox[j].sent < proc[p].now - Cooldown

\* The sessions that promote a family for session s have passed.
Earned(s, f) ==
  \A r \in s - Required..s - 1 :
    r \in Sessions /\ observed[r]["momentum"] = "PASS"
                   /\ observed[r][f] = "PASS"

\* A process that is in live mode before the close, or in a cycle of an open
\* market, has earned it; what a live process staged stays earned.
LiveIsEarned ==
  /\ \A p \in Processes, f \in Families :
       /\ proc[p].pc # "off" /\ proc[p].mode[f] = "live"
       /\ ~IsOver(tick) \/ proc[p].open
       => Earned(Session(tick), f)
  /\ \A k \in DOMAIN outbox :
       outbox[k].status # "SHADOW" => Earned(k.session, k.family)

\* The inductive invariant.
WatchInv ==
  /\ MonitorTypes
  /\ CycleIsOfToday
  /\ RowsAreOfToday
  /\ ClaimsAreOwned
  /\ ChannelAgrees
  /\ ClaimIsCool
  /\ CooldownKept
  /\ LiveIsEarned
  /\ OutageShows

-----------------------------------------------------------------------------
(* Arithmetic of the clock *)

\* A session has at least three ticks.
LEMMA LengthType == Length \in Nat /\ Length >= 3 /\ Length # 0
  BY MonitorAssumption DEF Length

\* Division with a remainder.
LEMMA Division ==
  ASSUME NEW L \in Nat \ {0}, NEW t \in Nat
  PROVE  /\ t \div L \in Nat /\ t % L \in 0..L - 1
         /\ t = L * (t \div L) + (t % L)
  OBVIOUS

\* More multiples make a greater product.
LEMMA Multiples ==
  ASSUME NEW L \in Nat \ {0}, NEW p \in Int, NEW q \in Int, p < q
  PROVE  L * p + L <= L * q
<1>1. PICK n \in Nat : q = p + 1 + n
  <2>1. q - p - 1 \in Nat /\ q = p + 1 + (q - p - 1)
    OBVIOUS
  <2>2. QED
    BY <2>1
<1>2. L * q = L * p + L + L * n
  BY <1>1
<1>3. L * n >= 0
  OBVIOUS
<1>4. L * q \in Int /\ L * p \in Int /\ L * n \in Int
  OBVIOUS
<1>5. QED
  BY <1>2, <1>3, <1>4

\* A quotient is the only number whose multiple is less than a length below.
LEMMA Quotient ==
  ASSUME NEW L \in Nat \ {0}, NEW t \in Nat, NEW q \in Int, NEW r \in 0..L - 1,
         t = L * q + r
  PROVE  t \div L = q
<1> DEFINE d == t \div L
           m == t % L
<1>1. d \in Nat /\ m \in 0..L - 1 /\ t = L * d + m
  BY Division, Zenon
<1>2. L * d \in Int /\ L * q \in Int
  BY <1>1
<1> HIDE DEF d, m
<1>3. ~(d < q)
  BY <1>1, <1>2, Multiples
<1>4. ~(q < d)
  BY <1>1, <1>2, Multiples
<1>5. QED
  BY <1>1, <1>3, <1>4 DEF d

\* Until the tick after the close the session stays the same.
LEMMA SameSession ==
  ASSUME NEW t \in Nat, ~IsOver(t)
  PROVE  Session(t + 1) = Session(t)
<1>1. /\ Session(t) \in Nat /\ Minute(t) \in 0..Length - 1
      /\ t = Length * Session(t) + Minute(t)
  BY LengthType, Division DEF Session, Minute
<1>2. Minute(t) + 1 \in 0..Length - 1
  BY <1>1, LengthType, MonitorAssumption DEF IsOver, Length
<1>3. t + 1 = Length * Session(t) + (Minute(t) + 1)
  BY <1>1, LengthType
<1>4. t + 1 \in Nat /\ Length \in Nat \ {0} /\ Session(t) \in Int
  BY <1>1, LengthType
<1> HIDE DEF Length
<1>5. (t + 1) \div Length = Session(t)
  BY <1>2, <1>3, <1>4, Quotient
<1>6. QED
  BY <1>5 DEF Session

\* The clock runs from the second session to the last one.
LEMMA SessionBounds ==
  ASSUME NEW t \in Ticks
  PROVE  t \in Nat /\ Session(t) \in Sessions /\ Session(t) >= 2
<1> DEFINE q == Session(t)
           m == Minute(t)
<1>0. 2 * Length \in Nat /\ (LastSession + 1) * Length \in Int
      /\ LastSession \in Nat
  BY LengthType, MonitorAssumption
<1>1. t \in Nat /\ 2 * Length <= t /\ t < (LastSession + 1) * Length
  BY <1>0 DEF Ticks
<1>2. q \in Nat /\ m \in 0..Length - 1 /\ t = Length * q + m
  BY <1>1, LengthType, Division DEF Session, Minute
<1>3. Length * q \in Int /\ (LastSession + 1) * Length = Length * (LastSession + 1)
  BY <1>2, <1>0, LengthType
<1> HIDE DEF q, m
<1>4. ~(LastSession < q)
  <2>1. SUFFICES ASSUME LastSession + 1 <= q
                 PROVE  FALSE
    BY <1>0, <1>2
  <2>2. Length * (LastSession + 1) <= Length * q
    <3>1. CASE LastSession + 1 = q
      BY <3>1, <1>3
    <3>2. CASE LastSession + 1 < q
      BY <3>2, <1>0, <1>2, <1>3, LengthType, Multiples
    <3>3. QED
      BY <2>1, <3>1, <3>2, <1>0, <1>2
  <2>3. QED
    BY <1>0, <1>1, <1>2, <1>3, <2>2, LengthType
<1>5. ~(q < 2)
  <2>1. SUFFICES ASSUME q < 2
                 PROVE  FALSE
    OBVIOUS
  <2>2. Length * q + Length <= Length * 2
    BY <2>1, <1>2, LengthType, Multiples
  <2>3. QED
    BY <1>1, <1>2, <1>3, <2>2, LengthType
<1>6. QED
  BY <1>0, <1>1, <1>2, <1>4, <1>5 DEF Sessions, q

\* The tick after the close belongs to the next session.
LEMMA NextSession ==
  ASSUME NEW t \in Nat, IsOver(t)
  PROVE  Session(t + 1) = Session(t) + 1
<1>1. /\ Session(t) \in Nat /\ Minute(t) \in 0..Length - 1
      /\ t = Length * Session(t) + Minute(t)
  BY LengthType, Division DEF Session, Minute
<1>2. Minute(t) + 1 = Length
  BY MonitorAssumption DEF IsOver, Length
<1>3. t + 1 = Length * (Session(t) + 1) + 0
  <2>1. Length * (Session(t) + 1) = Length * Session(t) + Length
    BY <1>1, LengthType
  <2>2. Length * Session(t) \in Int /\ Minute(t) \in Int /\ Length \in Int
    BY <1>1, LengthType
  <2>3. QED
    BY <1>1, <1>2, <2>1, <2>2
<1>4. /\ t + 1 \in Nat /\ Length \in Nat \ {0}
      /\ Session(t) + 1 \in Int /\ 0 \in 0..Length - 1
  BY <1>1, LengthType
<1> HIDE DEF Length
<1>5. (t + 1) \div Length = Session(t) + 1
  BY <1>3, <1>4, Quotient
<1>6. QED
  BY <1>5 DEF Session

\* A session is not open and over at once.
LEMMA OpenIsNotOver == \A t \in Nat : IsOpen(t) => ~IsOver(t)
  BY MonitorAssumption DEF IsOpen, IsOver

-----------------------------------------------------------------------------
(* The steps that leave the outbox alone *)

\* A process that does nothing.
LEMMA OffState ==
  /\ Off \in States /\ Off.pc = "off" /\ Off.claim = {} /\ Off.now = 0
  /\ Off.open = FALSE /\ Off.mode = [f \in Families |-> "shadow"]
  BY DEF Off, States, Steps

\* A cycle that begins, and one that ends.
LEMMA BegunState ==
  ASSUME NEW s \in States, NEW pc \in Steps, NEW left \in Int, NEW now \in Nat,
         NEW open \in BOOLEAN, NEW due \in BOOLEAN, NEW broad \in Nat
  PROVE  [s EXCEPT !.pc = pc, !.left = left, !.now = now, !.open = open,
                   !.due = due, !.broad = broad] \in States
  BY DEF States

\* A state that ends a step is a state.
LEMMA EndedState ==
  ASSUME NEW s \in States, NEW pc \in Steps, NEW left \in Int,
         NEW open \in BOOLEAN
  PROVE  [s EXCEPT !.pc = pc, !.open = open, !.left = left] \in States
  BY DEF States

\* What a process may be found doing when it has no row in its hands.
Resting(s) ==
  /\ s \in States
  /\ s.pc \notin {"send", "mark"} /\ s.claim = {}
  /\ s.now <= tick
  /\ s.pc \in {"stage", "cup", "drain"} => Session(s.now) = Session(tick)
  /\ \A f \in Families :
       /\ s.pc # "off" /\ s.mode[f] = "live"
       /\ ~IsOver(tick) \/ s.open
       => Earned(Session(tick), f)

\* A step of the processes that claims no row.
QuietStep ==
  /\ UNCHANGED <<tick, outbox, observed, accepted>>
  /\ DOMAIN proc' = Processes /\ proc' = [p \in Processes |-> proc'[p]]
  /\ \A p \in Processes : proc'[p] = proc[p] \/ Resting(proc'[p])
  /\ incidents' \subseteq Fingerprints /\ OutageShows'

\* A step that leaves the outbox alone keeps the invariant.
LEMMA QuietInv == WatchInv /\ QuietStep => WatchInv'
<1> SUFFICES ASSUME WatchInv, QuietStep
             PROVE  WatchInv'
  OBVIOUS
<1> USE DEF WatchInv, QuietStep
<1>1. MonitorTypes'
  BY DEF MonitorTypes, Resting
<1>2. CycleIsOfToday'
  BY <1>1 DEF CycleIsOfToday, Resting, InCycle, MonitorTypes
<1>3. RowsAreOfToday'
  BY DEF RowsAreOfToday
<1>4. ClaimsAreOwned'
  BY DEF ClaimsAreOwned, Resting
<1>5. ChannelAgrees'
  BY DEF ChannelAgrees, Resting
<1>6. ClaimIsCool'
  BY DEF ClaimIsCool, Resting
<1>7. CooldownKept'
  BY DEF CooldownKept
<1>8. LiveIsEarned'
  BY DEF LiveIsEarned, Resting, Earned
<1>9. QED
  BY <1>1, <1>2, <1>3, <1>4, <1>5, <1>6, <1>7, <1>8

\* A process that does not run rests.
LEMMA OffRests == WatchInv => Resting(Off)
<1> SUFFICES ASSUME WatchInv
             PROVE  Resting(Off)
  OBVIOUS
<1>1. tick \in Nat
  BY SessionBounds DEF WatchInv, MonitorTypes
<1>2. QED
  BY <1>1, OffState DEF Resting

\* Mode and market of a process that starts.
LEMMA PromotedIsEarned ==
  ASSUME WatchInv
  PROVE  /\ Promoted \in [Families -> {"shadow", "live"}]
         /\ \A f \in Families :
              Promoted[f] = "live" /\ ~IsOver(tick) => Earned(Session(tick), f)
<1>1. Session(tick) \in Int /\ Required \in Int
  BY SessionBounds, MonitorAssumption DEF WatchInv, MonitorTypes, Sessions
<1>2. ASSUME ~IsOver(tick)
      PROVE  Completed(tick) = Session(tick) - Required..Session(tick) - 1
  BY <1>1, <1>2 DEF Completed
<1>3. QED
  BY <1>2 DEF Promoted, Eligible, Earned, Families

\* The watchdog's variables, which no step of the monitor changes.
SameWatch == UNCHANGED <<incidents, unseen>>

\* Starting the unit leaves the outbox alone.
LEMMA StartUnitIsQuiet == WatchInv /\ StartUnit /\ SameWatch => QuietStep
<1> SUFFICES ASSUME WatchInv, StartUnit, SameWatch
             PROVE  QuietStep
  OBVIOUS
<1> DEFINE s == [Off EXCEPT !.pc = "loop", !.mode = Promoted]
<1>1. Resting(s)
  <2>1. /\ s \in States /\ s.pc = "loop" /\ s.mode = Promoted
        /\ s.claim = {} /\ s.now = 0 /\ s.open = FALSE
    BY PromotedIsEarned, OffState DEF States, Steps
  <2>2. 0 <= tick
    BY SessionBounds DEF WatchInv, MonitorTypes
  <2> HIDE DEF s
  <2>3. QED
    BY <2>1, <2>2, PromotedIsEarned DEF Resting
<1>2. QED
  BY <1>1 DEF StartUnit, SameWatch, QuietStep, store, WatchInv, MonitorTypes,
              OutageShows, Processes

\* So does starting one cycle by hand.
LEMMA StartByHandIsQuiet ==
  ASSUME WatchInv, NEW shadow \in BOOLEAN, StartByHand(shadow), SameWatch
  PROVE  QuietStep
<1> DEFINE s == [Off EXCEPT !.pc = "once",
                            !.mode = IF shadow THEN @ ELSE Promoted]
<1>1. Resting(s)
  <2>1. /\ s \in States /\ s.pc = "once"
        /\ s.mode = Promoted \/ s.mode = [f \in Families |-> "shadow"]
        /\ s.claim = {} /\ s.now = 0 /\ s.open = FALSE
    BY PromotedIsEarned, OffState DEF States, Steps
  <2>2. 0 <= tick
    BY SessionBounds DEF WatchInv, MonitorTypes
  <2> HIDE DEF s
  <2>3. QED
    BY <2>1, <2>2, PromotedIsEarned DEF Resting
<1>2. QED
  BY <1>1 DEF StartByHand, SameWatch, QuietStep, store, WatchInv, MonitorTypes,
              OutageShows, Processes

\* So does a heartbeat while the market is closed.
LEMMA WaitingBeatIsQuiet == WatchInv /\ WaitingBeat /\ SameWatch => QuietStep
  BY DEF WaitingBeat, SameWatch, QuietStep, WatchInv, MonitorTypes, OutageShows

\* A cycle begins in the session of its tick; in an open market the mode was
\* earned before the close.
LEMMA BeginCycleIsQuiet ==
  ASSUME WatchInv, NEW p \in Processes, BeginCycle(p), SameWatch
  PROVE  QuietStep
<1> DEFINE due == proc[p].broad = 0 \/ tick - proc[p].broad >= BroadMinutes
           goes(open) == open \/ p = "operator"
           begun(open) ==
             [proc[p] EXCEPT !.pc = IF goes(open) THEN "stage" ELSE "drain",
                             !.left = IF goes(open) THEN MaxMessages ELSE 0,
                             !.now = tick, !.open = open, !.due = due /\ open,
                             !.broad = IF due /\ goes(open) THEN tick
                                       ELSE proc[p].broad]
<1>1. PICK open \in {IsOpen(tick), FALSE} :
        proc' = [proc EXCEPT ![p] = begun(open)]
  BY DEF BeginCycle
<1> DEFINE s == begun(open)
<1>2. proc[p].pc \in {"loop", "once"} /\ proc[p] \in States /\ tick \in Nat
  BY SessionBounds DEF BeginCycle, WatchInv, MonitorTypes
<1>3. open \in BOOLEAN /\ (open => ~IsOver(tick))
  <2>1. CASE open = IsOpen(tick)
    <3>1. open \in BOOLEAN
      BY <2>1 DEF IsOpen
    <3>2. IsOpen(tick) => ~IsOver(tick)
      BY <1>2, OpenIsNotOver, Zenon
    <3>3. QED
      BY <2>1, <3>1, <3>2, Zenon
  <2>2. QED
    BY <2>1, Zenon
<1>4. Resting(s)
  <2>1. s \in States
    <3>1. MaxMessages \in Int
      BY MonitorAssumption
    <3>2. due \in BOOLEAN /\ goes(open) \in BOOLEAN
      BY <1>3
    <3>3. QED
      <4> DEFINE pc == IF goes(open) THEN "stage" ELSE "drain"
                 left == IF goes(open) THEN MaxMessages ELSE 0
                 broad == IF due /\ goes(open) THEN tick ELSE proc[p].broad
                 both == due /\ open
                 t == [proc[p] EXCEPT !.pc = pc, !.left = left, !.now = tick,
                                      !.open = open, !.due = both,
                                      !.broad = broad]
      <4>1. pc \in Steps /\ left \in Int /\ broad \in Nat /\ both \in BOOLEAN
        BY <1>2, <1>3, <3>1, <3>2 DEF States, Steps
      <4>2. s = t
        OBVIOUS
      <4> HIDE DEF s, pc, left, broad, both
      <4>3. t \in States
        BY <1>2, <1>3, <4>1, BegunState
      <4>4. QED
        BY <4>2, <4>3, Zenon
  <2>2. /\ s.pc \in {"stage", "drain"} /\ s.mode = proc[p].mode
        /\ s.claim = proc[p].claim /\ s.now = tick /\ s.open = open
    BY <1>2 DEF States
  <2>3. proc[p].claim = {}
    BY <1>2 DEF WatchInv, ClaimsAreOwned
  <2>4. \A f \in Families :
          proc[p].mode[f] = "live" /\ ~IsOver(tick) => Earned(Session(tick), f)
    BY <1>2 DEF WatchInv, LiveIsEarned
  <2> HIDE DEF s
  <2>5. QED
    BY <1>2, <1>3, <2>1, <2>2, <2>3, <2>4 DEF Resting
<1>5. proc' = [proc EXCEPT ![p] = s]
  BY <1>1
<1> HIDE DEF s
<1>6. UNCHANGED <<tick, outbox, observed, accepted, incidents, unseen>>
  BY DEF BeginCycle, store, SameWatch
<1>7. QED
  BY <1>4, <1>5, <1>6 DEF QuietStep, WatchInv, MonitorTypes, OutageShows

\* So does the end of the detection.
LEMMA EndDetectionIsQuiet ==
  ASSUME WatchInv, NEW p \in Processes, NEW bad \in BOOLEAN,
         EndDetection(p, bad), SameWatch
  PROVE  QuietStep
<1> DEFINE s == [proc[p] EXCEPT !.pc = "drain", !.due = FALSE]
<1>1. proc[p] \in States /\ proc[p].pc \in {"stage", "cup"}
  BY DEF EndDetection, WatchInv, MonitorTypes
<1>2. Resting(s)
  <2>1. /\ s \in States /\ s.pc = "drain" /\ s.mode = proc[p].mode
        /\ s.claim = proc[p].claim /\ s.now = proc[p].now
        /\ s.open = proc[p].open
    BY <1>1 DEF States, Steps
  <2>2. /\ proc[p].claim = {} /\ proc[p].now <= tick
        /\ Session(proc[p].now) = Session(tick)
    BY <1>1 DEF WatchInv, ClaimsAreOwned, CycleIsOfToday, InCycle
  <2>3. \A f \in Families :
          /\ proc[p].mode[f] = "live"
          /\ ~IsOver(tick) \/ proc[p].open
          => Earned(Session(tick), f)
    BY <1>1 DEF WatchInv, LiveIsEarned
  <2> HIDE DEF s
  <2>4. QED
    BY <2>1, <2>2, <2>3 DEF Resting
<1>3. proc' = [proc EXCEPT ![p] = s]
  BY <1>1 DEF EndDetection, WatchInv, MonitorTypes
<1> HIDE DEF s
<1>4. UNCHANGED <<tick, outbox, observed, accepted, incidents, unseen>>
  BY DEF EndDetection, SameWatch
<1>5. QED
  BY <1>2, <1>3, <1>4 DEF QuietStep, WatchInv, MonitorTypes, OutageShows

\* So does the end of a cycle.
LEMMA EndCycleIsQuiet ==
  ASSUME WatchInv, NEW p \in Processes, NEW bad \in BOOLEAN,
         EndCycle(p, bad), SameWatch
  PROVE  QuietStep
<1> DEFINE s == [proc[p] EXCEPT !.pc = "loop", !.open = FALSE, !.left = 0]
<1>1. proc[p] \in States /\ proc[p].pc = "drain"
  BY DEF EndCycle, WatchInv, MonitorTypes
<1>2. Resting(s)
  <2>1. /\ s \in States /\ s.pc = "loop" /\ s.mode = proc[p].mode
        /\ s.claim = proc[p].claim /\ s.now = proc[p].now /\ s.open = FALSE
    <3>1. s \in States
      <4>1. "loop" \in Steps /\ 0 \in Int /\ FALSE \in BOOLEAN
        BY DEF Steps
      <4>2. QED
        BY <1>1, <4>1, EndedState, Zenon
    <3>2. /\ s.pc = "loop" /\ s.mode = proc[p].mode /\ s.now = proc[p].now
          /\ s.claim = proc[p].claim
      BY <1>1 DEF States
    <3>3. s.open = FALSE
      BY <1>1 DEF States
    <3>4. QED
      BY <3>1, <3>2, <3>3
  <2>2. proc[p].claim = {} /\ proc[p].now <= tick
    BY <1>1 DEF WatchInv, ClaimsAreOwned, CycleIsOfToday
  <2>3. \A f \in Families :
          proc[p].mode[f] = "live" /\ ~IsOver(tick) => Earned(Session(tick), f)
    BY <1>1 DEF WatchInv, LiveIsEarned
  <2> HIDE DEF s
  <2>4. QED
    BY <2>1, <2>2, <2>3 DEF Resting
<1>3. proc' = [proc EXCEPT ![p] = s] \/ proc' = [proc EXCEPT ![p] = Off]
  BY DEF EndCycle
<1> HIDE DEF s
<1>4. UNCHANGED <<tick, outbox, observed, accepted, incidents, unseen>>
  BY DEF EndCycle, SameWatch
<1>5. QED
  BY <1>2, <1>3, <1>4, OffRests
     DEF QuietStep, WatchInv, MonitorTypes, OutageShows

\* So does the end of the unit.
LEMMA FinishIsQuiet == WatchInv /\ Finish /\ SameWatch => QuietStep
<1> SUFFICES ASSUME WatchInv, Finish, SameWatch
             PROVE  QuietStep
  OBVIOUS
<1>1. proc' = [proc EXCEPT !["unit"] = Off] /\ Resting(Off)
  BY OffRests DEF Finish
<1>2. /\ UNCHANGED <<tick, outbox, observed, accepted, incidents, unseen>>
      /\ DOMAIN proc = Processes /\ incidents \subseteq Fingerprints
      /\ OutageShows
  BY DEF Finish, SameWatch, WatchInv, MonitorTypes
<1>3. QED
  BY <1>1, <1>2 DEF QuietStep, OutageShows

\* A kill at any moment lets go of the claimed row and leaves it as it is.
LEMMA KillIsQuiet ==
  ASSUME WatchInv, NEW p \in Processes, Kill(p), SameWatch
  PROVE  QuietStep
<1>1. QED
  BY OffRests DEF Kill, Fails, SameWatch, store, QuietStep, WatchInv,
                  MonitorTypes, OutageShows

\* So does a reboot.
LEMMA RebootIsQuiet == WatchInv /\ Reboot /\ SameWatch => QuietStep
<1> SUFFICES ASSUME WatchInv, Reboot, SameWatch
             PROVE  QuietStep
  OBVIOUS
<1>1. proc' = [p \in Processes |-> Off] /\ Resting(Off)
  BY OffRests DEF Reboot
<1>2. /\ UNCHANGED <<tick, outbox, observed, accepted, incidents, unseen>>
      /\ incidents \subseteq Fingerprints /\ OutageShows
  BY DEF Reboot, SameWatch, store, WatchInv, MonitorTypes
<1>3. QED
  BY <1>1, <1>2 DEF QuietStep, OutageShows

\* A run of the watchdog that finds the monitor down opens an incident.
LEMMA DownIsRaised == \A broken \in {"none", "other", "delivery"} :
                        Down => Open(broken) # {}
<1>1. Down => Raised # {}
  <2> SUFFICES ASSUME Down, Specific = {}
               PROVE  Status \in {"STALE", "DEGRADED"}
    BY DEF Raised
  <2>1. proc["unit"].pc = "off" /\ ~BeatStops /\ ~CupFailed
    BY DEF Down, Specific
  <2>2. CASE IsOver(tick)
    BY <2>1, <2>2 DEF Down, Evidence, Status
  <2>3. CASE ~IsOver(tick)
    BY <2>1, <2>3 DEF Down, BeatStops, Evidence, Status
  <2>4. QED
    BY <2>2, <2>3
<1>2. QED
  BY <1>1 DEF Open

\* A run of the watchdog only opens and resolves incidents.
LEMMA WatchRunIsQuiet ==
  ASSUME WatchInv, NEW broken \in {"none", "other", "delivery"}, Watch(broken)
  PROVE  QuietStep
<1>1. incidents' \subseteq Fingerprints
  BY DEF Watch, Open, Raised, Specific, Fingerprints, WatchInv, MonitorTypes
<1>2. OutageShows'
  BY DownIsRaised DEF Watch, OutageShows
<1>3. QED
  BY <1>1, <1>2 DEF Watch, store, QuietStep, WatchInv, MonitorTypes

-----------------------------------------------------------------------------
(* The steps of the outbox *)

\* The outbox holds rows of the current session.
LEMMA OutboxIsAFunction ==
  WatchInv => \A k \in DOMAIN outbox :
    /\ k \in Signals /\ k.session = LastSession /\ k.session = Session(tick)
    /\ outbox[k] \in OutboxRows
  BY DEF WatchInv, MonitorTypes, RowsAreOfToday, Signals

\* Staging adds a row: in shadow mode it is a shadow row, in live mode the
\* mode was earned.
LEMMA StageInv ==
  ASSUME WatchInv, NEW p \in Processes, NEW k \in Signals, Stage(p, k), SameWatch
  PROVE  WatchInv'
<1> DEFINE row == NewRow(IF proc[p].mode[k.family] = "live"
                         THEN "PENDING" ELSE "SHADOW")
           pc == IF k.family = "cup" THEN "cup" ELSE "stage"
<1>1. /\ k \notin DOMAIN outbox
      /\ outbox' = [j \in DOMAIN outbox \cup {k} |->
           IF j \in DOMAIN outbox THEN outbox[j] ELSE row]
      /\ DOMAIN outbox' = DOMAIN outbox \cup {k}
      /\ proc' = [proc EXCEPT ![p].pc = pc]
      /\ UNCHANGED <<tick, observed, accepted, incidents, unseen>>
  BY DEF Stage, Goto, SameWatch
<1>2. /\ proc[p] \in States /\ proc[p].pc \in {"stage", "cup"}
      /\ pc \in {"stage", "cup"} /\ proc[p].open
      /\ Session(tick) = LastSession /\ k.session = LastSession
      /\ tick \in Nat /\ k.family \in Families
  BY SessionBounds DEF Stage, WatchInv, MonitorTypes, CycleIsOfToday, InCycle,
                       Signals
<1>3. /\ row \in OutboxRows /\ row.status \in {"PENDING", "SHADOW"}
      /\ row.attempts = 0 /\ row.created = tick /\ row.sent = 0
      /\ row.status = "PENDING" => proc[p].mode[k.family] = "live"
  BY <1>2 DEF NewRow, OutboxRows, Statuses
<1>4. \A q \in Processes :
        /\ proc'[q].mode = proc[q].mode /\ proc'[q].now = proc[q].now
        /\ proc'[q].open = proc[q].open /\ proc'[q].claim = proc[q].claim
        /\ proc'[q].reply = proc[q].reply
        /\ proc'[q].pc = IF q = p THEN pc ELSE proc[q].pc
        /\ proc'[q] \in States
  BY <1>1, <1>2 DEF WatchInv, MonitorTypes, States, Steps
<1> HIDE DEF row, pc
<1>5. MonitorTypes'
  <2>1. proc' \in [Processes -> States]
    BY <1>1, <1>4 DEF WatchInv, MonitorTypes
  <2>2. outbox' \in [DOMAIN outbox' -> OutboxRows] /\ DOMAIN outbox' \subseteq Signals
    BY <1>1, <1>3 DEF WatchInv, MonitorTypes
  <2>3. QED
    BY <1>1, <2>1, <2>2 DEF WatchInv, MonitorTypes
<1>6. CycleIsOfToday'
  BY <1>1, <1>2, <1>4 DEF WatchInv, CycleIsOfToday, InCycle
<1>7. RowsAreOfToday'
  BY <1>1, <1>2, <1>3, MonitorAssumption DEF WatchInv, RowsAreOfToday
<1>8. ClaimsAreOwned'
  BY <1>1, <1>2, <1>3, <1>4 DEF WatchInv, ClaimsAreOwned
<1>9. ChannelAgrees'
  BY <1>1, <1>2, <1>3, <1>4 DEF WatchInv, ChannelAgrees
<1>10. ClaimIsCool'
  BY <1>1, <1>2, <1>3, <1>4 DEF WatchInv, ClaimIsCool, ClaimsAreOwned
<1>11. CooldownKept'
  BY <1>1, <1>3 DEF WatchInv, CooldownKept
<1>12. LiveIsEarned'
  <2>1. row.status # "SHADOW" => Earned(LastSession, k.family)
    BY <1>2, <1>3 DEF WatchInv, LiveIsEarned
  <2>2. \A s, f : Earned(s, f) => Earned(s, f)'
    BY <1>1 DEF Earned
  <2>3. QED
    BY <1>1, <1>2, <1>3, <1>4, <2>1, <2>2 DEF WatchInv, LiveIsEarned
<1>13. OutageShows'
  BY <1>1 DEF WatchInv, OutageShows
<1>14. QED
  BY <1>5, <1>6, <1>7, <1>8, <1>9, <1>10, <1>11, <1>12, <1>13 DEF WatchInv

\* A claim freezes whatever was being sent, and takes a row that is due and
\* whose ticker is not in cooldown.
LEMMA ClaimInv ==
  ASSUME WatchInv, NEW p \in Processes, Claim(p), SameWatch
  PROVE  WatchInv'
<1> DEFINE now == proc[p].now
<1>1. /\ proc[p] \in States /\ proc[p].pc = "drain" /\ proc[p].claim = {}
      /\ Session(now) = Session(tick) /\ now \in Nat /\ tick \in Nat /\ now <= tick
      /\ UNCHANGED <<tick, observed, accepted, incidents, unseen>>
  BY SessionBounds DEF Claim, SameWatch, WatchInv, MonitorTypes, CycleIsOfToday,
                       InCycle, ClaimsAreOwned, States
<1>2. PICK claim \in SUBSET DOMAIN outbox, pc \in {"drain", "send"} :
        /\ outbox' = Claimed(Session(now), now, claim)
        /\ \/ pc = "drain" /\ claim = {}
           \/ pc = "send" /\ \E k \in Sendable(Session(now)) :
                               claim = {k} /\ ~Cooling(k.ticker, now)
        /\ \A q \in Processes :
             /\ proc'[q].mode = proc[q].mode /\ proc'[q].now = proc[q].now
             /\ proc'[q].open = proc[q].open /\ proc'[q].reply = proc[q].reply
             /\ proc'[q].pc = IF q = p THEN pc ELSE proc[q].pc
             /\ proc'[q].claim = IF q = p THEN claim ELSE proc[q].claim
             /\ proc'[q] \in States
        /\ proc' \in [Processes -> States]
  <2> DEFINE s == Session(now)
             free == {k \in Sendable(s) : ~Cooling(k.ticker, now)}
             first == {k \in free : \A j \in free : ~Earlier(j, k)}
  <2>1. \A k \in Sendable(s) : k \in DOMAIN outbox /\ k \in Signals
    BY DEF Sendable, WatchInv, MonitorTypes
  <2>2. CASE /\ outbox' = Claimed(s, now, {})
             /\ proc' = [proc EXCEPT ![p].left = 0]
    <3>1. \A q \in Processes :
             /\ proc'[q].mode = proc[q].mode /\ proc'[q].now = proc[q].now
             /\ proc'[q].open = proc[q].open /\ proc'[q].reply = proc[q].reply
             /\ proc'[q].pc = proc[q].pc
             /\ proc'[q].claim = proc[q].claim
             /\ proc'[q] \in States
      BY <1>1, <2>2 DEF WatchInv, MonitorTypes, States
    <3>2. proc' \in [Processes -> States]
      BY <2>2, <3>1 DEF WatchInv, MonitorTypes
    <3>3. QED
      BY SMTT(40), <1>1, <2>2, <3>1, <3>2
  <2>3. CASE \E k \in first :
             /\ outbox' = Claimed(s, now, {k})
             /\ proc' = [proc EXCEPT ![p].pc = "send", ![p].claim = {k}]
    <3>1. PICK k \in first :
             /\ outbox' = Claimed(s, now, {k})
             /\ proc' = [proc EXCEPT ![p].pc = "send", ![p].claim = {k}]
      BY <2>3
    <3>2. k \in Sendable(s) /\ ~Cooling(k.ticker, now) /\ {k} \in SUBSET Signals
          /\ {k} \in SUBSET DOMAIN outbox
      BY <2>1
    <3>3. \A q \in Processes :
             /\ proc'[q].mode = proc[q].mode /\ proc'[q].now = proc[q].now
             /\ proc'[q].open = proc[q].open /\ proc'[q].reply = proc[q].reply
             /\ proc'[q].pc = IF q = p THEN "send" ELSE proc[q].pc
             /\ proc'[q].claim = IF q = p THEN {k} ELSE proc[q].claim
             /\ proc'[q] \in States
      BY <1>1, <3>1, <3>2 DEF WatchInv, MonitorTypes, States, Steps
    <3>4. proc' \in [Processes -> States]
      BY <3>1, <3>3 DEF WatchInv, MonitorTypes
    <3>5. QED
      BY <3>1, <3>2, <3>3, <3>4
  <2>4. QED
    BY <2>2, <2>3 DEF Claim
<1> HIDE DEF now
\* What a claim does to each row.
<1> DEFINE moved(k) ==
           /\ outbox'[k] \in OutboxRows
           /\ outbox'[k].created = outbox[k].created
           /\ outbox'[k].sent = outbox[k].sent
           /\ outbox[k].status = "SENDING" =>
                /\ k \notin claim
                /\ outbox'[k].status = "UNKNOWN"
                /\ outbox'[k].attempts = outbox[k].attempts
           /\ k \in claim =>
                /\ outbox[k].status \in {"PENDING", "FAILED"}
                /\ outbox'[k].status = "SENDING"
                /\ outbox'[k].attempts = outbox[k].attempts + 1
                /\ outbox[k].attempts < MaxAttempts
           /\ outbox[k].status # "SENDING" /\ k \notin claim =>
                /\ outbox'[k].attempts = outbox[k].attempts
                /\ \/ outbox'[k].status = outbox[k].status
                   \/ /\ outbox'[k].status = "SUPPRESSED_COOLDOWN"
                      /\ outbox[k].status \in {"PENDING", "FAILED"}
<1>3. DOMAIN outbox' = DOMAIN outbox /\ \A k \in DOMAIN outbox : moved(k)
  <2>1. DOMAIN outbox' = DOMAIN outbox
    BY <1>2 DEF Claimed
  <2> SUFFICES ASSUME NEW k \in DOMAIN outbox
               PROVE  moved(k)
    BY <2>1, Zenon
  <2>2. /\ outbox[k] \in OutboxRows /\ k.session = Session(now)
        /\ outbox[k].status = "PENDING" => outbox[k].attempts = 0
    BY <1>1, OutboxIsAFunction DEF WatchInv, RowsAreOfToday
  <2>3. k \in Sendable(Session(now)) =>
          /\ outbox[k].status \in {"PENDING", "FAILED"}
          /\ outbox[k].attempts < MaxAttempts
    BY <2>2, MonitorAssumption DEF Sendable
  <2>4. k \in claim => k \in Sendable(Session(now))
    BY <1>2
  <2>5. CASE outbox[k].status = "SENDING"
    <3>1. outbox'[k] = [outbox[k] EXCEPT !.status = "UNKNOWN", !.retry = FALSE]
      BY <1>2, <2>2, <2>5 DEF Claimed
    <3>2. /\ outbox'[k] \in OutboxRows /\ outbox'[k].status = "UNKNOWN"
          /\ outbox'[k].attempts = outbox[k].attempts
          /\ outbox'[k].created = outbox[k].created
          /\ outbox'[k].sent = outbox[k].sent
      BY <2>2, <3>1 DEF OutboxRows, Statuses
    <3>3. QED
      BY <2>3, <2>4, <2>5, <3>2
  <2>6. CASE outbox[k].status # "SENDING" /\ k \in claim
    <3>1. outbox'[k] = [outbox[k] EXCEPT !.status = "SENDING",
                                         !.attempts = @ + 1, !.retry = FALSE]
      BY <1>2, <2>6 DEF Claimed
    <3>2. /\ outbox[k].attempts \in Nat /\ outbox[k].attempts + 1 \in Nat
          /\ outbox[k] \in OutboxRows
      BY <2>2 DEF OutboxRows
    <3>3. /\ outbox'[k] \in OutboxRows /\ outbox'[k].status = "SENDING"
          /\ outbox'[k].attempts = outbox[k].attempts + 1
          /\ outbox'[k].created = outbox[k].created
          /\ outbox'[k].sent = outbox[k].sent
      BY <3>1, <3>2 DEF OutboxRows, Statuses
    <3>4. QED
      BY <2>3, <2>4, <2>6, <3>3
  <2>7. CASE outbox[k].status # "SENDING" /\ k \notin claim
    <3>1. \/ outbox'[k] = outbox[k]
          \/ /\ k \in Sendable(Session(now))
             /\ outbox'[k] = [outbox[k] EXCEPT !.status = "SUPPRESSED_COOLDOWN",
                                               !.retry = FALSE]
      BY <1>2, <2>7 DEF Claimed
    <3>2. QED
      BY ZenonT(60), <2>2, <2>3, <2>7, <3>1 DEF OutboxRows, Statuses
  <2>8. QED
    BY <2>5, <2>6, <2>7
<1>4. MonitorTypes'
  <2>1. outbox' = [k \in DOMAIN outbox |-> outbox'[k]]
    BY <1>2 DEF Claimed
  <2>2. outbox' \in [DOMAIN outbox' -> OutboxRows]
    BY <1>3, <2>1
  <2>3. QED
    BY <1>1, <1>2, <1>3, <2>2 DEF WatchInv, MonitorTypes
<1>5. CycleIsOfToday'
  BY <1>1, <1>2 DEF WatchInv, CycleIsOfToday, InCycle
<1>6. RowsAreOfToday'
  <2>1. \A k \in DOMAIN outbox : outbox[k].attempts \in Nat
    BY OutboxIsAFunction DEF OutboxRows
  <2>2. QED
    BY <1>1, <1>3, <2>1, MonitorAssumption DEF WatchInv, RowsAreOfToday
<1>7. ClaimsAreOwned'
  <2>1. \A q \in Processes : \A k \in proc[q].claim :
          k \in DOMAIN outbox /\ outbox[k].status \in {"SENDING", "UNKNOWN"}
    BY DEF WatchInv, ClaimsAreOwned
  <2>2. \A q \in Processes : q # p =>
          /\ proc'[q].pc \in {"send", "mark"} =>
               \E k \in DOMAIN outbox' :
                 /\ proc'[q].claim = {k}
                 /\ outbox'[k].status \in {"SENDING", "UNKNOWN"}
          /\ proc'[q].pc \notin {"send", "mark"} => proc'[q].claim = {}
    BY <1>2, <1>3, <2>1 DEF WatchInv, ClaimsAreOwned
  <2>3. /\ proc'[p].pc \in {"send", "mark"} =>
             \E k \in DOMAIN outbox' :
               /\ proc'[p].claim = {k}
               /\ outbox'[k].status \in {"SENDING", "UNKNOWN"}
        /\ proc'[p].pc \notin {"send", "mark"} => proc'[p].claim = {}
    BY <1>1, <1>2, <1>3
  <2>4. \A q \in Processes : q # p => proc[q].claim \cap claim = {}
    BY <1>3, <2>1
  <2>5. \A q, r \in Processes :
          q # r => proc'[q].claim \cap proc'[r].claim = {}
    BY <1>2, <2>4 DEF WatchInv, ClaimsAreOwned
  <2>6. \A k \in DOMAIN outbox : outbox'[k].status = "SENDING" => k \in claim
    BY <1>3
  <2>7. \A j, k \in claim : j = k
    BY <1>2
  <2>8. QED
    BY <1>3, <2>2, <2>3, <2>5, <2>6, <2>7 DEF ClaimsAreOwned
<1>8. ChannelAgrees'
  <2>1. \A k \in claim : accepted[k] = 0
    BY <1>3 DEF WatchInv, ChannelAgrees
  <2>2. QED
    BY <1>1, <1>2, <1>3, <2>1 DEF WatchInv, ChannelAgrees
<1>9. ClaimIsCool'
  <2>1. \A j \in DOMAIN outbox : outbox'[j].status = "SENT" =>
          outbox[j].status = "SENT" /\ outbox'[j].sent = outbox[j].sent
    BY <1>3
  <2>2. \A j, k \in DOMAIN outbox :
          k \in claim /\ j.ticker = k.ticker /\ outbox[j].status = "SENT" =>
            outbox[j].sent < now - Cooldown
    <3>1. \A j \in DOMAIN outbox : outbox[j].sent \in Int
      BY OutboxIsAFunction DEF OutboxRows
    <3>2. now - Cooldown \in Int
      BY <1>1, MonitorAssumption
    <3>3. QED
      BY <1>2, <3>1, <3>2 DEF Cooling
  <2>3. \A k \in DOMAIN outbox : outbox'[k].status = "SENDING" => k \in claim
    BY <1>3
  <2>4. \A q \in Processes : q # p => proc[q].claim \cap claim = {}
    BY <1>3 DEF WatchInv, ClaimsAreOwned
  <2>5. \A q \in Processes : proc'[q].claim \subseteq DOMAIN outbox
    BY <1>2 DEF WatchInv, ClaimsAreOwned
  <2>6. QED
    BY <1>2, <1>3, <2>1, <2>2, <2>3, <2>4, <2>5 DEF ClaimIsCool, now
<1>10. CooldownKept'
  BY <1>3 DEF WatchInv, CooldownKept
<1>11. LiveIsEarned'
  <2>1. \A s, f : Earned(s, f) => Earned(s, f)'
    BY <1>1 DEF Earned
  <2>2. \A k \in DOMAIN outbox :
          outbox'[k].status # "SHADOW" => outbox[k].status # "SHADOW"
    BY <1>3
  <2>3. QED
    BY <1>1, <1>2, <1>3, <2>1, <2>2 DEF WatchInv, LiveIsEarned
<1>12. OutageShows'
  BY <1>1 DEF WatchInv, OutageShows
<1>13. QED
  BY <1>4, <1>5, <1>6, <1>7, <1>8, <1>9, <1>10, <1>11, <1>12 DEF WatchInv

\* The channel shows a message of a claimed row at most once, and confirms
\* only what it has shown.
LEMMA SendInv ==
  ASSUME WatchInv, NEW p \in Processes, Send(p), SameWatch
  PROVE  WatchInv'
<1>1. PICK reply \in {"confirmed", "uncertain", "retryable", "rejected"},
           shown \in BOOLEAN, k \in proc[p].claim :
        /\ shown => reply \in {"confirmed", "uncertain"}
        /\ reply = "confirmed" => shown
        /\ accepted' = [accepted EXCEPT ![k] = IF shown THEN @ + 1 ELSE @]
        /\ proc' = [proc EXCEPT ![p].pc = "mark", ![p].reply = reply]
  BY DEF Send
<1>2. /\ proc[p] \in States /\ proc[p].pc = "send" /\ proc[p].claim = {k}
      /\ k \in DOMAIN outbox /\ k \in Signals /\ accepted[k] = 0
      /\ outbox[k].status \in {"SENDING", "UNKNOWN"}
      /\ UNCHANGED <<tick, outbox, observed, incidents, unseen>>
  BY DEF Send, SameWatch, store, WatchInv, MonitorTypes, ClaimsAreOwned,
         ChannelAgrees
<1>3. \A q \in Processes :
        /\ proc'[q].mode = proc[q].mode /\ proc'[q].now = proc[q].now
        /\ proc'[q].open = proc[q].open /\ proc'[q].claim = proc[q].claim
        /\ proc'[q].reply = IF q = p THEN reply ELSE proc[q].reply
        /\ proc'[q].pc = IF q = p THEN "mark" ELSE proc[q].pc
        /\ proc'[q] \in States
  BY <1>1, <1>2 DEF WatchInv, MonitorTypes, States, Steps
<1>4. /\ \A j \in Signals : j # k => accepted'[j] = accepted[j]
      /\ accepted'[k] \in {0, 1} /\ shown = (accepted'[k] = 1)
      /\ accepted' \in [Signals -> Nat]
  BY <1>1, <1>2 DEF WatchInv, MonitorTypes
<1>5. MonitorTypes'
  <2>1. proc' \in [Processes -> States]
    BY <1>1, <1>3 DEF WatchInv, MonitorTypes
  <2>2. QED
    BY <1>2, <1>4, <2>1 DEF WatchInv, MonitorTypes
<1>6. CycleIsOfToday'
  BY <1>2, <1>3 DEF WatchInv, CycleIsOfToday, InCycle
<1>7. RowsAreOfToday'
  BY <1>2 DEF WatchInv, RowsAreOfToday
<1>8. ClaimsAreOwned'
  BY <1>2, <1>3 DEF WatchInv, ClaimsAreOwned
<1>9. ChannelAgrees'
  <2>1. \A q \in Processes : q # p => k \notin proc[q].claim
    BY <1>2 DEF WatchInv, ClaimsAreOwned
  <2>2. \A q \in Processes : \A j \in proc[q].claim : j \in Signals
    BY DEF WatchInv, MonitorTypes, States
  <2>3. \A j \in Signals :
          /\ accepted'[j] \in {0, 1}
          /\ j \notin DOMAIN outbox' => accepted'[j] = 0
    BY <1>2, <1>4 DEF WatchInv, ChannelAgrees
  <2>4. \A j \in DOMAIN outbox :
          /\ outbox'[j].status \in {"SHADOW", "PENDING", "FAILED",
                                    "SUPPRESSED_COOLDOWN"} => accepted'[j] = 0
          /\ outbox'[j].status = "SENT" => accepted'[j] = 1
    BY <1>2, <1>4 DEF WatchInv, ChannelAgrees, MonitorTypes
  <2>5. \A q \in Processes : \A j \in proc'[q].claim :
          /\ proc'[q].pc = "send" => accepted'[j] = 0
          /\ proc'[q].pc = "mark" =>
               /\ proc'[q].reply # "none"
               /\ proc'[q].reply = "confirmed" => accepted'[j] = 1
               /\ proc'[q].reply \in {"retryable", "rejected"} => accepted'[j] = 0
    <3> SUFFICES ASSUME NEW q \in Processes, NEW j \in proc'[q].claim
                 PROVE  /\ proc'[q].pc = "send" => accepted'[j] = 0
                        /\ proc'[q].pc = "mark" =>
                             /\ proc'[q].reply # "none"
                             /\ proc'[q].reply = "confirmed" => accepted'[j] = 1
                             /\ proc'[q].reply \in {"retryable", "rejected"}
                                  => accepted'[j] = 0
      BY Zenon
    <3>1. CASE q = p
      <4>1. j = k /\ proc'[q].pc = "mark" /\ proc'[q].reply = reply
        BY <1>2, <1>3, <3>1
      <4>2. reply = "confirmed" => accepted'[k] = 1
        BY <1>1, <1>4
      <4>3. reply \in {"retryable", "rejected"} => accepted'[k] = 0
        BY <1>1, <1>4
      <4>4. QED
        BY <4>1, <4>2, <4>3
    <3>2. CASE q # p
      BY <1>3, <1>4, <2>1, <2>2, <3>2 DEF WatchInv, ChannelAgrees
    <3>3. QED
      BY <3>1, <3>2
  <2>6. QED
    BY <1>2, <2>3, <2>4, <2>5 DEF ChannelAgrees
<1>10. ClaimIsCool'
  BY <1>2, <1>3 DEF WatchInv, ClaimIsCool
<1>11. CooldownKept'
  BY <1>2 DEF WatchInv, CooldownKept
<1>12. LiveIsEarned'
  <2>1. \A s, f : Earned(s, f) => Earned(s, f)'
    BY <1>2 DEF Earned
  <2>2. QED
    BY <1>2, <1>3, <2>1 DEF WatchInv, LiveIsEarned
<1>13. OutageShows'
  BY <1>2 DEF WatchInv, OutageShows
<1>14. QED
  BY <1>5, <1>6, <1>7, <1>8, <1>9, <1>10, <1>11, <1>12, <1>13 DEF WatchInv

\* The answer is written to a row that is still being sent, and only to it.
LEMMA MarkInv ==
  ASSUME WatchInv, NEW p \in Processes, Mark(p), SameWatch
  PROVE  WatchInv'
<1>1. PICK k \in proc[p].claim :
       IF outbox[k].status = "SENDING"
       THEN /\ outbox' = [outbox EXCEPT ![k] = Answered(@, proc[p].reply)]
            /\ proc' = [proc EXCEPT ![p].pc = "drain", ![p].left = @ - 1,
                                    ![p].claim = {}, ![p].reply = "none"]
            /\ UNCHANGED unit
       ELSE /\ UNCHANGED outbox
            /\ IF proc[p].reply = "confirmed" THEN Fails(p)
               ELSE /\ proc' = [proc EXCEPT ![p].pc = "drain",
                                  ![p].left = @ - 1, ![p].claim = {},
                                  ![p].reply = "none"]
                    /\ UNCHANGED unit
  BY DEF Mark
<1>2. /\ proc[p] \in States /\ proc[p].pc = "mark" /\ proc[p].claim = {k}
      /\ k \in DOMAIN outbox /\ outbox[k] \in OutboxRows
      /\ Session(proc[p].now) = Session(tick) /\ proc[p].now <= tick
      /\ tick \in Nat /\ proc[p].now \in Nat
      /\ proc[p].reply \in {"confirmed", "uncertain", "retryable", "rejected"}
      /\ proc[p].reply = "confirmed" => accepted[k] = 1
      /\ proc[p].reply \in {"retryable", "rejected"} => accepted[k] = 0
  BY OutboxIsAFunction, SessionBounds
     DEF Mark, WatchInv, MonitorTypes, States, ClaimsAreOwned, CycleIsOfToday,
         InCycle, ChannelAgrees
<1>3. UNCHANGED <<tick, observed, accepted, incidents, unseen>>
  BY DEF Mark, SameWatch
<1> DEFINE s == [proc[p] EXCEPT !.pc = "drain", !.left = @ - 1, !.claim = {},
                                !.reply = "none"]
<1>4. Resting(s)
  <2>1. /\ s \in States
    <3>1. proc[p].left - 1 \in Int
      BY <1>2 DEF States
    <3>2. QED
      BY <1>2, <3>1 DEF States, Steps
  <2>2. /\ s.pc = "drain" /\ s.claim = {} /\ s.now = proc[p].now
        /\ s.mode = proc[p].mode /\ s.open = proc[p].open
    BY <1>2 DEF States
  <2>3. \A f \in Families :
          /\ proc[p].mode[f] = "live"
          /\ ~IsOver(tick) \/ proc[p].open
          => Earned(Session(tick), f)
    BY <1>2 DEF WatchInv, LiveIsEarned
  <2> HIDE DEF s
  <2>4. QED
    BY <1>2, <2>1, <2>2, <2>3 DEF Resting
<1>5. CASE outbox[k].status # "SENDING"
  <2>1. proc' = [proc EXCEPT ![p] = s] \/ proc' = [proc EXCEPT ![p] = Off]
    BY <1>1, <1>5 DEF Fails, WatchInv, MonitorTypes
  <2>2. UNCHANGED outbox
    BY <1>1, <1>5
  <2> HIDE DEF s
  <2>3. QuietStep
    BY <1>3, <1>4, <2>1, <2>2, OffRests
       DEF QuietStep, WatchInv, MonitorTypes, OutageShows
  <2>4. QED
    BY <2>3, QuietInv
<1>6. CASE outbox[k].status = "SENDING"
  <2> DEFINE row == Answered(outbox[k], proc[p].reply)
  <2>1. /\ outbox' = [outbox EXCEPT ![k] = row]
        /\ proc' = [proc EXCEPT ![p] = s]
    BY <1>1, <1>6 DEF WatchInv, MonitorTypes
  <2>2. /\ row \in OutboxRows /\ row.attempts = outbox[k].attempts
        /\ row.created = outbox[k].created
        /\ \/ /\ row.status = "SENT" /\ row.sent = tick
              /\ proc[p].reply = "confirmed"
           \/ /\ row.status = "UNKNOWN" /\ row.sent = outbox[k].sent
           \/ /\ row.status = "FAILED" /\ row.sent = outbox[k].sent
              /\ proc[p].reply \in {"retryable", "rejected"}
    BY <1>2 DEF Answered, OutboxRows, Statuses
  <2>3. /\ DOMAIN outbox' = DOMAIN outbox /\ outbox'[k] = row
        /\ \A j \in DOMAIN outbox : j # k => outbox'[j] = outbox[j]
        /\ outbox' \in [DOMAIN outbox -> OutboxRows]
    BY <2>1, <1>2, <2>2 DEF WatchInv, MonitorTypes
  <2>4. /\ proc'[p] = s /\ \A q \in Processes : q # p => proc'[q] = proc[q]
        /\ proc' \in [Processes -> States]
    BY <2>1, <1>4 DEF Resting, WatchInv, MonitorTypes
  <2>5. \A q \in Processes :
          (proc'[q] = proc[q] /\ k \notin proc[q].claim) \/ Resting(proc'[q])
    BY <1>2, <1>4, <2>4 DEF WatchInv, ClaimsAreOwned
  <2> HIDE DEF s, row
  <2>6. MonitorTypes'
    BY <1>3, <2>3, <2>4 DEF WatchInv, MonitorTypes
  <2>7. CycleIsOfToday'
    BY <1>3, <2>5, <2>6 DEF WatchInv, CycleIsOfToday, Resting, InCycle, MonitorTypes
  <2>8. RowsAreOfToday'
    <3>1. row.sent <= tick
      BY <1>2, <2>2 DEF WatchInv, RowsAreOfToday
    <3>2. QED
      BY <1>2, <1>3, <2>2, <2>3, <3>1 DEF WatchInv, RowsAreOfToday
  <2>9. ClaimsAreOwned'
    BY <1>6, <2>2, <2>3, <2>5 DEF WatchInv, ClaimsAreOwned, Resting
  <2>10. ChannelAgrees'
    BY <1>2, <1>3, <2>2, <2>3, <2>5 DEF WatchInv, ChannelAgrees, Resting
  <2>11. ClaimIsCool'
    <3>1. \A q \in Processes : \A j \in proc'[q].claim :
            j # k /\ j \in DOMAIN outbox
      BY <2>5 DEF WatchInv, ClaimsAreOwned, Resting
    <3>2. \A j \in DOMAIN outbox : j # k => outbox'[j].status # "SENDING"
      BY <1>2, <1>6, <2>3 DEF WatchInv, ClaimsAreOwned
    <3>3. QED
      BY <3>1, <3>2 DEF ClaimIsCool
  <2>12. CooldownKept'
    <3>1. \A j \in DOMAIN outbox :
            j # k /\ j.ticker = k.ticker /\ outbox[j].status = "SENT" =>
              outbox[j].sent < proc[p].now - Cooldown
      BY <1>2, <1>6 DEF WatchInv, ClaimIsCool
    <3>2. \A j \in DOMAIN outbox : outbox[j].sent \in Int
      BY OutboxIsAFunction DEF OutboxRows
    <3>3. \A j \in DOMAIN outbox :
            j # k /\ j.ticker = k.ticker /\ outbox[j].status = "SENT" =>
              tick > outbox[j].sent + Cooldown
      BY <3>1, <3>2, <1>2, MonitorAssumption
    <3>4. QED
      BY <1>6, <2>2, <2>3, <3>3, <1>3 DEF WatchInv, CooldownKept
  <2>13. LiveIsEarned'
    <3>1. \A r, f : Earned(r, f) => Earned(r, f)'
      BY <1>3 DEF Earned
    <3>2. \A j \in DOMAIN outbox : outbox'[j].status # "SHADOW" =>
            outbox[j].status # "SHADOW"
      BY <1>6, <2>3
    <3>3. QED
      BY <1>3, <2>3, <2>5, <3>1, <3>2 DEF WatchInv, LiveIsEarned, Resting
  <2>14. OutageShows'
    BY <1>3 DEF WatchInv, OutageShows
  <2>15. QED
    BY <2>6, <2>7, <2>8, <2>9, <2>10, <2>11, <2>12, <2>13, <2>14 DEF WatchInv
<1>7. QED
  BY <1>5, <1>6

-----------------------------------------------------------------------------
(* The end of a session, and the clock *)

\* An observation of today's session changes no session that promotes it.
LEMMA ObservationInv ==
  ASSUME WatchInv, NEW f \in Families, NEW v \in Verdicts,
         NEW pc \in {"finalizeCup", "finished"},
         proc["unit"].pc \in {"loop", "finalizeCup"},
         observed' = [observed EXCEPT ![Session(tick)][f] = v],
         proc' = [proc EXCEPT !["unit"].pc = pc],
         UNCHANGED <<tick, outbox, accepted, incidents, unseen>>
  PROVE  WatchInv'
<1>1. /\ Session(tick) \in Sessions /\ Session(tick) \in Nat /\ "unit" \in Processes
      /\ proc["unit"] \in States
  BY SessionBounds DEF WatchInv, MonitorTypes, Sessions, Processes
<1>2. \A q \in Processes :
        /\ proc'[q].mode = proc[q].mode /\ proc'[q].now = proc[q].now
        /\ proc'[q].open = proc[q].open /\ proc'[q].claim = proc[q].claim
        /\ proc'[q].reply = proc[q].reply
        /\ proc'[q].pc = IF q = "unit" THEN pc ELSE proc[q].pc
        /\ proc'[q] \in States
  BY <1>1 DEF WatchInv, MonitorTypes, States, Steps
<1>3. /\ observed' \in [Sessions -> [Families -> Verdicts]]
      /\ \A r \in Sessions : r # Session(tick) => observed'[r] = observed[r]
  BY <1>1 DEF WatchInv, MonitorTypes
<1>4. \A g : Earned(Session(tick), g) => Earned(Session(tick), g)'
  BY <1>1, <1>3, MonitorAssumption DEF Earned
<1>5. MonitorTypes'
  <2>1. proc' \in [Processes -> States]
    BY <1>2 DEF WatchInv, MonitorTypes
  <2>2. QED
    BY <1>3, <2>1 DEF WatchInv, MonitorTypes
<1>6. CycleIsOfToday'
  BY <1>2 DEF WatchInv, CycleIsOfToday, InCycle
<1>7. RowsAreOfToday'
  BY DEF WatchInv, RowsAreOfToday
<1>8. ClaimsAreOwned'
  BY <1>2 DEF WatchInv, ClaimsAreOwned
<1>9. ChannelAgrees'
  BY <1>2 DEF WatchInv, ChannelAgrees, ClaimsAreOwned
<1>10. ClaimIsCool'
  BY <1>2 DEF WatchInv, ClaimIsCool
<1>11. CooldownKept'
  BY DEF WatchInv, CooldownKept
<1>12. LiveIsEarned'
  BY <1>2, <1>4, OutboxIsAFunction DEF WatchInv, LiveIsEarned
<1>13. OutageShows'
  BY DEF WatchInv, OutageShows
<1>14. QED
  BY <1>5, <1>6, <1>7, <1>8, <1>9, <1>10, <1>11, <1>12, <1>13 DEF WatchInv

\* Recording the verdict on the momentum shadow of a session touches no signal.
LEMMA FinalizeInv ==
  ASSUME WatchInv, NEW healthy \in BOOLEAN, Finalize(healthy), SameWatch
  PROVE  WatchInv'
<1>1. PICK v \in Verdicts :
        observed' = [observed EXCEPT ![Session(tick)]["momentum"] = v]
  BY DEF Finalize, Verdicts
<1>2. /\ proc["unit"].pc \in {"loop", "finalizeCup"}
      /\ proc' = [proc EXCEPT !["unit"].pc = "finalizeCup"]
      /\ UNCHANGED <<tick, outbox, accepted, incidents, unseen>>
  BY DEF Finalize, Goto, SameWatch
<1>3. "momentum" \in Families
  BY DEF Families
<1>4. QED
  BY <1>1, <1>2, <1>3, ObservationInv

\* Nor does recording the one on the cup shadow.
LEMMA FinalizeCupInv ==
  ASSUME WatchInv, NEW healthy \in BOOLEAN, FinalizeCup(healthy), SameWatch
  PROVE  WatchInv'
<1>1. PICK v \in Verdicts :
        observed' = [observed EXCEPT ![Session(tick)]["cup"] = v]
  BY DEF FinalizeCup, Verdicts
<1>2. /\ proc["unit"].pc \in {"loop", "finalizeCup"}
      /\ proc' = [proc EXCEPT !["unit"].pc = "finished"]
      /\ UNCHANGED <<tick, outbox, accepted, incidents, unseen>>
  BY DEF FinalizeCup, Goto, SameWatch
<1>3. "cup" \in Families
  BY DEF Families
<1>4. QED
  BY <1>1, <1>2, <1>3, ObservationInv

\* The session changes only while every process is off, and only before a
\* detector has fired.
LEMMA TickInv == WatchInv /\ Tick /\ SameWatch => WatchInv'
<1> SUFFICES ASSUME WatchInv, Tick, SameWatch
             PROVE  WatchInv'
  OBVIOUS
<1>1. /\ tick' = tick + 1 /\ tick' \in Ticks /\ tick \in Nat
      /\ UNCHANGED <<outbox, observed, proc, accepted, incidents, unseen>>
  BY SessionBounds DEF Tick, SameWatch, WatchInv, MonitorTypes
<1>2. \A q \in Processes : proc[q].now \in Nat
  BY DEF WatchInv, MonitorTypes, States
<1>3. CASE ~IsOver(tick)
  <2>1. Session(tick') = Session(tick)
    BY <1>1, <1>3, SameSession
  <2>2. MonitorTypes'
    BY <1>1 DEF WatchInv, MonitorTypes
  <2>3. CycleIsOfToday'
    BY <1>1, <1>2, <2>1 DEF WatchInv, CycleIsOfToday, InCycle
  <2>4. RowsAreOfToday'
    <3>1. \A k \in DOMAIN outbox : outbox[k].sent \in Nat
      BY OutboxIsAFunction DEF OutboxRows
    <3>2. QED
      BY <1>1, <2>1, <3>1 DEF WatchInv, RowsAreOfToday
  <2>5. ClaimsAreOwned' /\ ChannelAgrees' /\ ClaimIsCool' /\ CooldownKept'
        /\ OutageShows'
    BY <1>1 DEF WatchInv, ClaimsAreOwned, ChannelAgrees, ClaimIsCool,
                CooldownKept, OutageShows
  <2>6. LiveIsEarned'
    <3>1. \A r, f : Earned(r, f) => Earned(r, f)'
      BY <1>1 DEF Earned
    <3>2. QED
      BY <1>1, <1>3, <2>1, <3>1 DEF WatchInv, LiveIsEarned
  <2>7. QED
    BY <2>2, <2>3, <2>4, <2>5, <2>6 DEF WatchInv
<1>4. CASE IsOver(tick)
  <2>1. /\ Session(tick') = Session(tick) + 1 /\ Session(tick') \in Sessions
        /\ Session(tick) \in Nat
    BY <1>1, <1>4, NextSession, SessionBounds DEF WatchInv, MonitorTypes, Sessions
  <2>2. DOMAIN outbox = {}
    <3>1. LastSession \in Nat /\ Session(tick) + 1 <= LastSession
      BY <2>1, MonitorAssumption DEF Sessions
    <3>2. \A k \in DOMAIN outbox : FALSE
      BY <2>1, <3>1 DEF WatchInv, RowsAreOfToday
    <3>3. QED
      BY <3>2
  <2>3. \A p \in Processes : proc[p].pc = "off"
    BY <1>4 DEF Tick
  <2>4. MonitorTypes'
    BY <1>1 DEF WatchInv, MonitorTypes
  <2>5. CycleIsOfToday'
    BY <1>1, <1>2, <2>3 DEF WatchInv, CycleIsOfToday, InCycle
  <2>6. RowsAreOfToday'
    BY <1>1, <2>2 DEF RowsAreOfToday
  <2>7. ClaimsAreOwned' /\ ChannelAgrees' /\ ClaimIsCool' /\ CooldownKept'
        /\ OutageShows'
    BY <1>1 DEF WatchInv, ClaimsAreOwned, ChannelAgrees, ClaimIsCool,
                CooldownKept, OutageShows
  <2>8. LiveIsEarned'
    BY <1>1, <2>2, <2>3 DEF LiveIsEarned
  <2>9. QED
    BY <2>4, <2>5, <2>6, <2>7, <2>8 DEF WatchInv
<1>5. QED
  BY <1>3, <1>4

-----------------------------------------------------------------------------
(* The invariant *)

\* The invariant holds before the first session.
LEMMA InitInv == Init => WatchInv
<1> SUFFICES ASSUME Init
             PROVE  WatchInv
  OBVIOUS
<1>1. /\ tick = 2 * Length /\ DOMAIN outbox = {}
      /\ proc = [p \in Processes |-> Off]
      /\ accepted = [k \in Signals |-> 0] /\ incidents = {} /\ unseen = FALSE
      /\ observed = [s \in Sessions |->
           [f \in Families |-> IF s = 1 THEN "PASS" ELSE "none"]]
  BY DEF Init, MonitorInit
<1>2. tick \in Ticks
  <2>1. 3 * Length <= (LastSession + 1) * Length
    <3>1. CASE LastSession = 2
      BY <3>1, LengthType
    <3>2. CASE LastSession > 2
      <4>1. Length * 3 + Length <= Length * (LastSession + 1)
        BY <3>2, LengthType, MonitorAssumption, Multiples
      <4>2. Length * (LastSession + 1) = (LastSession + 1) * Length
        BY LengthType, MonitorAssumption
      <4>3. Length * 3 \in Int /\ Length * (LastSession + 1) \in Int
        BY LengthType, MonitorAssumption
      <4>4. QED
        BY <4>1, <4>2, <4>3, LengthType
    <3>3. QED
      BY <3>1, <3>2, MonitorAssumption
  <2>2. (LastSession + 1) * Length \in Int
    BY LengthType, MonitorAssumption
  <2>3. QED
    BY <1>1, <2>1, <2>2, LengthType DEF Ticks
<1>3. tick \in Nat
  BY <1>2, SessionBounds
<1>4. MonitorTypes
  BY <1>1, <1>2, OffState DEF MonitorTypes, Verdicts, Fingerprints
<1>5. CycleIsOfToday
  BY <1>1, <1>3, OffState DEF CycleIsOfToday, InCycle
<1>6. RowsAreOfToday /\ ClaimsAreOwned /\ ChannelAgrees /\ ClaimIsCool
      /\ CooldownKept /\ OutageShows
  BY <1>1, OffState DEF RowsAreOfToday, ClaimsAreOwned, ChannelAgrees,
                        ClaimIsCool, CooldownKept, OutageShows
<1>7. LiveIsEarned
  BY <1>1, OffState DEF LiveIsEarned
<1>8. QED
  BY <1>4, <1>5, <1>6, <1>7 DEF WatchInv

\* A step that is not quiet is one of these.
Works ==
  \/ \E p \in Processes :
       (\E k \in Signals : Stage(p, k)) \/ Claim(p) \/ Send(p) \/ Mark(p)
  \/ \E healthy \in BOOLEAN : Finalize(healthy) \/ FinalizeCup(healthy)
  \/ Tick

\* A step leaves the outbox alone or is one that works on it.
LEMMA StepKinds == WatchInv /\ [Next]_vars => QuietStep \/ (Works /\ SameWatch)
<1> SUFFICES ASSUME WatchInv, [Next]_vars
             PROVE  QuietStep \/ (Works /\ SameWatch)
  OBVIOUS
<1>1. CASE UNCHANGED vars
  BY <1>1 DEF vars, monitorVars, store, QuietStep, WatchInv, MonitorTypes,
              OutageShows
<1>2. CASE \E broken \in {"none", "other", "delivery"} : Watch(broken)
  BY <1>2, WatchRunIsQuiet
<1>3. CASE MonitorNext /\ SameWatch
  <2>1. ASSUME NEW p \in Processes, Cycle(p)
        PROVE  QuietStep \/ Works
    BY <1>3, <2>1, BeginCycleIsQuiet, EndDetectionIsQuiet, EndCycleIsQuiet
       DEF Cycle, Works
  <2>2. CASE EndOfSession
    BY <1>3, <2>2, FinishIsQuiet DEF EndOfSession, Works
  <2>3. QED
    BY <1>3, <2>1, <2>2, StartUnitIsQuiet, StartByHandIsQuiet,
       WaitingBeatIsQuiet, KillIsQuiet, RebootIsQuiet DEF MonitorNext, Works
<1>4. QED
  BY <1>1, <1>2, <1>3 DEF Next, SameWatch

\* Every step keeps the invariant.
LEMMA NextInv == WatchInv /\ [Next]_vars => WatchInv'
  BY StepKinds, QuietInv, StageInv, ClaimInv, SendInv, MarkInv, FinalizeInv,
     FinalizeCupInv, TickInv DEF Works

\* The inductive invariant of the monitor and its watchdog.
THEOREM WatchInvariant == Spec => []WatchInv
<1>1. QED
  BY InitInv, NextInv, PTL DEF Spec

\* Every row is a signal of the session in which it was created, is tried at
\* most max_delivery_attempts times, and is held by a process exactly while
\* that process sends it.
THEOREM WatchTyping == Spec => []IntradayTypeOK
<1>1. WatchInv => IntradayTypeOK
  <2> SUFFICES ASSUME WatchInv
               PROVE  IntradayTypeOK
    OBVIOUS
  <2>1. /\ tick \in Ticks /\ DOMAIN outbox \subseteq Signals
        /\ incidents \subseteq Fingerprints
    BY DEF WatchInv, MonitorTypes
  <2>2. \A k \in DOMAIN outbox :
          /\ outbox[k].status \in {"SHADOW", "PENDING", "SENDING", "SENT",
               "FAILED", "UNKNOWN", "SUPPRESSED_COOLDOWN"}
          /\ outbox[k].attempts \in 0..MaxAttempts
          /\ Session(outbox[k].created) = k.session
    BY OutboxIsAFunction, MonitorAssumption
       DEF WatchInv, RowsAreOfToday, OutboxRows, Statuses
  <2>3. \A p \in Processes :
          /\ proc[p].claim \subseteq DOMAIN outbox
          /\ proc[p].claim # {} <=> proc[p].pc \in {"send", "mark"}
    BY DEF WatchInv, ClaimsAreOwned
  <2>4. QED
    BY <2>1, <2>2, <2>3 DEF IntradayTypeOK
<1>2. QED
  BY <1>1, WatchInvariant, PTL

\* Two confirmed messages about one ticker are more than the cooldown apart,
\* whatever the number of tickers and minutes and the length of the cooldown:
\* claim_next_delivery measures it from the start of a cycle, and freezes the
\* row another process is sending.
THEOREM CooldownIsKept == Spec => []CooldownKept
<1>1. WatchInv => CooldownKept
  BY DEF WatchInv
<1>2. QED
  BY <1>1, WatchInvariant, PTL

\* Whatever the number of sessions required: no message is shown unless each
\* of them was finalized and passed, in both observations for a cup handle.
THEOREM ShownOnlyIfPromoted == Spec => []ShownIsPromoted
<1>1. WatchInv => ShownIsPromoted
  <2> SUFFICES ASSUME WatchInv, NEW k \in Signals, accepted[k] > 0
               PROVE  Earned(k.session, k.family)
    BY DEF ShownIsPromoted, Earned
  <2>1. k \in DOMAIN outbox /\ outbox[k].status # "SHADOW"
    BY DEF WatchInv, ChannelAgrees
  <2>2. QED
    BY <2>1 DEF WatchInv, LiveIsEarned
<1>2. QED
  BY <1>1, WatchInvariant, PTL

\* A snapshot taken while the monitor should work and does not shows an
\* incident, whatever the heartbeat timeout and whichever collector fails.
THEOREM OutagesShow == Spec => []OutageShows
<1>1. WatchInv => OutageShows
  BY DEF WatchInv
<1>2. QED
  BY <1>1, WatchInvariant, PTL

-----------------------------------------------------------------------------
(* The signal outbox implements AtMostOnceDelivery *)

\* A step that shows no message: a decided row stays as it is, and no process
\* takes a row that was decided or frozen.
RowsMove ==
  /\ accepted' = accepted
  /\ \A k \in DOMAIN outbox :
       /\ k \in DOMAIN outbox'
       /\ outbox[k].status \in {"SENT", "SHADOW", "SUPPRESSED_COOLDOWN", "UNKNOWN"}
            => outbox'[k].status = outbox[k].status
       /\ outbox'[k].status # outbox[k].status =>
            /\ outbox'[k].status = "SENT" => accepted[k] = 1
            /\ outbox'[k].status = "SUPPRESSED_COOLDOWN" => accepted[k] = 0
            /\ outbox'[k].status # "SHADOW"
  /\ \A k \in DOMAIN outbox' : k \notin DOMAIN outbox =>
       outbox'[k].status \in {"PENDING", "SHADOW"} /\ accepted[k] = 0
  /\ \A p \in Processes : \A k \in proc'[p].claim :
       \/ k \in proc[p].claim
       \/ k \in DOMAIN outbox /\ outbox[k].status \in {"PENDING", "FAILED"}

\* A step that shows a message of a row that is being sent.
Shows ==
  \E k \in Signals :
    /\ accepted[k] = 0 /\ Outcome(k) = "undecided"
    /\ accepted' = [accepted EXCEPT ![k] = 1]
    /\ outbox' = outbox
    /\ \A p \in Processes : proc'[p].claim = proc[p].claim

\* A step that leaves the outbox alone moves no row.
LEMMA QuietMoves == WatchInv /\ QuietStep => RowsMove
  BY DEF QuietStep, RowsMove, Resting

\* Staging adds a row that has shown nothing.
LEMMA StageMoves ==
  ASSUME WatchInv, NEW p \in Processes, NEW k \in Signals, Stage(p, k)
  PROVE  RowsMove
<1> DEFINE row == NewRow(IF proc[p].mode[k.family] = "live"
                         THEN "PENDING" ELSE "SHADOW")
<1>1. /\ k \notin DOMAIN outbox
      /\ outbox' = [j \in DOMAIN outbox \cup {k} |->
           IF j \in DOMAIN outbox THEN outbox[j] ELSE row]
      /\ UNCHANGED accepted
  BY DEF Stage
<1>2. \A q \in Processes : proc'[q].claim = proc[q].claim
  BY DEF Stage, Goto, WatchInv, MonitorTypes, States
<1>3. row.status \in {"PENDING", "SHADOW"}
  BY DEF NewRow
<1> HIDE DEF row
<1>4. accepted[k] = 0
  BY <1>1 DEF WatchInv, ChannelAgrees
<1>5. QED
  BY <1>1, <1>2, <1>3, <1>4 DEF RowsMove

\* A claim moves rows that have not been shown.
LEMMA ClaimMoves ==
  ASSUME WatchInv, NEW p \in Processes, Claim(p)
  PROVE  RowsMove
<1> DEFINE now == proc[p].now
           s == Session(now)
<1>1. PICK claim \in SUBSET Sendable(s) : outbox' = Claimed(s, now, claim)
        /\ \A q \in Processes : proc'[q].claim \subseteq proc[q].claim \cup claim
  <2>1. CASE /\ outbox' = Claimed(s, now, {})
             /\ proc' = [proc EXCEPT ![p].left = 0]
    <3>1. \A q \in Processes : proc'[q].claim = proc[q].claim
      BY <2>1 DEF WatchInv, MonitorTypes, States
    <3>2. /\ {} \in SUBSET Sendable(s)
          /\ \A q \in Processes : proc'[q].claim \subseteq proc[q].claim \cup {}
      BY <3>1
    <3> HIDE DEF now, s
    <3>3. QED
      BY <2>1, <3>2
  <2>2. ASSUME NEW k \in Sendable(s), outbox' = Claimed(s, now, {k}),
               proc' = [proc EXCEPT ![p].pc = "send", ![p].claim = {k}]
        PROVE  \A q \in Processes : proc'[q].claim \subseteq proc[q].claim \cup {k}
    BY <2>2 DEF WatchInv, MonitorTypes, States
  <2>3. \/ /\ outbox' = Claimed(s, now, {})
           /\ proc' = [proc EXCEPT ![p].left = 0]
        \/ \E k \in Sendable(s) :
             /\ outbox' = Claimed(s, now, {k})
             /\ proc' = [proc EXCEPT ![p].pc = "send", ![p].claim = {k}]
    BY DEF Claim
  <2>4. \A k \in Sendable(s) : {k} \in SUBSET Sendable(s)
    OBVIOUS
  <2> HIDE DEF now, s
  <2>5. QED
    BY <2>1, <2>2, <2>3, <2>4
<1> HIDE DEF now, s
<1>2. \A k \in Sendable(s) :
        k \in DOMAIN outbox /\ outbox[k].status \in {"PENDING", "FAILED"}
  BY DEF Sendable
<1>3. DOMAIN outbox' = DOMAIN outbox /\ UNCHANGED accepted
  BY <1>1 DEF Claim, Claimed
<1>4. \A k \in DOMAIN outbox :
        \/ outbox'[k].status = outbox[k].status
        \/ outbox[k].status = "SENDING" /\ outbox'[k].status = "UNKNOWN"
        \/ k \in Sendable(s) /\ outbox'[k].status \in {"SENDING", "SUPPRESSED_COOLDOWN"}
  BY <1>1, OutboxIsAFunction DEF Claimed, OutboxRows
<1>5. \A k \in Sendable(s) : accepted[k] = 0
  BY <1>2 DEF WatchInv, ChannelAgrees
<1>6. QED
  BY <1>1, <1>2, <1>3, <1>4, <1>5 DEF RowsMove

\* Sending shows a row once or leaves it claimed.
LEMMA SendMoves ==
  ASSUME WatchInv, NEW p \in Processes, Send(p)
  PROVE  RowsMove \/ Shows
<1>1. PICK reply \in {"confirmed", "uncertain", "retryable", "rejected"},
           shown \in BOOLEAN, k \in proc[p].claim :
        /\ accepted' = [accepted EXCEPT ![k] = IF shown THEN @ + 1 ELSE @]
        /\ proc' = [proc EXCEPT ![p].pc = "mark", ![p].reply = reply]
  BY DEF Send
<1>2. /\ k \in DOMAIN outbox /\ k \in Signals /\ accepted[k] = 0
      /\ outbox[k].status \in {"SENDING", "UNKNOWN"} /\ UNCHANGED outbox
  BY DEF Send, store, WatchInv, MonitorTypes, ClaimsAreOwned, ChannelAgrees
<1>3. \A q \in Processes : proc'[q].claim = proc[q].claim
  BY <1>1 DEF WatchInv, MonitorTypes, States
<1>4. CASE shown
  <2>1. accepted' = [accepted EXCEPT ![k] = 1]
    BY <1>1, <1>2, <1>4
  <2>2. Outcome(k) = "undecided"
    BY <1>1, <1>2 DEF Outcome
  <2>3. QED
    BY <1>2, <1>3, <2>1, <2>2 DEF Shows
<1>5. CASE ~shown
  <2>1. accepted' = accepted
    BY <1>1, <1>2, <1>5 DEF WatchInv, MonitorTypes
  <2>2. QED
    BY <1>2, <1>3, <2>1 DEF RowsMove
<1>6. QED
  BY <1>4, <1>5

\* A mark settles a row as its sender found it.
LEMMA MarkMoves ==
  ASSUME WatchInv, NEW p \in Processes, Mark(p)
  PROVE  RowsMove
<1>1. PICK k \in proc[p].claim :
        \/ UNCHANGED outbox
        \/ /\ outbox[k].status = "SENDING"
           /\ outbox' = [outbox EXCEPT ![k] = Answered(@, proc[p].reply)]
  BY DEF Mark
<1>2. /\ k \in DOMAIN outbox /\ outbox[k] \in OutboxRows
      /\ proc[p].reply = "confirmed" => accepted[k] = 1
      /\ UNCHANGED accepted
  BY OutboxIsAFunction DEF Mark, WatchInv, ClaimsAreOwned, ChannelAgrees
<1>3. \A q \in Processes : proc'[q].claim \subseteq proc[q].claim
  <2>1. \/ proc' = [proc EXCEPT ![p].pc = "drain", ![p].left = @ - 1,
                                ![p].claim = {}, ![p].reply = "none"]
        \/ proc' = [proc EXCEPT ![p] = Off]
    BY DEF Mark, Fails
  <2>2. proc \in [Processes -> States]
    BY DEF WatchInv, MonitorTypes
  <2>3. CASE proc' = [proc EXCEPT ![p].pc = "drain", ![p].left = @ - 1,
                                  ![p].claim = {}, ![p].reply = "none"]
    <3>1. \A q \in Processes : q # p => proc'[q] = proc[q]
      BY <2>2, <2>3
    <3>2. proc'[p].claim = {}
      BY <2>2, <2>3 DEF States
    <3>3. QED
      BY <3>1, <3>2
  <2>4. CASE proc' = [proc EXCEPT ![p] = Off]
    BY <2>2, <2>4, OffState
  <2>5. QED
    BY <2>1, <2>3, <2>4
<1>4. /\ DOMAIN outbox' = DOMAIN outbox
      /\ \A j \in DOMAIN outbox :
           \/ outbox'[j].status = outbox[j].status
           \/ /\ outbox[j].status = "SENDING"
              /\ \/ outbox'[j].status \in {"UNKNOWN", "FAILED"}
                 \/ outbox'[j].status = "SENT" /\ accepted[j] = 1
  BY ZenonT(60), <1>1, <1>2 DEF Answered, OutboxRows
<1>5. QED
  BY <1>2, <1>3, <1>4 DEF RowsMove

\* Every step moves rows one way or shows one signal.
LEMMA StepMoves == WatchInv /\ [Next]_vars => RowsMove \/ Shows
<1> SUFFICES ASSUME WatchInv, Works
             PROVE  RowsMove \/ Shows
  BY StepKinds, QuietMoves
<1>1. ASSUME NEW healthy \in BOOLEAN, Finalize(healthy) \/ FinalizeCup(healthy)
      PROVE  RowsMove
  <2>1. /\ UNCHANGED <<outbox, accepted>>
        /\ \A q \in Processes : proc'[q].claim = proc[q].claim
    BY <1>1 DEF Finalize, FinalizeCup, Goto, WatchInv, MonitorTypes, States
  <2>2. QED
    BY <2>1 DEF RowsMove
<1>2. CASE Tick
  BY <1>2 DEF Tick, RowsMove
<1>3. QED
  BY <1>1, <1>2, StageMoves, ClaimMoves, SendMoves, MarkMoves DEF Works

\* Each move of the rows decides outcomes as the promise allows.
LEMMA MovesDecide == WatchInv /\ WatchInv' /\ RowsMove => Delivery!Decide
<1> SUFFICES ASSUME WatchInv, WatchInv', RowsMove
             PROVE  Delivery!Decide
  OBVIOUS
<1>1. \A k \in Signals : Outcome(k)' \in Delivery!Outcomes
  BY DEF Outcome, Delivery!Outcomes
<1>2. ASSUME NEW k \in Signals
      PROVE  /\ Outcome(k) # "undecided" => Outcome(k)' = Outcome(k)
             /\ Outcome(k) # Outcome(k)' =>
                  /\ Outcome(k)' = "delivered" => accepted[k] = 1
                  /\ Outcome(k)' = "suppressed" => accepted[k] = 0
  <2>1. CASE k \notin DOMAIN outbox
    BY <2>1 DEF Outcome, RowsMove
  <2>2. CASE k \in DOMAIN outbox
    BY <2>2 DEF Outcome, RowsMove
  <2>3. QED
    BY <2>1, <2>2
<1>3. QED
  BY <1>1, <1>2 DEF Delivery!Decide, RowsMove

\* Every behaviour of the monitor, the watchdog and their kills is one of an
\* outbox that shows each message at most once and reports it truthfully.
THEOREM SignalsAreShownOnce == Spec => SignalsAtMostOnce
<1>1. Init => Delivery!Init
  BY DEF Init, MonitorInit, Delivery!Init, Outcome
<1>2. WatchInv /\ WatchInv' /\ [Next]_vars
        => [Delivery!Next]_<<accepted, [k \in Signals |-> Outcome(k)]>>
  <2> SUFFICES ASSUME WatchInv, WatchInv', [Next]_vars
               PROVE  Delivery!Next
    OBVIOUS
  <2>1. CASE RowsMove
    BY <2>1, MovesDecide DEF Delivery!Next
  <2>2. CASE Shows
    <3>1. PICK k \in Signals :
            /\ accepted[k] = 0 /\ Outcome(k) = "undecided"
            /\ accepted' = [accepted EXCEPT ![k] = 1]
            /\ outbox' = outbox
            /\ \A p \in Processes : proc'[p].claim = proc[p].claim
      BY <2>2 DEF Shows
    <3>2. \A j \in Signals : Outcome(j)' = Outcome(j)
      BY <3>1 DEF Outcome
    <3>3. Delivery!Create(k)
      BY <3>1, <3>2 DEF Delivery!Create
    <3>4. QED
      BY <3>3 DEF Delivery!Next
  <2>3. QED
    BY <2>1, <2>2, StepMoves
<1>3. QED
  BY <1>1, <1>2, WatchInvariant, PTL DEF Spec, SignalsAtMostOnce, Delivery!Spec
=============================================================================
