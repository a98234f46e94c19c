------------------------- MODULE BroadPipelineProofs -------------------------
(***************************************************************************)
(* Proofs about BroadPipeline.  The inductive invariant says of every      *)
(* stored artifact what it was checked for when it was built: a coverage   *)
(* version is sound by itself and extends its parent, a provider cache     *)
(* dominates the version it is compared with, a universe has members with  *)
(* bars only, a factor partition equals what its generation would compute. *)
(* Stored artifacts only grow, so what was true of one stays true.         *)
(***************************************************************************)
EXTENDS BroadPipeline, FiniteSetTheorems, TLAPS

-----------------------------------------------------------------------------
(* The inductive invariant *)

Rows == [Sec -> [Days -> Bases \cup {NoRow}]]

VersionRecords ==
  [target : Nat, master : Nat, parent : Nat, from : Nat, rows : Rows,
   isolated : SUBSET Sec, repaired : SUBSET Sec, canonical : SUBSET Sec]

Members == UNION {[Ended(t) -> SUBSET Sec] : t \in Days}
UniverseRecords ==
  [cov : Nat, master : Nat, target : Nat, members : Members]

Parts == [end : Nat, cov : Nat, uni : Nat, src : Nat]
Plans == UNION {[Periods(t) -> Parts] : t \in Days}
GenRecords ==
  [cov : Nat, uni : Nat, prev : Nat, staged : Plans \cup {<<>>},
   final : Plans \cup {<<>>}]

Bindings == [parent : Nat, target : Nat, master : Nat]
Candidates == VersionRecords \cup UniverseRecords \cup {NoVersion}
ArgRecords ==
  [target : Nat, bind : Bindings, force : BOOLEAN, restore : SUBSET Sec,
   cand : Candidates, cover : Nat, gen : Nat, prev : Nat,
   done : Plans \cup {<<>>}]

Stages == {"master", "coverage", "universe", "factors"}
Steps  == Stages \cup {"idle", "buildMaster", "fetch", "register",
                       "publishUniverse", "lockFactors", "compute",
                       "publish", "point"}

\* The vendor can still re-scale as often as the bound leaves.
MarketOK ==
  /\ day \in Days /\ FirstDay <= day
  /\ vendor \in [Sec -> Nat]
  /\ budget \in [revisions : Nat, trouble : Nat, jobs : Nat]
  /\ \A s \in Sec : vendor[s] + budget.revisions <= MaxRevisions
  /\ listed \subseteq Sec

MastersOK ==
  /\ masters \in Seq([session : Nat, ids : SUBSET Sec])
  /\ masters # <<>>

\* A version by itself: exactly the securities of its Security Master that
\* are not isolated have bars, on every session up to its target, on bases
\* that only rise and that the vendor has served.
SoundRows(v) ==
  /\ \A s \in Sec, d \in Days :
       v.rows[s][d] # NoRow
         <=> d <= v.target /\ s \in masters[v.master].ids \ v.isolated
  /\ \A s \in Sec : \A d \in 1..v.target, e \in 1..v.target :
       d <= e => v.rows[s][d] <= v.rows[s][e]
  /\ \A s \in Sec, d \in Days : v.rows[s][d] <= vendor[s]
Sound(v) ==
  /\ v.target \in Days /\ FirstDay <= v.target
  /\ v.master \in DOMAIN masters
  /\ SoundRows(v)

Same(v, s, last) ==
  \A d \in 1..last, e \in 1..last : v.rows[s][d] = v.rows[s][e]

WindowStart(p) == IF p.target > Overlap THEN p.target - Overlap ELSE 1

\* A version against its parent: a security is on one basis over the
\* parent's sessions, or moved from the parent by one factor.
Moved(v, p, s) ==
  \E k \in Int : \A d \in 1..p.target : v.rows[s][d] = p.rows[s][d] + k
ExtendsVersion(v, p) ==
  /\ p.target <= v.target
  /\ v.from = WindowStart(p)
  /\ p.isolated \ v.isolated \subseteq v.repaired
  /\ \A s \in Sec : Same(v, s, p.target) \/ Moved(v, p, s)

\* No run up to v added more sessions than the overlap has, or met the
\* re-scaling its parent met.
Chained(v, s) ==
  \A x \in 2..v :
    /\ versions[x].target - versions[versions[x].parent].target <= Overlap
    /\ ~MixedTwice(x, s)

\* What the window need not decide, since it is decided already.
Decided(v) ==
  \A s \in Sec :
    Chained(v, s) =>
      Same(versions[v], s,
           IF v = 1 THEN versions[v].target ELSE versions[v - 1].target)

VersionsOK ==
  /\ versions \in Seq(VersionRecords) /\ versions # <<>>
  /\ \A v \in DOMAIN versions :
       /\ Sound(versions[v])
       /\ v > 1 => /\ versions[v].parent = v - 1
                   /\ ExtendsVersion(versions[v], versions[v - 1])
       /\ Decided(v)

\* Everything a cache holds was read after its parent had been registered.
CacheOK ==
  \A b \in DOMAIN cache :
    /\ b \in Bindings /\ b.parent \in DOMAIN versions
    /\ cache[b] \in Seq([Sec -> Nat])
    /\ \A i \in DOMAIN cache[b], s \in Sec :
         /\ cache[b][i][s] <= vendor[s]
         /\ \A d \in Days : versions[b.parent].rows[s][d] <= cache[b][i][s]
         /\ \A j \in DOMAIN cache[b] :
              i <= j => cache[b][i][s] <= cache[b][j][s]

UniverseOK(u) ==
  /\ u \in UniverseRecords
  /\ u.cov \in DOMAIN versions
  /\ u.target = versions[u.cov].target
  /\ u.master = versions[u.cov].master
  /\ u.members \in [Ended(u.target) -> SUBSET Sec]
  /\ \A m \in DOMAIN u.members : u.members[m] \subseteq Eligible(u.cov, m)

UniversesOK ==
  /\ universes \in Seq(UniverseRecords) /\ universes # <<>>
  /\ \A u \in DOMAIN universes : UniverseOK(universes[u])

\* A partition of month m that generation g may use.
PartOK(g, m, part) ==
  /\ part.cov \in DOMAIN versions /\ part.uni \in DOMAIN universes
  /\ part.end = End(m, Target(g))
  /\ Reads(part.cov, part.uni, m, part.end)
       = Reads(gens[g].cov, gens[g].uni, m, part.end)

FinalOK(g, plan) ==
  /\ plan \in [Periods(Target(g)) -> Parts]
  /\ \A m \in DOMAIN plan : PartOK(g, m, plan[m]) /\ plan[m].src \in FinalGens

StagedOK(g, plan) ==
  /\ plan \in [Periods(Target(g)) -> Parts]
  /\ \A m \in DOMAIN plan :
       plan[m] # Missing =>
         PartOK(g, m, plan[m]) /\ plan[m].src \in FinalGens \cup {g}

GenOK(g) ==
  /\ gens[g].cov \in DOMAIN versions /\ gens[g].uni \in DOMAIN universes
  /\ universes[gens[g].uni].cov = gens[g].cov
  /\ gens[g].prev \in {0} \cup FinalGens
  /\ gens[g].final # <<>> => FinalOK(g, gens[g].final)
  /\ gens[g].staged # <<>> => StagedOK(g, gens[g].staged)

GensOK ==
  /\ gens \in Seq(GenRecords)
  /\ \A g \in DOMAIN gens : GenOK(g)
  /\ factorPub \in FinalGens

CandidateOK(v) ==
  /\ v \in VersionRecords
  /\ v.parent \in DOMAIN versions
  /\ Sound(v) /\ ExtendsVersion(v, versions[v.parent])

BindOK(b) ==
  /\ b.parent \in DOMAIN versions /\ b.master \in DOMAIN masters
  /\ b.target \in Days /\ versions[b.parent].target <= b.target

\* What a job holds at each step.
JobOK(w) ==
  /\ pc[w] \in {"master", "buildMaster", "coverage"} => arg[w].target \in Days
  /\ pc[w] = "fetch" => BindOK(arg[w].bind)
  /\ pc[w] = "register" => CandidateOK(arg[w].cand)
  /\ pc[w] = "universe" /\ w = "service" => arg[w].cover \in DOMAIN versions
  /\ pc[w] = "publishUniverse" => UniverseOK(arg[w].cand)
  /\ pc[w] \in {"lockFactors", "compute", "publish"} =>
       /\ arg[w].gen \in DOMAIN gens
       /\ arg[w].prev \in {0} \cup FinalGens
       /\ StagedOK(arg[w].gen, arg[w].done)
  /\ pc[w] = "publish" =>
       \A m \in DOMAIN arg[w].done : arg[w].done[m] # Missing
  /\ pc[w] = "point" => arg[w].gen \in FinalGens

JobsOK ==
  /\ pc \in [Jobs -> Steps] /\ arg \in [Jobs -> ArgRecords]
  /\ \A w \in Jobs : JobOK(w)

StoresOK == /\ MarketOK /\ MastersOK /\ VersionsOK /\ CacheOK
            /\ UniversesOK /\ GensOK

BroadInv == StoresOK /\ JobsOK
-----------------------------------------------------------------------------
(* Stored artifacts only grow *)

\* What an arbitrary step may do to the stores and to the vendor.
Grows ==
  /\ \A i \in DOMAIN masters : i \in DOMAIN masters' /\ masters'[i] = masters[i]
  /\ \A v \in DOMAIN versions :
       v \in DOMAIN versions' /\ versions'[v] = versions[v]
  /\ \A u \in DOMAIN universes :
       u \in DOMAIN universes' /\ universes'[u] = universes[u]
  /\ \A g \in DOMAIN gens :
       /\ g \in DOMAIN gens'
       /\ gens'[g].cov = gens[g].cov /\ gens'[g].uni = gens[g].uni
       /\ gens'[g].prev = gens[g].prev
       /\ gens[g].final # <<>> => gens'[g].final = gens[g].final
  /\ \A s \in Sec : vendor[s] <= vendor'[s]

\* The bounds of the model are numbers.
LEMMA Bounds ==
  /\ FirstDay \in Nat /\ MaxDay \in Nat /\ Overlap \in Nat
  /\ MaxRevisions \in Nat /\ MaxIsolated \in Nat
  /\ 1 <= Overlap /\ 2 <= FirstDay /\ FirstDay <= MaxDay
BY BroadAssumption

\* Every store has a current entry.
LEMMA Current ==
  ASSUME MastersOK, VersionsOK, UniversesOK
  PROVE  /\ Master \in Nat /\ Master \in DOMAIN masters
         /\ Latest \in Nat /\ Latest \in DOMAIN versions
         /\ DOMAIN versions = 1..Latest
         /\ Universe \in Nat /\ Universe \in DOMAIN universes
<1>1. Master \in Nat /\ Master \in DOMAIN masters
  BY DEF MastersOK, Master
<1>2. Latest \in Nat /\ Latest \in DOMAIN versions /\ DOMAIN versions = 1..Latest
  BY DEF VersionsOK, Latest
<1>3. Universe \in Nat /\ Universe \in DOMAIN universes
  BY DEF UniversesOK, Universe
<1> QED BY <1>1, <1>2, <1>3

\* A finished generation stays finished.
LEMMA FinalsKept ==
  ASSUME Grows PROVE FinalGens \subseteq FinalGens'
BY DEF Grows, FinalGens

\* A sound version stays sound: its master stays, the vendor only rises.
LEMMA SoundKept ==
  ASSUME MarketOK, MarketOK', MastersOK, NEW v \in VersionRecords, Sound(v), Grows
  PROVE  Sound(v)'
<1>1. v.rows \in Rows /\ v.master \in DOMAIN masters
  BY DEF VersionRecords, Sound
<1>2. v.master \in DOMAIN masters' /\ masters'[v.master] = masters[v.master]
  BY <1>1 DEF Grows
<1>3. ASSUME NEW s \in Sec, NEW d \in Days PROVE v.rows[s][d] <= vendor'[s]
  <2>1. v.rows[s][d] \in Int
    BY <1>1, Bounds DEF Rows, Bases, NoRow
  <2>2. vendor[s] \in Nat /\ vendor'[s] \in Nat
    BY DEF MarketOK
  <2>3. v.rows[s][d] <= vendor[s] /\ vendor[s] <= vendor'[s]
    BY DEF Sound, SoundRows, Grows
  <2> QED BY <2>1, <2>2, <2>3
<1> QED BY <1>2, <1>3 DEF Sound, SoundRows

\* So does a universe, whose coverage version never changes.
LEMMA UniverseKept ==
  ASSUME NEW u, UniverseOK(u), Grows
  PROVE  UniverseOK(u)'
<1>1. u.cov \in DOMAIN versions' /\ versions'[u.cov] = versions[u.cov]
  BY DEF UniverseOK, Grows
<1>2. ASSUME NEW m PROVE Eligible(u.cov, m)' = Eligible(u.cov, m)
  BY <1>1 DEF Eligible
<1> QED BY <1>1, <1>2 DEF UniverseOK

\* What a month is computed from never changes.
LEMMA ReadsKept ==
  ASSUME NEW c \in DOMAIN versions, NEW u \in DOMAIN universes, NEW m, NEW e,
         Grows
  PROVE  Reads(c, u, m, e)' = Reads(c, u, m, e)
<1>1. versions'[c] = versions[c] /\ universes'[u] = universes[u]
  BY DEF Grows
<1> QED BY <1>1 DEF Reads, Snapshot, Bar

\* The target of a generation never changes.
LEMMA TargetKept ==
  ASSUME NEW g \in DOMAIN gens, gens[g].cov \in DOMAIN versions, Grows
  PROVE  Target(g)' = Target(g)
BY DEF Target, Grows

\* A partition that a generation may use stays usable.
LEMMA PartKept ==
  ASSUME NEW g \in DOMAIN gens, GenOK(g), NEW m, NEW part, PartOK(g, m, part),
         Grows
  PROVE  PartOK(g, m, part)'
<1>1. part.cov \in DOMAIN versions /\ part.uni \in DOMAIN universes
  BY DEF PartOK
<1>2. gens[g].cov \in DOMAIN versions /\ gens[g].uni \in DOMAIN universes
  BY DEF GenOK
<1>3. gens'[g].cov = gens[g].cov /\ gens'[g].uni = gens[g].uni
  BY DEF Grows
<1>4. End(m, Target(g))' = End(m, Target(g))
  BY <1>2, TargetKept DEF End
<1>5. Reads(part.cov, part.uni, m, part.end)'
        = Reads(part.cov, part.uni, m, part.end)
  BY <1>1, ReadsKept
<1>6. \A c \in DOMAIN versions, u \in DOMAIN universes :
        Reads(c, u, m, part.end)' = Reads(c, u, m, part.end)
  BY ReadsKept
<1>7. Reads(gens[g].cov, gens[g].uni, m, part.end)'
        = Reads(gens[g].cov, gens[g].uni, m, part.end)
  <2>1. PICK c \in DOMAIN versions, u \in DOMAIN universes :
          c = gens[g].cov /\ u = gens[g].uni
    BY <1>2
  <2>2. c = gens'[g].cov /\ u = gens'[g].uni
    BY <2>1, <1>3
  <2>3. Reads(gens[g].cov, gens[g].uni, m, part.end)'
          = Reads(c, u, m, part.end)'
    BY <2>2 DEF Reads, Snapshot, Bar
  <2> QED BY <2>1, <2>2, <1>6
<1>8. part.cov \in DOMAIN versions' /\ part.uni \in DOMAIN universes'
  BY <1>1 DEF Grows
<1> QED BY <1>4, <1>5, <1>7, <1>8 DEF PartOK

\* A finished plan stays one its generation may use.
LEMMA FinalKept ==
  ASSUME NEW g \in DOMAIN gens, GenOK(g), NEW plan, FinalOK(g, plan), Grows
  PROVE  FinalOK(g, plan)'
<1>1. Target(g)' = Target(g)
  BY TargetKept DEF GenOK
<1>2. ASSUME NEW m \in DOMAIN plan PROVE PartOK(g, m, plan[m])'
  BY PartKept DEF FinalOK
<1> QED BY <1>1, <1>2, FinalsKept DEF FinalOK

\* So does a staged plan.
LEMMA StagedKept ==
  ASSUME NEW g \in DOMAIN gens, GenOK(g), NEW plan, StagedOK(g, plan), Grows
  PROVE  StagedOK(g, plan)'
<1>1. Target(g)' = Target(g)
  BY TargetKept DEF GenOK
<1>2. ASSUME NEW m \in DOMAIN plan, plan[m] # Missing
      PROVE  PartOK(g, m, plan[m])'
  BY <1>2, PartKept DEF StagedOK
<1> QED BY <1>1, <1>2, FinalsKept DEF StagedOK

-----------------------------------------------------------------------------
(* What a step leaves alone stays as it was *)

\* Registered versions stay sound while none is added.
LEMMA VersionsKept ==
  ASSUME MarketOK, MarketOK', MastersOK, VersionsOK, Grows,
         versions' = versions
  PROVE  VersionsOK'
<1>1. ASSUME NEW v \in DOMAIN versions PROVE Sound(versions[v])'
  <2>1. PICK x \in VersionRecords : x = versions[v]
    BY DEF VersionsOK
  <2>2. Sound(x)'
    BY <2>1, SoundKept DEF VersionsOK
  <2> QED BY <2>1, <2>2
<1>2. ASSUME NEW v \in DOMAIN versions PROVE Decided(v)'
  <2>1. Decided(v)
    BY DEF VersionsOK
  <2>2. \A s \in Sec, x \in 2..v : MixedTwice(x, s)' = MixedTwice(x, s)
    BY DEF MixedTwice, OneBasis
  <2>3. \A s \in Sec : Chained(v, s)' = Chained(v, s)
    BY <2>2 DEF Chained
  <2> QED BY <2>1, <2>3 DEF Decided, Same
<1>3. ASSUME NEW v \in DOMAIN versions, v > 1
      PROVE  /\ versions'[v].parent = v - 1
             /\ ExtendsVersion(versions[v], versions[v - 1])'
  BY ZenonT(60), <1>3 DEF VersionsOK, ExtendsVersion, Same, Moved, WindowStart
<1> QED BY <1>1, <1>2, <1>3 DEF VersionsOK

\* The caches stay behind the vendor while nothing is fetched.
LEMMA CacheKept ==
  ASSUME MarketOK, MarketOK', CacheOK, Grows, cache' = cache
  PROVE  CacheOK'
<1> SUFFICES ASSUME NEW b \in DOMAIN cache
             PROVE  /\ b \in Bindings /\ b.parent \in DOMAIN versions'
                    /\ cache[b] \in Seq([Sec -> Nat])
                    /\ \A i \in DOMAIN cache[b], s \in Sec :
                         /\ cache[b][i][s] <= vendor'[s]
                         /\ \A d \in Days : versions'[b.parent].rows[s][d]
                                              <= cache[b][i][s]
                         /\ \A j \in DOMAIN cache[b] :
                              i <= j => cache[b][i][s] <= cache[b][j][s]
  BY DEF CacheOK
<1>1. /\ b \in Bindings /\ b.parent \in DOMAIN versions
      /\ cache[b] \in Seq([Sec -> Nat])
  BY DEF CacheOK
<1>2. b.parent \in DOMAIN versions' /\ versions'[b.parent] = versions[b.parent]
  BY <1>1 DEF Grows
<1>3. ASSUME NEW i \in DOMAIN cache[b], NEW s \in Sec
      PROVE  cache[b][i][s] <= vendor'[s]
  <2>1. cache[b][i][s] \in Nat /\ vendor[s] \in Nat /\ vendor'[s] \in Nat
    BY <1>1 DEF MarketOK
  <2>2. cache[b][i][s] <= vendor[s] /\ vendor[s] <= vendor'[s]
    BY DEF CacheOK, Grows
  <2> QED BY <2>1, <2>2
<1> QED BY <1>1, <1>2, <1>3 DEF CacheOK

\* The universes stay sound while none is added.
LEMMA UniversesKept ==
  ASSUME UniversesOK, Grows, universes' = universes
  PROVE  UniversesOK'
<1>1. ASSUME NEW u \in DOMAIN universes PROVE UniverseOK(universes[u])'
  BY UniverseKept DEF UniversesOK
<1> QED BY <1>1 DEF UniversesOK

\* A generation that no step touches.
LEMMA GenKept ==
  ASSUME NEW g \in DOMAIN gens, GenOK(g), Grows, gens'[g] = gens[g]
  PROVE  GenOK(g)'
<1>1. PICK final, staged, prev :
        final = gens[g].final /\ staged = gens[g].staged /\ prev = gens[g].prev
  OBVIOUS
<1>2. final # <<>> => FinalOK(g, final)'
  BY <1>1, FinalKept DEF GenOK
<1>3. staged # <<>> => StagedOK(g, staged)'
  BY <1>1, StagedKept DEF GenOK
<1>4. prev \in {0} \cup FinalGens'
  BY <1>1, FinalsKept DEF GenOK
<1>5. /\ gens[g].cov \in DOMAIN versions' /\ gens[g].uni \in DOMAIN universes'
      /\ universes'[gens[g].uni].cov = gens[g].cov
  BY DEF GenOK, Grows
<1> QED BY <1>1, <1>2, <1>3, <1>4, <1>5 DEF GenOK

\* The generations stay sound while none is touched.
LEMMA GensKept ==
  ASSUME GensOK, Grows, gens' = gens, factorPub' = factorPub
  PROVE  GensOK'
<1>1. \A g \in DOMAIN gens : GenOK(g)'
  BY GenKept DEF GensOK
<1> QED BY <1>1, FinalsKept DEF GensOK

\* A job that does not move still has what its step needs.
LEMMA JobKept ==
  ASSUME StoresOK, MarketOK', Grows, NEW w \in Jobs, JobOK(w),
         pc'[w] = pc[w], arg'[w] = arg[w]
  PROVE  JobOK(w)'
<1>1. PICK a : a = arg[w]
  OBVIOUS
<1>2. ASSUME CandidateOK(a.cand) PROVE CandidateOK(a.cand)'
  <2>1. PICK v \in VersionRecords : v = a.cand
    BY <1>2 DEF CandidateOK
  <2>2. Sound(v)'
    BY <1>2, <2>1, SoundKept DEF CandidateOK, StoresOK
  <2>3. /\ v.parent \in DOMAIN versions'
        /\ versions'[v.parent] = versions[v.parent]
    BY <1>2, <2>1 DEF CandidateOK, Grows
  <2>4. ExtendsVersion(v, versions[v.parent])
    BY <1>2, <2>1 DEF CandidateOK
  <2> QED BY SMTT(40), <2>1, <2>2, <2>3, <2>4
          DEF CandidateOK, ExtendsVersion, Same, Moved, WindowStart
<1>3. UniverseOK(a.cand) => UniverseOK(a.cand)'
  BY UniverseKept
<1>4. BindOK(a.bind) => BindOK(a.bind)'
  BY DEF BindOK, Grows
<1>5. a.gen \in DOMAIN gens /\ StagedOK(a.gen, a.done)
        => a.gen \in DOMAIN gens' /\ StagedOK(a.gen, a.done)'
  BY StagedKept DEF StoresOK, GensOK, Grows
<1>6. a.cover \in DOMAIN versions => a.cover \in DOMAIN versions'
  BY DEF Grows
<1> QED BY <1>1, <1>2, <1>3, <1>4, <1>5, <1>6, FinalsKept DEF JobOK

-----------------------------------------------------------------------------
(* What a job reads, and where it goes *)

\* What a job has read stays well formed when one field of it changes.
LEMMA ArgUpdates ==
  ASSUME NEW a \in ArgRecords
  PROVE  /\ \A x \in Nat : [a EXCEPT !.target = x] \in ArgRecords
         /\ \A x \in Bindings : [a EXCEPT !.bind = x] \in ArgRecords
         /\ \A x \in Candidates : [a EXCEPT !.cand = x] \in ArgRecords
         /\ \A x \in Plans \cup {<<>>} : [a EXCEPT !.done = x] \in ArgRecords
         /\ \A x \in Nat, y \in BOOLEAN, z \in SUBSET Sec :
              [a EXCEPT !.target = x, !.force = y, !.restore = z]
                \in ArgRecords
         /\ \A x \in Nat, y \in Nat, z \in Plans \cup {<<>>} :
              [a EXCEPT !.gen = x, !.prev = y, !.done = z] \in ArgRecords
<1> HIDE DEF Plans, Candidates, Bindings
<1> QED BY DEF ArgRecords

\* A job that has read nothing is well formed.
LEMMA FreshOK ==
  /\ Fresh \in ArgRecords
  /\ \A x \in Nat, y \in Nat :
       [Fresh EXCEPT !.target = x, !.cover = y] \in ArgRecords
<1>1. NoBinding \in Bindings /\ NoVersion \in Candidates /\ <<>> \in Plans \cup {<<>>}
  BY DEF NoBinding, Bindings, Candidates
<1> HIDE DEF Plans, Candidates, Bindings, NoVersion, NoBinding
<1>2. Fresh \in ArgRecords
  BY <1>1 DEF ArgRecords, Fresh
<1>3. ASSUME NEW x \in Nat, NEW y \in Nat
      PROVE  [Fresh EXCEPT !.target = x, !.cover = y] \in ArgRecords
  BY <1>2 DEF ArgRecords
<1> QED BY <1>2, <1>3

\* One job moves: the others keep what they have.
LEMMA JobMoves ==
  ASSUME BroadInv, MarketOK', Grows, NEW w \in Jobs, NEW step \in Steps,
         NEW a \in ArgRecords,
         pc' = [pc EXCEPT ![w] = step], arg' = [arg EXCEPT ![w] = a],
         JobOK(w)'
  PROVE  JobsOK'
<1>1. pc' \in [Jobs -> Steps] /\ arg' \in [Jobs -> ArgRecords]
  <2> HIDE DEF Steps, ArgRecords
  <2> QED BY DEF BroadInv, JobsOK
<1>2. ASSUME NEW o \in Jobs, o # w PROVE JobOK(o)'
  <2>1. pc'[o] = pc[o] /\ arg'[o] = arg[o]
    BY <1>2 DEF BroadInv, JobsOK
  <2> QED BY <2>1, JobKept DEF BroadInv, JobsOK
<1> QED BY <1>1, <1>2 DEF JobsOK

\* No job moves.
LEMMA JobsStay ==
  ASSUME BroadInv, MarketOK', Grows, pc' = pc, arg' = arg
  PROVE  JobsOK'
<1>1. \A w \in Jobs : JobOK(w)'
  BY JobKept DEF BroadInv, JobsOK
<1> QED BY <1>1 DEF BroadInv, JobsOK

\* A job that fails holds nothing.
LEMMA FailMoves ==
  ASSUME BroadInv, MarketOK', Grows, NEW w \in Jobs, Fail(w)
  PROVE  JobsOK'
<1>1. pc'[w] = "idle" /\ "idle" \in Steps
  BY DEF Fail, BroadInv, JobsOK, Steps
<1>2. JobOK(w)'
  BY <1>1 DEF JobOK
<1> QED BY <1>1, <1>2, FreshOK, JobMoves DEF Fail

\* A job that goes on takes its target along, and its coverage version.
LEMMA AdvanceMoves ==
  ASSUME BroadInv, MarketOK', Grows, NEW w \in Jobs,
         NEW stage \in Stages, NEW cover \in Nat, Advance(w, stage, cover),
         stage = "master" => arg[w].target \in Days,
         stage = "coverage" => cover \in DOMAIN versions'
  PROVE  JobsOK'
<1> DEFINE next == IF w = "service" THEN Follows[stage] ELSE "idle"
<1>1. next \in {"idle", "factors"} \cup {"coverage", "universe"}
  BY DEF Stages, Follows
<1>2. next \in Steps
  BY <1>1 DEF Steps, Stages
<1>3. pc' = [pc EXCEPT ![w] = next] /\ pc'[w] = next
  BY DEF Advance, BroadInv, JobsOK
<1>4. CASE next \in {"idle", "factors"}
  <2>1. arg' = [arg EXCEPT ![w] = Fresh]
    BY <1>4 DEF Advance
  <2>2. JobOK(w)'
    BY <1>3, <1>4 DEF JobOK
  <2> QED BY <1>2, <1>3, <2>1, <2>2, FreshOK, JobMoves
<1>5. CASE next \in {"coverage", "universe"}
  <2> DEFINE a == [Fresh EXCEPT !.target = arg[w].target, !.cover = cover]
  <2>1. arg' = [arg EXCEPT ![w] = a]
    BY <1>5 DEF Advance
  <2>2. arg[w] \in ArgRecords
    BY DEF BroadInv, JobsOK
  <2>3. arg[w].target \in Nat
    BY <2>2 DEF ArgRecords
  <2>4. a \in ArgRecords
    BY <2>3, FreshOK
  <2>5. arg'[w] = a
    BY <2>1 DEF BroadInv, JobsOK
  <2>6. a.target = arg[w].target /\ a.cover = cover
    BY DEF Fresh
  <2>7. next = "coverage" => stage = "master"
    BY DEF Follows, Stages
  <2>8. next = "universe" => stage = "coverage"
    BY DEF Follows, Stages
  <2>9. JobOK(w)'
    BY <1>3, <1>5, <2>5, <2>6, <2>7, <2>8 DEF JobOK
  <2> QED BY <1>2, <1>3, <2>1, <2>4, <2>9, JobMoves
<1> QED BY <1>1, <1>4, <1>5

-----------------------------------------------------------------------------
(* The world around the jobs, and the Security Master *)

stores == <<masters, versions, cache, universes, factorVars>>

\* No store changes, and the market moves on at most.
LEMMA StoresStay ==
  ASSUME StoresOK, MarketOK', UNCHANGED stores,
         \A s \in Sec : vendor[s] <= vendor'[s]
  PROVE  Grows /\ StoresOK'
<1>1. Grows
  BY DEF Grows, stores, factorVars
<1>2. VersionsOK' /\ CacheOK' /\ UniversesOK' /\ GensOK'
  BY <1>1, VersionsKept, CacheKept, UniversesKept, GensKept
  DEF StoresOK, stores, factorVars
<1>3. MastersOK'
  BY DEF StoresOK, MastersOK, stores
<1> QED BY <1>1, <1>2, <1>3 DEF StoresOK

\* Nothing but the jobs changes.
LEMMA OnlyJobsMove ==
  ASSUME StoresOK, UNCHANGED <<market, budget, stores>>
  PROVE  MarketOK' /\ Grows /\ StoresOK'
<1>1. MarketOK'
  BY DEF StoresOK, MarketOK, market
<1>2. \A s \in Sec : vendor[s] <= vendor'[s]
  BY DEF StoresOK, MarketOK, market
<1> QED BY <1>1, <1>2, StoresStay

\* A new session changes no store.
LEMMA NewDayInv ==
  ASSUME BroadInv, NewDay, UNCHANGED <<universes, factorVars>>
  PROVE  BroadInv'
<1>1. MarketOK'
  BY Bounds DEF NewDay, BroadInv, StoresOK, MarketOK, Days
<1>2. \A s \in Sec : vendor[s] <= vendor'[s]
  BY DEF NewDay, BroadInv, StoresOK, MarketOK
<1>3. Grows /\ StoresOK'
  BY <1>1, <1>2, StoresStay DEF NewDay, BroadInv, stores, job
<1> QED BY <1>1, <1>3, JobsStay DEF NewDay, BroadInv, job

\* A re-scaling raises what the vendor serves and uses up the bound.
LEMMA RescaleInv ==
  ASSUME BroadInv, NEW s \in Sec, Rescale(s), UNCHANGED <<universes, factorVars>>
  PROVE  BroadInv'
<1>1. vendor \in [Sec -> Nat] /\ budget \in [revisions : Nat, trouble : Nat, jobs : Nat]
  BY DEF BroadInv, StoresOK, MarketOK
<1>2. vendor' \in [Sec -> Nat]
      /\ \A x \in Sec : vendor'[x] = IF x = s THEN vendor[x] + 1 ELSE vendor[x]
  BY <1>1 DEF Rescale
<1>3. /\ budget' \in [revisions : Nat, trouble : Nat, jobs : Nat]
      /\ budget'.revisions = budget.revisions - 1
  BY <1>1 DEF Rescale
<1>4. MarketOK'
  <2>1. \A x \in Sec : vendor'[x] + budget'.revisions <= MaxRevisions
    BY <1>1, <1>2, <1>3, Bounds DEF BroadInv, StoresOK, MarketOK
  <2> QED BY <1>2, <1>3, <2>1 DEF BroadInv, StoresOK, MarketOK, Rescale
<1>5. \A x \in Sec : vendor[x] <= vendor'[x]
  BY <1>1, <1>2
<1>6. Grows /\ StoresOK'
  BY <1>4, <1>5, StoresStay DEF Rescale, BroadInv, stores, job
<1> QED BY <1>4, <1>6, JobsStay DEF Rescale, BroadInv, job

\* A new listing changes no store.
LEMMA ListInv ==
  ASSUME BroadInv, NEW s \in Sec, List(s), UNCHANGED <<universes, factorVars>>
  PROVE  BroadInv'
<1>1. MarketOK'
  BY DEF List, BroadInv, StoresOK, MarketOK
<1>2. \A x \in Sec : vendor[x] <= vendor'[x]
  BY DEF List, BroadInv, StoresOK, MarketOK
<1>3. Grows /\ StoresOK'
  BY <1>1, <1>2, StoresStay DEF List, BroadInv, stores, job
<1> QED BY <1>1, <1>3, JobsStay DEF List, BroadInv, job

\* The timer gives the unit a target and nothing else.
LEMMA TimerInv ==
  ASSUME BroadInv, Timer
  PROVE  BroadInv'
<1>1. MarketOK' /\ Grows /\ StoresOK'
  BY OnlyJobsMove DEF Timer, StartPipeline, BroadInv, stores
<1>2. "service" \in Jobs /\ arg["service"] \in ArgRecords /\ "master" \in Steps
  BY DEF Jobs, BroadInv, JobsOK, Steps, Stages
<1>3. day \in Days /\ day \in Nat
  BY Bounds DEF BroadInv, StoresOK, MarketOK, Days
<1> DEFINE a == [arg["service"] EXCEPT !.target = day]
<1>4. a \in ArgRecords /\ a.target = day
  <2>1. a \in ArgRecords
    BY <1>2, <1>3, ArgUpdates
  <2> QED BY <1>2, <2>1 DEF ArgRecords
<1>5. pc' = [pc EXCEPT !["service"] = "master"] /\ pc'["service"] = "master"
  BY <1>2 DEF Timer, StartPipeline, Go, BroadInv, JobsOK
<1>6. arg' = [arg EXCEPT !["service"] = a] /\ arg'["service"] = a
  BY <1>2 DEF Timer, StartPipeline, BroadInv, JobsOK
<1>7. JobOK("service")'
  BY <1>3, <1>4, <1>5, <1>6 DEF JobOK
<1>8. JobsOK'
  BY <1>1, <1>2, <1>4, <1>5, <1>6, <1>7, JobMoves
<1> QED BY <1>1, <1>8 DEF BroadInv

\* A job that dies leaves the stores as they are.
LEMMA TroubleInv ==
  ASSUME BroadInv, NEW w \in Jobs, Trouble(w), UNCHANGED <<universes, factorVars>>
  PROVE  BroadInv'
<1>1. MarketOK'
  <2>1. budget \in [revisions : Nat, trouble : Nat, jobs : Nat]
    BY DEF BroadInv, StoresOK, MarketOK
  <2>2. /\ budget' \in [revisions : Nat, trouble : Nat, jobs : Nat]
        /\ budget'.revisions = budget.revisions
    BY <2>1 DEF Trouble
  <2> QED BY <2>2 DEF BroadInv, StoresOK, MarketOK, Trouble, market
<1>2. \A x \in Sec : vendor[x] <= vendor'[x]
  BY DEF Trouble, BroadInv, StoresOK, MarketOK, market
<1>3. Grows /\ StoresOK'
  BY <1>1, <1>2, StoresStay DEF Trouble, BroadInv, stores
<1> QED BY <1>1, <1>3, FailMoves DEF Trouble, BroadInv

\* A script starts with nothing but its command line.
LEMMA StartByHandInv ==
  ASSUME BroadInv, NEW stage \in Stages, NEW t \in Days, NEW force \in BOOLEAN,
         NEW restore \in SUBSET Sec, StartByHand(stage, t, force, restore),
         UNCHANGED <<universes, factorVars>>
  PROVE  BroadInv'
<1>1. MarketOK'
  <2>1. budget \in [revisions : Nat, trouble : Nat, jobs : Nat]
    BY DEF BroadInv, StoresOK, MarketOK
  <2>2. /\ budget' \in [revisions : Nat, trouble : Nat, jobs : Nat]
        /\ budget'.revisions = budget.revisions
    BY <2>1 DEF StartByHand
  <2> QED BY <2>2 DEF BroadInv, StoresOK, MarketOK, StartByHand, market
<1>2. \A x \in Sec : vendor[x] <= vendor'[x]
  BY DEF StartByHand, BroadInv, StoresOK, MarketOK, market
<1>3. Grows /\ StoresOK'
  BY <1>1, <1>2, StoresStay DEF StartByHand, BroadInv, stores
<1>4. "operator" \in Jobs /\ arg["operator"] \in ArgRecords /\ stage \in Steps
  BY DEF Jobs, BroadInv, JobsOK, Steps
<1> DEFINE a == [arg["operator"] EXCEPT !.target = t, !.force = force,
                                        !.restore = restore]
<1>5. t \in Nat
  BY Bounds DEF Days
<1>6. a \in ArgRecords
  BY <1>4, <1>5, ArgUpdates
<1>7. a.target = t
  BY <1>4 DEF ArgRecords
<1>8. pc' = [pc EXCEPT !["operator"] = stage] /\ pc'["operator"] = stage
  BY <1>4 DEF StartByHand, Go, BroadInv, JobsOK
<1>9. arg' = [arg EXCEPT !["operator"] = a] /\ arg'["operator"] = a
  BY <1>4 DEF StartByHand, BroadInv, JobsOK
<1>10. JobOK("operator")'
  BY <1>7, <1>8, <1>9 DEF JobOK, Stages
<1>11. JobsOK'
  BY <1>1, <1>3, <1>4, <1>6, <1>8, <1>9, <1>10, JobMoves
<1> QED BY <1>3, <1>11 DEF BroadInv

\* The master stage decides whether to build.
LEMMA MasterBeginInv ==
  ASSUME BroadInv, NEW w \in Jobs, MasterBegin(w),
         UNCHANGED <<universes, factorVars>>
  PROVE  BroadInv'
<1>1. MarketOK' /\ Grows /\ StoresOK'
  BY OnlyJobsMove DEF MasterBegin, BroadInv, stores
<1>2. pc[w] = "master" /\ arg[w] \in ArgRecords /\ arg[w].target \in Days
  BY DEF MasterBegin, BroadInv, JobsOK, JobOK
<1>3. CASE Fail(w)
  BY <1>1, <1>3, FailMoves DEF BroadInv
<1>4. CASE Advance(w, "master", 0)
  <2>1. "master" \in Stages /\ 0 \in Nat
    BY DEF Stages
  <2>2. JobsOK'
    BY <1>1, <1>2, <1>4, <2>1, AdvanceMoves
  <2> QED BY <1>1, <2>2 DEF BroadInv
<1>5. CASE Go(w, "buildMaster") /\ UNCHANGED arg
  <2>1. "buildMaster" \in Steps
    BY DEF Steps
  <2>2. pc' = [pc EXCEPT ![w] = "buildMaster"] /\ pc'[w] = "buildMaster"
    BY <1>5 DEF Go, BroadInv, JobsOK
  <2>3. arg' = [arg EXCEPT ![w] = arg[w]]
    BY <1>5 DEF BroadInv, JobsOK
  <2>4. JobOK(w)'
    BY <1>2, <1>5, <2>2 DEF JobOK
  <2>5. JobsOK'
    BY <1>1, <1>2, <2>1, <2>2, <2>3, <2>4, JobMoves
  <2> QED BY <1>1, <2>5 DEF BroadInv
<1> QED BY <1>3, <1>4, <1>5 DEF MasterBegin

\* A new Security Master is appended; older versions keep theirs.
LEMMA MasterPublishInv ==
  ASSUME BroadInv, NEW w \in Jobs, MasterPublish(w),
         UNCHANGED <<universes, factorVars>>
  PROVE  BroadInv'
<1>1. MarketOK'
  BY DEF MasterPublish, BroadInv, StoresOK, MarketOK, market
<1>2. arg[w] \in ArgRecords /\ arg[w].target \in Days /\ arg[w].target \in Nat
  <2>1. arg[w] \in ArgRecords /\ arg[w].target \in Days
    BY DEF MasterPublish, BroadInv, JobsOK, JobOK
  <2> QED BY <2>1 DEF ArgRecords
<1> DEFINE new == [session |-> arg[w].target, ids |-> listed]
<1>3. new \in [session : Nat, ids : SUBSET Sec]
  BY <1>2 DEF BroadInv, StoresOK, MarketOK
<1>4. masters \in Seq([session : Nat, ids : SUBSET Sec])
  BY DEF BroadInv, StoresOK, MastersOK
<1>5. masters' = Append(masters, new)
  BY DEF MasterPublish
<1>6. /\ masters' \in Seq([session : Nat, ids : SUBSET Sec]) /\ masters' # <<>>
      /\ \A i \in DOMAIN masters : i \in DOMAIN masters' /\ masters'[i] = masters[i]
  <2> HIDE DEF new
  <2> QED BY <1>3, <1>4, <1>5
<1>7. Grows
  BY <1>6 DEF Grows, MasterPublish, factorVars, market, BroadInv, StoresOK,
             MarketOK
<1>8. StoresOK'
  BY <1>1, <1>6, <1>7, VersionsKept, CacheKept, UniversesKept, GensKept
  DEF BroadInv, StoresOK, MastersOK, MasterPublish, factorVars
<1>9. JobsOK'
  <2>1. "master" \in Stages /\ 0 \in Nat
    BY DEF Stages
  <2> QED BY <1>1, <1>2, <1>7, <2>1, AdvanceMoves DEF MasterPublish
<1> QED BY <1>8, <1>9 DEF BroadInv

-----------------------------------------------------------------------------
(* What a coverage run reads *)

\* The coverage stage binds the current parent and master.
LEMMA CoverageBeginInv ==
  ASSUME BroadInv, NEW w \in Jobs, CoverageBegin(w),
         UNCHANGED <<universes, factorVars>>
  PROVE  BroadInv'
<1>1. MarketOK' /\ Grows /\ StoresOK'
  BY OnlyJobsMove DEF CoverageBegin, BroadInv, stores
<1>2. pc[w] = "coverage" /\ arg[w] \in ArgRecords /\ arg[w].target \in Days
  BY DEF CoverageBegin, BroadInv, JobsOK, JobOK
<1>3. /\ Latest \in Nat /\ Latest \in DOMAIN versions /\ Master \in Nat
      /\ Master \in DOMAIN masters
  BY Current DEF BroadInv, StoresOK
<1>4. CASE Fail(w)
  BY <1>1, <1>4, FailMoves DEF BroadInv
<1>5. CASE Advance(w, "coverage", Latest)
  <2>1. "coverage" \in Stages /\ Latest \in DOMAIN versions'
    BY <1>1, <1>3 DEF Stages, Grows
  <2>2. JobsOK'
    BY <1>1, <1>3, <1>5, <2>1, AdvanceMoves
  <2> QED BY <1>1, <2>2 DEF BroadInv
<1> DEFINE t == arg[w].target
           b == [parent |-> Latest, target |-> t, master |-> Master]
<1>6. CASE /\ ~(t < versions[Latest].target)
           /\ Go(w, "fetch")
           /\ arg' = [arg EXCEPT ![w].bind = b]
  <2>1. t \in Nat
    BY <1>2 DEF ArgRecords
  <2>2. b \in Bindings
    BY <1>3, <2>1 DEF Bindings
  <2>3. [arg[w] EXCEPT !.bind = b] \in ArgRecords
    BY <1>2, <2>2, ArgUpdates
  <2>4. arg' = [arg EXCEPT ![w] = [arg[w] EXCEPT !.bind = b]]
    BY <1>6
  <2>5. "fetch" \in Steps
    BY DEF Steps
  <2>6. pc' = [pc EXCEPT ![w] = "fetch"] /\ pc'[w] = "fetch"
    BY <1>6 DEF Go, BroadInv, JobsOK
  <2>7. arg'[w].bind = b
    BY <2>4, <1>2 DEF BroadInv, JobsOK, ArgRecords
  <2>8. versions[Latest] \in VersionRecords
    BY <1>3 DEF BroadInv, StoresOK, VersionsOK
  <2>9. versions[Latest].target <= t
    BY <1>6, <2>1, <2>8 DEF VersionRecords
  <2>10. PICK x : x = b
    OBVIOUS
  <2>11. BindOK(x)
    BY <1>2, <1>3, <2>9, <2>10 DEF BindOK
  <2>12. BindOK(x)'
    BY <2>11 DEF BindOK, CoverageBegin
  <2>13. JobOK(w)'
    BY <2>6, <2>7, <2>10, <2>12 DEF JobOK
  <2>14. JobsOK'
    BY <1>1, <2>3, <2>4, <2>5, <2>6, <2>13, JobMoves
  <2> QED BY <1>1, <2>14 DEF BroadInv
<1> QED BY <1>4, <1>5, <1>6 DEF CoverageBegin

\* The window that is fetched again begins within the parent's sessions.
LEMMA WindowIs ==
  ASSUME VersionsOK, NEW b, BindOK(b), NEW p, p = versions[b.parent]
  PROVE  /\ p \in VersionRecords /\ Sound(p)
         /\ p.target \in Nat /\ b.target \in Nat /\ b.target <= MaxDay
         /\ p.target <= b.target
         /\ WindowStart(p) \in Nat /\ 1 <= WindowStart(p)
         /\ WindowStart(p) <= p.target
         /\ Window(b) = WindowStart(p)..b.target
         /\ Overlapping(b) = WindowStart(p)..p.target
         /\ (CHOOSE e \in Window(b) : \A o \in Window(b) : e <= o)
              = WindowStart(p)
<1>1. p \in VersionRecords /\ Sound(p)
  BY DEF VersionsOK, BindOK
<1>2. /\ p.target \in Nat /\ 1 <= p.target /\ b.target \in Nat
      /\ b.target <= MaxDay /\ p.target <= b.target
  BY <1>1, Bounds DEF VersionRecords, BindOK, Sound, Days
<1>3. /\ WindowStart(p) \in Nat /\ 1 <= WindowStart(p)
      /\ WindowStart(p) <= p.target
  BY <1>2, Bounds DEF WindowStart
<1>4. Window(b) = WindowStart(p)..b.target
  BY DEF Window, WindowStart
<1>5. Overlapping(b) = WindowStart(p)..p.target
  BY <1>2, <1>3, <1>4 DEF Overlapping
<1> DEFINE least(e) == e \in Window(b) /\ \A o \in Window(b) : e <= o
<1>6. least(WindowStart(p))
  BY <1>2, <1>3, <1>4
<1>7. \A e : least(e) => e = WindowStart(p)
  BY <1>2, <1>3, <1>4
<1>8. (CHOOSE e \in Window(b) : \A o \in Window(b) : e <= o) = WindowStart(p)
  BY <1>6, <1>7
<1> QED BY <1>1, <1>2, <1>3, <1>4, <1>5, <1>8

\* A complete cache has one entry per session of the window, and one before
\* and one after them.
LEMMA CacheIsComplete ==
  ASSUME VersionsOK, CacheOK, NEW b, BindOK(b), Complete(b),
         NEW p, p = versions[b.parent]
  PROVE  /\ b \in DOMAIN cache /\ Fetched(b) = cache[b]
         /\ cache[b] \in Seq([Sec -> Nat])
         /\ Len(cache[b]) = b.target - WindowStart(p) + 3
<1>1. /\ WindowStart(p) \in Nat /\ b.target \in Nat
      /\ WindowStart(p) <= b.target /\ Window(b) = WindowStart(p)..b.target
  BY WindowIs
<1>2. Cardinality(Window(b)) = b.target - WindowStart(p) + 1
  <2>1. /\ IsFiniteSet(WindowStart(p)..b.target)
        /\ Cardinality(WindowStart(p)..b.target)
             = IF WindowStart(p) > b.target THEN 0
               ELSE b.target - WindowStart(p) + 1
    <3>1. WindowStart(p) \in Int /\ b.target \in Int
      BY <1>1
    <3> QED BY <3>1, FS_Interval
  <2> QED BY <1>1, <2>1
<1>3. Len(Fetched(b)) = b.target - WindowStart(p) + 3
  BY <1>1, <1>2 DEF Complete
<1>4. b \in DOMAIN cache
  <2>1. Len(<<>>) = 0
    OBVIOUS
  <2> QED BY <1>1, <1>3, <2>1 DEF Fetched
<1> QED BY <1>3, <1>4 DEF Fetched, CacheOK

\* What was fetched dominates the parent, never exceeds the vendor, and
\* rises from the histories of new identities on through the sessions.
LEMMA RefreshedIs ==
  ASSUME MarketOK, VersionsOK, CacheOK, NEW b, BindOK(b), Complete(b),
         NEW s \in Sec, NEW d \in Window(b)
  PROVE  /\ Refreshed(b, s, d) \in Nat /\ Refreshed(b, s, d) <= vendor[s]
         /\ \A x \in Days : Old(b, s, x) <= Refreshed(b, s, d)
         /\ \A e \in Window(b) :
              d <= e => Refreshed(b, s, d) <= Refreshed(b, s, e)
         /\ Fetched(b)[1][s] \in Nat /\ Fetched(b)[1][s] <= Refreshed(b, s, d)
<1>1. PICK p : p = versions[b.parent]
  OBVIOUS
<1>2. PICK got : got = cache[b]
  OBVIOUS
<1>3. PICK first : first = WindowStart(p)
  OBVIOUS
<1>4. /\ first \in Nat /\ b.target \in Nat /\ Window(b) = first..b.target
      /\ (CHOOSE e \in Window(b) : \A o \in Window(b) : e <= o) = first
  BY <1>1, <1>3, WindowIs
<1>5. /\ b \in DOMAIN cache /\ Fetched(b) = got /\ got \in Seq([Sec -> Nat])
      /\ Len(got) = b.target - first + 3
  BY <1>1, <1>2, <1>3, CacheIsComplete
<1>6. \A i \in 1..Len(got) :
        /\ got[i][s] \in Nat /\ got[i][s] <= vendor[s]
        /\ \A x \in Days : Old(b, s, x) <= got[i][s]
        /\ \A j \in 1..Len(got) : i <= j => got[i][s] <= got[j][s]
  <2>1. DOMAIN got = 1..Len(got)
    BY <1>5
  <2>2. \A i \in 1..Len(got) : got[i][s] \in Nat
    BY <1>5
  <2>3. \A i \in DOMAIN got :
          /\ got[i][s] <= vendor[s]
          /\ \A x \in Days : versions[b.parent].rows[s][x] <= got[i][s]
          /\ \A j \in DOMAIN got : i <= j => got[i][s] <= got[j][s]
    BY <1>2, <1>5 DEF CacheOK
  <2> QED BY <2>1, <2>2, <2>3 DEF Old
<1>7. CASE s \in versions[b.parent].canonical
  <2>1. \A e \in Window(b) : Refreshed(b, s, e) = got[Len(got)][s]
    BY <1>5, <1>7 DEF Refreshed
  <2>2. Len(got) \in 1..Len(got) /\ 1 \in 1..Len(got) /\ 1 <= Len(got)
    BY <1>4, <1>5
  <2> QED BY <1>5, <1>6, <2>1, <2>2
<1>8. CASE s \notin versions[b.parent].canonical
  <2>1. \A e \in Window(b) : Refreshed(b, s, e) = got[2 + e - first][s]
    BY <1>4, <1>5, <1>8 DEF Refreshed
  <2>2. \A e \in Window(b) : 2 + e - first \in 1..Len(got)
    BY SMTT(40), <1>4, <1>5
  <2>3. \A e \in Window(b) : d <= e => 2 + d - first <= 2 + e - first
    BY <1>4
  <2>4. 1 \in 1..Len(got) /\ 1 <= 2 + d - first
    BY <1>4, <1>5
  <2>5. \A e \in Window(b) :
          d <= e => got[2 + d - first][s] <= got[2 + e - first][s]
    BY <1>6, <2>2, <2>3
  <2> QED BY <1>5, <1>6, <2>1, <2>2, <2>4, <2>5
<1> QED BY <1>7, <1>8

\* One more read from the vendor, which serves nothing below what any
\* version holds.
LEMMA FetchInv ==
  ASSUME BroadInv, NEW w \in Jobs, Fetch(w), UNCHANGED <<universes, factorVars>>
  PROVE  BroadInv'
<1>1. MarketOK'
  BY DEF Fetch, BroadInv, StoresOK, MarketOK, market
<1>2. Grows
  BY DEF Fetch, Grows, BroadInv, StoresOK, MarketOK, market, factorVars
<1>3. PICK b : b = arg[w].bind
  OBVIOUS
<1>4. BindOK(b) /\ b \in Bindings
  BY <1>3 DEF Fetch, BroadInv, JobsOK, JobOK, ArgRecords
<1>5. PICK old : old = Fetched(b)
  OBVIOUS
<1>6. PICK now : now = vendor
  OBVIOUS
<1>7. /\ now \in [Sec -> Nat]
      /\ \A s \in Sec, d \in Days : versions[b.parent].rows[s][d] <= now[s]
  <2>1. Sound(versions[b.parent])
    BY <1>4 DEF BindOK, BroadInv, StoresOK, VersionsOK
  <2> QED BY <1>6, <2>1 DEF Sound, SoundRows, BroadInv, StoresOK, MarketOK
<1>8. /\ old \in Seq([Sec -> Nat])
      /\ \A i \in DOMAIN old, s \in Sec :
           /\ old[i][s] <= now[s]
           /\ \A d \in Days : versions[b.parent].rows[s][d] <= old[i][s]
           /\ \A j \in DOMAIN old : i <= j => old[i][s] <= old[j][s]
  <2>1. CASE b \in DOMAIN cache
    BY <1>5, <1>6, <2>1 DEF Fetched, BroadInv, StoresOK, CacheOK
  <2>2. CASE b \notin DOMAIN cache
    BY <1>5, <2>2 DEF Fetched
  <2> QED BY <2>1, <2>2
<1>9. PICK new : new = Append(old, now)
  OBVIOUS
<1>10. /\ new \in Seq([Sec -> Nat]) /\ Len(new) = Len(old) + 1
       /\ DOMAIN new = 1..Len(old) + 1 /\ DOMAIN old = 1..Len(old)
       /\ Len(old) \in Nat
       /\ \A i \in 1..Len(old) : new[i] = old[i]
       /\ new[Len(old) + 1] = now
  BY <1>7, <1>8, <1>9
<1>11. \A i \in DOMAIN new, s \in Sec :
           /\ new[i][s] <= now[s]
           /\ \A d \in Days : versions[b.parent].rows[s][d] <= new[i][s]
           /\ \A j \in DOMAIN new : i <= j => new[i][s] <= new[j][s]
  <2> SUFFICES ASSUME NEW i \in DOMAIN new, NEW s \in Sec
               PROVE  /\ new[i][s] <= now[s]
                      /\ \A d \in Days :
                           versions[b.parent].rows[s][d] <= new[i][s]
                      /\ \A j \in DOMAIN new : i <= j => new[i][s] <= new[j][s]
    OBVIOUS
  <2>1. CASE i = Len(old) + 1
    <3>1. \A j \in DOMAIN new : i <= j => j = i
      BY <1>10, <2>1
    <3> QED BY <1>7, <1>10, <2>1, <3>1
  <2>2. CASE i \in 1..Len(old)
    <3>1. \A j \in DOMAIN new : j \in 1..Len(old) \/ j = Len(old) + 1
      BY <1>10
    <3> QED BY <1>8, <1>10, <2>2, <3>1
  <2> QED BY <1>10, <2>1, <2>2
<1>12. cache' = [x \in DOMAIN cache \cup {b} |-> IF x = b THEN new ELSE cache[x]]
  BY <1>3, <1>5, <1>6, <1>9 DEF Fetch
<1>13. CacheOK'
  <2> SUFFICES ASSUME NEW x \in DOMAIN cache \cup {b}
               PROVE  /\ x \in Bindings /\ x.parent \in DOMAIN versions
                      /\ cache'[x] \in Seq([Sec -> Nat])
                      /\ \A i \in DOMAIN cache'[x], s \in Sec :
                           /\ cache'[x][i][s] <= vendor[s]
                           /\ \A d \in Days :
                                versions[x.parent].rows[s][d] <= cache'[x][i][s]
                           /\ \A j \in DOMAIN cache'[x] :
                                i <= j => cache'[x][i][s] <= cache'[x][j][s]
    BY <1>12 DEF CacheOK, Fetch, market
  <2>1. CASE x = b
    <3>1. cache'[x] = new
      BY <1>12, <2>1
    <3> QED BY <1>4, <1>6, <1>10, <1>11, <2>1, <3>1 DEF BindOK
  <2>2. CASE x # b
    <3>1. x \in DOMAIN cache /\ cache'[x] = cache[x]
      BY <1>12, <2>2
    <3> QED BY <3>1 DEF BroadInv, StoresOK, CacheOK
  <2> QED BY <2>1, <2>2
<1>14. StoresOK'
  BY <1>1, <1>2, <1>13, VersionsKept, UniversesKept, GensKept
  DEF BroadInv, StoresOK, MastersOK, Fetch, factorVars
<1> QED BY <1>1, <1>2, <1>14, JobsStay DEF BroadInv, Fetch, job

\* Not isolated any more only after a whole history was fetched.
LEMMA Replaced ==
  ASSUME NEW b, NEW restore \in SUBSET Sec, NEW lost,
         lost \subseteq Needed(b, restore),
         NEW s, s \notin IsolatedAfter(b, restore, lost)
  PROVE  /\ s \in Isolated(b) => s \in Needed(b, restore) \ lost
         /\ s \in Drifted(b) => s \in Needed(b, restore) \ lost
BY DEF IsolatedAfter, Needed

\* One factor takes every row of the parent to the fresh ones, as long as
\* the audit did not set the security aside.
LEMMA ScaleIs ==
  ASSUME MarketOK, VersionsOK, CacheOK, NEW b, BindOK(b), Complete(b),
         NEW p, p = versions[b.parent],
         NEW s \in Sec, s \in Present(b.parent), s \in Ids(b), s \notin Drifted(b)
  PROVE  /\ Scale(b, s) \in Int
         /\ \A d \in Overlapping(b) :
              Refreshed(b, s, d) = Old(b, s, d) + Scale(b, s)
         /\ \A d \in 1..p.target : Old(b, s, d) \in Nat
<1>1. Scale(b, s) \in Scales(b, s)
  <2>1. Scales(b, s) # {}
    BY DEF Drifted
  <2>2. \E k : k \in Scales(b, s)
    BY <2>1
  <2>3. (CHOOSE k \in Scales(b, s) : TRUE) \in Scales(b, s)
    BY <2>2
  <2> QED BY <2>3 DEF Scale
<1>2. Scale(b, s) \in Int
  BY <1>1, Bounds DEF Scales
<1>3. \A d \in Overlapping(b) :
        Refreshed(b, s, d) = Old(b, s, d) + Scale(b, s)
  BY <1>1 DEF Scales
<1>4. p \in VersionRecords /\ Sound(p)
  BY WindowIs
<1>5. s \in masters[p.master].ids \ p.isolated
  BY <1>4 DEF Present, Sound, SoundRows
<1>6. ASSUME NEW d \in 1..p.target PROVE Old(b, s, d) \in Nat
  <2>1. d \in Days /\ d <= p.target
    <3>1. p.target \in Nat /\ b.target \in Nat /\ p.target <= b.target /\ b.target <= MaxDay
      BY WindowIs
    <3> QED BY <3>1, Bounds DEF Days
  <2>2. p.rows[s][d] # NoRow
    BY <1>4, <1>5, <2>1 DEF Sound, SoundRows
  <2>3. p.rows[s][d] \in Bases \cup {NoRow}
    BY <1>4, <2>1 DEF VersionRecords, Rows
  <2> QED BY <2>2, <2>3, Bounds DEF Old, Bases, NoRow
<1> QED BY <1>2, <1>3, <1>6

-----------------------------------------------------------------------------
(* What a coverage run builds *)

\* What a run has established when it builds its candidate.
Assessed(b, restore, lost, basis) ==
  /\ BindOK(b) /\ b \in Bindings /\ Complete(b) /\ ~Conflicting(b)
  /\ restore \subseteq Sec /\ lost \subseteq Needed(b, restore)
  /\ basis \in [Needed(b, restore) \ lost -> Bases]
  /\ \A s \in DOMAIN basis : basis[s] <= vendor[s]

\* One bar of the candidate.
LEMMA OneBar ==
  ASSUME NEW b, NEW basis, NEW isolated, NEW s \in Sec, NEW d \in Days
  PROVE  Bars(b, basis, isolated)[s][d] =
           IF d > b.target \/ s \notin Ids(b) \ isolated THEN NoRow
           ELSE IF s \in DOMAIN basis THEN basis[s]
           ELSE IF d \in Window(b) THEN Refreshed(b, s, d)
           ELSE IF s \notin Present(b.parent) THEN Fetched(b)[1][s]
           ELSE IF Month(d) \in Affected(b, DOMAIN basis, isolated)
             THEN Old(b, s, d) + Scale(b, s)
           ELSE Old(b, s, d)
BY DEF Bars

\* A month that is linked as it was holds no bar of a re-scaled security.
LEMMA LinkedMonths ==
  ASSUME NEW b, b.target \in Nat, NEW repaired, NEW isolated,
         NEW s \in (Present(b.parent) \cap Ids(b)) \ Drifted(b),
         NEW d \in 1..b.target, Month(d) \notin Affected(b, repaired, isolated)
  PROVE  Scale(b, s) = 0
<1>1. Month(d) \in Months(b.target)
  BY DEF Month, Months
<1> QED BY <1>1 DEF Affected

\* A security with a history in the parent: all its bars moved by one factor.
LEMMA KeptBars ==
  ASSUME MarketOK, VersionsOK, CacheOK, NEW b, NEW restore, NEW lost, NEW basis,
         Assessed(b, restore, lost, basis), NEW p, p = versions[b.parent],
         NEW s \in Sec, s \in Ids(b) \ IsolatedAfter(b, restore, lost),
         s \notin DOMAIN basis, s \in Present(b.parent),
         NEW bars, bars = Bars(b, basis, IsolatedAfter(b, restore, lost))[s]
  PROVE  /\ Scale(b, s) \in Int
         /\ \A d \in 1..p.target :
              Old(b, s, d) \in Nat /\ bars[d] = Old(b, s, d) + Scale(b, s)
         /\ \A d \in Window(b) : bars[d] = Refreshed(b, s, d)
<1> DEFINE isolated == IsolatedAfter(b, restore, lost)
<1>1. s \notin Drifted(b)
  BY Replaced DEF Assessed
<1>2. /\ p.target \in Nat /\ b.target \in Nat /\ p.target <= b.target
      /\ b.target <= MaxDay
      /\ WindowStart(p) \in Nat /\ 1 <= WindowStart(p)
      /\ WindowStart(p) <= p.target
      /\ Window(b) = WindowStart(p)..b.target
      /\ Overlapping(b) = WindowStart(p)..p.target
  BY WindowIs DEF Assessed
<1>3. /\ Scale(b, s) \in Int
      /\ \A d \in Overlapping(b) :
           Refreshed(b, s, d) = Old(b, s, d) + Scale(b, s)
      /\ \A d \in 1..p.target : Old(b, s, d) \in Nat
  BY <1>1, ScaleIs DEF Assessed
<1>4. ASSUME NEW d \in Window(b) PROVE bars[d] = Refreshed(b, s, d)
  <2>1. d \in Days /\ ~(d > b.target)
    BY <1>2, Bounds DEF Days
  <2> QED BY <1>4, <2>1, OneBar
<1>5. ASSUME NEW d \in 1..p.target PROVE bars[d] = Old(b, s, d) + Scale(b, s)
  <2>1. d \in Days /\ ~(d > b.target) /\ d \in 1..b.target
    BY <1>2, Bounds DEF Days
  <2>2. CASE d \in Window(b)
    <3>1. d \in Overlapping(b)
      BY <1>2, <2>2
    <3> QED BY <1>3, <1>4, <2>2, <3>1
  <2>3. CASE d \notin Window(b)
    <3>1. bars[d] = IF Month(d) \in Affected(b, DOMAIN basis, isolated)
                      THEN Old(b, s, d) + Scale(b, s) ELSE Old(b, s, d)
      BY <2>1, <2>3, OneBar
    <3>2. Month(d) \notin Affected(b, DOMAIN basis, isolated) => Scale(b, s) = 0
      BY <1>1, <1>2, <2>1, LinkedMonths
    <3> QED BY <1>3, <3>1, <3>2
  <2> QED BY <2>2, <2>3
<1> QED BY <1>3, <1>4, <1>5

\* A security the parent did not hold: one history, and the window after it.
LEMMA NewBars ==
  ASSUME MarketOK, VersionsOK, CacheOK, NEW b, NEW restore, NEW lost, NEW basis,
         Assessed(b, restore, lost, basis), NEW p, p = versions[b.parent],
         NEW s \in Sec, s \in Ids(b) \ IsolatedAfter(b, restore, lost),
         s \notin DOMAIN basis, s \notin Present(b.parent),
         NEW bars, bars = Bars(b, basis, IsolatedAfter(b, restore, lost))[s]
  PROVE  /\ \A d \in 1..p.target : bars[d] = Fetched(b)[1][s]
         /\ \A d \in Window(b) : bars[d] = Refreshed(b, s, d)
<1> DEFINE isolated == IsolatedAfter(b, restore, lost)
<1>1. s \notin Isolated(b)
  BY Replaced DEF Assessed
<1>2. /\ p.target \in Nat /\ b.target \in Nat /\ p.target <= b.target
      /\ b.target <= MaxDay
      /\ WindowStart(p) \in Nat /\ 1 <= WindowStart(p)
      /\ WindowStart(p) <= p.target
      /\ Window(b) = WindowStart(p)..b.target
      /\ Overlapping(b) = WindowStart(p)..p.target
  BY WindowIs DEF Assessed
<1>3. \A d \in Overlapping(b) : Fetched(b)[1][s] = Refreshed(b, s, d)
  BY <1>1 DEF Assessed, Conflicting, Delta
<1>4. ASSUME NEW d \in Window(b) PROVE bars[d] = Refreshed(b, s, d)
  <2>1. d \in Days /\ ~(d > b.target)
    BY <1>2, Bounds DEF Days
  <2> QED BY <1>4, <2>1, OneBar
<1>5. ASSUME NEW d \in 1..p.target PROVE bars[d] = Fetched(b)[1][s]
  <2>1. d \in Days /\ ~(d > b.target)
    BY <1>2, Bounds DEF Days
  <2>2. CASE d \in Window(b)
    <3>1. d \in Overlapping(b)
      BY <1>2, <2>2
    <3> QED BY <1>3, <1>4, <2>2, <3>1
  <2>3. CASE d \notin Window(b)
    BY <2>1, <2>3, OneBar
  <2> QED BY <2>2, <2>3
<1> QED BY <1>4, <1>5

\* The bars of a security of the candidate: none is missing, none exceeds
\* the vendor, they rise, and the parent's sessions moved together.
LEMMA BarsOf ==
  ASSUME MarketOK, VersionsOK, CacheOK, NEW b, NEW restore, NEW lost, NEW basis,
         Assessed(b, restore, lost, basis), NEW p, p = versions[b.parent],
         NEW s \in Sec, s \in Ids(b) \ IsolatedAfter(b, restore, lost),
         NEW bars, bars = Bars(b, basis, IsolatedAfter(b, restore, lost))[s]
  PROVE  /\ \A d \in 1..b.target : bars[d] \in Nat /\ bars[d] <= vendor[s]
         /\ \A d \in 1..b.target, e \in 1..b.target :
              d <= e => bars[d] <= bars[e]
         /\ \/ \A d \in 1..p.target, e \in 1..p.target : bars[d] = bars[e]
            \/ \E k \in Int : \A d \in 1..p.target :
                 bars[d] = p.rows[s][d] + k
<1>1. /\ p \in VersionRecords /\ Sound(p)
      /\ p.target \in Nat /\ b.target \in Nat /\ p.target <= b.target
      /\ b.target <= MaxDay
      /\ WindowStart(p) \in Nat /\ 1 <= WindowStart(p)
      /\ WindowStart(p) <= p.target
      /\ Window(b) = WindowStart(p)..b.target
      /\ Overlapping(b) = WindowStart(p)..p.target
  BY WindowIs DEF Assessed
<1> DEFINE first == WindowStart(p)
<1>2. vendor[s] \in Nat
  BY DEF MarketOK
<1>3. \A d \in Window(b) :
        /\ Refreshed(b, s, d) \in Nat /\ Refreshed(b, s, d) <= vendor[s]
        /\ \A x \in Days : Old(b, s, x) <= Refreshed(b, s, d)
        /\ \A e \in Window(b) :
             d <= e => Refreshed(b, s, d) <= Refreshed(b, s, e)
        /\ Fetched(b)[1][s] \in Nat /\ Fetched(b)[1][s] <= Refreshed(b, s, d)
  BY RefreshedIs DEF Assessed
<1>4. first \in Window(b) /\ first \in 1..p.target
  BY <1>1
<1>5. CASE s \in DOMAIN basis
  <2>1. \A d \in 1..b.target : bars[d] = basis[s]
    <3>1. \A d \in 1..b.target : d \in Days /\ ~(d > b.target)
      BY <1>1, Bounds DEF Days
    <3> QED BY <1>5, <3>1, OneBar
  <2>2. basis[s] \in Nat /\ basis[s] <= vendor[s]
    BY <1>5, Bounds DEF Assessed, Bases
  <2>3. \A d \in 1..p.target : d \in 1..b.target
    BY <1>1
  <2> QED BY <2>1, <2>2, <2>3
<1>6. CASE s \notin DOMAIN basis /\ s \in Present(b.parent)
  <2>1. PICK k : k = Scale(b, s)
    OBVIOUS
  <2>2. /\ k \in Int
        /\ \A d \in 1..p.target :
             p.rows[s][d] \in Nat /\ bars[d] = p.rows[s][d] + k
        /\ \A d \in Window(b) : bars[d] = Refreshed(b, s, d)
    BY <1>6, <2>1, KeptBars DEF Old
  <2>3. \A d \in 1..p.target, e \in 1..p.target :
          d <= e => p.rows[s][d] <= p.rows[s][e]
    BY <1>1 DEF Sound, SoundRows
  <2>4. 0 <= k
    <3>1. first \in Days
      BY <1>1, <1>4, Bounds DEF Days
    <3>2. p.rows[s][first] <= Refreshed(b, s, first)
      BY <1>3, <1>4, <3>1 DEF Old
    <3>3. Refreshed(b, s, first) = p.rows[s][first] + k
      BY <1>4, <2>2
    <3>4. p.rows[s][first] \in Nat
      BY <1>4, <2>2
    <3> QED BY <2>2, <3>2, <3>3, <3>4
  <2>5. \A d \in 1..b.target : d \in Window(b) \/ (d \in 1..p.target /\ d <= first)
    BY <1>1
  <2>6. \A d \in 1..p.target :
          d <= first => bars[d] \in Nat /\ bars[d] <= bars[first]
    BY <1>4, <2>2, <2>3, <2>4
  <2>7. \A d \in 1..b.target : bars[d] \in Nat /\ bars[d] <= vendor[s]
    <3>1. bars[first] \in Nat /\ bars[first] <= vendor[s]
      BY <1>3, <1>4, <2>2
    <3>2. ASSUME NEW d \in 1..b.target
          PROVE bars[d] \in Nat /\ bars[d] <= vendor[s]
      <4>1. CASE d \in Window(b)
        BY <1>3, <2>2, <4>1
      <4>2. CASE d \in 1..p.target /\ d <= first
        BY <1>2, <2>6, <3>1, <4>2
      <4> QED BY <2>5, <4>1, <4>2
    <3> QED BY <3>2
  <2>8. ASSUME NEW d \in 1..b.target, NEW e \in 1..b.target, d <= e
        PROVE  bars[d] <= bars[e]
    <3>1. CASE d \in Window(b)
      <4>1. e \in Window(b)
        BY <1>1, <2>8, <3>1
      <4> QED BY <1>3, <2>2, <2>8, <3>1, <4>1
    <3>2. CASE d \in 1..p.target /\ d <= first /\ e \in Window(b)
      <4>1. bars[d] \in Nat /\ bars[d] <= bars[first]
        BY <2>6, <3>2
      <4>2. first <= e
        BY <1>1, <3>2
      <4>3. bars[first] <= bars[e]
        BY <1>3, <1>4, <2>2, <3>2, <4>2
      <4>4. bars[first] \in Nat /\ bars[e] \in Nat
        BY <1>3, <1>4, <2>2, <3>2
      <4> QED BY <4>1, <4>3, <4>4
    <3>3. CASE d \in 1..p.target /\ e \in 1..p.target
      BY <2>2, <2>3, <2>8, <3>3
    <3> QED BY <2>5, <3>1, <3>2, <3>3
  <2> QED BY <2>2, <2>7, <2>8
<1>7. CASE s \notin DOMAIN basis /\ s \notin Present(b.parent)
  <2>1. PICK h : h = Fetched(b)[1][s]
    OBVIOUS
  <2>2. /\ \A d \in 1..p.target : bars[d] = h
        /\ \A d \in Window(b) : bars[d] = Refreshed(b, s, d)
    BY <1>7, <2>1, NewBars
  <2>3. h \in Nat /\ \A d \in Window(b) : h <= Refreshed(b, s, d)
    BY <1>3, <1>4, <2>1
  <2>4. \A d \in 1..b.target : d \in Window(b) \/ d \in 1..p.target
    BY <1>1
  <2>5. h <= vendor[s]
    BY <1>2, <1>3, <1>4, <2>3
  <2>6. \A d \in 1..b.target : bars[d] \in Nat /\ bars[d] <= vendor[s]
    BY <1>3, <2>2, <2>3, <2>4, <2>5
  <2>7. ASSUME NEW d \in 1..b.target, NEW e \in 1..b.target, d <= e
        PROVE  bars[d] <= bars[e]
    <3>1. CASE d \in Window(b)
      <4>1. e \in Window(b)
        BY <1>1, <2>7, <3>1
      <4> QED BY <1>3, <2>2, <2>7, <3>1, <4>1
    <3>2. CASE d \in 1..p.target
      BY <2>2, <2>3, <2>4, <3>2
    <3> QED BY <2>4, <3>1, <3>2
  <2> QED BY <2>2, <2>6, <2>7
<1> QED BY <1>5, <1>6, <1>7

\* The candidate is sound and extends its parent.
LEMMA CandidateIsOK ==
  ASSUME MarketOK, MastersOK, VersionsOK, CacheOK,
         NEW b, NEW restore, NEW lost, NEW basis,
         Assessed(b, restore, lost, basis),
         NEW v, v = Candidate(b, basis, IsolatedAfter(b, restore, lost))
  PROVE  CandidateOK(v)
<1>1. PICK p : p = versions[b.parent]
  OBVIOUS
<1>2. PICK isolated : isolated = IsolatedAfter(b, restore, lost)
  OBVIOUS
<1>3. /\ p \in VersionRecords /\ Sound(p)
      /\ p.target \in Nat /\ b.target \in Nat /\ p.target <= b.target
      /\ b.target <= MaxDay /\ WindowStart(p) \in Nat
      /\ (CHOOSE e \in Window(b) : \A o \in Window(b) : e <= o)
           = WindowStart(p)
  BY <1>1, WindowIs DEF Assessed
<1>4. /\ v.target = b.target /\ v.master = b.master /\ v.parent = b.parent
      /\ v.from = WindowStart(p) /\ v.rows = Bars(b, basis, isolated)
      /\ v.isolated = isolated /\ v.repaired = DOMAIN basis
      /\ v = [target |-> b.target, master |-> b.master, parent |-> b.parent,
              from |-> WindowStart(p), rows |-> Bars(b, basis, isolated),
              isolated |-> isolated, repaired |-> DOMAIN basis,
              canonical |-> v.canonical]
  BY <1>2, <1>3 DEF Candidate
<1>5. /\ b \in Bindings /\ b.parent \in DOMAIN versions
      /\ b.master \in DOMAIN masters /\ b.target \in Days
  BY DEF Assessed, BindOK
<1>6. DOMAIN basis \subseteq Sec /\ isolated \subseteq Sec /\ Isolated(b) \subseteq Sec
  <2>1. Isolated(b) \subseteq Sec
    BY <1>1, <1>3 DEF Isolated, VersionRecords
  <2>2. Needed(b, restore) \subseteq Sec
    BY DEF Assessed, Needed, Drifted, Present
  <2> QED BY <1>2, <2>1, <2>2 DEF Assessed, IsolatedAfter
<1>7. \A s \in Sec, d \in Days :
        v.rows[s][d] # NoRow
          <=> d <= v.target /\ s \in masters[v.master].ids \ v.isolated
  <2> SUFFICES ASSUME NEW s \in Sec, NEW d \in Days
               PROVE  Bars(b, basis, isolated)[s][d] # NoRow
                        <=> d <= b.target /\ s \in Ids(b) \ isolated
    BY <1>4 DEF Ids
  <2>1. CASE d > b.target \/ s \notin Ids(b) \ isolated
    <3>1. Bars(b, basis, isolated)[s][d] = NoRow
      BY <2>1, OneBar
    <3>2. d > b.target => ~(d <= b.target)
      BY <1>3, Bounds DEF Days
    <3> QED BY <2>1, <3>1, <3>2
  <2>2. CASE ~(d > b.target) /\ s \in Ids(b) \ isolated
    <3>1. d \in 1..b.target /\ d <= b.target
      BY <1>3, <2>2, Bounds DEF Days
    <3>2. Bars(b, basis, isolated)[s][d] \in Nat
      BY <1>1, <1>2, <2>2, <3>1, BarsOf
    <3> QED BY <2>2, <3>1, <3>2 DEF NoRow
  <2> QED BY <2>1, <2>2
<1>8. v.rows \in Rows /\ \A s \in Sec, d \in Days : v.rows[s][d] <= vendor[s]
  <2>1. ASSUME NEW s \in Sec, NEW d \in Days
        PROVE  /\ v.rows[s][d] \in Bases \cup {NoRow}
               /\ v.rows[s][d] <= vendor[s]
    <3>1. vendor[s] \in Nat /\ vendor[s] <= MaxRevisions
      BY Bounds DEF MarketOK
    <3>2. CASE v.rows[s][d] = NoRow
      BY <3>1, <3>2 DEF NoRow
    <3>3. CASE v.rows[s][d] # NoRow
      <4>1. d <= b.target /\ s \in Ids(b) \ isolated
        BY <1>4, <1>7, <3>3 DEF Ids
      <4>2. d \in 1..b.target
        BY <1>3, <4>1, Bounds DEF Days
      <4>3. v.rows[s][d] \in Nat /\ v.rows[s][d] <= vendor[s]
        BY <1>1, <1>2, <1>4, <4>1, <4>2, BarsOf
      <4> QED BY <3>1, <4>3, Bounds DEF Bases
    <3> QED BY <3>2, <3>3
  <2>2. v.rows = [s \in Sec |-> [d \in Days |-> v.rows[s][d]]]
    BY <1>4 DEF Bars
  <2> QED BY <2>1, <2>2 DEF Rows
<1>9. \A s \in Sec : \A d \in 1..v.target, e \in 1..v.target :
        d <= e => v.rows[s][d] <= v.rows[s][e]
  <2> SUFFICES ASSUME NEW s \in Sec, NEW d \in 1..b.target,
                      NEW e \in 1..b.target, d <= e
               PROVE  v.rows[s][d] <= v.rows[s][e]
    BY <1>4
  <2>1. CASE s \in Ids(b) \ isolated
    BY <1>1, <1>2, <1>4, <2>1, BarsOf
  <2>2. CASE s \notin Ids(b) \ isolated
    <3>1. d \in Days /\ e \in Days
      BY <1>3, Bounds DEF Days
    <3>2. v.rows[s][d] = NoRow /\ v.rows[s][e] = NoRow
      BY <1>4, <2>2, <3>1, OneBar
    <3> QED BY <3>2 DEF NoRow
  <2> QED BY <2>1, <2>2
<1>10. Sound(v)
  <2>1. SoundRows(v)
    BY <1>7, <1>8, <1>9 DEF SoundRows
  <2>2. FirstDay <= v.target
    BY <1>3, <1>4, Bounds DEF Sound
  <2> QED BY <1>4, <1>5, <2>1, <2>2 DEF Sound
<1>11. v \in VersionRecords
  <2>1. v.canonical \subseteq Sec
    BY <1>1, <1>3, <1>6 DEF Candidate, VersionRecords
  <2>2. b.master \in Nat /\ b.parent \in Nat
    BY <1>5 DEF Bindings
  <2> HIDE DEF Rows
  <2> QED BY <1>3, <1>4, <1>6, <1>8, <2>1, <2>2 DEF VersionRecords
<1>12. ExtendsVersion(v, p)
  <2>1. p.isolated \ v.isolated \subseteq v.repaired
    BY <1>1, <1>2, <1>4, Replaced DEF Assessed, Isolated
  <2>2. ASSUME NEW s \in Sec PROVE Same(v, s, p.target) \/ Moved(v, p, s)
    <3>1. CASE s \in Ids(b) \ isolated
      BY <1>1, <1>2, <1>4, <3>1, BarsOf DEF Same, Moved
    <3>2. CASE s \notin Ids(b) \ isolated
      <4>1. \A d \in 1..p.target : d \in Days
        BY <1>3, Bounds DEF Days
      <4>2. \A d \in 1..p.target : v.rows[s][d] = NoRow
        BY <1>4, <3>2, <4>1, OneBar
      <4> QED BY <4>2 DEF Same
    <3> QED BY <3>1, <3>2
  <2> QED BY <1>3, <1>4, <2>1, <2>2 DEF ExtendsVersion
<1> QED BY <1>1, <1>4, <1>5, <1>10, <1>11, <1>12 DEF CandidateOK

-----------------------------------------------------------------------------
(* Coverage versions are built and registered *)

\* The candidate of a complete cache is sound and extends its parent.
LEMMA AssessInv ==
  ASSUME BroadInv, NEW w \in Jobs, Assess(w), UNCHANGED <<universes, factorVars>>
  PROVE  BroadInv'
<1>1. MarketOK' /\ Grows /\ StoresOK'
  BY OnlyJobsMove DEF Assess, BroadInv, stores
<1>2. /\ arg[w] \in ArgRecords /\ BindOK(arg[w].bind)
      /\ arg[w].bind \in Bindings /\ arg[w].restore \subseteq Sec
  <2>1. arg[w] \in ArgRecords /\ BindOK(arg[w].bind)
    BY DEF Assess, BroadInv, JobsOK, JobOK
  <2> QED BY <2>1 DEF ArgRecords
<1>3. PICK b, restore : b = arg[w].bind /\ restore = arg[w].restore
  OBVIOUS
<1>4. PICK lost \in Losses(b, restore) :
        \E basis \in Replacements(b, Needed(b, restore) \ lost) :
          arg' = [arg EXCEPT ![w].cand =
                    Candidate(b, basis, IsolatedAfter(b, restore, lost))]
  BY <1>3 DEF Assess
<1> PICK basis \in Replacements(b, Needed(b, restore) \ lost) :
          arg' = [arg EXCEPT ![w].cand =
                    Candidate(b, basis, IsolatedAfter(b, restore, lost))]
  BY <1>4
<1>5. Assessed(b, restore, lost, basis)
  <2>1. lost \subseteq Needed(b, restore)
    BY DEF Losses
  <2>2. basis \in [Needed(b, restore) \ lost -> Bases]
    BY DEF Replacements
  <2>3. ASSUME NEW s \in DOMAIN basis PROVE basis[s] <= vendor[s]
    <3>1. basis[s] \in Fetched(b)[Len(Fetched(b))][s]..vendor[s]
      BY <2>2, <2>3 DEF Replacements
    <3> QED BY <3>1
  <2> QED BY <1>2, <1>3, <2>1, <2>2, <2>3 DEF Assessed, Assess
<1>6. PICK v : v = Candidate(b, basis, IsolatedAfter(b, restore, lost))
  OBVIOUS
<1>7. CandidateOK(v)
  BY <1>5, <1>6, CandidateIsOK DEF BroadInv, StoresOK
<1>8. CandidateOK(v)'
  BY <1>7 DEF CandidateOK, Sound, SoundRows, ExtendsVersion, Same, Moved,
              WindowStart, Assess, market
<1>9. v \in Candidates
  BY <1>7 DEF CandidateOK, Candidates
<1>10. [arg[w] EXCEPT !.cand = v] \in ArgRecords
  BY <1>2, <1>9, ArgUpdates
<1>11. arg' = [arg EXCEPT ![w] = [arg[w] EXCEPT !.cand = v]]
  BY <1>4, <1>6
<1>12. arg'[w].cand = v
  BY <1>2, <1>11 DEF BroadInv, JobsOK, ArgRecords
<1>13. "register" \in Steps
  BY DEF Steps
<1>14. pc' = [pc EXCEPT ![w] = "register"] /\ pc'[w] = "register"
  BY DEF Assess, Go, BroadInv, JobsOK
<1>15. JobOK(w)'
  BY <1>8, <1>12, <1>14 DEF JobOK
<1>16. JobsOK'
  BY <1>1, <1>10, <1>11, <1>13, <1>14, <1>15, JobMoves
<1> QED BY <1>1, <1>16 DEF BroadInv

\* A rejected run leaves the stores as they are.
LEMMA RejectInv ==
  ASSUME BroadInv, NEW w \in Jobs, Reject(w), UNCHANGED <<universes, factorVars>>
  PROVE  BroadInv'
<1>1. MarketOK' /\ Grows /\ StoresOK'
  BY OnlyJobsMove DEF Reject, BroadInv, stores
<1> QED BY <1>1, FailMoves DEF Reject, BroadInv

\* At most one basis: any two bars of these days are equal.
LEMMA UniformMeans ==
  ASSUME NEW r, NEW days, \A d \in days : r[d] \in Bases \cup {NoRow}
  PROVE  Uniform(r, days)
           <=> \A d \in days, e \in days :
                 r[d] # NoRow /\ r[e] # NoRow => r[d] = r[e]
<1> DEFINE S == {r[d] : d \in days} \ {NoRow}
<1>1. IsFiniteSet(Bases)
  BY Bounds, FS_Interval DEF Bases
<1>2. S \in SUBSET Bases
  OBVIOUS
<1>3. IsFiniteSet(S)
  BY <1>1, <1>2, FS_Subset
<1>4. Cardinality(S) \in Nat
  BY <1>3, FS_CardinalityType
<1>5. Cardinality(S) = 0 <=> S = {}
  BY <1>3, FS_EmptySet
<1>6. Cardinality(S) = 1 <=> \E x : S = {x}
  BY <1>3, FS_Singleton
<1>7. ASSUME Cardinality(S) <= 1, NEW d \in days, NEW e \in days,
             r[d] # NoRow, r[e] # NoRow
      PROVE  r[d] = r[e]
  <2>1. r[d] \in S /\ r[e] \in S
    BY <1>7
  <2>2. S # {}
    BY <2>1
  <2>3. Cardinality(S) = 1
    BY <1>4, <1>5, <1>7, <2>2
  <2>4. PICK x : S = {x}
    BY <1>6, <2>3
  <2> QED BY <2>1, <2>4
<1>8. ASSUME \A d \in days, e \in days :
               r[d] # NoRow /\ r[e] # NoRow => r[d] = r[e]
      PROVE  Cardinality(S) <= 1
  <2>1. CASE S = {}
    BY <1>5, <2>1
  <2>2. CASE S # {}
    <3>1. PICK x : x \in S
      BY <2>2
    <3>2. S = {x}
      BY <1>8, <3>1
    <3> QED BY <1>6, <3>2
  <2> QED BY <2>1, <2>2
<1> QED BY <1>7, <1>8 DEF Uniform

\* A security has bars on all sessions of a sound version, or on none.
LEMMA AllOrNone ==
  ASSUME NEW v, Sound(v), NEW s \in Sec
  PROVE  \/ \A d \in 1..v.target : v.rows[s][d] # NoRow
         \/ \A d \in 1..v.target : v.rows[s][d] = NoRow
<1>1. v.target \in Nat /\ \A d \in 1..v.target : d \in Days /\ d <= v.target
  BY Bounds DEF Sound, Days
<1> QED BY <1>1 DEF Sound, SoundRows

\* A version that is one factor away from its parent is on one basis over
\* the parent's sessions, when the parent was up to a session of the overlap
\* and one of the two is on one basis over the overlap.
LEMMA SameSpreads ==
  ASSUME NEW s \in Sec, NEW p \in VersionRecords, NEW c \in VersionRecords,
         Sound(p), Sound(c), p.target <= c.target,
         Same(c, s, p.target) \/ Moved(c, p, s),
         NEW last \in Nat, 1 <= last, last <= p.target, WindowStart(p) <= last,
         Same(p, s, last),
         \/ Uniform(c.rows[s], WindowStart(p)..p.target)
         \/ Uniform(p.rows[s], WindowStart(p)..p.target)
  PROVE  Same(c, s, p.target)
<1>1. /\ p.target \in Nat /\ c.target \in Nat
      /\ \A d \in 1..c.target : d \in Days
      /\ \A d \in 1..p.target : d \in 1..c.target
  BY Bounds DEF VersionRecords, Sound, Days
<1>2. WindowStart(p) \in Nat /\ 1 <= WindowStart(p)
  BY <1>1, Bounds DEF WindowStart
<1> DEFINE overlap == WindowStart(p)..p.target
<1>3. \A d \in overlap : d \in 1..p.target
  BY <1>1, <1>2
<1>4. \A d \in 1..p.target : /\ p.rows[s][d] \in Bases \cup {NoRow}
                             /\ c.rows[s][d] \in Bases \cup {NoRow}
  BY <1>1 DEF VersionRecords, Rows
<1>5. CASE Same(c, s, p.target)
  BY <1>5
<1>6. CASE Moved(c, p, s)
  <2>1. PICK k \in Int : \A d \in 1..p.target : c.rows[s][d] = p.rows[s][d] + k
    BY <1>6 DEF Moved
  <2>2. CASE \A d \in 1..p.target : p.rows[s][d] = NoRow
    BY <2>1, <2>2 DEF Same
  <2>3. CASE \A d \in 1..p.target : c.rows[s][d] = NoRow
    BY <2>3 DEF Same
  <2>4. CASE /\ \A d \in 1..p.target : p.rows[s][d] # NoRow
             /\ \A d \in 1..p.target : c.rows[s][d] # NoRow
    <3>1. \A d \in 1..p.target : p.rows[s][d] \in Int
      BY <1>4, <2>4, Bounds DEF Bases
    <3>2. \A d \in overlap, e \in overlap : p.rows[s][d] = p.rows[s][e]
      <4>1. CASE Uniform(c.rows[s], overlap)
        <5>1. PICK r : r = c.rows[s]
          OBVIOUS
        <5>2. \A d \in overlap : r[d] \in Bases \cup {NoRow}
          BY <1>3, <1>4, <5>1
        <5>3. \A d \in overlap, e \in overlap :
                r[d] # NoRow /\ r[e] # NoRow => r[d] = r[e]
          BY <4>1, <5>1, <5>2, UniformMeans
        <5>4. \A d \in overlap, e \in overlap : c.rows[s][d] = c.rows[s][e]
          BY <1>3, <2>4, <5>1, <5>3
        <5> QED BY SMTT(40), <1>3, <2>1, <3>1, <5>4
      <4>2. CASE Uniform(p.rows[s], overlap)
        <5>1. PICK r : r = p.rows[s]
          OBVIOUS
        <5>2. \A d \in overlap : r[d] \in Bases \cup {NoRow}
          BY <1>3, <1>4, <5>1
        <5>3. \A d \in overlap, e \in overlap :
                r[d] # NoRow /\ r[e] # NoRow => r[d] = r[e]
          BY <4>2, <5>1, <5>2, UniformMeans
        <5> QED BY <1>3, <2>4, <5>1, <5>3
      <4> QED BY <4>1, <4>2
    <3>3. \A d \in 1..p.target : p.rows[s][d] = p.rows[s][last]
      <4>1. last \in overlap /\ last \in 1..last
        BY <1>1, <1>2
      <4>2. \A d \in 1..p.target : d \in overlap \/ d \in 1..last
        BY <1>1, <1>2
      <4> QED BY <3>2, <4>1, <4>2 DEF Same
    <3>4. \A d \in 1..p.target : c.rows[s][d] = p.rows[s][last] + k
      BY <2>1, <3>3
    <3> QED BY <3>4 DEF Same
  <2>5. \/ \A d \in 1..p.target : c.rows[s][d] # NoRow
        \/ \A d \in 1..p.target : c.rows[s][d] = NoRow
    BY <1>1, AllOrNone
  <2>6. \/ \A d \in 1..p.target : p.rows[s][d] # NoRow
        \/ \A d \in 1..p.target : p.rows[s][d] = NoRow
    BY AllOrNone
  <2> QED BY <2>2, <2>3, <2>4, <2>5, <2>6
<1> QED BY <1>5, <1>6

\* The version that is registered next is decided like the others.
LEMMA NextIsDecided ==
  ASSUME VersionsOK, NEW c \in VersionRecords, Sound(c),
         c.parent = Latest, ExtendsVersion(c, versions[Latest]),
         versions' = Append(versions, c), NEW v, v = Latest + 1
  PROVE  Decided(v)'
<1>1. /\ versions \in Seq(VersionRecords) /\ Latest \in Nat /\ 1 <= Latest
      /\ DOMAIN versions = 1..Latest /\ Latest \in DOMAIN versions
  BY DEF VersionsOK, Latest
<1>2. PICK n : n = Latest
  OBVIOUS
<1>3. /\ n \in Nat /\ 1 <= n /\ v = n + 1 /\ v # 1 /\ v - 1 = n
      /\ versions'[v] = c /\ \A x \in 1..n : versions'[x] = versions[x]
  BY <1>1, <1>2 DEF Latest
<1>4. PICK p : p = versions[n]
  OBVIOUS
<1>5. p \in VersionRecords /\ Sound(p) /\ Decided(n) /\ ExtendsVersion(c, p)
  BY <1>1, <1>2, <1>4 DEF VersionsOK
<1>6. /\ p.target \in Nat /\ 1 <= p.target /\ p.target <= c.target
      /\ WindowStart(p) \in Nat /\ 1 <= WindowStart(p)
      /\ WindowStart(p) <= p.target
  BY <1>5, Bounds DEF VersionRecords, Sound, ExtendsVersion, WindowStart, Days
<1>7. ASSUME NEW s \in Sec, Chained(v, s)'
      PROVE  Same(c, s, p.target)
  <2>1. Chained(n, s)
    <3>1. ASSUME NEW x \in 2..n
          PROVE /\ versions[x].target - versions[versions[x].parent].target
                     <= Overlap
                /\ ~MixedTwice(x, s)
      <4>1. x \in 2..v /\ x \in 1..n
        BY <1>3
      <4>2. versions[x].parent = x - 1 /\ x - 1 \in 1..n
        BY <1>1, <1>2, <4>1 DEF VersionsOK
      <4>3. versions'[x] = versions[x] /\ versions'[x - 1] = versions[x - 1]
        BY <1>3, <4>1, <4>2
      <4>4. /\ versions'[x].target - versions'[versions'[x].parent].target
                 <= Overlap
            /\ ~MixedTwice(x, s)'
        BY <1>7, <4>1 DEF Chained
      <4> QED BY <4>2, <4>3, <4>4 DEF MixedTwice, OneBasis
    <3> QED BY <3>1 DEF Chained
  <2>2. /\ c.target - p.target <= Overlap
        /\ \/ Uniform(c.rows[s], WindowStart(p)..p.target)
           \/ Uniform(p.rows[s], WindowStart(p)..p.target)
    <3>1. v \in 2..v /\ n \in 1..n
      BY <1>3
    <3>2. /\ versions'[v].target
               - versions'[versions'[v].parent].target <= Overlap
          /\ ~MixedTwice(v, s)'
      BY <1>7, <3>1 DEF Chained
    <3>3. versions'[v] = c /\ c.parent = n /\ versions'[n] = p
      BY <1>2, <1>3, <1>4, <3>1
    <3>4. c.from = WindowStart(p)
      BY <1>5 DEF ExtendsVersion
    <3> QED BY <3>2, <3>3, <3>4 DEF MixedTwice, OneBasis
  <2>3. Same(c, s, p.target) \/ Moved(c, p, s)
    BY <1>5 DEF ExtendsVersion
  <2>4. CASE n = 1
    <3>1. Same(p, s, p.target)
      BY <1>4, <1>5, <2>1, <2>4 DEF Decided
    <3> QED BY <1>5, <1>6, <2>2, <2>3, <3>1, SameSpreads
  <2>5. CASE n # 1
    <3>1. n \in 2..n /\ n - 1 \in 1..n
      BY <1>3, <2>5
    <3>2. PICK q : q = versions[n - 1]
      OBVIOUS
    <3>3. /\ q \in VersionRecords /\ Sound(q) /\ p.parent = n - 1
          /\ ExtendsVersion(p, q)
      BY <1>1, <1>2, <1>4, <3>1, <3>2 DEF VersionsOK
    <3>4. p.target - q.target <= Overlap
      BY <1>4, <2>1, <3>1, <3>2, <3>3 DEF Chained
    <3>5. /\ q.target \in Nat /\ 1 <= q.target /\ q.target <= p.target
      BY <3>3, Bounds DEF VersionRecords, Sound, Days, ExtendsVersion
    <3>6. WindowStart(p) <= q.target
      BY <1>6, <3>4, <3>5, Bounds DEF WindowStart
    <3>7. Same(p, s, q.target)
      BY <1>4, <1>5, <2>1, <2>5, <3>2 DEF Decided
    <3> QED BY <1>5, <1>6, <2>2, <2>3, <3>5, <3>6, <3>7, SameSpreads
  <2> QED BY <2>4, <2>5
<1>8. versions'[v] = c /\ versions'[v - 1] = p /\ v # 1
  <2>1. n \in 1..n
    BY <1>3
  <2> QED BY <1>3, <1>4, <2>1
<1>9. ASSUME NEW s \in Sec, Chained(v, s)',
             NEW d \in 1..versions'[v - 1].target,
             NEW e \in 1..versions'[v - 1].target
      PROVE  versions'[v].rows[s][d] = versions'[v].rows[s][e]
  BY <1>7, <1>8, <1>9 DEF Same
<1>10. ASSUME NEW s \in Sec, Chained(v, s)'
       PROVE  Same(versions[v], s, IF v = 1 THEN versions[v].target
                                   ELSE versions[v - 1].target)'
  BY <1>8, <1>9, <1>10 DEF Same
<1> QED BY <1>10 DEF Decided

\* The parent is still the published version, so the chain goes on.
LEMMA RegisterInv ==
  ASSUME BroadInv, NEW w \in Jobs, Register(w), UNCHANGED <<universes, factorVars>>
  PROVE  BroadInv'
<1>1. CASE Fail(w) /\ UNCHANGED <<versions, cache>>
  <2>1. MarketOK' /\ Grows /\ StoresOK'
    BY <1>1, OnlyJobsMove DEF Register, BroadInv, stores
  <2> QED BY <1>1, <2>1, FailMoves DEF BroadInv
<1>2. CASE /\ Latest = arg[w].cand.parent
           /\ RegisterVersion(arg[w].cand)
           /\ Advance(w, "coverage", Latest + 1)
           /\ cache' = <<>>
  <2>1. PICK c : c = arg[w].cand
    OBVIOUS
  <2>2. CandidateOK(c) /\ c \in VersionRecords
    <3>1. pc[w] = "register"
      BY DEF Register
    <3> QED BY <2>1, <3>1 DEF CandidateOK, BroadInv, JobsOK, JobOK
  <2>3. PICK v : v = Latest + 1
    OBVIOUS
  <2>4. /\ versions \in Seq(VersionRecords) /\ Latest \in Nat /\ 1 <= Latest
        /\ DOMAIN versions = 1..Latest
    BY DEF BroadInv, StoresOK, VersionsOK, Latest
  <2>5. versions' = Append(versions, c)
    BY <1>2, <2>1 DEF RegisterVersion
  <2>6. /\ versions' \in Seq(VersionRecords) /\ versions' # <<>>
        /\ DOMAIN versions' = 1..v /\ versions'[v] = c /\ v \in Nat
        /\ \A x \in 1..Latest : versions'[x] = versions[x]
        /\ \A x \in 1..v : x \in 1..Latest \/ x = v
    BY <2>2, <2>3, <2>4, <2>5 DEF Latest
  <2>7. MarketOK'
    BY DEF Register, BroadInv, StoresOK, MarketOK, market
  <2>8. Grows
    <3>1. \A x \in DOMAIN versions :
            x \in DOMAIN versions' /\ versions'[x] = versions[x]
      BY <2>3, <2>4, <2>6
    <3>2. \A s \in Sec : vendor[s] <= vendor'[s]
      BY DEF Register, BroadInv, StoresOK, MarketOK, market
    <3> QED BY <3>1, <3>2 DEF Grows, Register, factorVars
  <2>9. Sound(c)'
    BY <2>2, <2>7, <2>8, SoundKept DEF CandidateOK, BroadInv, StoresOK
  <2>10. Decided(v)'
    BY <1>2, <2>1, <2>2, <2>3, <2>5, NextIsDecided
    DEF CandidateOK, BroadInv, StoresOK
  <2>11. ASSUME NEW x \in 1..Latest
         PROVE  /\ Sound(versions[x])'
                /\ x > 1 => /\ versions'[x].parent = x - 1
                            /\ ExtendsVersion(versions[x], versions[x - 1])'
                /\ Decided(x)'
    <3>1. x \in DOMAIN versions /\ versions'[x] = versions[x]
      BY <2>4, <2>6
    <3>2. PICK r \in VersionRecords : r = versions[x]
      BY <2>4, <3>1
    <3>3. Sound(r)'
      BY <2>7, <2>8, <3>1, <3>2, SoundKept
      DEF BroadInv, StoresOK, VersionsOK
    <3>4. x > 1 => /\ versions[x].parent = x - 1
                   /\ ExtendsVersion(versions[x], versions[x - 1])
                   /\ versions'[x - 1] = versions[x - 1]
      BY SMTT(40), <2>4, <2>6, <3>1 DEF BroadInv, StoresOK, VersionsOK
    <3>5. x > 1 => ExtendsVersion(versions[x], versions[x - 1])'
      BY <3>1, <3>4 DEF ExtendsVersion, Same, Moved, WindowStart
    <3>6. Decided(x)
      BY <3>1 DEF BroadInv, StoresOK, VersionsOK
    <3>7. ASSUME NEW s \in Sec, Chained(x, s)' PROVE Chained(x, s)
      <4> SUFFICES ASSUME NEW y \in 2..x
                   PROVE  /\ versions[y].target
                               - versions[versions[y].parent].target <= Overlap
                          /\ ~MixedTwice(y, s)
        BY DEF Chained
      <4>1. y \in DOMAIN versions /\ y > 1 /\ y \in 1..Latest /\ y - 1 \in 1..Latest
        BY <2>4
      <4>2. versions[y].parent = y - 1
        BY <4>1 DEF BroadInv, StoresOK, VersionsOK
      <4>3. versions'[y] = versions[y] /\ versions'[y - 1] = versions[y - 1]
        BY <2>6, <4>1
      <4>4. /\ versions'[y].target - versions'[versions'[y].parent].target
                 <= Overlap
            /\ ~MixedTwice(y, s)'
        BY <3>7 DEF Chained
      <4> QED BY <4>2, <4>3, <4>4 DEF MixedTwice, OneBasis
    <3>8. ASSUME NEW s \in Sec, Chained(x, s)'
          PROVE  Same(versions[x], s, IF x = 1 THEN versions[x].target
                                      ELSE versions[x - 1].target)'
      <4>1. Same(versions[x], s, IF x = 1 THEN versions[x].target
                                 ELSE versions[x - 1].target)
        BY <3>6, <3>7, <3>8 DEF Decided
      <4>2. x = 1 \/ versions'[x - 1] = versions[x - 1]
        BY <3>4
      <4> QED BY <3>1, <4>1, <4>2 DEF Same
    <3>9. Decided(x)'
      BY <3>8 DEF Decided
    <3> QED BY <3>1, <3>2, <3>3, <3>4, <3>5, <3>9
  <2>12. /\ c.parent = v - 1 /\ v > 1
         /\ ExtendsVersion(versions[v], versions[v - 1])'
    <3>1. c.parent = Latest /\ v - 1 = Latest /\ Latest \in 1..Latest /\ v > 1
      BY <1>2, <2>1, <2>3, <2>4
    <3>2. ExtendsVersion(c, versions[Latest])
      BY <2>2, <3>1 DEF CandidateOK
    <3>3. versions'[v] = c /\ versions'[v - 1] = versions[Latest]
      BY <2>6, <3>1
    <3> QED BY <3>1, <3>2, <3>3 DEF ExtendsVersion, Same, Moved, WindowStart
  <2>13. VersionsOK'
    <3> SUFFICES ASSUME NEW x \in 1..v
                 PROVE  /\ Sound(versions[x])'
                        /\ x > 1 =>
                             /\ versions'[x].parent = x - 1
                             /\ ExtendsVersion(versions[x], versions[x - 1])'
                        /\ Decided(x)'
      BY <2>6 DEF VersionsOK
    <3>1. CASE x \in 1..Latest
      BY <2>11, <3>1
    <3>2. CASE x = v
      BY <2>6, <2>9, <2>10, <2>12, <3>2
    <3> QED BY <2>6, <3>1, <3>2
  <2>14. StoresOK'
    <3>1. CacheOK'
      BY <1>2 DEF CacheOK
    <3>2. MastersOK'
      BY DEF MastersOK, BroadInv, StoresOK, Register
    <3>3. UniversesOK' /\ GensOK'
      BY <2>8, UniversesKept, GensKept DEF BroadInv, StoresOK, factorVars
    <3> QED BY <2>7, <2>13, <3>1, <3>2, <3>3 DEF StoresOK
  <2>15. JobsOK'
    <3>1. "coverage" \in Stages /\ v \in Nat /\ v \in DOMAIN versions'
      BY <2>3, <2>4, <2>6 DEF Stages
    <3>2. Advance(w, "coverage", v)
      BY <1>2, <2>3
    <3> QED BY <2>7, <2>8, <3>1, <3>2, AdvanceMoves
  <2> QED BY <2>14, <2>15 DEF BroadInv
<1> QED BY <1>1, <1>2 DEF Register

-----------------------------------------------------------------------------
(* Universes *)

\* A universe that is built for a version of the current master has members
\* with bars only: those rolled forward had bars in an older version of the
\* same master, and the new one has isolated nobody.
LEMMA UniverseIsOK ==
  ASSUME StoresOK, NEW c \in DOMAIN versions, versions[c].master = Master,
         NEW full, NEW u, u = UniverseFor(c, full)
  PROVE  UniverseOK(u)
<1>1. PICK v : v = versions[c]
  OBVIOUS
<1>2. v \in VersionRecords /\ Sound(v) /\ v.master = Master
  BY <1>1 DEF StoresOK, VersionsOK
<1>3. PICK old : old = universes[Universe]
  OBVIOUS
<1>4. UniverseOK(old)
  BY <1>3, Current DEF StoresOK, UniversesOK
<1>5. PICK o : o = versions[old.cov]
  OBVIOUS
<1>6. /\ o \in VersionRecords /\ Sound(o)
      /\ old.target = o.target /\ old.master = o.master
      /\ old.members \in [Ended(old.target) -> SUBSET Sec]
      /\ \A m \in DOMAIN old.members : old.members[m] \subseteq Eligible(old.cov, m)
  BY <1>4, <1>5 DEF StoresOK, VersionsOK, UniverseOK
<1>7. v.target \in Nat /\ v.target \in Days /\ o.target \in Nat /\ o.target \in Days
  BY <1>2, <1>6 DEF VersionRecords, Sound
<1>8. ASSUME NEW m \in Ended(v.target), Incremental(c, Universe, full),
             MonthEnd(m) < old.target - Overlap
      PROVE  old.members[m] \subseteq Eligible(c, m)
  <2>1. m \in Ended(old.target)
    <3>1. m \in Nat /\ 1 <= m /\ MonthEnd(m) = 2 * m - 1
      BY <1>7 DEF Ended, Months, Month, MonthEnd
    <3>2. 2 * m - 1 <= o.target
      BY <1>6, <1>7, <1>8, <3>1, Bounds
    <3>3. m <= o.target \div 2 + 1
      BY <1>7, <3>1, <3>2
    <3>4. o.target \div 2 + 1 \in Int
      BY <1>7
    <3> QED BY <1>6, <3>1, <3>2, <3>3, <3>4 DEF Ended, Months, Month
  <2>2. /\ old.target < v.target /\ old.master = Master /\ v.isolated = {}
    BY <1>1, <1>3, <1>8 DEF Incremental
  <2>3. ASSUME NEW s \in old.members[m] PROVE s \in Eligible(c, m)
    <3>1. s \in Eligible(old.cov, m)
      BY <1>6, <2>1
    <3>2. PICK d \in Days : Month(d) = m /\ o.rows[s][d] # NoRow
      BY <1>5, <3>1 DEF Eligible
    <3>3. s \in Sec
      BY <3>1 DEF Eligible
    <3>4. d <= o.target /\ s \in masters[o.master].ids
      BY <1>6, <3>2, <3>3 DEF Sound, SoundRows
    <3>5. d <= v.target /\ s \in masters[v.master].ids \ v.isolated
      BY <1>2, <1>6, <1>7, <2>2, <3>4, Bounds DEF Days
    <3>6. v.rows[s][d] # NoRow
      BY <1>2, <3>3, <3>5 DEF Sound, SoundRows
    <3> QED BY <1>1, <3>2, <3>3, <3>6 DEF Eligible
  <2> QED BY <2>3
<1>9. PICK members : members = Snapshots(c, Universe, Incremental(c, Universe, full))
  OBVIOUS
<1>10. members \in [Ended(v.target) -> SUBSET Sec]
       /\ \A m \in Ended(v.target) : members[m] \subseteq Eligible(c, m)
  <2>1. members = [m \in Ended(v.target) |->
                     IF /\ Incremental(c, Universe, full)
                        /\ MonthEnd(m) < old.target - Overlap
                     THEN old.members[m] ELSE Eligible(c, m)]
    BY <1>1, <1>3, <1>9 DEF Snapshots
  <2>2. \A m : Eligible(c, m) \subseteq Sec
    BY DEF Eligible
  <2>3. ASSUME NEW m \in Ended(v.target) PROVE members[m] \subseteq Eligible(c, m)
    BY <1>8, <2>1
  <2> QED BY <2>1, <2>2, <2>3
<1>11. /\ u.cov = c /\ u.master = Master /\ u.target = v.target
       /\ u.members = members
       /\ u = [cov |-> c, master |-> Master, target |-> v.target,
               members |-> members]
  BY <1>1, <1>9 DEF UniverseFor
<1>12. u \in UniverseRecords
  <2>1. members \in Members
    BY <1>7, <1>10 DEF Members
  <2>2. c \in Nat
    BY Current DEF StoresOK
  <2>3. Master \in Nat
    BY Current DEF StoresOK
  <2> QED BY <1>7, <1>11, <2>1, <2>2, <2>3 DEF UniverseRecords
<1> QED BY <1>1, <1>2, <1>10, <1>11, <1>12 DEF UniverseOK

\* The new universe has members with bars only.
LEMMA UniverseBeginInv ==
  ASSUME BroadInv, NEW w \in Jobs, UniverseBegin(w)
  PROVE  BroadInv'
<1>1. MarketOK' /\ Grows /\ StoresOK'
  BY OnlyJobsMove DEF UniverseBegin, BroadInv, stores
<1>2. PICK c : c = Coverage(w)
  OBVIOUS
<1>3. c \in DOMAIN versions
  <2>1. CASE w = "service"
    <3>1. pc[w] = "universe"
      BY DEF UniverseBegin
    <3> QED BY <1>2, <2>1, <3>1 DEF Coverage, BroadInv, JobsOK, JobOK
  <2>2. CASE w # "service"
    BY <1>2, <2>2, Current DEF Coverage, BroadInv, StoresOK
  <2> QED BY <2>1, <2>2
<1>4. CASE Fail(w)
  BY <1>1, <1>4, FailMoves DEF BroadInv
<1>5. CASE Advance(w, "universe", 0)
  <2>1. "universe" \in Stages /\ 0 \in Nat /\ "universe" # "master"
        /\ "universe" # "coverage"
    BY DEF Stages
  <2>2. JobsOK'
    BY <1>1, <1>5, <2>1, AdvanceMoves
  <2> QED BY <1>1, <2>2 DEF BroadInv
<1>6. CASE /\ versions[c].master = Master
           /\ Go(w, "publishUniverse")
           /\ arg' = [arg EXCEPT ![w].cand = UniverseFor(c, arg[w].force)]
  <2>1. PICK u : u = UniverseFor(c, arg[w].force)
    OBVIOUS
  <2>2. UniverseOK(u)
    BY <1>3, <1>6, <2>1, UniverseIsOK DEF BroadInv
  <2>3. UniverseOK(u)'
    BY <1>1, <2>2, UniverseKept
  <2>4. u \in Candidates
    BY <2>2 DEF UniverseOK, Candidates
  <2>5. arg[w] \in ArgRecords
    BY DEF BroadInv, JobsOK
  <2>6. [arg[w] EXCEPT !.cand = u] \in ArgRecords
    BY <2>4, <2>5, ArgUpdates
  <2>7. arg' = [arg EXCEPT ![w] = [arg[w] EXCEPT !.cand = u]]
    BY <1>6, <2>1
  <2>8. arg'[w].cand = u
    BY <2>5, <2>7 DEF BroadInv, JobsOK, ArgRecords
  <2>9. "publishUniverse" \in Steps
    BY DEF Steps
  <2>10. pc' = [pc EXCEPT ![w] = "publishUniverse"] /\ pc'[w] = "publishUniverse"
    BY <1>6 DEF Go, BroadInv, JobsOK
  <2>11. JobOK(w)'
    BY <2>3, <2>8, <2>10 DEF JobOK
  <2>12. JobsOK'
    BY <1>1, <2>6, <2>7, <2>9, <2>10, <2>11, JobMoves
  <2> QED BY <1>1, <2>12 DEF BroadInv
<1> QED BY <1>2, <1>4, <1>5, <1>6 DEF UniverseBegin

\* The universe is appended as it was built.
LEMMA UniversePublishInv ==
  ASSUME BroadInv, NEW w \in Jobs, UniversePublish(w)
  PROVE  BroadInv'
<1>1. MarketOK'
  BY DEF UniversePublish, BroadInv, StoresOK, MarketOK, market
<1>2. PICK u : u = arg[w].cand
  OBVIOUS
<1>3. UniverseOK(u) /\ u \in UniverseRecords
  <2>1. pc[w] = "publishUniverse"
    BY DEF UniversePublish
  <2> QED BY <1>2, <2>1 DEF UniverseOK, BroadInv, JobsOK, JobOK
<1>4. universes \in Seq(UniverseRecords) /\ universes' = Append(universes, u)
  BY <1>2 DEF UniversePublish, BroadInv, StoresOK, UniversesOK
<1>5. /\ universes' \in Seq(UniverseRecords) /\ universes' # <<>>
      /\ \A x \in DOMAIN universes :
           x \in DOMAIN universes' /\ universes'[x] = universes[x]
      /\ \A x \in DOMAIN universes' :
           x \in DOMAIN universes \/ universes'[x] = u
  BY <1>3, <1>4
<1>6. Grows
  BY <1>5 DEF Grows, UniversePublish, factorVars, market, BroadInv, StoresOK,
              MarketOK
<1>7. UniversesOK'
  <2>1. ASSUME NEW x \in DOMAIN universes' PROVE UniverseOK(universes[x])'
    <3>1. PICK y : y = universes'[x] /\ UniverseOK(y)
      BY <1>3, <1>5 DEF BroadInv, StoresOK, UniversesOK
    <3>2. UniverseOK(y)'
      BY <1>6, <3>1, UniverseKept
    <3> QED BY <3>1, <3>2
  <2> QED BY <1>5, <2>1 DEF UniversesOK
<1>8. StoresOK'
  BY <1>1, <1>6, <1>7, VersionsKept, CacheKept, GensKept
  DEF BroadInv, StoresOK, MastersOK, UniversePublish, factorVars
<1>9. JobsOK'
  <2>1. "universe" \in Stages /\ 0 \in Nat /\ "universe" # "master"
        /\ "universe" # "coverage"
    BY DEF Stages
  <2> QED BY <1>1, <1>6, <2>1, AdvanceMoves DEF UniversePublish
<1> QED BY <1>8, <1>9 DEF BroadInv

-----------------------------------------------------------------------------
(* Factor data *)

\* A publication of the second session or later has months, and each of
\* them ends at a session.
LEMMA MonthsUpTo ==
  ASSUME NEW t \in Days, 2 <= t
  PROVE  /\ Periods(t) # {}
         /\ \A m \in Periods(t) :
              /\ m \in Nat /\ 2 <= m /\ End(m, t) \in Nat
              /\ End(m, t) <= MonthEnd(m) /\ End(m, t) <= MaxDay
<1>1. t \in Nat /\ t <= MaxDay
  BY Bounds DEF Days
<1>2. 2 \in Periods(t)
  <2>1. t \div 2 + 1 >= 2 /\ t \div 2 + 1 \in Int
    BY <1>1
  <2> QED BY <2>1 DEF Periods, Months, Month
<1>3. ASSUME NEW m \in Periods(t)
      PROVE  /\ m \in Nat /\ 2 <= m /\ End(m, t) \in Nat
             /\ End(m, t) <= MonthEnd(m) /\ End(m, t) <= MaxDay
  <2>1. m \in Nat /\ 2 <= m
    BY <1>1 DEF Periods, Months, Month
  <2>2. PICK e : e = MonthEnd(m)
    OBVIOUS
  <2>3. e \in Nat
    BY <2>1, <2>2 DEF MonthEnd
  <2> DEFINE least(x) == x \in {e, t} /\ \A y \in {e, t} : x <= y
  <2>4. \E x : least(x)
    <3>1. CASE e <= t
      <4>1. least(e)
        BY <1>1, <2>3, <3>1
      <4> QED BY <4>1
    <3>2. CASE t <= e
      <4>1. least(t)
        BY <1>1, <2>3, <3>2
      <4> QED BY <4>1
    <3> QED BY <1>1, <2>3, <3>1, <3>2
  <2>5. least(End(m, t))
    BY <2>2, <2>4 DEF End, Min
  <2>6. End(m, t) \in Nat /\ End(m, t) <= e /\ End(m, t) <= t
    BY <1>1, <2>3, <2>5
  <2> QED BY <1>1, <2>1, <2>2, <2>6, Bounds
<1> QED BY <1>2, <1>3

\* So has every generation.
LEMMA MonthsOf ==
  ASSUME StoresOK, NEW g \in DOMAIN gens
  PROVE  /\ Target(g) \in Days /\ Target(g) \in Nat /\ 2 <= Target(g)
         /\ Periods(Target(g)) # {}
         /\ \A m \in Periods(Target(g)) :
              /\ m \in Nat /\ 2 <= m /\ End(m, Target(g)) \in Nat
              /\ End(m, Target(g)) <= MonthEnd(m)
              /\ End(m, Target(g)) <= MaxDay
<1>1. PICK v : v = versions[gens[g].cov]
  OBVIOUS
<1>2. v \in VersionRecords /\ Sound(v)
  BY <1>1 DEF StoresOK, GensOK, GenOK, VersionsOK
<1>3. PICK t : t = Target(g)
  OBVIOUS
<1>4. t \in Days /\ t \in Nat /\ 2 <= t
  BY <1>1, <1>2, <1>3, Bounds DEF Target, VersionRecords, Sound
<1> QED BY <1>3, <1>4, MonthsUpTo

\* A plan of the right months is a plan.
LEMMA PlanOf ==
  ASSUME StoresOK, NEW g \in DOMAIN gens,
         NEW plan \in [Periods(Target(g)) -> Parts]
  PROVE  plan \in Plans /\ plan # <<>>
<1>1. Target(g) \in Days /\ Periods(Target(g)) # {}
  BY MonthsOf
<1>2. plan \in Plans
  BY <1>1 DEF Plans
<1>3. DOMAIN plan # {}
  BY <1>1
<1>4. DOMAIN <<>> = {}
  OBVIOUS
<1> QED BY <1>2, <1>3, <1>4

\* Equal monthly partitions and memberships give equal factors.
LEMMA SameFingerprint ==
  ASSUME NEW c, NEW u, NEW c2, NEW u2, NEW m \in Nat, 2 <= m, NEW e,
         e \in Nat, e <= MonthEnd(m), e <= MaxDay,
         Fingerprint(c, u, m) = Fingerprint(c2, u2, m),
         \A x : Snapshot(u, x) \subseteq Sec
  PROVE  Reads(c, u, m, e) = Reads(c2, u2, m, e)
<1>1. /\ <<Snapshot(u, m - 1), Snapshot(u, m)>>
           = <<Snapshot(u2, m - 1), Snapshot(u2, m)>>
      /\ [s \in Sec |-> [d \in {x \in Days : Month(x) \in {m - 1, m}} |->
                           Bar(c, s, d)]]
           = [s \in Sec |-> [d \in {x \in Days : Month(x) \in {m - 1, m}} |->
                           Bar(c2, s, d)]]
  BY DEF Fingerprint
<1>2. Snapshot(u, m - 1) = Snapshot(u2, m - 1) /\ Snapshot(u, m) = Snapshot(u2, m)
  BY <1>1
<1>3. ASSUME NEW s \in Sec, NEW d \in MonthEnd(m - 1)..e
      PROVE  Bar(c, s, d) = Bar(c2, s, d)
  <2>1. d \in Nat /\ 2 * m - 3 <= d /\ d <= 2 * m - 1 /\ 1 <= d /\ d <= MaxDay
    BY <1>3, Bounds DEF MonthEnd
  <2>2. d \in Days /\ Month(d) \in {m - 1, m}
    BY <2>1, Bounds DEF Days, Month
  <2>3. PICK f, f2 :
          /\ f = [x \in Sec |-> [y \in {z \in Days : Month(z) \in {m - 1, m}} |->
                                   Bar(c, x, y)]]
          /\ f2 = [x \in Sec |-> [y \in {z \in Days : Month(z) \in {m - 1, m}} |->
                                   Bar(c2, x, y)]]
    OBVIOUS
  <2>4. f[s][d] = Bar(c, s, d) /\ f2[s][d] = Bar(c2, s, d)
    BY <2>2, <2>3
  <2>5. f = f2
    BY <1>1, <2>3, Zenon
  <2> QED BY <2>4, <2>5
<1>4. PICK members : members = Snapshot(u, m - 1) \cup Snapshot(u, m)
  OBVIOUS
<1>5. members \subseteq Sec /\ members = Snapshot(u2, m - 1) \cup Snapshot(u2, m)
  BY <1>2, <1>4
<1>6. [s \in members |-> [d \in MonthEnd(m - 1)..e |-> Bar(c, s, d)]]
        = [s \in members |-> [d \in MonthEnd(m - 1)..e |-> Bar(c2, s, d)]]
  BY <1>3, <1>5
<1> QED BY <1>1, <1>4, <1>5, <1>6, Zenon DEF Reads

\* A month that is taken over is what the generation would compute.
LEMMA ReusedIsOK ==
  ASSUME StoresOK, NEW g \in DOMAIN gens, NEW p \in {0} \cup FinalGens, NEW m,
         m \in Periods(Target(g)), Reusable(p, g, m), NEW part,
         part = gens[p].final[m]
  PROVE  /\ part \in Parts /\ PartOK(g, m, part) /\ part.src \in FinalGens
<1>1. p \in FinalGens /\ p \in DOMAIN gens /\ m \in DOMAIN gens[p].final
  BY DEF Reusable, FinalGens
<1>2. FinalOK(p, gens[p].final)
  BY <1>1 DEF StoresOK, GensOK, GenOK, FinalGens
<1>3. part \in Parts /\ PartOK(p, m, part) /\ part.src \in FinalGens
  BY <1>1, <1>2 DEF FinalOK
<1>4. /\ part.end = End(m, Target(g))
      /\ Fingerprint(part.cov, part.uni, m)
           = Fingerprint(gens[g].cov, gens[g].uni, m)
  BY DEF Reusable
<1>5. part.cov \in DOMAIN versions /\ part.uni \in DOMAIN universes
  BY <1>3 DEF PartOK
<1>6. \A x : Snapshot(part.uni, x) \subseteq Sec
  BY <1>5 DEF Snapshot, StoresOK, UniversesOK, UniverseOK
<1>7. /\ m \in Nat /\ 2 <= m /\ part.end \in Nat
      /\ part.end <= MonthEnd(m) /\ part.end <= MaxDay
  BY <1>4, MonthsOf
<1>8. Reads(part.cov, part.uni, m, part.end)
        = Reads(gens[g].cov, gens[g].uni, m, part.end)
  BY <1>4, <1>6, <1>7, SameFingerprint
<1> QED BY <1>3, <1>4, <1>5, <1>8 DEF PartOK

\* So is a month that is computed.
LEMMA ComputedIsOK ==
  ASSUME StoresOK, NEW g \in DOMAIN gens, NEW m \in Periods(Target(g)),
         NEW part,
         part = [end |-> End(m, Target(g)), cov |-> gens[g].cov,
                 uni |-> gens[g].uni, src |-> g]
  PROVE  part \in Parts /\ PartOK(g, m, part) /\ part.src = g
<1>1. End(m, Target(g)) \in Nat
  BY MonthsOf
<1>2. gens[g].cov \in DOMAIN versions /\ gens[g].uni \in DOMAIN universes
  BY DEF StoresOK, GensOK, GenOK
<1>3. gens[g].cov \in Nat /\ gens[g].uni \in Nat /\ g \in Nat
  <2>1. gens[g] \in GenRecords /\ g \in Nat
    BY DEF StoresOK, GensOK
  <2> QED BY <2>1 DEF GenRecords
<1> QED BY <1>1, <1>2, <1>3 DEF Parts, PartOK

\* A generation that is not finished has no part of another one to wait for.
LEMMA NotMissing ==
  ASSUME StoresOK, NEW part, part.src \in FinalGens \/ part.src \in DOMAIN gens
  PROVE  part # Missing
<1>1. part.src \in DOMAIN gens
  BY DEF FinalGens
<1>2. part.src # 0
  BY <1>1 DEF StoresOK, GensOK
<1> QED BY <1>2 DEF Missing

\* A job goes on with the generation g and the plan it has read.
LEMMA FactorsMove ==
  ASSUME BroadInv, MarketOK', Grows, NEW w \in Jobs,
         NEW g \in DOMAIN gens', g \in Nat, NEW prev \in {0} \cup FinalGens',
         prev \in Nat, NEW plan \in Plans, StagedOK(g, plan)',
         pc' = [pc EXCEPT ![w] = "lockFactors"],
         arg' = [arg EXCEPT ![w].gen = g, ![w].prev = prev, ![w].done = plan]
  PROVE  JobsOK'
<1>1. arg[w] \in ArgRecords
  BY DEF BroadInv, JobsOK
<1> DEFINE a == [arg[w] EXCEPT !.gen = g, !.prev = prev, !.done = plan]
<1>2. a \in ArgRecords
  BY <1>1, ArgUpdates
<1>3. a.gen = g /\ a.prev = prev /\ a.done = plan
  BY <1>1 DEF ArgRecords
<1>4. arg' = [arg EXCEPT ![w] = a] /\ arg'[w] = a
  BY DEF BroadInv, JobsOK
<1>5. pc'[w] = "lockFactors" /\ "lockFactors" \in Steps
  BY DEF BroadInv, JobsOK, Steps
<1>6. JobOK(w)'
  BY <1>3, <1>4, <1>5 DEF JobOK
<1> QED BY <1>2, <1>4, <1>5, <1>6, JobMoves

\* A new, resumed or superfluous factor run starts from a sound plan.
LEMMA FactorsBeginInv ==
  ASSUME BroadInv, NEW w \in Jobs, FactorsBegin(w)
  PROVE  BroadInv'
<1>1. MarketOK'
  BY DEF FactorsBegin, BroadInv, StoresOK, MarketOK, market
<1>2. PICK prev : prev = IF arg[w].force THEN 0 ELSE factorPub
  OBVIOUS
<1>3. prev \in {0} \cup FinalGens /\ prev \in Nat
  <2>1. factorPub \in FinalGens /\ gens \in Seq(GenRecords)
    BY DEF BroadInv, StoresOK, GensOK
  <2>2. factorPub \in Nat
    BY <2>1 DEF FinalGens
  <2> QED BY <1>2, <2>1, <2>2
<1>4. CASE UNCHANGED gens
  <2>1. Grows /\ StoresOK' /\ FinalGens' = FinalGens
    <3>1. UNCHANGED <<market, budget, stores>>
      BY <1>4 DEF FactorsBegin, stores, factorVars
    <3> QED BY <1>4, <3>1, OnlyJobsMove DEF BroadInv, FinalGens
  <2>2. CASE Fail(w)
    BY <1>1, <2>1, <2>2, FailMoves DEF BroadInv
  <2>3. CASE Advance(w, "factors", 0)
    <3>1. "factors" \in Stages /\ 0 \in Nat /\ "factors" # "master"
          /\ "factors" # "coverage"
      BY DEF Stages
    <3>2. JobsOK'
      BY <1>1, <2>1, <2>3, <3>1, AdvanceMoves
    <3> QED BY <2>1, <3>2 DEF BroadInv
  <2>4. ASSUME NEW g \in Resumable(prev), Resume(w, g, prev)
        PROVE  BroadInv'
    <3>1. PICK plan : plan = gens[g].staged
      OBVIOUS
    <3>2. g \in DOMAIN gens /\ plan # <<>>
      BY <2>4, <3>1 DEF Resumable
    <3>3. g \in Nat /\ plan \in Plans /\ StagedOK(g, plan)
      <4>1. gens[g] \in GenRecords /\ g \in Nat /\ StagedOK(g, plan)
        BY <3>1, <3>2 DEF BroadInv, StoresOK, GensOK, GenOK
      <4> QED BY <3>1, <3>2, <4>1 DEF GenRecords
    <3>4. g \in DOMAIN gens' /\ StagedOK(g, plan)'
      <4>1. GenOK(g)
        BY <3>2 DEF BroadInv, StoresOK, GensOK
      <4> QED BY <2>1, <3>2, <3>3, <4>1, StagedKept DEF Grows
    <3>5. pc' = [pc EXCEPT ![w] = "lockFactors"]
      BY <2>4 DEF Resume, Go
    <3>6. arg' = [arg EXCEPT ![w].gen = g, ![w].prev = prev, ![w].done = plan]
      BY <2>4, <3>1 DEF Resume
    <3>7. JobsOK'
      BY <1>1, <1>3, <2>1, <3>3, <3>4, <3>5, <3>6, FactorsMove
    <3> QED BY <2>1, <3>7 DEF BroadInv
  <2>5. ~StartNew(w, prev)
    <3>1. StartNew(w, prev) => Len(gens') = Len(gens) + 1
      BY DEF StartNew, BroadInv, StoresOK, GensOK
    <3>2. Len(gens) \in Nat
      BY DEF BroadInv, StoresOK, GensOK
    <3> QED BY <1>4, <3>1, <3>2
  <2> QED BY <1>2, <2>2, <2>3, <2>4, <2>5 DEF FactorsBegin
<1>5. CASE /\ universes[Universe].cov = Latest
           /\ StartNew(w, prev)
  <2>1. PICK g, t, none, cov, uni :
          /\ g = Len(gens) + 1 /\ t = versions[Latest].target
          /\ none = NoParts(t) /\ cov = Latest /\ uni = Universe
    OBVIOUS
  <2>2. /\ cov \in Nat /\ cov \in DOMAIN versions
        /\ uni \in Nat /\ uni \in DOMAIN universes
    BY <2>1, Current DEF BroadInv, StoresOK
  <2>3. t \in Days /\ 2 <= t
    <3>1. versions[cov] \in VersionRecords /\ Sound(versions[cov])
      BY <2>2 DEF BroadInv, StoresOK, VersionsOK
    <3>2. versions[cov].target \in Nat
      BY <3>1 DEF VersionRecords
    <3> QED BY <2>1, <3>1, <3>2, Bounds DEF Sound
  <2>4. none \in [Periods(t) -> Parts] /\ \A m \in DOMAIN none : none[m] = Missing
    <3>1. Missing \in Parts
      <4>1. PICK z \in Nat : z = 0
        OBVIOUS
      <4> QED BY <4>1 DEF Missing, Parts
    <3> QED BY <2>1, <3>1 DEF NoParts
  <2>5. none \in Plans
    BY <2>3, <2>4 DEF Plans
  <2> DEFINE new == [cov |-> cov, uni |-> uni, prev |-> prev,
                     staged |-> none, final |-> <<>>]
  <2>6. new \in GenRecords
    <3> HIDE DEF Plans
    <3> QED BY <1>3, <2>2, <2>5 DEF GenRecords
  <2>7. new.cov = cov /\ new.uni = uni /\ new.prev = prev /\ new.staged = none
        /\ new.final = <<>>
    OBVIOUS
  <2>8. gens \in Seq(GenRecords) /\ gens' = Append(gens, new)
    BY <1>5, <2>1 DEF StartNew, BroadInv, StoresOK, GensOK
  <2> HIDE DEF new
  <2>9. /\ gens' \in Seq(GenRecords) /\ g \in DOMAIN gens' /\ gens'[g] = new
        /\ g \in Nat
        /\ \A x \in DOMAIN gens : x \in DOMAIN gens' /\ gens'[x] = gens[x]
        /\ \A x \in DOMAIN gens' : x \in DOMAIN gens \/ x = g
    BY <2>1, <2>6, <2>8
  <2>10. Grows
    BY <2>9 DEF Grows, FactorsBegin, market, BroadInv, StoresOK, MarketOK
  <2>11. /\ versions' = versions /\ universes' = universes
         /\ factorPub' = factorPub
    BY DEF FactorsBegin
  <2>12. Target(g)' = t
    BY <2>1, <2>7, <2>9, <2>11 DEF Target
  <2>13. StagedOK(g, none)'
    BY <2>4, <2>12 DEF StagedOK
  <2>14. GenOK(g)'
    <3>1. prev \in {0} \cup FinalGens'
      BY <1>3, <2>10, FinalsKept
    <3>2. universes[uni].cov = cov
      BY <1>5, <2>1
    <3> QED BY <2>2, <2>7, <2>9, <2>11, <2>13, <3>1, <3>2 DEF GenOK
  <2>15. GensOK'
    <3>1. \A x \in DOMAIN gens : GenOK(x)'
      BY <2>9, <2>10, GenKept DEF BroadInv, StoresOK, GensOK
    <3>2. factorPub' \in FinalGens'
      BY <2>10, <2>11, FinalsKept DEF BroadInv, StoresOK, GensOK
    <3> QED BY <2>9, <2>14, <3>1, <3>2 DEF GensOK
  <2>16. StoresOK'
    BY <1>1, <2>10, <2>15, VersionsKept, CacheKept, UniversesKept
    DEF BroadInv, StoresOK, MastersOK, FactorsBegin
  <2>17. JobsOK'
    <3>1. prev \in {0} \cup FinalGens'
      BY <1>3, <2>10, FinalsKept
    <3>2. pc' = [pc EXCEPT ![w] = "lockFactors"]
      BY <1>5 DEF StartNew, Go
    <3>3. arg' = [arg EXCEPT ![w].gen = g, ![w].prev = prev, ![w].done = none]
      BY <1>5, <2>1 DEF StartNew
    <3> QED BY <1>1, <1>3, <2>5, <2>9, <2>10, <2>13, <3>1, <3>2, <3>3,
               FactorsMove
  <2> QED BY <2>16, <2>17 DEF BroadInv
<1> QED BY <1>2, <1>4, <1>5 DEF FactorsBegin, Resume

\* With the lock a run computes, or publishes when no month is missing.
LEMMA LockFactorsInv ==
  ASSUME BroadInv, NEW w \in Jobs, LockFactors(w)
  PROVE  BroadInv'
<1>1. MarketOK' /\ Grows /\ StoresOK'
  BY OnlyJobsMove DEF LockFactors, BroadInv, stores
<1>2. CASE Fail(w)
  BY <1>1, <1>2, FailMoves DEF BroadInv
<1>3. ASSUME NEW step,
             step = IF \E m \in DOMAIN arg[w].done : arg[w].done[m] = Missing
                    THEN "compute" ELSE "publish",
             Go(w, step), UNCHANGED arg
      PROVE  BroadInv'
  <2>1. pc[w] = "lockFactors"
    BY DEF LockFactors
  <2>2. pc' = [pc EXCEPT ![w] = step] /\ pc'[w] = step
    BY <1>3 DEF Go, BroadInv, JobsOK
  <2>3. step \in {"compute", "publish"} /\ step \in Steps
    BY <1>3 DEF Steps
  <2>4. arg[w] \in ArgRecords /\ arg' = [arg EXCEPT ![w] = arg[w]]
    BY <1>3 DEF BroadInv, JobsOK
  <2>5. PICK g, plan, prev :
          g = arg[w].gen /\ plan = arg[w].done /\ prev = arg[w].prev
    OBVIOUS
  <2>6. g \in DOMAIN gens /\ StagedOK(g, plan) /\ prev \in {0} \cup FinalGens
    BY <2>1, <2>5 DEF BroadInv, JobsOK, JobOK
  <2>7. g \in DOMAIN gens' /\ StagedOK(g, plan)' /\ prev \in {0} \cup FinalGens'
    BY <1>1, <2>6, StagedKept, FinalsKept DEF BroadInv, StoresOK, GensOK, Grows
  <2>8. step = "publish" => \A m \in DOMAIN plan : plan[m] # Missing
    BY <1>3, <2>5
  <2>9. JobOK(w)'
    BY <1>3, <2>2, <2>3, <2>5, <2>7, <2>8 DEF JobOK
  <2>10. JobsOK'
    BY <1>1, <2>2, <2>3, <2>4, <2>9, JobMoves
  <2> QED BY <1>1, <2>10 DEF BroadInv
<1> QED BY <1>2, <1>3 DEF LockFactors

\* One month more is taken over or computed.
LEMMA ComputeMonthInv ==
  ASSUME BroadInv, NEW w \in Jobs, ComputeMonth(w)
  PROVE  BroadInv'
<1>1. MarketOK'
  BY DEF ComputeMonth, BroadInv, StoresOK, MarketOK, market
<1>2. PICK g, prev, plan :
        g = arg[w].gen /\ prev = arg[w].prev /\ plan = arg[w].done
  OBVIOUS
<1>3. /\ g \in DOMAIN gens /\ prev \in {0} \cup FinalGens
      /\ StagedOK(g, plan) /\ pc[w] = "compute" /\ arg[w] \in ArgRecords
  <2>1. pc[w] = "compute"
    BY DEF ComputeMonth
  <2> QED BY <1>2, <2>1 DEF BroadInv, JobsOK, JobOK
<1>4. PICK left : left = {m \in DOMAIN plan : plan[m] = Missing}
  OBVIOUS
<1>5. PICK m : m = Min(left)
  OBVIOUS
<1>6. PICK part :
        part = IF Reusable(prev, g, m) THEN gens[prev].final[m]
               ELSE [end |-> End(m, Target(g)), cov |-> gens[g].cov,
                     uni |-> gens[g].uni, src |-> g]
  OBVIOUS
<1>7. PICK done : done = [plan EXCEPT ![m] = part]
  OBVIOUS
<1>8. /\ StagedOK(g, done) /\ DOMAIN done = DOMAIN plan
      /\ \A x \in DOMAIN done : done[x] = IF x = m THEN part ELSE plan[x]
      /\ m \in DOMAIN done => done[m] # Missing
  <2>1. /\ Reusable(prev, g, m) => part = gens[prev].final[m]
        /\ ~Reusable(prev, g, m) =>
             part = [end |-> End(m, Target(g)), cov |-> gens[g].cov,
                     uni |-> gens[g].uni, src |-> g]
    BY <1>6
  <2>2. StoresOK
    BY DEF BroadInv
  <2>3. ASSUME m \in Periods(Target(g))
        PROVE  /\ part \in Parts /\ PartOK(g, m, part)
               /\ part.src \in FinalGens \cup {g}
    <3>1. CASE Reusable(prev, g, m)
      BY <1>3, <2>1, <2>2, <2>3, <3>1, ReusedIsOK
    <3>2. CASE ~Reusable(prev, g, m)
      BY <1>3, <2>1, <2>2, <2>3, <3>2, ComputedIsOK
    <3> QED BY <3>1, <3>2
  <2>4. plan \in [Periods(Target(g)) -> Parts]
    BY <1>3 DEF StagedOK
  <2>5. /\ DOMAIN done = DOMAIN plan /\ DOMAIN plan = Periods(Target(g))
        /\ \A x \in DOMAIN done : done[x] = IF x = m THEN part ELSE plan[x]
        /\ done = [x \in DOMAIN plan |-> done[x]]
    BY <1>7, <2>4
  <2>6. done \in [Periods(Target(g)) -> Parts]
    BY <2>3, <2>4, <2>5
  <2>7. StagedOK(g, done)
    BY <1>3, <2>3, <2>5, <2>6 DEF StagedOK
  <2>8. m \in DOMAIN done => done[m] # Missing
    <3>1. m \in Periods(Target(g)) => part # Missing
      BY <1>3, <2>2, <2>3, NotMissing
    <3> QED BY <2>5, <3>1
  <2> QED BY <2>5, <2>7, <2>8
<1>9. done \in Plans /\ done # <<>>
  BY <1>3, <1>8, PlanOf DEF BroadInv, StagedOK
<1>10. /\ gens' = [gens EXCEPT ![g].staged = done]
       /\ \/ /\ Go(w, "factors")
             /\ arg' = [arg EXCEPT ![w] = Fresh]
          \/ /\ Go(w, IF left = {m} THEN "publish" ELSE "compute")
             /\ arg' = [arg EXCEPT ![w].done = done]
  BY ZenonT(60), <1>2, <1>4, <1>5, <1>6, <1>7 DEF ComputeMonth
<1>11. gens \in Seq(GenRecords) /\ gens[g] \in GenRecords
  BY <1>3 DEF BroadInv, StoresOK, GensOK
<1>12. PICK r : r = [gens[g] EXCEPT !.staged = done]
  OBVIOUS
<1>13. /\ r \in GenRecords /\ r.cov = gens[g].cov /\ r.uni = gens[g].uni
       /\ r.prev = gens[g].prev /\ r.final = gens[g].final /\ r.staged = done
  <2> HIDE DEF Plans
  <2> QED BY <1>9, <1>11, <1>12 DEF GenRecords
<1>14. /\ gens' \in Seq(GenRecords) /\ DOMAIN gens' = DOMAIN gens
       /\ gens'[g] = r /\ \A x \in DOMAIN gens : x # g => gens'[x] = gens[x]
  <2>1. gens' = [gens EXCEPT ![g] = r]
    BY <1>10, <1>12
  <2> QED BY <1>3, <1>11, <1>13, <2>1
<1>15. Grows
  <2>1. UNCHANGED <<vendor, masters, versions, universes>>
    BY DEF ComputeMonth, market
  <2>2. \A s \in Sec : vendor[s] <= vendor'[s]
    BY <2>1 DEF BroadInv, StoresOK, MarketOK
  <2> QED BY <1>13, <1>14, <2>1, <2>2 DEF Grows
<1>16. GenOK(g)'
  <2>1. GenOK(g)
    BY <1>3 DEF BroadInv, StoresOK, GensOK
  <2>2. StagedOK(g, done)'
    BY <1>3, <1>8, <1>15, <2>1, StagedKept
  <2>3. PICK final, prior : final = gens[g].final /\ prior = gens[g].prev
    OBVIOUS
  <2>4. final # <<>> => FinalOK(g, final)'
    BY <1>3, <1>15, <2>1, <2>3, FinalKept DEF GenOK
  <2>5. prior \in {0} \cup FinalGens'
    BY <1>15, <2>1, <2>3, FinalsKept DEF GenOK
  <2>6. /\ gens[g].cov \in DOMAIN versions' /\ gens[g].uni \in DOMAIN universes'
        /\ universes'[gens[g].uni].cov = gens[g].cov
    BY <2>1, <1>15 DEF GenOK, Grows
  <2> QED BY <1>13, <1>14, <2>2, <2>3, <2>4, <2>5, <2>6 DEF GenOK
<1>17. GensOK'
  <2>1. ASSUME NEW x \in DOMAIN gens PROVE GenOK(x)'
    <3>1. CASE x = g
      BY <1>16, <3>1
    <3>2. CASE x # g
      BY <1>14, <1>15, <3>2, GenKept DEF BroadInv, StoresOK, GensOK
    <3> QED BY <3>1, <3>2
  <2>2. factorPub' \in FinalGens'
    BY <1>15, FinalsKept DEF ComputeMonth, BroadInv, StoresOK, GensOK
  <2> QED BY <1>14, <2>1, <2>2 DEF GensOK
<1>18. StoresOK'
  BY <1>1, <1>15, <1>17, VersionsKept, CacheKept, UniversesKept
  DEF BroadInv, StoresOK, MastersOK, ComputeMonth
<1>19. CASE Go(w, "factors") /\ arg' = [arg EXCEPT ![w] = Fresh]
  <2>1. pc' = [pc EXCEPT ![w] = "factors"] /\ pc'[w] = "factors"
        /\ "factors" \in Steps
    BY <1>19 DEF Go, BroadInv, JobsOK, Steps, Stages
  <2>2. JobOK(w)'
    BY <2>1 DEF JobOK
  <2>3. JobsOK'
    BY <1>1, <1>15, <1>19, <2>1, <2>2, FreshOK, JobMoves
  <2> QED BY <1>18, <2>3 DEF BroadInv
<1>20. CASE /\ Go(w, IF left = {m} THEN "publish" ELSE "compute")
            /\ arg' = [arg EXCEPT ![w].done = done]
  <2>1. PICK step : step = IF left = {m} THEN "publish" ELSE "compute"
    OBVIOUS
  <2>2. /\ pc' = [pc EXCEPT ![w] = step] /\ pc'[w] = step
        /\ step \in {"compute", "publish"} /\ step \in Steps
    BY <1>20, <2>1 DEF Go, BroadInv, JobsOK, Steps, Stages
  <2>3. [arg[w] EXCEPT !.done = done] \in ArgRecords
    BY <1>3, <1>9, ArgUpdates
  <2>4. arg' = [arg EXCEPT ![w] = [arg[w] EXCEPT !.done = done]]
    BY <1>20
  <2>5. arg'[w].done = done /\ arg'[w].gen = g /\ arg'[w].prev = prev
    BY <1>2, <1>3, <2>4 DEF BroadInv, JobsOK, ArgRecords
  <2>6. step = "publish" => \A x \in DOMAIN done : done[x] # Missing
    BY <1>4, <1>8, <2>1
  <2>7. g \in DOMAIN gens' /\ StagedOK(g, done)' /\ prev \in {0} \cup FinalGens'
    BY <1>3, <1>8, <1>14, <1>15, StagedKept, FinalsKept
    DEF BroadInv, StoresOK, GensOK
  <2>8. JobOK(w)'
    BY <2>2, <2>5, <2>6, <2>7 DEF JobOK
  <2>9. JobsOK'
    BY <1>1, <1>15, <2>2, <2>3, <2>4, <2>8, JobMoves
  <2> QED BY <1>18, <2>9 DEF BroadInv
<1> QED BY <1>10, <1>19, <1>20

\* The staging directory becomes the generation, complete.
LEMMA FactorsRenameInv ==
  ASSUME BroadInv, NEW w \in Jobs, FactorsRename(w)
  PROVE  BroadInv'
<1>1. MarketOK'
  BY DEF FactorsRename, BroadInv, StoresOK, MarketOK, market
<1>2. CASE Fail(w) /\ UNCHANGED gens
  <2>1. UNCHANGED <<market, budget, stores>>
    BY <1>2 DEF FactorsRename, stores, factorVars
  <2>2. Grows /\ StoresOK'
    BY <2>1, OnlyJobsMove DEF BroadInv
  <2> QED BY <1>1, <1>2, <2>2, FailMoves DEF BroadInv
<1>3. ASSUME gens[arg[w].gen].final = <<>>,
             gens' = [gens EXCEPT ![arg[w].gen].final = arg[w].done,
                                  ![arg[w].gen].staged = <<>>],
             Go(w, "point"), UNCHANGED arg
      PROVE  BroadInv'
  <2>1. PICK g, plan : g = arg[w].gen /\ plan = arg[w].done
    OBVIOUS
  <2>2. /\ g \in DOMAIN gens /\ StagedOK(g, plan)
        /\ \A m \in DOMAIN plan : plan[m] # Missing
        /\ arg[w] \in ArgRecords
    <3>1. pc[w] = "publish"
      BY DEF FactorsRename
    <3> QED BY <2>1, <3>1 DEF BroadInv, JobsOK, JobOK
  <2>3. plan \in Plans /\ plan # <<>>
    BY <2>2, PlanOf DEF BroadInv, StagedOK
  <2>4. gens \in Seq(GenRecords) /\ gens[g] \in GenRecords
    BY <2>2 DEF BroadInv, StoresOK, GensOK
  <2>5. PICK r : r = [gens[g] EXCEPT !.final = plan, !.staged = <<>>]
    OBVIOUS
  <2>6. /\ r \in GenRecords /\ r.cov = gens[g].cov /\ r.uni = gens[g].uni
        /\ r.prev = gens[g].prev /\ r.final = plan /\ r.staged = <<>>
    <3> HIDE DEF Plans
    <3> QED BY <2>3, <2>4, <2>5 DEF GenRecords
  <2>7. /\ gens' \in Seq(GenRecords) /\ DOMAIN gens' = DOMAIN gens
        /\ gens'[g] = r /\ \A x \in DOMAIN gens : x # g => gens'[x] = gens[x]
    <3>1. gens' = [gens EXCEPT ![g] = r]
      BY <1>3, <2>1, <2>2, <2>4, <2>5
    <3> QED BY <2>2, <2>4, <2>6, <3>1
  <2>8. gens[g].final = <<>>
    BY <1>3, <2>1
  <2>9. Grows
    BY <2>6, <2>7, <2>8
    DEF Grows, FactorsRename, market, BroadInv, StoresOK, MarketOK
  <2>10. FinalGens' = FinalGens \cup {g}
    BY <2>2, <2>3, <2>6, <2>7 DEF FinalGens
  <2>11. GenOK(g)'
    <3>1. GenOK(g)
      BY <2>2 DEF BroadInv, StoresOK, GensOK
    <3>2. StagedOK(g, plan)'
      BY <2>2, <2>9, <3>1, StagedKept
    <3>3. FinalOK(g, plan)'
      BY <2>2, <2>10, <3>2 DEF StagedOK, FinalOK
    <3>4. PICK prior : prior = gens[g].prev
      OBVIOUS
    <3>5. prior \in {0} \cup FinalGens'
      BY <2>9, <3>1, <3>4, FinalsKept DEF GenOK
    <3>6. /\ gens[g].cov \in DOMAIN versions' /\ gens[g].uni \in DOMAIN universes'
          /\ universes'[gens[g].uni].cov = gens[g].cov
      BY <2>9, <3>1 DEF GenOK, Grows
    <3> QED BY <2>6, <2>7, <3>3, <3>4, <3>5, <3>6 DEF GenOK
  <2>12. GensOK'
    <3>1. ASSUME NEW x \in DOMAIN gens PROVE GenOK(x)'
      <4>1. CASE x = g
        BY <2>11, <4>1
      <4>2. CASE x # g
        BY <2>7, <2>9, <4>2, GenKept DEF BroadInv, StoresOK, GensOK
      <4> QED BY <4>1, <4>2
    <3>2. factorPub' \in FinalGens'
      BY <2>9, FinalsKept DEF FactorsRename, BroadInv, StoresOK, GensOK
    <3> QED BY <2>7, <3>1, <3>2 DEF GensOK
  <2>13. StoresOK'
    BY <1>1, <2>9, <2>12, VersionsKept, CacheKept, UniversesKept
    DEF BroadInv, StoresOK, MastersOK, FactorsRename
  <2>14. /\ pc' = [pc EXCEPT ![w] = "point"] /\ pc'[w] = "point"
         /\ "point" \in Steps
    BY <1>3 DEF Go, BroadInv, JobsOK, Steps
  <2>15. arg' = [arg EXCEPT ![w] = arg[w]] /\ arg'[w].gen = g
    BY <1>3, <2>1 DEF BroadInv, JobsOK
  <2>16. JobOK(w)'
    BY <2>10, <2>14, <2>15 DEF JobOK
  <2>17. JobsOK'
    BY <1>1, <2>2, <2>9, <2>14, <2>15, <2>16, JobMoves
  <2> QED BY <2>13, <2>17 DEF BroadInv
<1> QED BY <1>2, <1>3 DEF FactorsRename

\* The pointer moves to a finished generation.
LEMMA FactorsPointInv ==
  ASSUME BroadInv, NEW w \in Jobs, FactorsPoint(w)
  PROVE  BroadInv'
<1>1. MarketOK'
  BY DEF FactorsPoint, BroadInv, StoresOK, MarketOK, market
<1>2. Grows
  BY DEF FactorsPoint, Grows, market, BroadInv, StoresOK, MarketOK
<1>3. factorPub' \in FinalGens'
  <2>1. pc[w] = "point"
    BY DEF FactorsPoint
  <2>2. arg[w].gen \in FinalGens
    BY <2>1 DEF BroadInv, JobsOK, JobOK
  <2> QED BY <1>2, <2>2, FinalsKept DEF FactorsPoint
<1>4. GensOK'
  <2>1. \A g \in DOMAIN gens : GenOK(g)'
    BY <1>2, GenKept DEF FactorsPoint, BroadInv, StoresOK, GensOK
  <2> QED BY <1>3, <2>1 DEF GensOK, FactorsPoint, BroadInv, StoresOK
<1>5. StoresOK'
  BY <1>1, <1>2, <1>4, VersionsKept, CacheKept, UniversesKept
  DEF BroadInv, StoresOK, MastersOK, FactorsPoint
<1>6. JobsOK'
  <2>1. "factors" \in Stages /\ 0 \in Nat /\ "factors" # "master"
        /\ "factors" # "coverage"
    BY DEF Stages
  <2> QED BY <1>1, <1>2, <2>1, AdvanceMoves DEF FactorsPoint
<1> QED BY <1>5, <1>6 DEF BroadInv

-----------------------------------------------------------------------------
(* The inductive invariant holds *)

\* The first full build is sound.
LEMMA InitInv ==
  ASSUME Init PROVE BroadInv
<1> USE DEF Init, CoverageInit
<1>1. PICK zero, one : zero = 0 /\ one = 1 /\ zero \in Nat /\ one \in Nat
  OBVIOUS
<1>2. FirstDay \in Days /\ FirstDay \in Nat
  BY Bounds DEF Days
<1>3. MarketOK
  <2>1. budget.revisions = MaxRevisions
    OBVIOUS
  <2>2. budget \in [revisions : Nat, trouble : Nat, jobs : Nat]
    BY BroadAssumption
  <2> QED BY <1>2, <2>1, <2>2, Bounds, BroadAssumption DEF MarketOK
<1>4. MastersOK /\ DOMAIN masters = {1} /\ masters[1].ids = FirstListed
  BY <1>2, BroadAssumption DEF MastersOK
<1> DEFINE rows == [s \in Sec |-> [d \in Days |->
                      IF s \in FirstListed /\ d <= FirstDay THEN 0 ELSE NoRow]]
<1>5. PICK v : v = versions[1]
  OBVIOUS
<1>6. /\ v.target = FirstDay /\ v.master = one /\ v.parent = zero
      /\ v.from = one /\ v.rows = rows /\ v.isolated = {} /\ v.repaired = {}
      /\ v.canonical = {} /\ versions = <<v>> /\ DOMAIN versions = {1}
      /\ v = [target |-> FirstDay, master |-> one, parent |-> zero,
              from |-> one, rows |-> rows, isolated |-> {}, repaired |-> {},
              canonical |-> {}]
  <2> DEFINE first == [NoVersion EXCEPT !.target = FirstDay, !.master = 1,
                                        !.from = 1, !.rows = rows]
  <2>1. versions = <<first>>
    OBVIOUS
  <2> HIDE DEF Init, CoverageInit, rows
  <2>2. NoVersion = [target |-> zero, master |-> zero, parent |-> zero,
                     from |-> zero, rows |-> <<>>, isolated |-> {},
                     repaired |-> {}, canonical |-> {}]
    BY <1>1 DEF NoVersion
  <2>3. first = [target |-> FirstDay, master |-> one, parent |-> zero,
                 from |-> one, rows |-> rows, isolated |-> {},
                 repaired |-> {}, canonical |-> {}]
    <3>1. PICK n : n = NoVersion
      OBVIOUS
    <3>2. PICK a : a = [n EXCEPT !.target = FirstDay]
      OBVIOUS
    <3>3. a = [target |-> FirstDay, master |-> zero, parent |-> zero,
               from |-> zero, rows |-> <<>>, isolated |-> {},
               repaired |-> {}, canonical |-> {}]
      BY <2>2, <3>1, <3>2
    <3>4. PICK c : c = [a EXCEPT !.master = 1]
      OBVIOUS
    <3>5. c = [target |-> FirstDay, master |-> one, parent |-> zero,
               from |-> zero, rows |-> <<>>, isolated |-> {},
               repaired |-> {}, canonical |-> {}]
      BY <1>1, <3>3, <3>4
    <3>6. PICK e : e = [c EXCEPT !.from = 1]
      OBVIOUS
    <3>7. e = [target |-> FirstDay, master |-> one, parent |-> zero,
               from |-> one, rows |-> <<>>, isolated |-> {},
               repaired |-> {}, canonical |-> {}]
      BY <1>1, <3>5, <3>6
    <3>8. first = [e EXCEPT !.rows = rows]
      BY <3>1, <3>2, <3>4, <3>6
    <3> HIDE DEF first
    <3> QED BY <3>7, <3>8
  <2> HIDE DEF first
  <2>4. v = first /\ DOMAIN versions = {1}
    BY <1>5, <2>1
  <2> QED BY <2>1, <2>3, <2>4
<1>7. rows \in Rows
  BY Bounds DEF Rows, Bases
<1>8. Sound(v)
  <2>1. \A s \in Sec, d \in Days :
          v.rows[s][d] # NoRow <=> d <= FirstDay /\ s \in FirstListed
    BY <1>6 DEF NoRow
  <2>2. \A s \in Sec : \A d \in 1..FirstDay, e \in 1..FirstDay :
          v.rows[s][d] <= v.rows[s][e]
    <3>1. \A d \in 1..FirstDay : d \in Days /\ d <= FirstDay
      BY Bounds DEF Days
    <3>2. \A s \in Sec : \A d \in 1..FirstDay :
            v.rows[s][d] = IF s \in FirstListed THEN 0 ELSE NoRow
      BY <1>6, <3>1
    <3> QED BY <3>2 DEF NoRow
  <2>3. \A s \in Sec, d \in Days : v.rows[s][d] <= vendor[s]
    BY <1>6 DEF NoRow
  <2>4. SoundRows(v)
    BY <1>1, <1>4, <1>6, <2>1, <2>2, <2>3 DEF SoundRows
  <2> QED BY <1>1, <1>2, <1>4, <1>6, <2>4 DEF Sound
<1>9. v \in VersionRecords
  <2> HIDE DEF Rows, rows
  <2> QED BY <1>1, <1>2, <1>6, <1>7 DEF VersionRecords
<1>10. VersionsOK
  <2>1. versions \in Seq(VersionRecords) /\ versions # <<>>
    <3> HIDE DEF Init, CoverageInit
    <3> QED BY <1>6, <1>9
  <2>2. Decided(1)
    <3>1. \A d \in 1..FirstDay : d \in Days /\ d <= FirstDay
      BY Bounds DEF Days
    <3>2. \A s \in Sec : Same(v, s, FirstDay)
      BY <1>6, <3>1 DEF Same
    <3> QED BY ZenonT(60), <1>5, <1>6, <3>2 DEF Decided
  <2> HIDE DEF Init, CoverageInit, rows
  <2>3. \A x \in DOMAIN versions : x = 1 /\ ~(x > 1) /\ versions[x] = v
    BY <1>5, <1>6
  <2> QED BY <1>8, <2>1, <2>2, <2>3 DEF VersionsOK
<1>11. CacheOK
  <2>1. cache = <<>>
    OBVIOUS
  <2> HIDE DEF Init, CoverageInit
  <2>2. DOMAIN cache = {}
    BY <2>1
  <2> QED BY <2>2 DEF CacheOK
<1>12. UniversesOK
  <2>1. PICK u : u = universes[1]
    OBVIOUS
  <2>2. PICK members : members = [m \in Ended(FirstDay) |-> FirstListed]
    OBVIOUS
  <2>3. /\ u.cov = one /\ u.master = one /\ u.target = FirstDay
        /\ u.members = members /\ universes = <<u>> /\ DOMAIN universes = {1}
        /\ u = [cov |-> one, master |-> one, target |-> FirstDay,
                members |-> members]
    BY <1>1, <2>1, <2>2
  <2>4. members \in [Ended(FirstDay) -> SUBSET Sec]
    BY <2>2, BroadAssumption
  <2>5. ASSUME NEW m \in Ended(FirstDay)
        PROVE  members[m] \subseteq Eligible(1, m)
    <3>1. m \in Nat /\ 1 <= m /\ MonthEnd(m) = 2 * m - 1
          /\ MonthEnd(m) <= FirstDay
      BY <1>2 DEF Ended, Months, Month, MonthEnd
    <3>2. PICK d : d = MonthEnd(m)
      OBVIOUS
    <3>3. d \in Days /\ Month(d) = m /\ d <= FirstDay
      BY <3>1, <3>2, Bounds DEF Days, Month
    <3>4. ASSUME NEW s \in FirstListed
          PROVE  s \in Sec /\ versions[1].rows[s][d] # NoRow
      <4>1. s \in Sec
        BY BroadAssumption
      <4>2. rows[s][d] = 0
        BY <3>3, <4>1
      <4>3. 0 # NoRow
        BY DEF NoRow
      <4> HIDE DEF Init, CoverageInit, rows
      <4> QED BY <1>5, <1>6, <4>1, <4>2, <4>3
    <3> HIDE DEF rows
    <3>5. members[m] = FirstListed
      BY <2>2
    <3> HIDE DEF Init, CoverageInit
    <3> QED BY <3>3, <3>4, <3>5 DEF Eligible
  <2>6. members \in Members
    BY <1>2, <2>4 DEF Members
  <2>7. u \in UniverseRecords
    <3> HIDE DEF Members
    <3> QED BY <1>1, <1>2, <2>3, <2>6 DEF UniverseRecords
  <2>8. UniverseOK(u)
    BY <1>1, <1>5, <1>6, <2>3, <2>4, <2>5, <2>7 DEF UniverseOK
  <2> HIDE DEF Init, CoverageInit
  <2> QED BY <2>3, <2>7, <2>8 DEF UniversesOK
<1>13. GensOK
  <2>1. PICK g : g = gens[1]
    OBVIOUS
  <2>2. PICK plan : plan = [m \in Periods(FirstDay) |->
                              [end |-> End(m, FirstDay), cov |-> one,
                               uni |-> one, src |-> one]]
    OBVIOUS
  <2>3. /\ g.cov = one /\ g.uni = one /\ g.prev = zero /\ g.staged = <<>>
        /\ g.final = plan /\ gens = <<g>> /\ DOMAIN gens = {1}
        /\ g = [cov |-> one, uni |-> one, prev |-> zero, staged |-> <<>>,
                final |-> plan]
    BY <1>1, <2>1, <2>2
  <2>4. /\ Periods(FirstDay) # {}
        /\ \A m \in Periods(FirstDay) : End(m, FirstDay) \in Nat
    BY <1>2, MonthsUpTo, Bounds
  <2>5. plan \in [Periods(FirstDay) -> Parts] /\ plan \in Plans
    <3>1. plan \in [Periods(FirstDay) -> Parts]
      <4> HIDE DEF Init, CoverageInit
      <4> QED BY <1>1, <2>2, <2>4 DEF Parts
    <3> QED BY <1>2, <3>1 DEF Plans
  <2>6. plan # <<>>
    <3>1. DOMAIN plan # {} /\ DOMAIN <<>> = {}
      BY <2>2, <2>4
    <3> QED BY <3>1
  <2>7. Target(1) = FirstDay
    BY <1>1, <1>5, <1>6, <2>1, <2>3 DEF Target
  <2>8. FinalGens = {1}
    BY <2>1, <2>3, <2>6 DEF FinalGens
  <2>9. FinalOK(1, plan)
    BY <1>1, <1>6, <2>1, <2>2, <2>3, <2>5, <2>7, <2>8 DEF FinalOK, PartOK
  <2>10. GenOK(1)
    BY <1>1, <1>6, <2>1, <2>3, <2>9 DEF GenOK
  <2>11. g \in GenRecords
    <3> HIDE DEF Plans
    <3> QED BY <1>1, <2>3, <2>5 DEF GenRecords
  <2>12. gens \in Seq(GenRecords)
    <3> HIDE DEF Init, CoverageInit
    <3> QED BY <2>3, <2>11
  <2> QED BY <2>3, <2>8, <2>10, <2>12 DEF GensOK
<1>14. JobsOK
  <2>1. pc \in [Jobs -> Steps] /\ arg \in [Jobs -> ArgRecords]
    BY FreshOK DEF Steps
  <2>2. \A w \in Jobs : JobOK(w)
    BY DEF JobOK
  <2> QED BY <2>1, <2>2 DEF JobsOK
<1> QED BY <1>3, <1>4, <1>10, <1>11, <1>12, <1>13, <1>14 DEF BroadInv, StoresOK

\* A step of a job keeps the invariant.
LEMMA StepInv ==
  ASSUME BroadInv, NEW w \in Jobs, Step(w)
  PROVE  BroadInv'
<1>1. CASE CoverageStep(w)
  BY <1>1, MasterBeginInv, MasterPublishInv, CoverageBeginInv, FetchInv,
     AssessInv, RejectInv, RegisterInv DEF CoverageStep
<1>2. CASE DerivedStep(w)
  BY <1>2, UniverseBeginInv, UniversePublishInv, FactorsBeginInv,
     LockFactorsInv, ComputeMonthInv, FactorsRenameInv, FactorsPointInv
  DEF DerivedStep
<1> QED BY <1>1, <1>2 DEF Step

\* So does the world around them.
LEMMA WorldInv ==
  ASSUME BroadInv, World
  PROVE  BroadInv'
<1>1. UNCHANGED <<universes, factorVars>>
  BY DEF World
<1>2. CASE NewDay
  BY <1>1, <1>2, NewDayInv
<1>3. ASSUME NEW s \in Sec, Rescale(s) \/ List(s) PROVE BroadInv'
  BY <1>1, <1>3, RescaleInv, ListInv
<1>4. ASSUME NEW stage \in DOMAIN Follows, NEW t \in FirstDay..day,
             NEW force \in BOOLEAN, NEW restore \in SUBSET Sec,
             StartByHand(stage, t, force, restore)
      PROVE  BroadInv'
  <2>1. stage \in Stages
    BY DEF Follows, Stages
  <2>2. t \in Days
    BY Bounds DEF Days, BroadInv, StoresOK, MarketOK
  <2> QED BY <1>1, <1>4, <2>1, <2>2, StartByHandInv
<1>5. ASSUME NEW w \in Jobs, Trouble(w) PROVE BroadInv'
  BY <1>1, <1>5, TroubleInv
<1> QED BY <1>2, <1>3, <1>4, <1>5 DEF World

\* A step that changes nothing keeps it too.
LEMMA StutterInv ==
  ASSUME BroadInv, UNCHANGED vars
  PROVE  BroadInv'
<1>1. UNCHANGED <<market, budget, stores>> /\ UNCHANGED <<pc, arg>>
  BY DEF vars, coverageVars, stores, factorVars, job
<1>2. MarketOK' /\ Grows /\ StoresOK'
  BY <1>1, OnlyJobsMove DEF BroadInv
<1> QED BY <1>1, <1>2, JobsStay DEF BroadInv

\* What the pipeline has stored is what it was checked for, at every moment.
THEOREM BroadInvariant == Spec => []BroadInv
<1>1. Init => BroadInv
  BY InitInv
<1>2. BroadInv /\ [Next]_vars => BroadInv'
  <2> SUFFICES ASSUME BroadInv, [Next]_vars PROVE BroadInv'
    OBVIOUS
  <2>1. CASE World
    BY <2>1, WorldInv
  <2>2. CASE Timer
    BY <2>2, TimerInv
  <2>3. ASSUME NEW w \in Jobs, Step(w) PROVE BroadInv'
    BY <2>3, StepInv
  <2>4. CASE UNCHANGED vars
    BY <2>4, StutterInv
  <2> QED BY <2>1, <2>2, <2>3, <2>4 DEF Next
<1> QED BY <1>1, <1>2, PTL DEF Spec

-----------------------------------------------------------------------------
(* What follows from it *)

\* Types of everything the pipeline keeps.
LEMMA TypingHolds ==
  ASSUME BroadInv PROVE BroadTypeOK
<1> USE DEF BroadInv, StoresOK
<1>1. vendor \in [Sec -> Bases]
  <2>1. ASSUME NEW s \in Sec PROVE vendor[s] \in Bases
    BY Bounds DEF MarketOK, Bases
  <2> QED BY <2>1 DEF MarketOK
<1>2. ASSUME NEW b \in DOMAIN cache, NEW i \in DOMAIN cache[b]
      PROVE  cache[b][i] \in [Sec -> Bases]
  <2>1. cache[b] \in Seq([Sec -> Nat])
    BY DEF CacheOK
  <2>2. cache[b][i] \in [Sec -> Nat]
    BY <2>1
  <2>3. \A s \in Sec : cache[b][i][s] <= vendor[s] /\ vendor[s] \in Bases
    BY <1>1 DEF CacheOK
  <2> QED BY <2>2, <2>3, Bounds DEF Bases
<1>3. ASSUME NEW v \in DOMAIN versions
      PROVE  /\ versions[v].target \in Days
             /\ versions[v].master \in DOMAIN masters
             /\ versions[v].rows \in [Sec -> [Days -> Bases \cup {NoRow}]]
             /\ {versions[v].isolated, versions[v].repaired,
                 versions[v].canonical} \subseteq SUBSET Sec
  <2>1. versions[v] \in VersionRecords /\ Sound(versions[v])
    BY DEF VersionsOK
  <2> QED BY <2>1 DEF VersionRecords, Sound, Rows
<1>4. ASSUME NEW u \in DOMAIN universes
      PROVE  /\ universes[u].cov \in DOMAIN versions
             /\ universes[u].target = versions[universes[u].cov].target
             /\ universes[u].members
                  \in [Ended(universes[u].target) -> SUBSET Sec]
  BY DEF UniversesOK, UniverseOK
<1>5. ASSUME NEW g \in DOMAIN gens
      PROVE  /\ gens[g].cov \in DOMAIN versions
             /\ gens[g].uni \in DOMAIN universes
             /\ gens[g].prev \in 0..Len(gens)
             /\ gens[g].final # <<>> =>
                  DOMAIN gens[g].final = Periods(Target(g))
  <2>1. GenOK(g) /\ DOMAIN gens = 1..Len(gens) /\ Len(gens) \in Nat
    BY DEF GensOK
  <2> QED BY <2>1 DEF GenOK, FinalOK, FinalGens
<1>6. day \in Days /\ listed \subseteq Sec
  BY DEF MarketOK
<1>7. factorPub \in DOMAIN gens
  BY DEF GensOK, FinalGens
<1>8. DOMAIN pc = Jobs /\ DOMAIN arg = Jobs
  BY DEF JobsOK
<1> QED BY <1>1, <1>2, <1>3, <1>4, <1>5, <1>6, <1>7, <1>8 DEF BroadTypeOK

\* The published versions are one line of parents.
LEMMA LineHolds ==
  ASSUME BroadInv PROVE ChainIsLinear
<1> SUFFICES ASSUME NEW v \in DOMAIN versions \ {1}
             PROVE  /\ versions[v].parent = v - 1
                    /\ versions[v - 1].target <= versions[v].target
  BY DEF ChainIsLinear
<1>1. v > 1
  BY DEF BroadInv, StoresOK, VersionsOK
<1> QED BY <1>1 DEF BroadInv, StoresOK, VersionsOK, ExtendsVersion

\* Isolated securities have no bars, and leave isolation repaired.
LEMMA IsolationHolds ==
  ASSUME BroadInv PROVE IsolationIsSticky
<1> SUFFICES ASSUME NEW v \in DOMAIN versions
             PROVE  /\ \A s \in versions[v].isolated : \A d \in Days :
                         versions[v].rows[s][d] = NoRow
                    /\ v > 1 => versions[v - 1].isolated \ versions[v].isolated
                                  \subseteq versions[v].repaired
  BY DEF IsolationIsSticky
<1>1. versions[v] \in VersionRecords /\ Sound(versions[v])
  BY DEF BroadInv, StoresOK, VersionsOK
<1>2. \A s \in versions[v].isolated : s \in Sec
  BY <1>1 DEF VersionRecords
<1>3. \A s \in versions[v].isolated : \A d \in Days :
        versions[v].rows[s][d] = NoRow
  BY <1>1, <1>2 DEF Sound, SoundRows
<1>4. v > 1 => ExtendsVersion(versions[v], versions[v - 1])
  BY DEF BroadInv, StoresOK, VersionsOK
<1> QED BY <1>3, <1>4 DEF ExtendsVersion

\* A uniform window decides the basis of the whole history: the rows before
\* the parent's target are on one basis already, and the window holds that
\* session and everything after it.
LEMMA WindowHolds ==
  ASSUME BroadInv PROVE WindowDecides
<1> SUFFICES ASSUME NEW v \in DOMAIN versions, NEW s \in Sec, Chained(v, s),
                    OneBasis(v, s, versions[v].from..versions[v].target)
             PROVE  OneBasis(v, s, Days)
  BY DEF WindowDecides, Chained
<1>1. VersionsOK /\ Decided(v)
  BY DEF BroadInv, StoresOK, VersionsOK
<1>2. PICK c : c = versions[v]
  OBVIOUS
<1>3. c \in VersionRecords /\ Sound(c)
  BY <1>1, <1>2 DEF VersionsOK
<1>4. PICK r : r = c.rows[s]
  OBVIOUS
<1>5. \A d \in Days : r[d] \in Bases \cup {NoRow}
  BY <1>3, <1>4 DEF VersionRecords, Rows
<1>6. /\ c.target \in Nat /\ 1 <= c.target /\ c.target <= MaxDay
      /\ \A d \in Days : r[d] # NoRow => d \in 1..c.target
  BY <1>3, <1>4, Bounds DEF Sound, SoundRows, Days
<1>7. \A d \in 1..c.target : d \in Days
  BY <1>6, Bounds DEF Days
<1>8. PICK last : last = IF v = 1 THEN c.target ELSE versions[v - 1].target
  OBVIOUS
<1>9. Same(c, s, last)
  BY <1>1, <1>2, <1>8 DEF Decided
<1>10. /\ last \in Nat /\ 1 <= last /\ last <= c.target
       /\ v # 1 => c.from \in Nat /\ 1 <= c.from /\ c.from <= last
  <2>1. CASE v = 1
    BY <1>6, <1>8, <2>1
  <2>2. CASE v # 1
    <3>1. v > 1 /\ v - 1 \in DOMAIN versions
      BY <1>1, <2>2 DEF VersionsOK
    <3>2. PICK p : p = versions[v - 1]
      OBVIOUS
    <3>3. p \in VersionRecords /\ Sound(p) /\ ExtendsVersion(c, p)
      BY <1>1, <1>2, <3>1, <3>2 DEF VersionsOK
    <3>4. last = p.target
      BY <1>8, <2>2, <3>2
    <3>5. p.target \in Nat /\ 1 <= p.target
      BY <3>3, Bounds DEF Sound, Days
    <3> QED BY <3>3, <3>4, <3>5, Bounds DEF ExtendsVersion, WindowStart
  <2> QED BY <2>1, <2>2
<1>11. \A d \in 1..last : r[d] = r[last]
  BY <1>4, <1>9, <1>10 DEF Same
<1>12. ASSUME NEW d \in Days, r[d] # NoRow PROVE r[d] = r[last]
  <2>1. d \in 1..c.target
    BY <1>6, <1>12
  <2>2. CASE d <= last
    <3>1. d \in 1..last
      BY <1>10, <2>1, <2>2
    <3> QED BY <1>11, <3>1
  <2>3. CASE d > last
    <3>1. v # 1
      <4>1. d \in Nat /\ d <= c.target
        BY <1>6, <2>1
      <4>2. ~(c.target < d)
        BY <1>6, <4>1
      <4>3. v = 1 => last = c.target
        BY <1>8
      <4>4. last < d
        BY <1>10, <2>3, <4>1
      <4> QED BY <4>2, <4>3, <4>4
    <3> DEFINE window == c.from..c.target
    <3>3. \A e \in window : r[e] \in Bases \cup {NoRow}
      BY <1>5, <1>7, <1>10, <3>1
    <3>4. d \in window /\ last \in window /\ last \in Days
      BY <1>7, <1>10, <2>1, <2>3, <3>1
    <3>5. Uniform(r, window)
      BY <1>2, <1>4 DEF OneBasis
    <3>6. r[last] # NoRow
      <4>1. r[d] # NoRow /\ d \in 1..c.target /\ last \in 1..c.target
        BY <1>10, <1>12, <2>1
      <4> QED BY <1>3, <1>4, <4>1, AllOrNone
    <3> HIDE DEF window
    <3> QED BY <1>12, <3>3, <3>4, <3>5, <3>6, UniformMeans
  <2> QED BY <1>10, <2>1, <2>2, <2>3
<1>13. Uniform(r, Days)
  BY <1>5, <1>12, UniformMeans
<1> QED BY <1>2, <1>4, <1>13 DEF OneBasis

\* The published months are what their own generation would compute.
LEMMA FactorsHold ==
  ASSUME BroadInv PROVE FactorsExact
<1>1. factorPub \in FinalGens /\ GenOK(factorPub)
  BY DEF BroadInv, StoresOK, GensOK, FinalGens
<1>2. FinalOK(factorPub, gens[factorPub].final)
  BY <1>1 DEF GenOK, FinalGens
<1> QED BY <1>2 DEF FactorsExact, FinalOK, PartOK

\* The published generation, its universe and their coverage belong together.
LEMMA ChainHolds ==
  ASSUME BroadInv PROVE OneChainOfInputs
<1>1. factorPub \in FinalGens /\ GenOK(factorPub) /\ UniversesOK
  BY DEF BroadInv, StoresOK, GensOK, FinalGens
<1>2. PICK u : u = universes[gens[factorPub].uni]
  OBVIOUS
<1>3. UniverseOK(u) /\ u.cov = gens[factorPub].cov
  BY <1>1, <1>2 DEF GenOK, UniversesOK
<1> QED BY <1>2, <1>3 DEF OneChainOfInputs, UniverseOK

\* Everything the pipeline keeps has its type at every moment.
THEOREM BroadTyping == Spec => []BroadTypeOK
<1>1. BroadInv => BroadTypeOK
  BY TypingHolds
<1> QED BY <1>1, BroadInvariant, PTL

\* Two writers that started from one parent never both publish: the coverage
\* versions are one line, and sessions do not go back.
THEOREM ChainIsOneLine == Spec => []ChainIsLinear
<1>1. BroadInv => ChainIsLinear
  BY LineHolds
<1> QED BY <1>1, BroadInvariant, PTL

\* An isolated security has no bars and leaves isolation only by a
\* replacement of its whole history.
THEOREM IsolationSticks == Spec => []IsolationIsSticky
<1>1. BroadInv => IsolationIsSticky
  BY IsolationHolds
<1> QED BY <1>1, BroadInvariant, PTL

\* A refreshed window on one basis decides that the whole published history
\* is on one basis, however many versions and runs it came from.
THEOREM WindowIsDecisive == Spec => []WindowDecides
<1>1. BroadInv => WindowDecides
  BY WindowHolds
<1> QED BY <1>1, BroadInvariant, PTL

\* Every published month of factors equals what the publication's own inputs
\* give, through every reuse, resumption and kill.
THEOREM FactorsAreExact == Spec => []FactorsExact
<1>1. BroadInv => FactorsExact
  BY FactorsHold
<1> QED BY <1>1, BroadInvariant, PTL

\* The published factors name one consistent chain of inputs.
THEOREM OneChain == Spec => []OneChainOfInputs
<1>1. BroadInv => OneChainOfInputs
  BY ChainHolds
<1> QED BY <1>1, BroadInvariant, PTL

-----------------------------------------------------------------------------
(* The factor data is an immutable publication *)

\* What a finished generation takes over is finished.
SourcesFinished == \A g \in FinalGens : Sources(gens[g].final) \subseteq FinalGens

\* No finished generation is touched.
FinalsStay ==
  \A g \in DOMAIN gens :
    g \in DOMAIN gens' /\ (gens[g].final # <<>> => gens'[g].final = gens[g].final)

\* The invariant keeps the sources of every partition.
LEMMA SourcesHold ==
  ASSUME BroadInv PROVE SourcesFinished
<1> SUFFICES ASSUME NEW g \in FinalGens, NEW m \in DOMAIN gens[g].final
             PROVE  gens[g].final[m].src \in FinalGens
  BY DEF SourcesFinished, Sources
<1>1. GenOK(g) /\ gens[g].final # <<>>
  BY DEF BroadInv, StoresOK, GensOK, FinalGens
<1> QED BY <1>1 DEF GenOK, FinalOK

\* A step leaves the generations alone, or the pointer and what is finished.
LEMMA GensMove ==
  ASSUME BroadInv, [Next]_vars
  PROVE  UNCHANGED gens \/ (FinalsStay /\ UNCHANGED factorPub)
<1> USE DEF FinalsStay
<1>0. gens \in Seq(GenRecords)
  BY DEF BroadInv, StoresOK, GensOK
<1>1. CASE World
  BY <1>1 DEF World, factorVars
<1>2. CASE Timer
  BY <1>2 DEF Timer, factorVars
<1>3. CASE UNCHANGED vars
  BY <1>3 DEF vars
<1>4. ASSUME NEW w \in Jobs, Step(w)
      PROVE  UNCHANGED gens \/ (FinalsStay /\ UNCHANGED factorPub)
  <2>1. CASE CoverageStep(w)
    BY <2>1 DEF CoverageStep, factorVars
  <2>2. CASE UniverseBegin(w)
    BY <2>2 DEF UniverseBegin, factorVars
  <2>3. CASE UniversePublish(w)
    BY <2>3 DEF UniversePublish, factorVars
  <2>4. CASE FactorsBegin(w)
    <3>1. UNCHANGED factorPub
      BY <2>4 DEF FactorsBegin
    <3>2. \/ UNCHANGED gens
          \/ \E prev : StartNew(w, prev)
      BY <2>4, Zenon DEF FactorsBegin, Resume
    <3>3. ASSUME NEW prev, StartNew(w, prev) PROVE FinalsStay
      <4>1. PICK new : gens' = Append(gens, new)
        BY <3>3 DEF StartNew
      <4> QED BY <1>0, <4>1
    <3> QED BY <3>1, <3>2, <3>3
  <2>5. CASE LockFactors(w)
    BY <2>5 DEF LockFactors, factorVars
  <2>6. CASE ComputeMonth(w)
    <3>1. UNCHANGED factorPub
      BY <2>6 DEF ComputeMonth
    <3>2. PICK g, staged : gens' = [gens EXCEPT ![g].staged = staged]
      BY <2>6 DEF ComputeMonth
    <3>3. \A x \in DOMAIN gens : gens'[x].final = gens[x].final
      <4>1. \A x \in DOMAIN gens : gens[x] \in GenRecords
        BY <1>0
      <4> QED BY <3>2, <4>1 DEF GenRecords
    <3> QED BY <3>1, <3>2, <3>3
  <2>7. CASE FactorsRename(w)
    <3>1. UNCHANGED factorPub
      BY <2>7 DEF FactorsRename
    <3>2. PICK g : g = arg[w].gen
      OBVIOUS
    <3>3. \/ UNCHANGED gens
          \/ /\ gens[g].final = <<>>
             /\ gens' = [gens EXCEPT ![g].final = arg[w].done,
                                     ![g].staged = <<>>]
      BY <2>7, <3>2 DEF FactorsRename
    <3> QED BY <3>1, <3>3
  <2>8. CASE FactorsPoint(w)
    BY <2>8 DEF FactorsPoint
  <2> QED BY <1>4, <2>1, <2>2, <2>3, <2>4, <2>5, <2>6, <2>7, <2>8
          DEF Step, DerivedStep
<1> QED BY <1>1, <1>2, <1>3, <1>4 DEF Next

\* The factor data implements the immutable publication: finished generations
\* never change, what they take over is finished, and the pointer names a
\* finished one at every moment, through kills, resumptions and two writers.
THEOREM FactorsArePublished == Spec => FactorsArePublications
<1>1. BroadInv => SourcesFinished
  BY SourcesHold
<1>2. BroadInv /\ SourcesFinished => Publication!Init
  BY DEF Publication!Init, Publication!Closed, SourcesFinished, BroadInv,
         StoresOK, GensOK
<1>3. ASSUME BroadInv, BroadInv', SourcesFinished', [Next]_vars
      PROVE  [Publication!Finish \/ Publication!Point]_
                <<[g \in FinalGens |-> gens[g].final], factorPub>>
  <2>1. CASE UNCHANGED gens
    <3>1. FinalGens' = FinalGens
      BY <2>1 DEF FinalGens
    <3>2. factorPub' \in FinalGens
      BY <1>3, <3>1 DEF BroadInv, StoresOK, GensOK
    <3> QED BY <2>1, <3>1, <3>2 DEF Publication!Point
  <2>2. CASE FinalsStay /\ UNCHANGED factorPub
    <3>1. \A g \in FinalGens : g \in FinalGens' /\ gens'[g].final = gens[g].final
      BY <2>2 DEF FinalsStay, FinalGens
    <3>2. Publication!Closed'
      BY <1>3 DEF Publication!Closed, SourcesFinished
    <3> QED BY <2>2, <3>1, <3>2 DEF Publication!Finish
  <2> QED BY <1>3, <2>1, <2>2, GensMove
<1>4. Spec => []BroadInv
  BY BroadInvariant
<1> QED BY <1>1, <1>2, <1>3, <1>4, PTL
        DEF Spec, FactorsArePublications, Publication!Spec
=============================================================================
