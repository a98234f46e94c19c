---------------------------- MODULE BroadPipeline ----------------------------
(***************************************************************************)
(* The whole broad US pipeline: the coverage stages of BroadCoverage, then *)
(* the point-in-time universe US_LIQUID_5M                                 *)
(* (scripts/build_us_liquid_pit.py, data/universe_publication.py) and the  *)
(* factor data (scripts/run_broad_factor_data.py,                          *)
(* factors/data_publication.py).                                           *)
(*                                                                         *)
(* A factor generation is built month by month in a staging directory with *)
(* a checkpoint; the nightly job replaces itself by a new process after    *)
(* each month it computes.  A finished generation is renamed into place    *)
(* and only then named by the publication pointer.                         *)
(***************************************************************************)
EXTENDS BroadCoverage, FiniteSetsExt

VARIABLES
  universes,  \* published universes, the last is named by the pointer
  gens,       \* factor generations: inputs, staged and final partitions
  factorPub   \* the generation the factor pointer names

factorVars == <<gens, factorPub>>
vars == <<coverageVars, universes, gens, factorPub>>

Universe == Len(universes)

-----------------------------------------------------------------------------
(* Universe *)

MonthEnd(m) == 2 * m - 1
Ended(t)    == {m \in Months(t) : MonthEnd(m) <= t}

\* The securities the bars of a month make members at its last session.
Eligible(c, m) ==
  {s \in Sec : \E d \in Days :
     Month(d) = m /\ versions[c].rows[s][d] # NoRow}

\* build_liquid_5m_candidate, or roll_forward_liquid_5m_candidate, which
\* keeps the snapshots older than the window.
Snapshots(c, u, incremental) ==
  [m \in Ended(versions[c].target) |->
     IF incremental /\ MonthEnd(m) < universes[u].target - Overlap
     THEN universes[u].members[m] ELSE Eligible(c, m)]

\* _incremental_inputs_match and the choice of run().
Incremental(c, u, full) ==
  /\ ~full
  /\ universes[u].target < versions[c].target
  /\ universes[u].master = Master
  /\ versions[c].repaired = {} /\ versions[c].isolated = {}

\* The unit names the coverage version, a person takes the published one.
Coverage(w) == IF w = "service" THEN arg[w].cover ELSE Latest

UniverseFor(c, full) ==
  [cov |-> c, master |-> Master, target |-> versions[c].target,
   members |-> Snapshots(c, Universe, Incremental(c, Universe, full))]

\* Mutant of UniverseBegin: the coverage need not belong to the master.
UniverseBeginUnbound(w) ==
  /\ pc[w] = "universe"
  /\ LET c == Coverage(w)
         same == universes[Universe].target = versions[c].target /\ ~arg[w].force
     IN \/ same /\ Advance(w, "universe", 0)
        \/ /\ ~same
           /\ Go(w, "publishUniverse")
           /\ arg' = [arg EXCEPT ![w].cand = UniverseFor(c, arg[w].force)]
  /\ UNCHANGED <<market, masters, versions, cache, budget, universes,
                 factorVars>>

\* run(): the same session is built again only on request, and never with an
\* isolated member.
UniverseBegin(w) ==
  /\ pc[w] = "universe"
  /\ LET c == Coverage(w)
         u == universes[Universe]
         new == UniverseFor(c, arg[w].force)
         same == u.target = versions[c].target /\ ~arg[w].force
         mismatch == u.cov # c \/ u.master # Master
         refused ==
           \/ versions[c].master # Master
           \/ same /\ mismatch
           \/ /\ ~same
              /\ \E m \in DOMAIN new.members :
                   new.members[m] \cap versions[c].isolated # {}
     IN \/ refused /\ Fail(w)
        \/ ~refused /\ same /\ Advance(w, "universe", 0)
        \/ /\ ~refused /\ ~same
           /\ Go(w, "publishUniverse")
           /\ arg' = [arg EXCEPT ![w].cand = new]
  /\ UNCHANGED <<market, masters, versions, cache, budget, universes,
                 factorVars>>

\* One transaction registers the universe and moves the pointer; what it
\* named before is not compared.
UniversePublish(w) ==
  /\ pc[w] = "publishUniverse"
  /\ universes' = Append(universes, arg[w].cand)
  /\ Advance(w, "universe", 0)
  /\ UNCHANGED <<market, masters, versions, cache, budget, factorVars>>

-----------------------------------------------------------------------------
(* What one month of factors is computed from *)

\* Research starts after the first snapshot.
Periods(t)  == Months(t) \ {1}
End(m, t)   == Min({MonthEnd(m), t})
Missing     == [end |-> 0, cov |-> 0, uni |-> 0, src |-> 0]

\* Mutant of NoParts: only the last month is wanted.
NoPartsOfLastMonth(t) == [m \in {Month(t)} |-> Missing]

\* The month by month plan of a generation that has nothing yet.
NoParts(t) == [m \in Periods(t) |-> Missing]

Bar(c, s, d) == versions[c].rows[s][d]
Snapshot(u, m) ==
  IF m \in DOMAIN universes[u].members THEN universes[u].members[m] ELSE {}

\* compute_month: the bars of the members from one session before the month
\* to its end, and the memberships in force.
Reads(c, u, m, end) ==
  LET members == Snapshot(u, m - 1) \cup Snapshot(u, m)
  IN [members |-> <<Snapshot(u, m - 1), Snapshot(u, m)>>,
      bars |-> [s \in members |->
                  [d \in MonthEnd(m - 1)..end |-> Bar(c, s, d)]]]

\* factor_input_fingerprint: the whole monthly partitions that the month or
\* its warm-up reaches into, and the same memberships.
Fingerprint(c, u, m) ==
  [members |-> <<Snapshot(u, m - 1), Snapshot(u, m)>>,
   parts |-> [s \in Sec |-> [d \in {x \in Days : Month(x) \in {m - 1, m}} |->
                               Bar(c, s, d)]]]

Target(g) == versions[gens[g].cov].target

\* Mutant of Reusable: the dates of the month are enough.
ReusableByDate(p, g, m) ==
  /\ p # 0
  /\ m \in DOMAIN gens[p].final
  /\ gens[p].final[m].end = End(m, Target(g))

\* A month of the previous publication that may be taken over.
Reusable(p, g, m) ==
  /\ p # 0
  /\ m \in DOMAIN gens[p].final
  /\ LET old == gens[p].final[m]
     IN /\ old.end = End(m, Target(g))
        /\ Fingerprint(old.cov, old.uni, m)
             = Fingerprint(gens[g].cov, gens[g].uni, m)

-----------------------------------------------------------------------------
(* Factor data *)

\* _auto_resume_generation: staging directories whose checkpoint is about
\* the same inputs and the same previous publication.
Resumable(prev) ==
  {g \in DOMAIN gens :
     /\ gens[g].staged # <<>>
     /\ gens[g].cov = Latest /\ gens[g].uni = Universe
     /\ gens[g].prev = prev}

\* The process has read its checkpoint and waits for the writer lock.
Resume(w, g, prev) ==
  /\ Go(w, "lockFactors")
  /\ arg' = [arg EXCEPT ![w].gen = g, ![w].prev = prev,
                        ![w].done = gens[g].staged]
  /\ UNCHANGED gens

StartNew(w, prev) ==
  LET none == NoParts(versions[Latest].target)
  IN /\ gens' = Append(gens, [cov |-> Latest, uni |-> Universe, prev |-> prev,
                              staged |-> none, final |-> <<>>])
     /\ Go(w, "lockFactors")
     /\ arg' = [arg EXCEPT ![w].gen = Len(gens) + 1, ![w].prev = prev,
                           ![w].done = none]

\* run(), up to the checkpoint it works from.  The unit resumes by itself; a
\* person may name the generation to go on with.
FactorsBegin(w) ==
  /\ pc[w] = "factors"
  /\ LET prev == IF arg[w].force THEN 0 ELSE factorPub
         u == universes[Universe]
         refused ==
           \/ u.cov # Latest \/ u.master # Master
           \/ prev # 0 /\ Target(prev) > versions[Latest].target
         noop == prev # 0 /\ gens[prev].cov = Latest
                   /\ gens[prev].uni = Universe
     IN \/ refused /\ Fail(w) /\ UNCHANGED gens
        \/ ~refused /\ noop /\ Advance(w, "factors", 0) /\ UNCHANGED gens
        \/ /\ ~refused /\ ~noop
           /\ \/ /\ Cardinality(Resumable(prev)) > 1
                 /\ w = "service"
                 /\ Fail(w)
                 /\ UNCHANGED gens
              \/ /\ w = "operator" \/ Cardinality(Resumable(prev)) = 1
                 /\ \E g \in Resumable(prev) : Resume(w, g, prev)
              \/ /\ w = "operator" \/ Resumable(prev) = {}
                 /\ StartNew(w, prev)
  /\ UNCHANGED <<market, masters, versions, cache, budget, universes,
                 factorPub>>

\* The writer lock of the checkpoints, held while months are computed.  The
\* loop starts with the months the checkpoint lists, in order; those of this
\* generation must still be in its staging directory.
LockFactors(w) ==
  LET g == arg[w].gen
      done == arg[w].done
      moved == /\ gens[g].final # <<>>
               /\ \E m \in DOMAIN done : done[m].src = g
  IN /\ pc[w] = "lockFactors"
     /\ \A o \in Jobs : pc[o] # "compute"
     /\ \/ moved /\ Fail(w)
        \/ /\ ~moved
           /\ Go(w, IF \E m \in DOMAIN done : done[m] = Missing
                    THEN "compute" ELSE "publish")
           /\ UNCHANGED arg
     /\ UNCHANGED <<market, masters, versions, cache, budget, universes,
                    factorVars>>

\* Mutant of ComputeMonth: the checkpoint is saved before the month is added.
ComputeMonthUnsaved(w) ==
  /\ pc[w] = "compute"
  /\ LET g == arg[w].gen
         left == {m \in DOMAIN arg[w].done : arg[w].done[m] = Missing}
         m == Min(left)
         reuse == Reusable(arg[w].prev, g, m)
         part == IF reuse THEN gens[arg[w].prev].final[m]
                 ELSE [end |-> End(m, Target(g)), cov |-> gens[g].cov,
                       uni |-> gens[g].uni, src |-> g]
         done == [arg[w].done EXCEPT ![m] = part]
     IN /\ gens' = [gens EXCEPT ![g].staged = arg[w].done]
        /\ \/ /\ w = "service" /\ ~reuse /\ left # {m}
              /\ Go(w, "factors")
              /\ arg' = [arg EXCEPT ![w] = Fresh]
           \/ /\ w # "service" \/ reuse \/ left = {m}
              /\ Go(w, IF left = {m} THEN "publish" ELSE "compute")
              /\ arg' = [arg EXCEPT ![w].done = done]
  /\ UNCHANGED <<market, masters, versions, cache, budget, universes,
                 factorPub>>

\* One month is taken over or computed, and the checkpoint saved, even into
\* a staging directory that has been renamed away meanwhile.
ComputeMonth(w) ==
  /\ pc[w] = "compute"
  /\ LET g == arg[w].gen
         left == {m \in DOMAIN arg[w].done : arg[w].done[m] = Missing}
         m == Min(left)
         reuse == Reusable(arg[w].prev, g, m)
         part == IF reuse THEN gens[arg[w].prev].final[m]
                 ELSE [end |-> End(m, Target(g)), cov |-> gens[g].cov,
                       uni |-> gens[g].uni, src |-> g]
         done == [arg[w].done EXCEPT ![m] = part]
     IN /\ gens' = [gens EXCEPT ![g].staged = done]
        /\ \/ /\ w = "service" /\ ~reuse /\ left # {m}
              /\ Go(w, "factors")
              /\ arg' = [arg EXCEPT ![w] = Fresh]
           \/ /\ w # "service" \/ reuse \/ left = {m}
              /\ Go(w, IF left = {m} THEN "publish" ELSE "compute")
              /\ arg' = [arg EXCEPT ![w].done = done]
  /\ UNCHANGED <<market, masters, versions, cache, budget, universes,
                 factorPub>>

\* Mutant of FactorsRename: the pointer moves before the rename.
FactorsRenamePointsFirst(w) ==
  LET g == arg[w].gen
  IN /\ pc[w] = "publish"
     /\ \A o \in Jobs : pc[o] # "point"
     /\ gens[g].final = <<>>
     /\ IF factorPub = g
        THEN /\ gens' = [gens EXCEPT ![g].final = arg[w].done,
                                     ![g].staged = <<>>]
             /\ Go(w, "point")
             /\ UNCHANGED factorPub
        ELSE /\ factorPub' = g
             /\ UNCHANGED <<gens, pc>>
     /\ UNCHANGED <<market, masters, versions, cache, arg, budget, universes>>

\* publish(), under the publication lock: the staging directory becomes the
\* generation, unless there already is one of this name.
FactorsRename(w) ==
  LET g == arg[w].gen
      renamed == gens[g].final # <<>>
  IN /\ pc[w] = "publish"
     /\ \A o \in Jobs : pc[o] # "point"
     /\ \/ renamed /\ Fail(w) /\ UNCHANGED gens
        \/ /\ ~renamed
           /\ gens' = [gens EXCEPT ![g].final = arg[w].done,
                                   ![g].staged = <<>>]
           /\ Go(w, "point")
           /\ UNCHANGED arg
     /\ UNCHANGED <<market, masters, versions, cache, budget, universes,
                    factorPub>>

\* The prospective publication is verified and the pointer replaced.
FactorsPoint(w) ==
  /\ pc[w] = "point"
  /\ factorPub' = arg[w].gen
  /\ Advance(w, "factors", 0)
  /\ UNCHANGED <<market, masters, versions, cache, budget, universes, gens>>

-----------------------------------------------------------------------------
(* The pipeline *)

Init ==
  /\ CoverageInit
  /\ universes = <<[cov |-> 1, master |-> 1, target |-> FirstDay,
       members |-> [m \in Ended(FirstDay) |-> FirstListed]]>>
  /\ gens = <<[cov |-> 1, uni |-> 1, prev |-> 0, staged |-> <<>>,
       final |-> [m \in Periods(FirstDay) |->
                    [end |-> End(m, FirstDay), cov |-> 1, uni |-> 1,
                     src |-> 1]]]>>
  /\ factorPub = 1

CoverageStep(w) ==
  /\ \/ MasterBegin(w) \/ MasterPublish(w)
     \/ CoverageBegin(w) \/ Fetch(w) \/ Assess(w) \/ Reject(w) \/ Register(w)
  /\ UNCHANGED <<universes, factorVars>>

DerivedStep(w) ==
  \/ UniverseBegin(w) \/ UniversePublish(w)
  \/ FactorsBegin(w) \/ LockFactors(w) \/ ComputeMonth(w)
  \/ FactorsRename(w) \/ FactorsPoint(w)

World ==
  /\ \/ NewDay
     \/ \E s \in Sec : Rescale(s) \/ List(s)
     \/ \E stage \in DOMAIN Follows, t \in FirstDay..day, force \in BOOLEAN,
           restore \in SUBSET Sec :
             /\ stage \notin {"master", "coverage"} => t = day
             /\ stage # "coverage" => restore = {}
             /\ StartByHand(stage, t, force, restore)
     \/ \E w \in Jobs : Trouble(w)
  /\ UNCHANGED <<universes, factorVars>>

Timer == StartPipeline /\ UNCHANGED <<universes, factorVars>>

Step(w) == CoverageStep(w) \/ DerivedStep(w)

Next == World \/ Timer \/ \E w \in Jobs : Step(w)

\* The timer fires every working day and systemd restarts a failed unit, so
\* the unit keeps being started; a started script keeps running.
Spec ==
  /\ Init /\ [][Next]_vars
  /\ WF_vars(NewDay /\ UNCHANGED <<universes, factorVars>>)
  /\ WF_vars(Timer)
  /\ \A w \in Jobs : WF_vars(Step(w))

-----------------------------------------------------------------------------
(* Properties *)

\* Type invariant.
BroadTypeOK ==
  /\ day \in Days /\ vendor \in [Sec -> Bases] /\ listed \subseteq Sec
  /\ \A b \in DOMAIN cache : \A i \in DOMAIN cache[b] :
       cache[b][i] \in [Sec -> Bases]
  /\ \A v \in DOMAIN versions :
       /\ versions[v].target \in Days /\ versions[v].master \in DOMAIN masters
       /\ versions[v].rows \in [Sec -> [Days -> Bases \cup {NoRow}]]
       /\ {versions[v].isolated, versions[v].repaired, versions[v].canonical}
            \subseteq SUBSET Sec
  /\ \A u \in DOMAIN universes :
       /\ universes[u].cov \in DOMAIN versions
       /\ universes[u].target = versions[universes[u].cov].target
       /\ universes[u].members \in [Ended(universes[u].target) -> SUBSET Sec]
  /\ \A g \in DOMAIN gens :
       /\ gens[g].cov \in DOMAIN versions /\ gens[g].uni \in DOMAIN universes
       /\ gens[g].prev \in 0..Len(gens)
       /\ gens[g].final # <<>> => DOMAIN gens[g].final = Periods(Target(g))
  /\ factorPub \in DOMAIN gens
  /\ DOMAIN pc = Jobs /\ DOMAIN arg = Jobs

\* Every coverage version extends the one published just before it, never an
\* older one, and sessions do not go back: two writers that started from the
\* same parent cannot both publish (publish_partitions).
ChainIsLinear ==
  \A v \in DOMAIN versions \ {1} :
    /\ versions[v].parent = v - 1
    /\ versions[v - 1].target <= versions[v].target

Uniform(bars, days) == Cardinality({bars[d] : d \in days} \ {NoRow}) <= 1
OneBasis(v, s, days) == Uniform(versions[v].rows[s], days)

\* The run read the overlap with its parent on two bases, and the parent held
\* it on two bases: a re-scaling met both runs between two of their reads.
MixedTwice(v, s) ==
  LET overlap == versions[v].from..versions[versions[v].parent].target
  IN ~OneBasis(v, s, overlap) /\ ~OneBasis(versions[v].parent, s, overlap)

\* If the vendor kept a security on one basis while a run read the refreshed
\* window, then its whole published history is on one basis, whatever older
\* versions held, as long as no run of the chain added more sessions than
\* the overlap has, and no two runs in a row met a re-scaling by the same
\* factor, which the audit takes for one factor between them
\* (audit_overlap, _rebase_parent_to_fetched_scale, repairs, the months that
\* are linked from the parent).
WindowDecides ==
  \A v \in DOMAIN versions, s \in Sec :
    /\ \A x \in 2..v :
         /\ versions[x].target - versions[versions[x].parent].target <= Overlap
         /\ ~MixedTwice(x, s)
    /\ OneBasis(v, s, versions[v].from..versions[v].target)
    => OneBasis(v, s, Days)

\* An isolated security has no bars, and it stays isolated until its whole
\* history has been replaced (build_availability, validate_replacement).
IsolationIsSticky ==
  \A v \in DOMAIN versions :
    /\ \A s \in versions[v].isolated :
         \A d \in Days : versions[v].rows[s][d] = NoRow
    /\ v > 1 => versions[v - 1].isolated \ versions[v].isolated
                  \subseteq versions[v].repaired

\* Every month of the published factor data equals what the publication's
\* own coverage and universe would give, although most months were computed
\* from older ones or by a process that was killed.
FactorsExact ==
  LET g == gens[factorPub]
  IN \A m \in DOMAIN g.final :
       LET part == g.final[m]
       IN /\ part.end = End(m, Target(factorPub))
          /\ Reads(part.cov, part.uni, m, part.end)
               = Reads(g.cov, g.uni, m, part.end)

\* The publication names one consistent chain of inputs: a coverage version,
\* the universe built on it with the same Security Master, and members that
\* all have bars there, also in the snapshots kept from older universes.
OneChainOfInputs ==
  LET g == gens[factorPub]
      u == universes[g.uni]
  IN /\ u.cov = g.cov
     /\ u.master = versions[g.cov].master
     /\ \A m \in DOMAIN u.members : u.members[m] \subseteq Eligible(g.cov, m)

FinalGens == {g \in DOMAIN gens : gens[g].final # <<>>}
Sources(parts) == {parts[m].src : m \in DOMAIN parts}

\* Factor data is an immutable publication: finished generations never
\* change, the partitions they take over are finished, and the pointer names
\* a finished one at every moment, crashes included.
Publication == INSTANCE ImmutablePublication WITH
  Refs <- Sources,
  store <- [g \in FinalGens |-> gens[g].final],
  published <- factorPub

FactorsArePublications == Publication!Spec

\* Whatever was killed, isolated, re-scaled or done by hand before: once the
\* last session is quiet the factor data reaches it, without anybody's help.
CatchesUp == <>[](Target(factorPub) = MaxDay)
=============================================================================
