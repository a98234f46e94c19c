---------------------------- MODULE BroadCoverage ----------------------------
(***************************************************************************)
(* The first two stages of the broad US pipeline: the Security Master      *)
(* (scripts/build_security_master.py, data/security_master_store.py) and   *)
(* the incremental US_EQUITY_COVERAGE update                               *)
(* (scripts/update_us_equity_coverage.py, data/broad_coverage.py), with    *)
(* the data vendor they read and the catalog they register versions in.    *)
(*                                                                         *)
(* Prices are kept by their BASIS: a split or a distribution makes the     *)
(* vendor re-scale a security's whole history, which the model counts.     *)
(* Two rows of one security on different bases show a return that never    *)
(* happened.  A run fetches the overlap with its parent session by session *)
(* into a cache that a retry of the same run reuses, so the vendor may     *)
(* re-scale between two fetches of one publication.                        *)
(*                                                                         *)
(* Jobs: "service" is the nightly unit, which runs the stages one after    *)
(* another; "operator" is a person who runs one script by hand, outside    *)
(* the unit's flock.                                                       *)
(***************************************************************************)
EXTENDS Integers, Sequences, FiniteSets

CONSTANTS
  Sec,           \* stable security ids
  Benchmarks,    \* those that are never isolated
  FirstListed,   \* the identities of the first Security Master
  FirstDay,      \* the session everything has been built for once, so that
                 \* there is a month of factors
  MaxDay,        \* the last session
  Overlap,       \* overlap_calendar_days, in sessions
  MaxIsolated,   \* security_isolation_max_count
  MaxRevisions,  \* re-scalings by the vendor, in all
  MaxTrouble,    \* kills and vendor errors, in all
  OperatorJobs   \* scripts run by hand, in all

ASSUME BroadAssumption ==
  /\ Benchmarks \subseteq Sec /\ FirstListed \subseteq Sec
  /\ FirstListed # {}
  /\ {FirstDay, MaxDay, Overlap} \subseteq Nat \ {0}
  /\ 2 <= FirstDay /\ FirstDay <= MaxDay
  /\ {MaxIsolated, MaxRevisions, MaxTrouble, OperatorJobs} \subseteq Nat

Days   == 1..MaxDay
Bases  == 0..MaxRevisions
NoRow  == -1
Jobs   == {"service", "operator"}

\* Calendar months: the first session ends one, then two sessions each.
Month(d)   == d \div 2 + 1
Months(t)  == 1..Month(t)

VARIABLES
  day,       \* the latest publishable XNYS session
  vendor,    \* [Sec -> Bases], the basis the vendor serves now
  listed,    \* the identities the vendor lists now
  masters,   \* published Security Master generations, the last is current
  versions,  \* registered coverage versions, the last is published
  cache,     \* provider_cache: binding -> vendor states fetched so far
  pc,        \* [Jobs -> step]
  arg,       \* [Jobs -> what the job has read]
  budget     \* what is left of the bounds

market == <<day, vendor, listed>>
job    == <<pc, arg>>
coverageVars == <<market, masters, versions, cache, job, budget>>

Latest   == Len(versions)
Master   == Len(masters)
NoBinding == [parent |-> 0, target |-> 0, master |-> 0]

\* No candidate version, and a job that has read nothing.
NoVersion == [target |-> 0, master |-> 0, parent |-> 0, from |-> 0,
              rows |-> <<>>, isolated |-> {}, repaired |-> {},
              canonical |-> {}]
Fresh == [target |-> 0, bind |-> NoBinding, force |-> FALSE, restore |-> {},
          cand |-> NoVersion, cover |-> 0, gen |-> 0, prev |-> 0,
          done |-> <<>>]

\* The stage after this one: the unit goes on, a script run by hand ends.
Follows == [master |-> "coverage", coverage |-> "universe",
            universe |-> "factors", factors |-> "idle"]

\* The stage succeeded; the coverage stage names its version to the next.
Advance(w, stage, cover) ==
  LET next == IF w = "service" THEN Follows[stage] ELSE "idle"
  IN /\ pc' = [pc EXCEPT ![w] = next]
     /\ arg' = [arg EXCEPT ![w] =
                  IF next \in {"idle", "factors"} THEN Fresh
                  ELSE [Fresh EXCEPT !.target = arg[w].target,
                                     !.cover = cover]]

\* The process ends with an error; the unit does not start later stages.
Fail(w) ==
  /\ pc' = [pc EXCEPT ![w] = "idle"]
  /\ arg' = [arg EXCEPT ![w] = Fresh]

Go(w, step) == pc' = [pc EXCEPT ![w] = step]

-----------------------------------------------------------------------------
(* Security Master *)

\* main(): an older target is refused, an equal one needs no build.
MasterBegin(w) ==
  /\ pc[w] = "master"
  /\ LET published == masters[Master].session
     IN \/ /\ published > arg[w].target
           /\ Fail(w)
        \/ /\ published = arg[w].target
           /\ Advance(w, "master", 0)
        \/ /\ published < arg[w].target
           /\ Go(w, "buildMaster")
           /\ UNCHANGED arg
  /\ UNCHANGED <<market, masters, versions, cache, budget>>

\* run_build() and publish(): the artifacts are renamed into place and one
\* transaction inserts the generation and moves the pointer; what was
\* published before is not looked at again.
MasterPublish(w) ==
  /\ pc[w] = "buildMaster"
  /\ masters' = Append(masters, [session |-> arg[w].target, ids |-> listed])
  /\ Advance(w, "master", 0)
  /\ UNCHANGED <<market, versions, cache, budget>>

-----------------------------------------------------------------------------
(* What a coverage run reads *)

\* Sessions that are fetched again: the overlap before the parent's target
\* and every session after it.
Window(b) ==
  LET p == versions[b.parent].target
  IN (IF p > Overlap THEN p - Overlap ELSE 1)..b.target

Overlapping(b) == {d \in Window(b) : d <= versions[b.parent].target}

\* A cache entry is the list of vendor states it was filled from: first the
\* history of new identities, then one state per session of the window, last
\* the canonical sources.
Fetched(b)  == IF b \in DOMAIN cache THEN cache[b] ELSE <<>>
Complete(b) == Len(Fetched(b)) = Cardinality(Window(b)) + 2

Present(v)  == {s \in Sec : \E d \in Days : versions[v].rows[s][d] # NoRow}
Ids(b)      == masters[b.master].ids
Isolated(b) == versions[b.parent].isolated
Delta(b)    == (Ids(b) \ Present(b.parent)) \ Isolated(b)

\* The basis of a refreshed row.  Securities repaired once stay on their
\* canonical source, which is read in one piece after the daily files.
Refreshed(b, s, d) ==
  LET got == Fetched(b)
      first == CHOOSE e \in Window(b) : \A o \in Window(b) : e <= o
  IN IF s \in versions[b.parent].canonical
     THEN got[Len(got)][s] ELSE got[2 + d - first][s]

Old(b, s, d) == versions[b.parent].rows[s][d]

\* audit_overlap: one factor must take every overlapping row of the parent
\* to its fresh value.
Scales(b, s) ==
  {k \in -MaxRevisions..MaxRevisions :
     \A d \in Overlapping(b) : Refreshed(b, s, d) = Old(b, s, d) + k}
Drifted(b) ==
  {s \in Present(b.parent) \cap Ids(b) : Scales(b, s) = {}}
Scale(b, s) == CHOOSE k \in Scales(b, s) : TRUE

\* The history of a new identity must agree with the daily files.
Conflicting(b) ==
  \E s \in Delta(b), d \in Overlapping(b) :
     Fetched(b)[1][s] # Refreshed(b, s, d)

\* Mutant of IsolatedAfter: only what this run has lost is isolated.
IsolatedThisRun(b, restore, lost) == lost

\* build_availability: an isolation ends only by a replacement that was asked
\* for and lost nothing.
IsolatedAfter(b, restore, lost) ==
  (Isolated(b) \ (restore \ lost)) \cup lost

\* Mutant of Affected: a re-scaled parent does not touch older months.
AffectedWindowOnly(b, repaired, isolated) == {Month(d) : d \in Window(b)}

\* Months whose partitions are written anew; the others are linked from the
\* parent as they are.
Affected(b, repaired, isolated) ==
  LET rescaled == {s \in (Present(b.parent) \cap Ids(b)) \ Drifted(b) :
                     Scale(b, s) # 0}
  IN IF \/ versions[b.parent].master # b.master
        \/ rescaled # {} \/ repaired # {} \/ isolated # {}
     THEN Months(b.target)
     ELSE {Month(d) : d \in Window(b)}

\* The bars of the candidate: basis holds the repaired securities.
Bars(b, basis, isolated) ==
  LET repaired == DOMAIN basis
      affected == Affected(b, repaired, isolated)
      row(s, d) ==
        IF d > b.target \/ s \notin Ids(b) \ isolated THEN NoRow
        ELSE IF s \in repaired THEN basis[s]
        ELSE IF d \in Window(b) THEN Refreshed(b, s, d)
        ELSE IF s \notin Present(b.parent) THEN Fetched(b)[1][s]
        ELSE IF Month(d) \in affected THEN Old(b, s, d) + Scale(b, s)
        ELSE Old(b, s, d)
  IN [s \in Sec |-> [d \in Days |-> row(s, d)]]

-----------------------------------------------------------------------------
(* Coverage *)

\* run(): the parent is the published version, the master the published
\* generation.  The same session is refreshed only for an explicit repair.
CoverageBegin(w) ==
  /\ pc[w] = "coverage"
  /\ LET p == versions[Latest]
         t == arg[w].target
         rebase == p.master # Master
         refused ==
           \/ ~(arg[w].restore \subseteq p.isolated)
           \/ t > masters[Master].session
           \/ t < p.target
           \/ t = p.target /\ rebase /\ ~arg[w].force
           \/ ~(p.isolated \subseteq masters[Master].ids)
         noop == t = p.target /\ ~rebase /\ arg[w].restore = {}
     IN \/ /\ refused /\ ~noop
           /\ Fail(w)
        \/ /\ ~refused /\ noop
           /\ Advance(w, "coverage", Latest)
        \/ /\ ~refused /\ ~noop
           /\ Go(w, "fetch")
           /\ arg' = [arg EXCEPT ![w].bind =
                        [parent |-> Latest, target |-> t, master |-> Master]]
  /\ UNCHANGED <<market, masters, versions, cache, budget>>

\* One read from the vendor, kept for every later attempt with this binding.
Fetch(w) ==
  LET b == arg[w].bind
  IN /\ pc[w] = "fetch"
     /\ ~Complete(b)
     /\ cache' = [x \in DOMAIN cache \cup {b} |->
                    IF x = b THEN Append(Fetched(b), vendor) ELSE cache[x]]
     /\ UNCHANGED <<market, masters, versions, job, budget>>

\* Securities whose whole history is asked for again.
Needed(b, restore) == Drifted(b) \cup restore

\* fetch_replacement: a whole history on one basis.  It may be one that an
\* earlier attempt of this run has frozen, after the window was complete.
Replacements(b, ok) ==
  LET got == Fetched(b)
  IN {basis \in [ok -> Bases] :
        \A s \in ok : basis[s] \in got[Len(got)][s]..vendor[s]}

\* validate_availability: what may be isolated at all.
Tolerated(isolated) ==
  isolated \cap Benchmarks = {} /\ Cardinality(isolated) <= MaxIsolated

\* Outcomes of the replacements: the histories that have lost authenticated
\* dates.  The vendor's last session is a good one.
Losses(b, restore) ==
  {lost \in SUBSET Needed(b, restore) : day = MaxDay => lost = {}}

Candidate(b, basis, isolated) ==
  [target |-> b.target, master |-> b.master, parent |-> b.parent,
   from |-> CHOOSE d \in Window(b) : \A o \in Window(b) : d <= o,
   rows |-> Bars(b, basis, isolated), isolated |-> isolated,
   repaired |-> DOMAIN basis,
   canonical |-> DOMAIN basis \cup
                   ((versions[b.parent].canonical \cap Ids(b)) \ Isolated(b))]

\* The overlap is authenticated, the failures are repaired from a whole
\* history or isolated, and the candidate is built.
Assess(w) ==
  LET b == arg[w].bind
      restore == arg[w].restore
  IN /\ pc[w] = "fetch"
     /\ Complete(b)
     /\ ~Conflicting(b)
     /\ \E lost \in Losses(b, restore) :
          LET isolated == IsolatedAfter(b, restore, lost)
          IN /\ Tolerated(isolated)
             /\ \E basis \in Replacements(b, Needed(b, restore) \ lost) :
                  arg' = [arg EXCEPT ![w].cand = Candidate(b, basis, isolated)]
     /\ Go(w, "register")
     /\ UNCHANGED <<market, masters, versions, cache, budget>>

\* The sources contradict each other, or more would be isolated than the
\* policy allows: the run fails, its cache stays.
Reject(w) ==
  LET b == arg[w].bind
      restore == arg[w].restore
  IN /\ pc[w] = "fetch"
     /\ Complete(b)
     /\ \/ Conflicting(b)
        \/ \E lost \in Losses(b, restore) :
             ~Tolerated(IsolatedAfter(b, restore, lost))
     /\ Fail(w)
     /\ UNCHANGED <<market, masters, versions, cache, budget>>

\* register_version: the row, its checks and the pointer in one transaction.
RegisterVersion(v) == versions' = Append(versions, v)

\* Mutant of Register: the parent is not compared again.
RegisterUnchecked(w) ==
  /\ pc[w] = "register"
  /\ RegisterVersion(arg[w].cand)
  /\ Advance(w, "coverage", Latest + 1)
  /\ UNCHANGED <<market, masters, cache, budget>>

\* publish_partitions, under the catalog's writer lock: the parent must
\* still be the published version.
Register(w) ==
  LET current == Latest = arg[w].cand.parent
  IN /\ pc[w] = "register"
     /\ \/ /\ current
           /\ RegisterVersion(arg[w].cand)
           /\ Advance(w, "coverage", Latest + 1)
           /\ cache' = <<>>
        \/ /\ ~current
           /\ Fail(w)
           /\ UNCHANGED <<versions, cache>>
     /\ UNCHANGED <<market, masters, budget>>

-----------------------------------------------------------------------------
(* The world around the jobs *)

\* The last session is a quiet one: it opens when no script runs by hand.
NewDay ==
  /\ day < MaxDay
  /\ day + 1 = MaxDay => pc["operator"] = "idle"
  /\ day' = day + 1
  /\ UNCHANGED <<vendor, listed, masters, versions, cache, job, budget>>

\* The vendor re-scales the history of a security.
Rescale(s) ==
  /\ day < MaxDay
  /\ budget.revisions > 0
  /\ vendor' = [vendor EXCEPT ![s] = @ + 1]
  /\ budget' = [budget EXCEPT !.revisions = @ - 1]
  /\ UNCHANGED <<day, listed, masters, versions, cache, job>>

List(s) ==
  /\ day < MaxDay
  /\ s \notin listed
  /\ listed' = listed \cup {s}
  /\ UNCHANGED <<day, vendor, masters, versions, cache, job, budget>>

\* The timer, or systemd's restart of a failed unit.
StartPipeline ==
  /\ pc["service"] = "idle"
  /\ Go("service", "master")
  /\ arg' = [arg EXCEPT !["service"].target = day]
  /\ UNCHANGED <<market, masters, versions, cache, budget>>

\* A person starts one script, for any session up to the latest.
StartByHand(stage, t, force, restore) ==
  /\ day < MaxDay
  /\ pc["operator"] = "idle"
  /\ budget.jobs > 0
  /\ Go("operator", stage)
  /\ arg' = [arg EXCEPT !["operator"].target = t,
                        !["operator"].force = force,
                        !["operator"].restore = restore]
  /\ budget' = [budget EXCEPT !.jobs = @ - 1]
  /\ UNCHANGED <<market, masters, versions, cache>>

\* A kill, a reboot or an error of the vendor ends a job at any step.
Trouble(w) ==
  /\ pc[w] # "idle"
  /\ budget.trouble > 0
  /\ Fail(w)
  /\ budget' = [budget EXCEPT !.trouble = @ - 1]
  /\ UNCHANGED <<market, masters, versions, cache>>

\* After the first full build of every artifact.
CoverageInit ==
  /\ day = FirstDay
  /\ vendor = [s \in Sec |-> 0]
  /\ listed = FirstListed
  /\ masters = <<[session |-> FirstDay, ids |-> FirstListed]>>
  /\ versions = <<[NoVersion EXCEPT !.target = FirstDay, !.master = 1, !.from = 1,
       !.rows = [s \in Sec |-> [d \in Days |->
                   IF s \in FirstListed /\ d <= FirstDay THEN 0 ELSE NoRow]]]>>
  /\ cache = <<>>
  /\ pc = [w \in Jobs |-> "idle"]
  /\ arg = [w \in Jobs |-> Fresh]
  /\ budget = [revisions |-> MaxRevisions, trouble |-> MaxTrouble,
               jobs |-> OperatorJobs]
=============================================================================
