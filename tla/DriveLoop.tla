----------------------------- MODULE DriveLoop -----------------------------
(***************************************************************************)
(* A whole run: the assembled loop and the driver that walks it            *)
(* (presets/assembled.rs), with the steps it runs: Plan, Gather, Attempt   *)
(* and Report (orchestrate/steps.rs), the reflect and judge arms           *)
(* (presets/arms.rs), the tuning arm (arm/types.rs, presets/tuner.rs), and *)
(* Converge and Advance (presets/steps.rs).                                *)
(*                                                                         *)
(* The specialists are the environment: a dispatch comes back as any       *)
(* report.  A report is the sequence of its delegations' outcomes, each    *)
(* keeping how it ended, what kind of reply it left, and whether it left   *)
(* an artifact.  The arms of a pass run in any order, which covers both    *)
(* the driver's loop over them and the graph's fan-out.                    *)
(***************************************************************************)
EXTENDS Profile

CONSTANTS
  Reports,             \* the reports a dispatch may add up to
  StartThresholds,     \* the preset's thresholds
  Bounds,              \* what the run may revise, the `pass` step's bounds
  Budget,              \* the run's caps
  Tuner,               \* "absent", "rules" (the shipped one) or "host"
  HostChanges          \* what a host's own tuner may propose

Ending == {"answered", "timed_out", "capped", "failed"}
Reply  == {"none", "plain", "marked"}      \* marked: it contains SOLVED

Delegation == [ending : Ending, reply : Reply, wrote : BOOLEAN]

AttemptReport == Seq(Delegation)

\* The arms the shipped loop declares; only the second may be muted.
Arms == {"reflect", "judge"} \cup (IF Tuner = "absent" THEN {} ELSE {"tune"})

ASSUME DriveLoopAssumption ==
  /\ Reports \subseteq AttemptReport
  /\ StartThresholds \in Thresholds
  /\ Bounds \in BoundsType
  /\ Bounds.mutable_arms \subseteq Arms \ {"reflect"}
  /\ Budget \in Caps
  /\ Legal(Budget)
  /\ Tuner \in {"absent", "rules", "host"}
  /\ HostChanges \subseteq Change
  /\ {"reflect", "judge", "tune"} \subseteq ArmName

VARIABLES
  pc,                  \* the step the driver runs next
  pass,                \* the loop variable of `drive`
  acc,                 \* the accumulator, LoopState
  returned,            \* the candidates of the arms that ran this pass
  routes,              \* the route taken at every pass so far
  meter,
  bound,               \* the bound that stopped the run
  outcome,             \* how the run came out
  log                  \* history: each attempt's report, the steer it was
                       \* briefed with, and the one its judge left behind

vars == <<pc, pass, acc, returned, routes, meter, bound, outcome, log>>

\* An option, as a sequence of at most one element.
None    == << >>
Some(x) == <<x>>

-----------------------------------------------------------------------------
(* Reading a report.                                                       *)

\* Evidence is an artifact from anybody, or a reply from one that did not fail.
Evidence(d) == d.wrote \/ (d.ending # "failed" /\ d.reply # "none")

Informative(r) == \E i \in DOMAIN r : Evidence(r[i])

Blocked(r) == r # << >> /\ \A i \in DOMAIN r : r[i].ending = "failed"

Artifacts(r) == Cardinality({i \in DOMAIN r : r[i].wrote})

Answered(r) == Cardinality({i \in DOMAIN r : r[i].ending = "answered"})

Claimed(r) == \E i \in DOMAIN r : r[i].reply = "marked"

Corroborated(r) == \E i \in DOMAIN r : r[i].reply = "marked" /\ r[i].wrote

-----------------------------------------------------------------------------
(* Step bodies.                                                            *)

StartingAcc ==
  [counts |-> [c \in Counter |-> 0], solved |-> FALSE, expired |-> FALSE,
   last |-> None, lessons |-> << >>, steer |-> "", scores |-> << >>,
   judged |-> "proceed", planned |-> None, proposed |-> None,
   profile |-> StartingProfile(StartThresholds, Budget)]

\* Plan: the board is written at pass zero and then on the cadence.
Plans(a, p) == p = 0 \/ PlansOn(a.profile.thresholds, p)

Planned(a, p) == IF Plans(a, p) THEN [a EXCEPT !.planned = Some(p)] ELSE a

\* Mutant of Attempted: an artifact breaks one streak only.
AttemptedKeepingBlocked(a, r) ==
  [a EXCEPT !.counts["attempts"] = SatAdd(@, 1),
            !.counts["established"] = SatAdd(@, Artifacts(r)),
            !.counts["blocked"] = IF Blocked(r) THEN SatAdd(@, 1) ELSE @,
            !.counts["unproductive"] =
               IF Informative(r) THEN 0 ELSE IF Blocked(r) THEN @ ELSE SatAdd(@, 1),
            !.last = Some(r)]

\* Attempt: evidence breaks both streaks; a pass that learned only that the
\* machinery would not run is blocked, any other silent pass unproductive.
Attempted(a, r) ==
  LET c == a.counts
      streaks == IF Informative(r)
                   THEN [c EXCEPT !["unproductive"] = 0, !["blocked"] = 0]
                 ELSE IF Blocked(r)
                   THEN [c EXCEPT !["blocked"] = SatAdd(@, 1)]
                 ELSE [c EXCEPT !["unproductive"] = SatAdd(@, 1)]
  IN  [a EXCEPT
        !.counts = [streaks EXCEPT !["attempts"] = SatAdd(@, 1),
                                   !["established"] = SatAdd(@, Artifacts(r))],
        !.last = Some(r)]

\* Mutant of Reflected: a claim concludes, whatever it left behind.
ReflectedOnWord(a) ==
  IF Claimed(a.last[1])
    THEN [a EXCEPT !.solved = TRUE, !.counts["banked"] = SatAdd(@, 1)]
    ELSE a

\* Reflect: only a claim its own claimant left something behind concludes.
Reflected(a) ==
  LET Learned(state, line) == [state EXCEPT !.lessons = Append(@, <<line>>)]
      r == a.last[1]
  IN  IF a.last = None THEN Learned(a, "unreadable")
      ELSE IF Corroborated(r)
        THEN Learned([a EXCEPT !.solved = TRUE,
                               !.counts["banked"] = SatAdd(@, 1)], "solved")
      ELSE IF Claimed(r)
        THEN Learned([a EXCEPT !.counts["unverified"] = SatAdd(@, 1)],
                     "confabulated")
      ELSE IF Artifacts(r) = 0 THEN Learned(a, "no_artifact")
      ELSE a

\* Judge: scores the report, and steers unless something came back.
Judged(a) ==
  LET r == a.last[1]
      Scored(state, n) == [state EXCEPT !.scores = Append(@, n)]
      Verdict(judged, steer) == [a EXCEPT !.judged = judged, !.steer = steer]
      score == Least(Answered(r) + Artifacts(r), 10)
  IN  IF a.last = None THEN Scored(Verdict("proceed", a.steer), 0)
      ELSE IF Blocked(r) THEN Scored(Verdict("proceed", "machinery"), score)
      ELSE IF Informative(r) THEN Scored(Verdict("proceed", a.steer), score)
      ELSE IF SatAdd(a.counts["unproductive"], 1) >= SatAdd(a.counts["restarts"], 2)
        THEN Scored(Verdict("restart", "fresh"), score)
      ELSE Scored(Verdict("steer", "narrow"), score)

\* Mutant of AskedFor: nothing asked is remembered.
NeverAsked(a, kind, field) == FALSE

\* Rules: infrastructure first, then patience, then an arm carrying no signal.
AskedFor(a, kind, field) ==
  \E i \in DOMAIN a.profile.history :
    /\ a.profile.history[i].change.kind = kind
    /\ a.profile.history[i].change.field = field

Flat(scores) ==
  LET window == Bounds.muting_window
  IN  /\ window > 0
      /\ Len(scores) >= window
      /\ \A i \in Len(scores) - window + 1 .. Len(scores) :
           scores[i] = scores[Len(scores)]

RulesChange(a) ==
  LET t == a.profile.thresholds
      c == a.counts
      Halved == Greatest(a.profile.caps["max_model_calls"] \div 2, 1)
  IN  IF /\ c["blocked"] >= Greatest(SatSub(t["blocked"], 1), 1)
         /\ ~AskedFor(a, "cap", "max_model_calls")
        THEN Some([kind |-> "cap", field |-> "max_model_calls", to |-> Halved])
      ELSE IF c["unproductive"] > t["stuck"] /\ ~AskedFor(a, "threshold", "stuck")
        THEN Some([kind |-> "threshold", field |-> "stuck",
                   to |-> SatAdd(t["stuck"], 1)])
      ELSE IF Flat(a.scores) /\ "judge" \notin a.profile.muted
        THEN Some([kind |-> "mute", field |-> "judge", to |-> 0])
      ELSE None

\* What the tuner may propose; a host's may propose anything or nothing.
Choices(a) ==
  IF Tuner = "host" THEN {None} \cup {Some(change) : change \in HostChanges}
                    ELSE {RulesChange(a)}

\* What an arm's node may return.  A muted one returns its input.
Candidates(arm) ==
  CASE arm \in acc.profile.muted -> {acc}
    [] arm = "reflect" -> {Reflected(acc)}
    [] arm = "judge"   -> {Judged(acc)}
    [] OTHER           -> {[acc EXCEPT !.proposed = p] : p \in Choices(acc)}

(***************************************************************************)
(* Converge, over the arms this loop declares: each counter moves by the   *)
(* sum of what the arms did to it, and each other field takes the value of *)
(* the arm that wrote it.  No two of these arms write one field; the fold  *)
(* of any arms at all is module LoopFold, and FoldAgrees says that the two *)
(* agree.                                                                  *)
(***************************************************************************)
\* Mutant of Movement: an arm's total is added, not what it moved.
WholeCount(c, arm) == IF arm \in Arms THEN returned[arm].counts[c] ELSE 0

Movement(c, arm) ==
  IF arm \in Arms THEN returned[arm].counts[c] - acc.counts[c] ELSE 0

Writers(f) == {arm \in Arms : returned[arm][f] # acc[f]}

Owned(f) == IF Writers(f) = {} THEN acc[f]
            ELSE returned[CHOOSE arm \in Writers(f) : TRUE][f]

Converged ==
  [acc EXCEPT
    !.counts   = [c \in Counter |->
                    Clamped(acc.counts[c] + Movement(c, "reflect")
                              + Movement(c, "judge") + Movement(c, "tune"),
                            MaxU32)],
    !.solved   = Owned("solved"),
    !.lessons  = Owned("lessons"),
    !.steer    = Owned("steer"),
    !.scores   = Owned("scores"),
    !.judged   = Owned("judged"),
    !.proposed = Owned("proposed")]

\* Mutants of Advanced: the pass is not counted; a proposal lands unrecorded.
AdvancedUncounted(a, p) ==
  [a EXCEPT
    !.counts["passes"] = p,
    !.steer    = "",
    !.profile  = IF a.proposed = None THEN @
                 ELSE Fold(@, a.proposed[1], Bounds),
    !.proposed = None]

AdvancedUnrecorded(a, p) ==
  [a EXCEPT
    !.counts["passes"] = SatAdd(p, 1),
    !.steer    = "",
    !.profile  = IF a.proposed = None THEN @ ELSE ApplyChange(@, a.proposed[1]),
    !.proposed = None]

\* Advance: counts the pass, consumes the steer, folds the proposal once.
Advanced(a, p) ==
  [a EXCEPT
    !.counts["passes"] = SatAdd(p, 1),
    !.steer    = "",
    !.profile  = IF a.proposed = None THEN @
                 ELSE Fold(@, a.proposed[1], Bounds),
    !.proposed = None]

-----------------------------------------------------------------------------
Init ==
  /\ pc = "plan_first"
  /\ pass = 0
  /\ acc = StartingAcc
  /\ returned = << >>
  /\ routes = << >>
  /\ meter = FreshMeter
  /\ bound = NoBound
  /\ outcome = "none"
  /\ log = << >>

\* The plan ahead of the loop.
PlanFirst ==
  /\ pc = "plan_first"
  /\ pc' = "research"
  /\ acc' = Planned(acc, 0)
  /\ UNCHANGED <<pass, returned, routes, meter, bound, outcome, log>>

\* Gather: one dispatch, whose replies become lessons and move no counter.
Research ==
  /\ pc = "research"
  /\ pc' = "plan"
  /\ \E found \in BOOLEAN :
       acc' = IF found THEN [acc EXCEPT !.lessons = Append(@, <<"research">>)]
                       ELSE acc
  /\ UNCHANGED <<pass, returned, routes, meter, bound, outcome, log>>

\* The head of an iteration, and the plan step inside the loop.
BeginPass ==
  /\ pc = "plan"
  /\ pc' = "attempt"
  /\ acc' = Planned([acc EXCEPT !.counts["passes"] = pass], pass)
  /\ UNCHANGED <<pass, returned, routes, meter, bound, outcome, log>>

Attempt(r) ==
  /\ pc = "attempt"
  /\ pc' = "evaluate"
  /\ acc' = Attempted(acc, r)
  /\ log' = Append(log, [report |-> r, briefed |-> acc.steer, advised |-> ""])
  /\ UNCHANGED <<pass, returned, routes, meter, bound, outcome>>

\* Mutant of ArmStep: a muted arm hands the barrier nothing.
ArmStepUnlessMuted(arm) ==
  /\ pc = "evaluate"
  /\ arm \in Arms \ (DOMAIN returned \cup acc.profile.muted)
  /\ \E candidate \in Candidates(arm) :
       returned' = [a \in DOMAIN returned \cup {arm} |->
                      IF a = arm THEN candidate ELSE returned[a]]
  /\ UNCHANGED <<pc, pass, acc, routes, meter, bound, outcome, log>>

ArmStep(arm) ==
  /\ pc = "evaluate"
  /\ arm \in Arms \ DOMAIN returned
  /\ \E candidate \in Candidates(arm) :
       returned' = [a \in DOMAIN returned \cup {arm} |->
                      IF a = arm THEN candidate ELSE returned[a]]
  /\ UNCHANGED <<pc, pass, acc, routes, meter, bound, outcome, log>>

\* The barrier, and the route read off what it folded.
Converge ==
  /\ pc = "evaluate"
  /\ DOMAIN returned = Arms
  /\ pc' = "pass"
  /\ acc' = Converged
  /\ routes' = Append(routes, RouteOf(Converged))
  /\ returned' = << >>
  /\ log' = [log EXCEPT ![Len(log)].advised = Converged.steer]
  /\ UNCHANGED <<pass, meter, bound, outcome>>

\* The rest of an iteration: meter, `pass` step, narrowed budget, the two ways
\* to leave the loop, and the check after it.
ClosePass ==
  LET closed  == Advanced(acc, pass)
      spent   == MeterPass(meter, acc.last # None)
      budget  == Narrowed(Budget, closed.profile.caps)
      tripped == Tripped(budget, spent)
      stops   == \/ tripped # NoBound
                 \/ IsTerminal(closed)
                 \/ pass + 1 >= Budget["max_iterations"]
  IN  /\ pc = "pass"
      /\ acc' = closed
      /\ meter' = spent
      /\ pass' = pass + 1
      /\ bound' = IF tripped # NoBound \/ ~stops THEN tripped
                  ELSE IF closed.counts["passes"] >= Budget["max_iterations"]
                    THEN "iterations" ELSE NoBound
      /\ pc' = IF ~Legal(budget) THEN "failed"
               ELSE IF stops THEN "report" ELSE "plan"
      /\ UNCHANGED <<returned, routes, outcome, log>>

\* The report step, and the outcome with the bound folded in after it.
Report ==
  LET classified == Classify(acc)
  IN  /\ pc = "report"
      /\ pc' = "done"
      /\ outcome' =
           IF bound \notin GracefulBound \cup {NoBound} THEN "exhausted"
           ELSE IF bound # NoBound /\ classified = "stalled" THEN "exhausted"
           ELSE classified
      /\ UNCHANGED <<pass, acc, returned, routes, meter, bound, log>>

\* A collaborator the host supplies raises an error, and the run is given up.
StepFails ==
  /\ \/ pc \in {"plan_first", "research", "attempt", "report"}
     \/ pc = "plan" /\ Plans(acc, pass)
     \/ pc = "evaluate" /\ "tune" \in Arms \ DOMAIN returned /\ Tuner = "host"
  /\ pc' = "failed"
  /\ UNCHANGED <<pass, acc, returned, routes, meter, bound, outcome, log>>

Next ==
  \/ PlanFirst
  \/ Research
  \/ BeginPass
  \/ \E r \in Reports : Attempt(r)
  \/ \E arm \in Arms : ArmStep(arm)
  \/ Converge
  \/ ClosePass
  \/ Report
  \/ StepFails

\* The driver is one thread that never waits on anything but its own steps.
Spec == Init /\ [][Next]_vars /\ WF_vars(Next)
-----------------------------------------------------------------------------
(***************************************************************************)
(* TypeOK: the accumulator, the record of the run and the driver's own     *)
(* variables keep their shapes, every counter inside its width.            *)
(***************************************************************************)
PC == {"plan_first", "research", "plan", "attempt", "evaluate", "pass",
       "report", "done", "failed"}

Steer == {"", "machinery", "fresh", "narrow"}

Line == {"research", "unreadable", "solved", "confabulated", "no_artifact"}

Option(S) == {x \in Seq(S) : Len(x) <= 1}

Accumulator ==
  [counts : [Counter -> U32], solved : BOOLEAN, expired : {FALSE},
   last : Option(Reports), lessons : Seq(Seq(Line)), steer : Steer,
   scores : Seq(Nat), judged : {"proceed", "steer", "restart"},
   planned : Option(Nat), proposed : Option(Change), profile : ProfileType]

TypeOK ==
  /\ pc \in PC
  /\ pass \in 0 .. Budget["max_iterations"]
  /\ acc \in Accumulator
  /\ DOMAIN returned \subseteq Arms
  /\ \A arm \in DOMAIN returned : returned[arm] \in Accumulator
  /\ routes \in Seq(Route)
  /\ meter \in Meter
  /\ bound \in Bound \cup {NoBound}
  /\ outcome \in Outcome \cup {"none"}
  /\ log \in Seq([report : Reports, briefed : Steer, advised : Steer])

Reporting == pc \in {"report", "done"}

Last(s) == s[Len(s)]

(***************************************************************************)
(* Accounting: wherever the run is, the loop variable, the accumulator's   *)
(* two counts, the meter, the routes and the attempts actually dispatched  *)
(* tell one story, and no run dispatches past its iteration cap.           *)
(***************************************************************************)
Accounting ==
  LET started == IF pc \in {"evaluate", "pass"} THEN pass + 1 ELSE pass
      routed  == IF pc = "pass" THEN pass + 1 ELSE pass
  IN  pc # "failed" =>
        /\ Len(log) = started
        /\ acc.counts["attempts"] = started
        /\ acc.counts["passes"] = pass
        /\ meter.iterations = pass
        /\ meter.effective = pass
        /\ Len(routes) = routed
        /\ Len(log) <= Budget["max_iterations"]

\* The reports so far, and the passes among them: those since something last
\* came back, those of them the machinery failed, the claims of the first n
\* that nothing backed, and the delegations that left an artifact.
Brought == [i \in DOMAIN log |-> log[i].report]

Since(rs) == {i \in DOMAIN rs : \A j \in i .. Len(rs) : ~Informative(rs[j])}

Failing(rs) == {i \in Since(rs) : Blocked(rs[i])}

Unproven(rs, n) == {i \in 1 .. n : Claimed(rs[i]) /\ ~Corroborated(rs[i])}

Wrote(r) == {k \in DOMAIN r : r[k].wrote}

Written(rs) == UNION {{i} \X Wrote(rs[i]) : i \in DOMAIN rs}

\* The passes of a kind that the last one, n, ends in a row.
InARow(kind, n) == {i \in 1 .. n : i .. n \subseteq kind}

(***************************************************************************)
(* StreaksMatchHistory: a counter a route is taken on is at least the      *)
(* passes of its kind that end the history in a row, and at most all of    *)
(* its kind there were: for blocked and unproductive since something last  *)
(* came back, so that evidence zeroes both.  This much of the counters the *)
(* code and the comments on them (state/types.rs:23-29) agree on.          *)
(* established counts every artifact, to the top of its width.             *)
(***************************************************************************)
StreaksMatchHistory ==
  LET n       == Len(log)
      judged  == IF pc = "evaluate" THEN n - 1 ELSE n
      failing == Failing(Brought)
      Between(c, kind, last) ==
        /\ Cardinality(InARow(kind, last)) <= acc.counts[c]
        /\ acc.counts[c] <= Cardinality(kind)
  IN  pc # "failed" =>
        /\ Between("blocked", failing, n)
        /\ Between("unproductive", Since(Brought) \ failing, n)
        /\ Between("unverified", Unproven(Brought, judged), judged)
        /\ acc.counts["established"]
             = Least(Cardinality(Written(Brought)), MaxU32)

(***************************************************************************)
(* ConclusionEarned: the run holds itself solved exactly when its latest   *)
(* attempt brought a claim backed by the claimant's own artifact, and such *)
(* an attempt is always the run's last.                                    *)
(***************************************************************************)
ConclusionEarned ==
  LET earned == {i \in DOMAIN log : Corroborated(log[i].report)}
  IN  /\ earned \subseteq {Len(log)}
      /\ acc.solved => earned # {}
      /\ pc \in {"plan", "pass", "report", "done"} /\ earned # {} => acc.solved

(***************************************************************************)
(* VerdictHonest: a finished run's outcome is one its history supports.    *)
(***************************************************************************)
VerdictHonest ==
  pc = "done" =>
    CASE outcome = "success"   -> acc.solved /\ Corroborated(Last(log).report)
      [] outcome = "blocked"   -> ~Informative(Last(log).report)
      [] outcome = "exhausted" ->
           \/ bound # NoBound
           \/ Len(log) >= acc.profile.thresholds["max_attempts"]
      [] outcome = "stalled"   -> bound = NoBound /\ ~acc.solved
      [] OTHER                 -> FALSE

(***************************************************************************)
(* StopsWhenTold: the run takes a terminal route at most once, at its last *)
(* pass, and ends only there or at a bound.  The tuner is the shipped one: *)
(* it moves no threshold that ends a run.                                  *)
(***************************************************************************)
StopsWhenTold ==
  /\ \A i \in DOMAIN routes : routes[i] \in TerminalRoute =>
       i = Len(routes) /\ pc \in {"pass", "report", "done", "failed"}
  /\ Reporting => bound # NoBound \/ Last(routes) \in TerminalRoute

(***************************************************************************)
(* RulesAskOnce: the shipped tuner spends one proposal on a cap or a       *)
(* threshold, whatever the fold answers it, and asks for no mute it has    *)
(* been granted (presets/tuner.rs:96-115, :171).  A mute refused it asks   *)
(* for again.                                                              *)
(***************************************************************************)
RulesAskOnce ==
  LET history == acc.profile.history
  IN  \A i, j \in DOMAIN history :
        i < j /\ history[i].change.field = history[j].change.field =>
          history[i].change.kind = "mute" /\ ~history[i].applied

(***************************************************************************)
(* PlanStaysFresh: an attempt never works from a board planned a full      *)
(* interval ago or more, and always from one planned at least once.        *)
(***************************************************************************)
PlanStaysFresh ==
  LET interval == acc.profile.thresholds["plan_interval"]
  IN  pc = "attempt" =>
        /\ acc.planned # None
        /\ interval # 0 => pass - acc.planned[1] < interval

(***************************************************************************)
(* FoldAgrees: on the candidates of a run's own arms the barrier's general *)
(* fold refuses nothing, and gives what this model's Converged does,       *)
(* whatever order the arms finished in.                                    *)
(***************************************************************************)
General == INSTANCE LoopFold

Rank(arm) == CASE arm = "judge" -> 1 [] arm = "reflect" -> 2 [] OTHER -> 3

ArrivalOf(order) ==
  [i \in DOMAIN order |-> [arm |-> Rank(order[i]), candidate |-> returned[order[i]]]]

FoldAgrees ==
  pc = "evaluate" /\ DOMAIN returned = Arms =>
    \A order \in General!SetToSeqs(Arms) :
      LET folded == General!Merge(acc, ArrivalOf(order))
      IN  folded.ok /\ folded.state = Converged

(***************************************************************************)
(* AmendsAsSpecified: what a run does to its profile is what module        *)
(* Amending allows, so every property of that module holds of a run.       *)
(***************************************************************************)
Amend == INSTANCE Amending WITH
  BoundsSets <- {Bounds}, Budgets <- {Budget}, Proposals <- Change,
  preset <- Bounds, deployment <- Bounds, budget <- Budget,
  profile <- acc.profile

AmendsAsSpecified == Amend!Spec

(***************************************************************************)
(* Promise, Finishes: a run is a goal run, whatever the specialists bring  *)
(* back and whatever tunes it, and a goal run comes to an end.             *)
(***************************************************************************)
Goal == INSTANCE GoalRun WITH
  Cap      <- Budget["max_iterations"],
  Verdicts <- Outcome,
  phase    <- IF pc = "done" THEN "stopped"
              ELSE IF pc = "failed" THEN "failed" ELSE "working",
  passes   <- pass,
  earned   <- \E i \in 1 .. pass : Corroborated(log[i].report),
  verdict  <- outcome

Promise == Goal!Spec

Finishes == Goal!Ends
=============================================================================
