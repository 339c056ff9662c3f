------------------------------ MODULE Journal ------------------------------
(***************************************************************************)
(* What a run of the driver leaves in its journal (`drive`, `run_step` and *)
(* `evaluate` of presets/assembled.rs, recording the events of             *)
(* observe/types.rs), and what a reader makes of it (`unpaired` and        *)
(* `report` of observe/mod.rs).  Every step of DriveLoop is taken as it is *)
(* there, with the events it records; only the arms are further held to    *)
(* the order the shipped set declares, which is the one the driver runs    *)
(* them in.                                                                *)
(*                                                                         *)
(* The driver is the journal's only writer here.  Several at once are in   *)
(* module Recorder.  The reasons and durations of events are left out.     *)
(***************************************************************************)
EXTENDS DriveLoop

SX == INSTANCE SequencesExt

VARIABLE journal

journalled == <<vars, journal>>

Event(kind, p, about) == [event |-> kind, pass |-> p, about |-> about]

Records(events) == journal' = journal \o events

\* Mutant of Around: a step's end is stamped with the pass the state is in.
AroundAsCounted(step, p) ==
  <<Event("step_entered", p, step), Event("step_finished", acc'.counts["passes"], step)>>

\* run_step: a step is announced, run, and announced again.
Around(step, p) ==
  <<Event("step_entered", p, step), Event("step_finished", p, step)>>

\* What `evaluate` records as merged: the arms' movements, summed.
Summed == [c \in Counter |->
             Movement(c, "reflect") + Movement(c, "judge") + Movement(c, "tune")]

\* The route, and the verdict it was taken on: the latest score, or none yet.
Verdict(a) ==
  <<Event("routed", pass, RouteOf(a)),
    Event("judged", pass, [judged |-> a.judged,
                           score  |-> IF a.scores = << >> THEN 0 ELSE Last(a.scores)])>>

Revision(p, entry) ==
  Event(IF entry.applied THEN "amended" ELSE "amendment_refused", p, entry.change)

\* Mutant of Revised: the whole history is journalled at every pass.
RevisedWhole(before, after) ==
  [i \in DOMAIN after.history |-> Revision(pass, after.history[i])]

\* The amendments the `pass` step folded or refused.
Revised(before, after) ==
  LET old == Len(before.history)
  IN  [i \in 1 .. Len(after.history) - old |-> Revision(pass, after.history[old + i])]

\* A bound met inside the loop is of that pass, one found after it of the next.
BoundMet ==
  IF bound' = NoBound \/ pc' = "failed" THEN << >>
  ELSE <<Event("bound_tripped",
               IF Tripped(Narrowed(Budget, acc'.profile.caps), meter') # NoBound
                 THEN pass ELSE acc'.counts["passes"],
               bound')>>

\* What is on record of a step that raised.
Raised ==
  CASE pc = "plan_first" -> <<Event("step_entered", 0, "plan")>>
    [] pc = "research"   -> <<Event("step_entered", 0, "research")>>
    [] pc = "plan"       -> <<Event("pass_started", pass, ""),
                              Event("step_entered", pass, "plan")>>
    [] pc = "attempt"    -> <<Event("step_entered", pass, "attempt")>>
    [] pc = "report"     -> <<Event("step_entered", acc.counts["passes"], "report")>>
    [] OTHER             -> <<Event("arm_started", pass, "tune")>>

\* The shipped set: reflect, then judge, then the tuner.
Before(arm) ==
  CASE arm = "reflect" -> {} [] arm = "judge" -> {"reflect"}
    [] OTHER -> {"reflect", "judge"}

-----------------------------------------------------------------------------
JournalInit == Init /\ journal = << >>

JournalNext ==
  \/ PlanFirst /\ Records(Around("plan", 0))
  \/ Research /\ Records(Around("research", 0))
  \/ BeginPass /\ Records(<<Event("pass_started", pass, "")>> \o Around("plan", pass))
  \/ \E r \in Reports : Attempt(r) /\ Records(Around("attempt", pass))
  \/ \E arm \in Arms :
       /\ Before(arm) = DOMAIN returned
       /\ ArmStep(arm)
       /\ Records(<<Event("arm_started", pass, arm), Event("arm_finished", pass, arm)>>)
  \/ Converge /\ Records(<<Event("merged", pass, Summed)>> \o Verdict(Converged))
  \/ ClosePass /\ Records(Around("pass", pass) \o Revised(acc.profile, acc'.profile)
                            \o <<Event("pass_finished", pass, "")>> \o BoundMet)
  \/ Report /\ Records(Around("report", acc.counts["passes"])
                         \o <<Event("loop_finished", acc.counts["passes"], outcome')>>)
  \/ /\ pc = "evaluate" => Before("tune") = DOMAIN returned
     /\ StepFails
     /\ Records(Raised)

JournalSpec == JournalInit /\ [][JournalNext]_journalled /\ WF_journalled(JournalNext)

-----------------------------------------------------------------------------
(* Reading the journal, an event at a time.                                *)

Opens(e)  == e.event \in {"step_entered", "arm_started"}
Closes(e) == e.event \in {"step_finished", "arm_finished"}

Unit(e) == IF e.event \in {"step_entered", "step_finished"} THEN "step" ELSE "arm"

\* Recorder::unpaired: an end closes the first open unit of its pass, name and
\* kind, or is an orphan.
Pair(units, e) ==
  LET u  == [pass |-> e.pass, name |-> e.about, unit |-> Unit(e)]
      at == {i \in DOMAIN units.open : units.open[i] = u}
  IN  IF Opens(e) THEN [units EXCEPT !.open = Append(@, u)]
      ELSE IF ~Closes(e) THEN units
      ELSE IF at = {} THEN [units EXCEPT !.orphans = Append(@, u)]
      ELSE [units EXCEPT !.open = SX!RemoveAt(@, CHOOSE i \in at : \A j \in at : i <= j)]

\* Recorder::report, as far as the journal decides it; a pass has a profile
\* from the first event stamped with it.
Note(report, e) ==
  [routes |-> IF e.event = "routed" THEN Append(report.routes, e.about)
              ELSE report.routes,
   scores |-> IF e.event = "judged" THEN Append(report.scores, e.about.score)
              ELSE report.scores,
   bound  |-> IF e.event = "bound_tripped" THEN e.about ELSE report.bound,
   passes |-> report.passes \cup {e.pass}]

\* The passes begun, the amendments with their verdicts, and the movements of
\* all the merges.
Tally(told, e) ==
  [begun     |-> IF e.event = "pass_started" THEN told.begun + 1 ELSE told.begun,
   revisions |-> IF e.event \in {"amended", "amendment_refused"}
                   THEN Append(told.revisions,
                               [change |-> e.about, applied |-> e.event = "amended"])
                   ELSE told.revisions,
   merged    |-> IF e.event = "merged"
                   THEN [c \in Counter |-> told.merged[c] + e.about[c]]
                   ELSE told.merged]

Unread ==
  [units  |-> [open |-> << >>, orphans |-> << >>],
   report |-> [routes |-> << >>, scores |-> << >>, bound |-> NoBound, passes |-> {}],
   told   |-> [begun |-> 0, revisions |-> << >>, merged |-> [c \in Counter |-> 0]]]

Reading(read, e) ==
  [units  |-> Pair(read.units, e), report |-> Note(read.report, e),
   told   |-> Tally(read.told, e)]

\* What a reader has made of the events, first to last.
Read(events) ==
  LET read[n \in 0 .. Len(events)] ==
        IF n = 0 THEN Unread ELSE Reading(read[n - 1], events[n])
  IN  read[Len(events)]

-----------------------------------------------------------------------------
(***************************************************************************)
(* OpenUnitsNameTheFailure: at every moment the journal tells which step   *)
(* or arm the run is stuck in, if it is: nothing ends that did not begin,  *)
(* a run that goes on or is over left nothing open, and one given up left  *)
(* open the unit that raised, and no other (observe/mod.rs:597).           *)
(***************************************************************************)
OpenUnitsNameTheFailure ==
  LET read == Read(journal)
      open == read.units.open
  IN  /\ read.units.orphans = << >>
      /\ pc # "failed" => open = << >>
      /\ pc = "failed" =>
           /\ Len(open) = 1
           /\ open[1].pass = pass
           /\ open[1].unit = "arm" <=> Len(log) > pass
           /\ open[1].name = "attempt" => read.told.begun = Len(log) + 1

(***************************************************************************)
(* ReportTellsTheRun: what the journal's report says is what the driver    *)
(* returns: the same bound, the same routes, each with its score, each     *)
(* amendment once, in order and with its verdict; and the movements        *)
(* reported as merged add up to the counters only arms move                *)
(* (presets/assembled.rs:441).                                             *)
(***************************************************************************)
ReportTellsTheRun ==
  LET read == Read(journal)
  IN  /\ read.report.routes = routes
      /\ Len(read.report.scores) = Len(routes)
      /\ read.report.bound = bound
      /\ read.told.revisions = acc.profile.history
      /\ \A c \in {"unverified", "restarts", "banked"} :
           acc.counts[c] = read.told.merged[c]
      /\ pc = "done" => read.report.passes = 0 .. pass
=============================================================================
