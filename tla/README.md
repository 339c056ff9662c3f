# TinyLoops in TLA+

TinyLoops (`src/crates/tinyloops`) runs a goal as a loop: plan, hand work to
specialists, let several *arms* judge what came back at the same time, fold what
they say into one accumulator, take a route, repeat until a route or a budget
says stop. Around the loop are services its threads share: a mailbox, memory, a
workspace, tools, a recorder. This directory holds TLA+ modules for the loop and
those services, the TLC configurations that check them on small instances, and
proofs that TLAPS checks for every value of the constants. `PROJECT.json` maps
each definition to the lines it stands for. Paths below are relative to
`src/crates/tinyloops/src/`.

## The system

| Part | State | Operations | What makes it hard |
| --- | --- | --- | --- |
| Routing policy (`policy/mod.rs`, `ladder.rs`, `types.rs`) | none | `route`, `is_terminal`, `classify`, `plans_on`, the jq ladder and terminal condition | one decision written in two languages |
| Budget (`budget/`) | a meter | `RunBudget::new`, `narrow`, `tripped`; `Meter::pass`, `model_call`, `tool_call`, `advance` | saturation, nested caps that must not contend |
| Profile (`policy/profile.rs`, `bounds.rs`, `amendment.rs`) | thresholds, caps, muted arms, history | `fold`, `check`, `Bounds::narrow`, `apply_to`, `write` | long sequences of single-field changes; a tuner may be a host's |
| Loop state (`state/`) | the accumulator: counters, flags, narrative fields | `delta_from`, `apply`, `merge`, `claimed_from` | folding what several arms did to one base |
| Arms (`arm/`, `presets/steps.rs`) | candidates waiting at the barrier | `evaluate`, `ArmSet::merge`, `ArmStep`, `Converge`, `Advance` | any finishing order, two authors of a field, muting |
| Shipped steps (`orchestrate/steps.rs`, `presets/arms.rs`, `presets/tuner.rs`) | none | plan, gather, attempt, reflect, judge, tune, report | counters over a history of mixed reports |
| Driver (`presets/assembled.rs`) | pass, meter, bound | `drive`, `evaluate`, `run_step` | the order of the checks that end a pass, and of the events they record |
| Mailbox (`harness/types.rs`) | queue, drop count | `post`, `collect`, `drops` | posters racing each other and the loop |
| Delegation (`harness/mod.rs`, `orchestrate/mod.rs`, `role.rs`) | tickets, script cursors | `spawn`, `peek`, `steer`, `settle`, `notes`, inline `dispatch` | arms calling at once, two modes that must agree |
| Board (`orchestrate/board.rs`) | tasks and their status | `add`, `restate`, `settle`; briefs | re-planning must keep progress; rows found by their words |
| Termination (`loops/termination.rs`) | latches in a tree | `evaluate`, `&`, `\|`, `reset`, `expression` | latches that outlive the state, a rendering that must agree |
| Memory (`memory/`) | a store, the probe cache, histories and their cuts | `remember`, `ProbeCache::verdict`, `record`, `clear`; `condense`, `view` | a store that lies, a cached verdict that outlives it, writers sharing the cache |
| Workspace (`workspace/`) | files, the touched list, checkpoints | `write`, `mark`, `state`; the bounded capture of a command's output | locks taken in turn, a step of several failing, odd and zero limits |
| Tools (`tools/`, evidence of `ledger/types.rs`) | history, requery counters, receipts | `invoke`, its recoveries; `RunSpec::record`, `satisfy` | one bound shared by all callers, four ways for a call to fail |
| Recorder (`observe/`) | current pass, accounting, journal, sink | `record`, `unpaired`, `report` | an event moves three things under three locks |
| Graph builder and signature, step registry, ledger merge, errors, bus module | | | not modelled, see below |

The driver owns the accumulator and hands it to one step at a time; a step hands
it back. Arms get a copy of it and hand back a candidate; `Converge` turns
candidates into movements and narrative claims and folds them. The attempt
collects the mailbox and calls the specialists. The tuner is an arm whose
proposal waits in the accumulator until the `pass` step folds it into the
profile, whose caps the driver then narrows its budget by. Everything the driver
does it announces to the recorder, and the engine's callbacks and the harness
record into the same one from their own threads. The graph form of the loop
evaluates the jq renderings; its engine is outside `src/`.

Correctness, part by part: the two writings of the route agree; a budget, once
legal, stays so and a tripped bound stays tripped; a profile never leaves its
bounds; the fold does not depend on order and loses nothing; counters say what
the history says; a run ends, only when told, and claims success only if
earned, and its journal tells all of that; no note, task, delegation, landed
write, failed call or recorded event disappears uncounted or is given out twice;
a stale verdict is believed for a bounded time.

## Modules

Operators without state, shared by the others:

- `Saturating` — the u32 and u64 arithmetic, with the widths as constants.
- `Policy` — the decision in Rust (`RouteOf`, `IsTerminal`, `Classify`,
  `PlansOn`) and in jq (`Ladder`, `TerminalCondition`). An address that names
  nothing yields the sentinels the code puts there.
- `Budget` — `Legal` is `RunBudget::new`, `Narrowed` is `narrow`, `Tripped` is
  `tripped`, and one operator per meter call.
- `Profile` — `Fold` is `LoopProfile::fold`, refused in the code's order;
  `Permits`, `Tighter`, `ApplyChange`, `WriteCap`, `BreaksBudget`.
- `LoopFold` — the deltas, claims and merge of `state/mod.rs` and the sorted fold
  of `arm/mod.rs`, over any set of arms. `Place` is where an outcome stands once
  they are sorted by arm.

The loop and its decisions:

- `FanIn` — one superstep: arms finish in any order (`ArmStep`) against one base,
  then `Converge` folds what arrived. `Declarable` is what `ArmSet::new` accepts;
  a move is what an arm does to its copy.
- `Metering` — a budget and a meter under any order of spending. `turn` bounds the
  tool calls one model call issues, the reach the budget's check is about.
- `Amending` — a profile under any stream of proposals, with a preset's bounds
  narrowed by a deployment's.
- `DriveLoop` — a whole run. `pc` is the step the driver is at; each action is a
  step with what the driver does around it: `PlanFirst`, `Research`, `BeginPass`
  (head of the iteration and the plan inside it), `Attempt`, `ArmStep`,
  `Converge` (and the route taken from it), `ClosePass` (meter, `pass` step,
  narrowed budget, terminal check, iteration cap), `Report`, and `StepFails` for
  an error of a collaborator the host supplies or of the report step. `log` is history only.
- `Journal` — `DriveLoop` with the events `run_step`, `evaluate` and `drive`
  record. `JournalNext` conjoins each action with its events and holds the arms to
  the order the in-process driver runs them in. `Read` is the readers of
  `observe/mod.rs` taken together, an event at a time: `Pair` is `unpaired`, `Note`
  is `report`, `Tally` the amendments and movements the events carry.
- `Stopping` — a condition built, asked, composed and reset while the state moves.
  The tree of conditions is a sequence, each after those inside it, and what the
  code computes by descending it is a function over its places.
- `GoalRun` — the abstract specification of a run: passes within a cap, none after
  the goal is earned, one verdict at the end; `Ends` is that it comes. It models no
  code.

Handing work out:

- `Mailbox` — `Accept` and `Drop` are the two ways through `post`; `Tell` is the
  observer, told after the lock is released; `Collect` is an attempt beginning.
- `Delegation` — tickets and inline dispatch side by side over one script. A
  mutex makes a call one step; an inline batch is served brief by brief, as its
  lock is taken.
- `Board` — plan, brief and attempt over tasks found by id or by words.

Services, each operation cut where the code lets go of a lock:

- `Memory` — `Store`, `ReadClock`, then `Believe` a cached verdict or `Probe` and
  `Record` one; `Flip` is the store beginning or ceasing to drop writes.
- `Condense` — `Remember` and `Compact` over a history named by places.
- `Workspace` — `Propose` (with every refusal ahead of the first change), `Land` in
  two steps for the two locks, `Checkpointed`, `Mark`.
- `Capture` — `push_byte` by its three branches, over bytes named by place.
- `ToolUse` — `invoke` by its ways out, `RecordFailure` and `CountRequery` under
  their two locks, evidence under receipts.
- `Recorder` — `record` as the store or the charge, `Push`, `Emit`; the driver
  announces passes, workers stamp nodes and charge calls.

`DriveLoop` uses `Profile` (hence `Policy` and `Budget`), is checked against
`LoopFold` at its barrier, and instantiates `Amending` and `GoalRun` for its two
refinements, `Promise` being the safety of the second and `Finishes` its `Ends`.

`MC*` modules give the constants values. Four of them, `MCFolds`, `MCStanding`, `MCOrchestrator` and `MCServices`, run several components side by
side; these share no state and call each other nowhere, so a variable `subject`
names the one that moves while the others rest, and nothing is lost by not
interleaving them. `DriveClaims`, `BoardClaims` and `ToolClaims` hold the
statements of the repository that a run refutes; `BoardClaims` adds a history
variable, what the last step planned with. `*Proofs` modules hold the
theorems.

Text is abstracted to what a step tells apart: a report is a sequence of
delegations, each with how it ended, whether its reply is empty, plain or holds
the SOLVED marker, and whether it left an artifact; a lesson, steer or statement
is one of a few values. Operators named in a comment as a *mutant* are wrong
versions of the definition after them, kept to show that a property notices.

## Runs

| Run | What it shows | Bounds |
| --- | --- | --- |
| `Folds` | the barrier's fold gives one answer for every finishing order, errors too; each counter comes out as in some sequential order; a narrative field has one author. A profile keeps to both bounds, its amendment budget and legal caps, and its history replays to it | 3 arms, 6 moves, bases at 0, inside and at `MaxU32` = 8; two overlapping bounds each side, 14 proposals, 4 passes |
| `Drive` | the shipped loop with its tuner and journal: one story told by all counts, each counter between its kind's passes in a row and in all, solved is earned, the run ends and only when told, one proposal for each cap and threshold whatever the answer, a fresh plan, the general fold agrees, the journal names a failure and its report tells the run; `Promise` (refines `GoalRun`) and `Finishes` | 6 reports, 4 passes, muting window 2 so that a judge is muted and then missed, room for 1 amendment so that caps, thresholds and mutes asked for later are refused |
| `DriveHost` | a host's tuner may end the run and still verdicts hold; the profile refines `Amending` | 4 proposals, 5 reports, 3 passes |
| `Standing` | bounds stay tripped and the tool cap is out of reach; the first ending is reported and the rendered rule agrees; a stale verdict is believed less than a ttl | every legal budget of 8, `MaxU32` = 5; conditions of up to 2 compositions, 3 moves, 8 states; 2 writers, 2 scopes, ttl 2, one flip of the store |
| `Orchestrator` | nth entry for nth spawn, one outcome per ticket, the two modes agree; no task lost or left without a brief, and a re-plan moves no progress except to close | 2 arms, 2 calls each, five names, one extending another, capacity 1; 6 decompositions, 5 passes, interval 2; one batch with two briefs to one role |
| `Services` | nothing lost silently: notes, landed writes, failed calls, journal lines; requeries, spend and stamps exact under interleaving; both ends of a capture; records forgotten once | 2 posters of 3 notes, capacity 2, 3 collections; limits 0 to 5 and 8 bytes; 4 records; 2 authors of 2 writes; 2 callers of 3 calls, 1 requery; a driver of 2 passes and 2 workers |

The counters of a run move by at most one a pass (artifacts by as many as a
report has), every decision compares one counter with one threshold, and every
threshold of these instances lies within the passes allowed, so each way of
stopping, alone and together with a bound, occurs. Two arms are enough for a
conflict and three for an order; two threads at a service are enough for one to
be caught between two locks by the other; a capacity, limit, ttl or requery bound
lies below what the threads can do in a run, so it is reached and passed.
`MaxU32` is small so that saturation happens.

Where a statement and the code part, the passing runs keep to what both agree on,
and the rest is a run below that expects a violation. `StreaksMatchHistory` bounds
a counter by the passes of its kind that end the history in a row, which the
comments ask for, and by all of that kind since something last came back, which
the code counts. `RulesAskOnce` is about caps and thresholds whatever the fold
answered, and about mutes that were granted. `PlanKeepsProgress` lets a re-plan
close an outstanding task, though the code's never does.

`CHECK_DEADLOCK FALSE` stands where the system stops: a run that reported, a
superstep folded, threads that have used up the calls their bound gives them.

The type invariants of `Metering`, `Amending`, `FanIn`, `DriveLoop`, `Delegation`
and `Board` are theorems, those of `Mailbox`, `Memory`, `Stopping` and the services
part of their proofs' invariants.

Six statements of the repository about itself are refuted by a run each:

| Run | Stated | What the code does |
| --- | --- | --- |
| `ClaimSteer` | the judge's steer is read by the next pass's briefs (`presets/steps.rs:151`) | the `pass` step clears it first, so no brief ever holds one |
| `ClaimBounded` | a run stopped by a bound is never a success (`presets/assembled.rs:351`) | it is, when its last pass solved the goal |
| `ClaimStreaks` | `blocked` and `unverified` count consecutive passes, and a pass that breaks the streak zeroes its counter (`state/types.rs:23`, `:62`, `:73`) | a pass the machinery did run but that brought nothing leaves `blocked` standing, and nothing in the shipped loop resets `unverified`, which is a total (`presets/arms.rs:124`) |
| `ClaimAsked` | a refused proposal is not made again (`presets/tuner.rs:92`) | the silence rule asks only whether the judge is muted (`:171`), so bounds that refuse the mute are asked every pass |
| `ClaimCloses` | a re-plan may add, restate or close a task (`orchestrate/board.rs:15`, `docs/specs/orchestrator.md:194`) | a task the board knows is restated and its status ignored (`orchestrate/steps.rs:256`) |
| `ClaimRan` | a receipt proves the tool executed (`tools/types.rs:349`) | a call whose arguments did not parse gets one too |

Met while modelling, and modelled as the code has it, without a run of their own:

- The driver records a verdict at every pass with the last score there is
  (`presets/assembled.rs:290`): once the judge is muted its last score is recorded
  again, where `observe/types.rs:774` calls a report's scores the ones the judge gave.
- A snapshot lists writes, not files (`workspace/mod.rs:323`): a file written twice is
  listed and counted twice, where `workspace/types.rs:255` speaks of files touched.
- The reach of the model calls saturates (`budget/mod.rs:101`), so a tool-call cap of
  u32::MAX passes beside any number of model calls, where `budget/types.rs:20` says a
  cap the run can reach first is rejected. `ToolCallsUnreachable` and `NeverTheToolCap`
  stay below that.
- The attempt counts a silent pass before the judge reads the counter and counts
  it again (`presets/arms.rs:212`), so the first silent pass is restarted where
  `presets/test.rs:358` says, of a state no attempt has touched, it is steered.
- Nothing moves `restarts`, where `docs/specs/routing-and-policy.md:148` says a
  restart does, so nothing bounds restarts but the attempts.
- An amendment is folded before the terminal check of the same iteration, where
  `docs/specs/adaptation.md:238` has it wait for the next pass.
- The reflection looks for the marker in a failed delegation's reply too, where
  `orchestrate/steps.rs:170` says such a reply is not evidence. No report of
  these instances puts the marker there, and `ConclusionEarned` asks
  for the claimant's own artifact, not how its delegation ended.
- Any arm's `solved` is folded, where `arm/types.rs:105` says one arm may end a
  run: what an arm declares is checked once, when the set is built.
- A brief finds its task by its words (`orchestrate/steps.rs:391`): of two tasks
  with one statement one stays open, and a settled one is re-opened.
- The spawns of a role `a#b` are counted as spawns of `a` (`harness/mod.rs:451`).
  `NthEntryForNthSpawn` is about the roles no other's name extends so.
- A batch whose third brief is refused has already advanced the cursors of the
  first two (`orchestrate/mod.rs:165`), and a note steered to a delegation already
  collected is accepted and never read (`harness/mod.rs:482`).
- The barrier is not announced as a step, though `run_step` says every step
  announces both its ends.
- The loop's end is stamped with the count of passes, one past the last pass that
  ran, so `report` gives a profile to a pass that never ran; `ReportTellsTheRun`
  says exactly that (`read.report.passes = 0 .. pass`).
- `record` stores the pass before it journals its announcement, so a node stamped
  with a pass may precede it in the journal, by one pass at most
  (`StampNearlyAnnounced`).
- The capability path into the tool set (`ToolSet::tool`) counts no requeries.
- A verdict of "not durable" refuses writes the store did keep, for up to a ttl
  after it recovered; and a slow writer's older verdict overwrites a newer one.
  `BeliefBounded` holds of both.
- The layout files a proposal under its last segment, so two proposals with one
  basename land on one path, the second over the first.

## Fairness

`DriveLoop` has `WF_vars(Next)` and `Journal` `WF_journalled(JournalNext)`: the
driver is one thread in one function, and a step either returns or raises an
error (`StepFails`). That a specialist's dispatch returns is the contract of
`Specialists`; the shipped one answers from a table. `Finishes` needs no more.
`Mailbox`, and `AllSpec` of `MCServices`, have `WF_vars(Tell(p))` for each
poster: a poster between a drop and its report is inside `post`, which calls the
observer before it returns. Nothing obliges anybody to post or to collect. The
other specifications make no liveness claim and have no fairness.

## Proofs

All for arbitrary constants, under the named assumptions of the modules:
`WidthAssumption` (0 < u32::MAX <= u64::MAX), `CallsPerTurnAssumption`,
`ArmsAssumption`, `StandingAssumption`, `ServicesAssumption`,
`OrchestratorAssumption` and each other module's typing of its parameters: numbers
where numbers are meant, finitely many threads, a roster without repetition. A
theorem that needs more says so in its statement.

- `ProfileProofs` — `LadderAgrees` and `TerminalConditionAgrees`: on an accumulator
  with every counter and threshold present, jq and Rust decide alike, whatever the
  thresholds. The argument is a lookup lemma and a case split. Then lemmas for the
  modules below: a fold by cases, what one change moves, a written cap, narrowing
  two legal budgets, a tighter bound permits what both do.
- `AmendingProofs` — `TypeCorrect`, `BudgetStaysLegal`, `AmendmentsBounded`,
  `NobodyWidens` and `RecordExplains`. The legality of the narrowed budget follows
  from that of both sets of caps (`NarrowedIsLegal`), and that is kept because a
  fold refuses a cap that breaks its own set. For the record, the invariant is that
  some trace of profiles replays it and ends like the profile the run is on; a
  change does the same to profiles that differ only in history and revision
  (`ChangeAlike`), so a fold extends the trace, and two replays of one record are
  equal by the least place they could differ at.
- `FanInProofs` — `TheFoldForgetsTheOrder`. Each outcome has a place of its own and
  every place is taken (`PlacesArePermuted`), so two arrivals of the same outcomes
  sort to one sequence (`SameSort`). `Gathered` adds that the arms in hand are
  declared, are in once each, and that the barrier's answer is the merge of them.
  `TypeCorrect`, `NarrativeIsReadBack` and `FoldLinearizes` need besides that every
  candidate is its arm's move on the base (`Carried`), and the base a state
  (`ArmsAssumption`). A claim reads back exactly what its arm wrote, less what stood
  so already (`ClaimsReadBack`); so a field is contested exactly when two arms moved
  it (`ContestedFields`), and otherwise the claims pooled are its writer's. For a
  counter, the total without a reset is the number of bumps, or nothing where the
  base is at its width; with one, base and total make the number of bumps at most.
  An order that runs the arms that only rewrite, then a reset, then as many bumps as
  the result, leaves that result.
- `DriveLoopProofs` — `TypeCorrect`, `OneStory`, `AmendsByTheRules`,
  `KeepsThePromise`, `NoUnearnedSuccess`, `EndsOnlyWhenTold`,
  `CountersTellTheHistory`, `BoardsAreFresh`, `VerdictsAreHonest`,
  `NothingAskedTwice`, `NothingRefusedIsReasked`, `ArmsFoldAsDriven`, and of the journal `JournalNamesTheFailure`
  and `JournalTellsTheRun`. `Accounting` is not inductive: what an arm returned becomes
  the accumulator one step later, so the invariant `Inv` adds that every candidate
  carries the accumulator's attempts and passes, that candidates exist only while
  a pass is evaluated, that a working run has a pass left, that an attempt left a
  report, and that the profile has answered at most one proposal a pass. The last
  gives the guard of `Amending`'s one action, hence the refinement. For
  `ConclusionEarned`, `Concluding` adds that no bound lets the reflect arm be
  muted and none was, so that of the candidates only its own differs in `solved`,
  exactly on a corroborated claim of the attempt just made; and a pass that
  concluded takes a terminal route, whatever the amendment it folds does to the
  thresholds, so no attempt follows it. With `Inv` that is what each step of
  `GoalRun` asks. `CountersTellTheHistory` follows each counter from the attempt
  that moves it through the candidates to the fold. Its invariant is what the code
  counts exactly (`CountersMatchHistory` of the proofs: all passes of the kind since
  something last came back, every claim nothing backed, every artifact as far as a
  u32 counts them); the bounds follow, as passes in a row are some of those.
  `Asking` says that a field is proposed again only after a refused mute, and that
  a mute was refused only by bounds that do not grant it: `NothingAskedTwice` is the
  first, for any bounds, and `NothingRefusedIsReasked` what the second leaves where
  the mute is granted.

  Three hold under hypotheses, stated with them. `EndsOnlyWhenTold` assumes a tuner
  that is not a host's and a restart ceiling above zero: `Told` adds that of the
  thresholds only `stuck` is ever moved and that restarts stay at zero, so the route
  taken at the barrier and the terminal check made after the amendment decide alike.
  A host's tuner that raises the ceiling a pass was routed by is outside the theorem;
  so is one that changes the plan interval for `BoardsAreFresh`. `VerdictsAreHonest`
  assumes that neither the blocked threshold nor the least a bound lets it be is
  zero, as zero makes a stall of a run that was never blocked; the shipped bounds
  leave that threshold closed. `NothingRefusedIsReasked` assumes `MuteGranted`: the
  bounds allow muting the judge and leave room for the amendments asked for first.
  All four shipped presets do; `ClaimAsked` is of bounds that do not. Like
  `NothingAskedTwice` it is about the shipped tuner, or none.

  `ArmsFoldAsDriven` is about the two ways a superstep is folded, `DriveLoop`'s short
  one over its three arms and the general one of `LoopFold` over any. `Handed` says
  that what an arm returned is a candidate it can make of the accumulator in force.
  Each narrative field is then moved by its one owner, so nothing is contested; the
  outcomes sort into the order of the names, whatever order they finished in; the
  movements add up to the same sum taken in any order; and a latch closes only to
  conclude.

  The two theorems about the journal are of `JournalSpec`, whose steps are `Next`'s,
  so every invariant of the run holds there. Reading one more event is one more step
  of the reading (`ReadsOn`), so the invariant `Journalled` is about what has been
  read, never about places in the journal: nothing is open between two steps, and
  after a failure only the unit that raised; routes, bound and revisions read are
  those of the run; every pass before the current one has been stamped on something;
  and the merged movements are the counters, since of the counters only arms move
  only the reviewer moves one, and then within its width (`OneArmCounts`).
- `OrchestratorProofs` — `TypeCorrect`, `ScriptsAreDealtInOrder`,
  `CollectorsAgree`, `TwinsHold`; and of the board `BoardsAreBoards`,
  `NobodyIsForgotten` and `ProgressKept`. `Handing` says that every ticket is
  numbered below the count of its role's tickets, so none is given twice, whatever
  the names; that what was heard of a ticket is what its own work comes to; that of
  a role no other's name extends, the tickets are the accepted briefs in order; and
  that the inline cursor is the number of briefs lent. A board a decomposition has
  met continues the one before it, row by row (`Continues`), for each task stated
  and so for the chain of them; the outstanding rows leave none out, by the same
  climb over the rows; and cards dealt round fall in even hands, since shifting
  one hand by its distance to another puts all of it but its first card inside
  the other (`EvenHands`).
- `StandingProofs` — of the meter `TypeCorrect`, `ReachedForGood`, `MetersAgree` and
  `NeverTheToolCap`. The last needs `FanOutFits`: the model calls of the budget
  times the calls of a turn fit in a u32. That is where `RunBudget::new`'s
  saturating product is the product; without it the theorem is false. The
  invariant bounds the tool calls by the model calls made, less the rest of the
  turn in progress. The composed run takes the meter's steps only (`MeterRuns`).
  Then `BeliefHolds`, `OneEndingHolds`, `HeadHolds`. The memory's
  invariant says that every cached verdict has a probe of its scope no earlier
  than its stamp that came to the same, and that a writer told something by the
  cache was within a ttl of that; overwriting a newer verdict by an older one
  keeps it, as the older one has a probe of its own. Of a condition, `Composed`
  says that what is inside a condition stands before it; so the function that says
  whether it holds and the one that renders it are determined place by place, and
  agree at each (`RenderingAgrees`). The latch reports the first state it held for,
  because `evaluate` asks nothing once it has fired.
- `ServicesProofs` — of the mailbox `CapacityHolds`, `EveryDropCounted`,
  `OrderKept`, `NoNoteVanishes`, and eight theorems about `AllSpec`. No-loss is not
  inductive alone: it needs that the notes a poster's number covers are exactly
  those taken or known dropped, that numbers are not reused, and that a poster
  about to tell tells of its latest. A step of the composition is a step of one
  service by its own rules or leaves it alone; each service then has an invariant
  of its own. `Window`: the capture's window fills only after its head and drops
  only when full. `ToolsInv`: no more is fed back than the counter has reached, and
  a call being counted has its message. `WritesInv`: an author in a write has a
  path, and landings split into settled and in flight. `CutsOrdered`: cuts rise,
  and what a cut forgot lies between it and the one before. `RecorderInv`: a
  thread's journalled numbers are those below its hand, pushed hands are the
  journal's latest of their thread, and the current pass is at most one past the
  announcements in the journal.

Where a definition recurses over a sequence, the proof does what induction would:
the set of places at which the claim fails has a least one, which is not the first
and follows from the one before (`Smallest`, `Climbs`). `Chaining` has both, and
that a chain of functions has its values (`Chains`), which says what a recursive
function of a model comes to, place by place.

No run repeats what `ProfileProofs`, `MetersAgree` and `AmendmentsBounded` prove
in general; the last is part of `WithinEveryBound`.

Only model-checked is liveness: `DropsReported` and `Finishes`, which are about
fairness and `ENABLED`. Every other property of a passing run is a theorem, for all
constants, under the hypotheses its statement names.

## Not modelled

- The graph builder, the signature and the engine: the builder returns data, and
  what fans out, replays, waits for approval or resumes does so in a dependency
  whose source is not here.
- The step registry (its write capability is checked by the compiler), errors'
  wording, the bus module and its greeting.
- The ledger proper: `merge` keys entries by identity with one writer, `render`
  turns them to text. (`render` cuts to its bound only what it clips; an id is not
  clipped.) The evidence of a run's criteria is in `ToolUse`.
- Of the recorder: capture and redaction, which transform one event, the fan-out
  sink, and the summary. Of the tools: schemas and the reference tools. Of memory:
  recall, search and an absent memory, which read only.
- In the modelled parts: JSON encoding of a report, the text of prompts and
  answers, the pass a drop event names, durations, and the reasons a refusal or
  an event gives. The journal's `Routed.reason` is one of these: it names four
  counters, where the comment at `presets/assembled.rs:279` asks for a route to be
  derivable again from it.

Counters no step of the shipped loop moves (`computational`, `restarts`, the
`expired` flag) stay at their start in `DriveLoop`; `FanIn` and `Stopping` cover
the decisions that read them.

## Plan

Done, in this order: policy and budget; the fold; the driver; profile and
amendments; mailbox; delegation; board; termination; memory, workspace, tools and
recorder; the driver's journal; proofs of the loop's core, of memory and of the
services, of the driver's counters and verdicts, of termination, delegation and
the board, of the fold, and of the journal.

Left:

1. A composition of `Mailbox` and `DriveLoop`: a note posted during a pass reaches
   the briefs of the next one.
2. The ledger's merge by identity, when it has a second writer.
