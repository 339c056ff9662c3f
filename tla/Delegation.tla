----------------------------- MODULE Delegation -----------------------------
(***************************************************************************)
(* Work handed to specialists, in the two modes the crate ships: spawned   *)
(* through an orchestrator and collected by ticket (harness/mod.rs,        *)
(* orchestrate/role.rs), and dispatched inline (orchestrate/mod.rs).  Both *)
(* answer the nth brief to a role from the nth entry of its script.  Arms  *)
(* call at once; a mutex makes each call atomic, except an inline dispatch,*)
(* which takes its lock once a brief.                                      *)
(***************************************************************************)
EXTENDS Naturals, Sequences, FiniteSets

CONSTANTS
  Arm,                 \* the callers
  Role,                \* the names they may use
  Delegates,           \* the orchestrator's declared set, and the inline one's
  Registered,          \* the roles the registry holds
  Scripts,             \* a sequence of entries for some of the roles
  Extends,             \* pairs <<s, r>>: the name s begins with the name r and #
  Brief,               \* what a specialist may be asked
  Batches,             \* the sequences of briefs an inline dispatch is given
  Capacity,            \* notes a delegation's mailbox holds
  MaxSpawns            \* bound: delegations an arm starts, and batches it sends

Entry == [kind : {"answers", "never", "capped", "fails"}, wrote : BOOLEAN]

ASSUME DelegationAssumption ==
  /\ Delegates \subseteq Role
  /\ Delegates # {}
  /\ Registered \subseteq Role
  /\ DOMAIN Scripts \subseteq Role
  /\ \A r \in DOMAIN Scripts : Scripts[r] \in Seq(Entry)
  /\ Extends \subseteq Role \X Role
  /\ Batches \subseteq Seq(Role \X Brief)
  /\ Capacity \in Nat
  /\ MaxSpawns \in Nat

VARIABLES
  issued,              \* ticket -> the delegation it was issued for
  served,              \* role -> briefs answered inline
  batch,               \* arm -> the briefs it has dispatched and not answered
  calls,               \* arm -> spawns asked for and batches sent
  asked,               \* history: role -> the briefs accepted, in order
  heard,               \* history: ticket -> the outcomes settling it gave
  lent                 \* history: role -> the entries served inline, in order

vars == <<issued, served, batch, calls, asked, heard, lent>>

\* A role nobody scripted has no entries to give.
Script(r) == IF r \in DOMAIN Scripts THEN Scripts[r] ELSE << >>

Least(m, n) == IF m <= n THEN m ELSE n

\* Scripted::outcome: what an entry makes of a brief.
Outcome(entry, brief) ==
  [brief    |-> brief,
   ending   |-> CASE entry.kind = "answers" -> "answered"
                  [] entry.kind = "never"   -> "timed_out"
                  [] entry.kind = "capped"  -> "capped"
                  [] entry.kind = "fails"   -> "failed",
   wrote    |-> entry.wrote /\ entry.kind # "fails",
   replied  |-> entry.kind \in {"answers", "fails"}]

Init ==
  /\ issued = << >>
  /\ served = [r \in Role |-> 0]
  /\ batch = [a \in Arm |-> << >>]
  /\ calls = [a \in Arm |-> 0]
  /\ asked = [r \in Role |-> << >>]
  /\ heard = << >>
  /\ lent = [r \in Role |-> << >>]

-----------------------------------------------------------------------------
(* Spawned work.                                                           *)

Calls(a) == /\ calls[a] < MaxSpawns
            /\ calls' = [calls EXCEPT ![a] = @ + 1]

\* The orchestrator's declared set is asked first, then the registry.
Declared(r) == r \in Delegates
Resolved(r) == r \in Registered
Admitted(r) == Declared(r) /\ Resolved(r)

\* Mutant of Taken: a settled delegation gives its number back.
LiveOnly(r) == Cardinality({t \in DOMAIN issued : t[1] = r /\ ~issued[t].settled})

\* The tickets whose name begins with this role's.
Taken(r) ==
  Cardinality({t \in DOMAIN issued : t[1] = r \/ <<t[1], r>> \in Extends})

\* Delegate::spawn: one more ticket, unless the script has run out.
Spawn(a, r, brief) ==
  /\ Admitted(r)
  /\ Taken(r) < Len(Script(r))
  /\ Calls(a)
  /\ LET ticket == <<r, Taken(r)>>
         work   == [brief |-> brief, entry |-> Script(r)[Taken(r) + 1],
                    notes |-> 0, drops |-> 0, settled |-> FALSE]
     IN  issued' = [t \in DOMAIN issued \cup {ticket} |->
                      IF t = ticket THEN work ELSE issued[t]]
  /\ asked' = [asked EXCEPT ![r] = Append(@, brief)]
  /\ UNCHANGED <<served, batch, heard, lent>>

\* Every way a spawn is refused; nothing but the caller's patience moves.
SpawnRefused(a, r) ==
  /\ ~Admitted(r) \/ Taken(r) >= Len(Script(r))
  /\ Calls(a)
  /\ UNCHANGED <<issued, served, batch, asked, heard, lent>>

\* Delegate::peek.
Status(work) ==
  IF work.settled THEN "settled"
  ELSE IF work.entry.kind = "never" THEN "running" ELSE "ready"

\* Delegate::steer: the delegation's own mailbox, settled or not.
Steer(t) ==
  /\ issued' = IF issued[t].notes < Capacity
                 THEN [issued EXCEPT ![t].notes = @ + 1]
                 ELSE [issued EXCEPT ![t].drops = 1]
  /\ UNCHANGED <<served, batch, calls, asked, heard, lent>>

\* ScriptedDelegate::notes takes what was steered.
Notes(t) ==
  /\ issued' = [issued EXCEPT ![t].notes = 0]
  /\ UNCHANGED <<served, batch, calls, asked, heard, lent>>

Hears(t, outcome) ==
  heard' = [u \in DOMAIN heard \cup {t} |->
              IF u # t THEN heard[u]
              ELSE IF t \in DOMAIN heard THEN heard[t] \cup {outcome}
              ELSE {outcome}]

\* Mutant of Settle: collecting consumes; a second arm hears a timeout.
SettleConsuming(t) ==
  /\ Hears(t, Outcome(issued[t].entry, issued[t].brief))
  /\ issued' = [issued EXCEPT ![t].entry.kind = "never"]
  /\ UNCHANGED <<served, batch, calls, asked, lent>>

\* Delegate::settle: collecting is a read.
Settle(t) ==
  /\ Hears(t, Outcome(issued[t].entry, issued[t].brief))
  /\ issued' = [issued EXCEPT ![t].settled = TRUE]
  /\ UNCHANGED <<served, batch, calls, asked, lent>>

-----------------------------------------------------------------------------
(* Work dispatched inline.                                                 *)

Answerable(r) == Declared(r) /\ Script(r) # << >>

Dispatch(a, briefs) ==
  /\ batch[a] = << >>
  /\ Calls(a)
  /\ batch' = [batch EXCEPT ![a] = briefs]
  /\ UNCHANGED <<issued, served, asked, heard, lent>>

\* Mutant of Serve: one cursor serves every role.
ServeShared(a) ==
  /\ batch[a] # << >>
  /\ LET r == Head(batch[a])[1]
     IN  /\ Answerable(r)
         /\ lent' = [lent EXCEPT ![r] = Append(@, Least(served[r] + 1, Len(Script(r))))]
         /\ served' = [s \in Role |-> served[s] + 1]
  /\ batch' = [batch EXCEPT ![a] = Tail(@)]
  /\ UNCHANGED <<issued, calls, asked, heard>>

\* Inline::dispatch, one brief: the next entry, the last one for ever after.
Serve(a) ==
  /\ batch[a] # << >>
  /\ LET r == Head(batch[a])[1]
     IN  /\ Answerable(r)
         /\ lent' = [lent EXCEPT ![r] = Append(@, Least(served[r] + 1, Len(Script(r))))]
         /\ served' = [served EXCEPT ![r] = @ + 1]
  /\ batch' = [batch EXCEPT ![a] = Tail(@)]
  /\ UNCHANGED <<issued, calls, asked, heard>>

\* A role undeclared or without a script ends the dispatch with an error; the
\* briefs before it stay served.
DispatchFails(a) ==
  /\ batch[a] # << >>
  /\ ~Answerable(Head(batch[a])[1])
  /\ batch' = [batch EXCEPT ![a] = << >>]
  /\ UNCHANGED <<issued, served, calls, asked, heard, lent>>

Next ==
  \/ \E a \in Arm, r \in Role : SpawnRefused(a, r) \/ \E b \in Brief : Spawn(a, r, b)
  \/ \E t \in DOMAIN issued : Steer(t) \/ Notes(t) \/ Settle(t)
  \/ \E a \in Arm : Serve(a) \/ DispatchFails(a) \/ \E bs \in Batches : Dispatch(a, bs)

Spec == Init /\ [][Next]_vars

-----------------------------------------------------------------------------
(***************************************************************************)
(* TypeOK: every ticket names a declared role and an entry of its script,  *)
(* and no delegation holds more notes than its mailbox.                    *)
(***************************************************************************)
TypeOK ==
  /\ \A t \in DOMAIN issued :
       /\ t[1] \in Delegates \cap Registered \cap DOMAIN Scripts
       /\ t[2] \in 0 .. Len(Scripts[t[1]]) - 1
       /\ issued[t] \in [brief : Brief, entry : Entry, notes : 0 .. Capacity,
                         drops : {0, 1}, settled : BOOLEAN]
  /\ DOMAIN heard \subseteq DOMAIN issued
  /\ served \in [Role -> Nat]
  /\ batch \in [Arm -> Seq(Role \X Brief)]
  /\ calls \in [Arm -> 0 .. MaxSpawns]
  /\ asked \in [Role -> Seq(Brief)]
  /\ lent \in [Role -> Seq(Nat)]

(***************************************************************************)
(* NthEntryForNthSpawn: whoever spawns, in whatever order, and whatever    *)
(* was settled since, the nth spawn of a role holds the nth entry and the  *)
(* nth brief, under a ticket nobody else was given (harness/mod.rs:266).   *)
(* Not so for a role whose name another's extends by #: that one's tickets *)
(* are counted as its own.                                                 *)
(***************************************************************************)
NthEntryForNthSpawn ==
  \A r \in Role : (\A s \in Role : <<s, r>> \notin Extends) =>
    /\ {t \in DOMAIN issued : t[1] = r} = {<<r, n - 1>> : n \in DOMAIN asked[r]}
    /\ \A n \in DOMAIN asked[r] :
         /\ issued[<<r, n - 1>>].brief = asked[r][n]
         /\ issued[<<r, n - 1>>].entry = Script(r)[n]

(***************************************************************************)
(* OneOutcomePerTicket: two arms that collect one delegation cannot see    *)
(* different results (harness/mod.rs:216).                                 *)
(***************************************************************************)
OneOutcomePerTicket == \A t \in DOMAIN heard : Cardinality(heard[t]) = 1

(***************************************************************************)
(* TwinsAgree: an entry spawned and the same entry dispatched inline are   *)
(* one: the nth brief to a role comes to the nth entry of its script in    *)
(* either mode, and to the last for ever in the inline one                 *)
(* (orchestrate/mod.rs:95).                                                *)
(***************************************************************************)
TwinsAgree ==
  \A r \in DOMAIN Scripts :
    \A n \in DOMAIN lent[r] :
      /\ lent[r][n] = Least(n, Len(Scripts[r]))
      /\ <<r, n - 1>> \in DOMAIN issued /\ n <= Len(Scripts[r]) =>
           issued[<<r, n - 1>>].entry = Scripts[r][lent[r][n]]
=============================================================================
