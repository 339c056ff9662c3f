--------------------------- MODULE ServicesProofs ---------------------------
(***************************************************************************)
(* What the services of a run keep for any number of threads, calls,       *)
(* writes and bytes.  Each argument is about one service: a step of the    *)
(* composition is a step of that service or leaves it alone.               *)
(***************************************************************************)
EXTENDS MCServices, FiniteSetTheorems, TLAPS

-----------------------------------------------------------------------------
(* The mailbox, run by itself: what it keeps for any number of posters,    *)
(* any capacity and any number of notes.                                   *)

(***************************************************************************)
(* A poster between a drop and its report has sent the note it reports.    *)
(***************************************************************************)
Typed == TypeOK /\ \A p \in telling : sent[p] >= 1

\* The mailbox starts empty, and typed.
LEMMA TypedInit == Init => Typed
  BY MailboxAssumption DEF Init, Typed, TypeOK

\* No step overfills the mailbox.
LEMMA TypedStep ==
  ASSUME Typed, [Next]_vars
  PROVE  Typed'
<1> USE MailboxAssumption DEF Typed, TypeOK
<1>1. ASSUME NEW p \in Poster, Sends(p)
      PROVE  /\ Fresh(p) \in Note
             /\ sent' \in [Poster -> 0 .. MaxPosts]
             /\ sent'[p] >= 1
             /\ \A q \in telling : sent'[q] >= 1
  BY <1>1 DEF Sends, Fresh, Note
<1>2. ASSUME NEW p \in Poster, Accept(p)
      PROVE  Typed'
  <2>1. queued' \in Seq(Note) /\ Len(queued') = Len(queued) + 1
    BY <1>1, <1>2 DEF Accept
  <2> QED  BY <1>1, <1>2, <2>1 DEF Accept
<1>3. ASSUME NEW p \in Poster, Drop(p)
      PROVE  Typed'
  BY <1>1, <1>3 DEF Drop
<1>4. ASSUME NEW p \in Poster, Tell(p)
      PROVE  Typed'
  <2>1. Latest(p) \in Note
    BY <1>4 DEF Tell, Latest, Note
  <2>2. events' \in Seq(Note)
    BY <1>4, <2>1 DEF Tell
  <2> QED  BY <1>4, <2>2 DEF Tell
<1>5. CASE Collect
  <2>1. delivered' \in Seq(Note) /\ queued' \in Seq(Note) /\ Len(queued') = 0
    BY <1>5 DEF Collect
  <2> QED  BY <1>5, <2>1 DEF Collect
<1>6. CASE UNCHANGED vars
  BY <1>6 DEF vars
<1> QED  BY <1>2, <1>3, <1>4, <1>5, <1>6 DEF Next

(***************************************************************************)
(* CapacityHolds: the queue never holds more than its capacity, whoever    *)
(* posts and whenever the loop collects.                                   *)
(***************************************************************************)
THEOREM CapacityHolds == Spec => []TypeOK
<1>1. Typed /\ [Next]_vars => Typed'
  BY TypedStep
<1>2. Typed => TypeOK
  BY DEF Typed
<1> QED  BY <1>1, <1>2, TypedInit, PTL DEF Spec

(***************************************************************************)
(* EveryDropCounted: the number a host reads is the number of losses       *)
(* reported and of those a poster is about to report (DropsCounted).       *)
(***************************************************************************)
THEOREM EveryDropCounted == Spec => []DropsCounted
<1>1. Init => DropsCounted
  BY FS_EmptySet DEF Init, DropsCounted
<1>2. Typed /\ DropsCounted /\ [Next]_vars => DropsCounted'
  <2> SUFFICES ASSUME Typed, DropsCounted, [Next]_vars
               PROVE  DropsCounted'
    OBVIOUS
  <2> USE DEF DropsCounted
  <2>0. /\ IsFiniteSet(telling)
        /\ Cardinality(telling) \in Nat
        /\ Len(events) \in Nat
    BY MailboxAssumption, FS_Subset, FS_CardinalityType DEF Typed, TypeOK
  <2>1. ASSUME NEW p \in Poster, Accept(p)
        PROVE  DropsCounted'
    BY <2>1 DEF Accept
  <2>2. ASSUME NEW p \in Poster, Drop(p)
        PROVE  DropsCounted'
    <3>1. Cardinality(telling \cup {p}) = Cardinality(telling) + 1
      BY <2>0, <2>2, FS_AddElement DEF Drop, Sends
    <3> QED  BY <2>0, <2>2, <3>1 DEF Drop
  <2>3. ASSUME NEW p \in Poster, Tell(p)
        PROVE  DropsCounted'
    <3>1. Cardinality(telling \ {p}) = Cardinality(telling) - 1
      BY <2>0, <2>3, FS_RemoveElement DEF Tell
    <3>2. Len(events') = Len(events) + 1
      BY <2>3 DEF Tell, Typed, TypeOK
    <3> QED  BY <2>0, <2>3, <3>1, <3>2 DEF Tell
  <2>4. CASE Collect
    BY <2>4 DEF Collect
  <2>5. CASE UNCHANGED vars
    BY <2>5 DEF vars
  <2> QED  BY <2>1, <2>2, <2>3, <2>4, <2>5 DEF Next
<1>3. Typed /\ [Next]_vars => Typed'
  BY TypedStep
<1> QED  BY <1>1, <1>2, <1>3, TypedInit, PTL DEF Spec

-----------------------------------------------------------------------------
(***************************************************************************)
(* No note, waiting, delivered or dropped, is numbered past what its poster*)
(* has sent: the next one is new wherever it ends up.                      *)
(***************************************************************************)
NumberedAsSent ==
  /\ \A i \in DOMAIN Taken : Taken[i][2] <= sent[Taken[i][1]]
  /\ \A i \in DOMAIN events : events[i][2] <= sent[events[i][1]]

\* The shapes the numbering argument reads off the types.
LEMMA Shapes ==
  ASSUME Typed
  PROVE  /\ delivered \in Seq(Note) /\ queued \in Seq(Note)
         /\ Taken \in Seq(Note)
         /\ events \in Seq(Note)
         /\ sent \in [Poster -> Nat]
         /\ \A i \in DOMAIN Taken : Taken[i] = <<Taken[i][1], Taken[i][2]>>
                                    /\ Taken[i][1] \in Poster /\ Taken[i][2] \in Nat
         /\ \A i \in DOMAIN events : events[i] = <<events[i][1], events[i][2]>>
                                    /\ events[i][1] \in Poster /\ events[i][2] \in Nat
<1>1. /\ delivered \in Seq(Note) /\ queued \in Seq(Note)
      /\ Taken \in Seq(Note)
      /\ events \in Seq(Note)
      /\ sent \in [Poster -> Nat]
  BY MailboxAssumption DEF Typed, TypeOK, Taken
<1>2. \A n \in Note : n = <<n[1], n[2]>> /\ n[1] \in Poster /\ n[2] \in Nat
  BY MailboxAssumption DEF Note
<1> QED  BY <1>1, <1>2

(***************************************************************************)
(* Appending adds one element, behind the others.                          *)
(***************************************************************************)
LEMMA Appended ==
  ASSUME NEW S, NEW s \in Seq(S), NEW e \in S
  PROVE  /\ Len(s) \in Nat
         /\ DOMAIN s = 1 .. Len(s)
         /\ DOMAIN Append(s, e) = 1 .. Len(s) + 1
         /\ \A i \in 1 .. Len(s) : Append(s, e)[i] = s[i]
         /\ Append(s, e)[Len(s) + 1] = e
         /\ ElementsOf(Append(s, e)) = ElementsOf(s) \cup {e}
<1>1. /\ Len(s) \in Nat
      /\ DOMAIN s = 1 .. Len(s)
      /\ DOMAIN Append(s, e) = 1 .. Len(s) + 1
      /\ \A i \in 1 .. Len(s) : Append(s, e)[i] = s[i]
      /\ Append(s, e)[Len(s) + 1] = e
  OBVIOUS
<1>2. \A i \in 1 .. Len(s) + 1 : i \in 1 .. Len(s) \/ i = Len(s) + 1
  BY <1>1
<1>3. 1 .. Len(s) \subseteq 1 .. Len(s) + 1 /\ Len(s) + 1 \in 1 .. Len(s) + 1
  BY <1>1
<1> HIDE DEF ElementsOf
<1>4. ElementsOf(Append(s, e)) \subseteq ElementsOf(s) \cup {e}
  BY <1>1, <1>2 DEF ElementsOf
<1>5. ElementsOf(s) \cup {e} \subseteq ElementsOf(Append(s, e))
  BY <1>1, <1>3, Zenon DEF ElementsOf
<1> QED  BY <1>1, <1>4, <1>5

(***************************************************************************)
(* What each step does to the notes taken and to the notes sent.           *)
(***************************************************************************)
LEMMA AcceptAppends ==
  ASSUME Typed, NEW p \in Poster, Accept(p)
  PROVE  /\ sent' = [sent EXCEPT ![p] = sent[p] + 1]
         /\ events' = events
         /\ DOMAIN Taken' = 1 .. Len(Taken) + 1 /\ Len(Taken) \in Nat
         /\ \A i \in 1 .. Len(Taken) : i \in DOMAIN Taken /\ Taken'[i] = Taken[i]
         /\ Taken'[Len(Taken) + 1] = <<p, sent[p] + 1>>
         /\ ElementsOf(Taken)' = ElementsOf(Taken) \cup {<<p, sent[p] + 1>>}
<1>1. Fresh(p) = <<p, sent[p] + 1>> /\ Fresh(p) \in Note
  BY MailboxAssumption DEF Accept, Sends, Fresh, Note, Typed, TypeOK
<1>2. sent' = [sent EXCEPT ![p] = sent[p] + 1] /\ events' = events
  BY DEF Accept, Sends
<1>3. Taken' = Append(Taken, Fresh(p))
  BY <1>1, Shapes DEF Accept, Taken
<1>4. Taken \in Seq(Note)
  BY Shapes
<1>5. /\ Len(Taken) \in Nat
      /\ DOMAIN Taken = 1 .. Len(Taken)
      /\ DOMAIN Append(Taken, Fresh(p)) = 1 .. Len(Taken) + 1
      /\ \A i \in 1 .. Len(Taken) : Append(Taken, Fresh(p))[i] = Taken[i]
      /\ Append(Taken, Fresh(p))[Len(Taken) + 1] = Fresh(p)
      /\ ElementsOf(Append(Taken, Fresh(p))) = ElementsOf(Taken) \cup {Fresh(p)}
  BY <1>1, <1>4, Appended
<1> QED  BY <1>1, <1>2, <1>3, <1>5

\* A poster's count of notes only grows.
LEMMA SentNeverFalls ==
  ASSUME Typed, [Next]_vars, NEW q \in Poster
  PROVE  sent[q] \in Nat /\ sent'[q] \in Nat /\ sent'[q] >= sent[q]
<1>1. CASE \E p \in Poster : Sends(p)
  BY <1>1, Shapes DEF Sends
<1>2. CASE sent' = sent
  BY <1>2, Shapes
<1> QED  BY <1>1, <1>2 DEF Next, vars, Accept, Drop, Tell, Collect

\* Only an accepted note joins those the mailbox took in.
LEMMA OthersKeepTaken ==
  ASSUME Typed, [Next]_vars, ~\E p \in Poster : Accept(p)
  PROVE  Taken' = Taken
<1>1. CASE Collect
  BY <1>1, Shapes DEF Collect, Taken
<1>2. CASE UNCHANGED vars \/ \E p \in Poster : Drop(p) \/ Tell(p)
  BY <1>2 DEF vars, Drop, Tell, Taken
<1> QED  BY <1>1, <1>2 DEF Next

\* Each step keeps the notes numbered as they were sent.
LEMMA NumberedStep ==
  ASSUME Typed, NumberedAsSent, [Next]_vars
  PROVE  NumberedAsSent'
<1>0. Typed'
  BY TypedStep
<1>1. ASSUME NEW p \in Poster, Accept(p)
      PROVE  NumberedAsSent'
  <2>1. \A i \in DOMAIN Taken : Taken[i][1] \in Poster /\ Taken[i][2] \in Nat
    BY Shapes
  <2>2. \A i \in DOMAIN Taken' : Taken'[i][2] <= sent'[Taken'[i][1]]
    <3> SUFFICES ASSUME NEW i \in DOMAIN Taken'
                 PROVE  Taken'[i][2] <= sent'[Taken'[i][1]]
      OBVIOUS
    <3>1. CASE i = Len(Taken) + 1
      BY <1>1, <3>1, AcceptAppends, Shapes
    <3>2. CASE i \in 1 .. Len(Taken)
      <4>1. Taken'[i] = Taken[i] /\ i \in DOMAIN Taken
        BY <1>1, <3>2, AcceptAppends
      <4>2. Taken[i][2] <= sent[Taken[i][1]]
        BY <4>1 DEF NumberedAsSent
      <4>3. sent[Taken[i][1]] \in Nat /\ sent'[Taken[i][1]] \in Nat
            /\ sent'[Taken[i][1]] >= sent[Taken[i][1]]
        BY <2>1, <4>1, SentNeverFalls
      <4> QED  BY <2>1, <4>1, <4>2, <4>3
    <3> QED  BY <1>1, <3>1, <3>2, AcceptAppends
  <2>3. \A i \in DOMAIN events' : events'[i][2] <= sent'[events'[i][1]]
    BY <1>1, AcceptAppends, SentNeverFalls, Shapes DEF NumberedAsSent
  <2> QED  BY <2>2, <2>3 DEF NumberedAsSent
<1>2. ASSUME NEW p \in Poster, Drop(p)
      PROVE  NumberedAsSent'
  <2>1. Taken' = Taken /\ sent' = [sent EXCEPT ![p] = sent[p] + 1]
    BY <1>2 DEF Drop, Sends, Taken
  <2> QED  BY <1>2, <2>1, Shapes DEF NumberedAsSent, Drop
<1>3. ASSUME NEW p \in Poster, Tell(p)
      PROVE  NumberedAsSent'
  <2>1. Taken' = Taken /\ sent' = sent /\ events' = Append(events, <<p, sent[p]>>)
    BY <1>3 DEF Tell, Taken, Latest
  <2>2. /\ DOMAIN events' = 1 .. Len(events) + 1 /\ Len(events) \in Nat
        /\ \A i \in 1 .. Len(events) : i \in DOMAIN events /\ events'[i] = events[i]
        /\ events'[Len(events) + 1] = <<p, sent[p]>>
    BY <2>1, Shapes
  <2> QED  BY <2>1, <2>2, Shapes DEF NumberedAsSent
<1>4. CASE Collect
  BY <1>4, OthersKeepTaken, Shapes DEF NumberedAsSent, Collect, Accept
<1>5. CASE UNCHANGED vars
  BY <1>5 DEF vars, NumberedAsSent, Taken
<1> QED  BY <1>1, <1>2, <1>3, <1>4, <1>5 DEF Next

\* An empty mailbox numbers nothing.
LEMMA NumberedInit == Init => NumberedAsSent
  BY DEF Init, NumberedAsSent, Taken

(***************************************************************************)
(* OrderKept: no two notes of one poster are read out of order, and none   *)
(* is read twice (ReadInOrder).                                            *)
(***************************************************************************)
THEOREM OrderKept == Spec => []ReadInOrder
<1>1. Init => ReadInOrder
  BY DEF Init, ReadInOrder, Taken
<1>2. Typed /\ NumberedAsSent /\ ReadInOrder /\ [Next]_vars => ReadInOrder'
  <2> SUFFICES ASSUME Typed, NumberedAsSent, ReadInOrder, [Next]_vars
               PROVE  ReadInOrder'
    OBVIOUS
  <2>1. ASSUME NEW p \in Poster, Accept(p)
        PROVE  ReadInOrder'
    <3>1. \A i \in DOMAIN Taken : Taken[i][1] = p => Taken[i][2] < sent[p] + 1
      BY Shapes DEF NumberedAsSent
    <3>2. /\ DOMAIN Taken' = 1 .. Len(Taken) + 1 /\ Len(Taken) \in Nat
          /\ \A i \in 1 .. Len(Taken) : i \in DOMAIN Taken /\ Taken'[i] = Taken[i]
          /\ Taken'[Len(Taken) + 1] = <<p, sent[p] + 1>>
      BY <2>1, AcceptAppends
    <3> QED  BY <3>1, <3>2 DEF ReadInOrder
  <2>2. CASE ~\E p \in Poster : Accept(p)
    BY <2>2, OthersKeepTaken DEF ReadInOrder
  <2> QED  BY <2>1, <2>2
<1>3. Typed /\ [Next]_vars => Typed'
  BY TypedStep
<1>4. Typed /\ NumberedAsSent /\ [Next]_vars => NumberedAsSent'
  BY NumberedStep
<1> QED  BY <1>1, <1>2, <1>3, <1>4, TypedInit, NumberedInit, PTL DEF Spec

\* The notes known to be dropped.
Known == Reported \cup Unreported

(***************************************************************************)
(* NoNoteVanishes: a note that was sent is delivered or waiting, or known  *)
(* to be dropped, and never both (NothingVanishes).                        *)
(***************************************************************************)
THEOREM NoNoteVanishes == Spec => []NothingVanishes
<1>1. Init => NothingVanishes
  BY DEF Init, NothingVanishes
<1>2. Typed /\ NumberedAsSent /\ NothingVanishes /\ [Next]_vars => NothingVanishes'
  <2> SUFFICES ASSUME Typed, NumberedAsSent, NothingVanishes, [Next]_vars
               PROVE  NothingVanishes'
    OBVIOUS
  <2>0. \A q \in Poster : sent[q] \in Nat /\ telling \subseteq Poster
    BY Shapes DEF Typed, TypeOK
  <2>1. ASSUME NEW p \in Poster, Accept(p)
        PROVE  NothingVanishes'
    <3>1. Known' = Known
      <4>1. Reported' = Reported
        BY <2>1 DEF Accept, Reported, ElementsOf
      <4>2. Unreported' = Unreported
        BY <2>0, <2>1, AcceptAppends, Shapes DEF Accept, Sends, Unreported, Latest
      <4> QED  BY <4>1, <4>2 DEF Known
    <3>2. <<p, sent[p] + 1>> \notin Known
      <4>1. <<p, sent[p] + 1>> \notin Reported
        BY <2>0, Shapes DEF NumberedAsSent, Reported, ElementsOf
      <4>2. <<p, sent[p] + 1>> \notin Unreported
        BY <2>0, <2>1 DEF Accept, Sends, Unreported, Latest
      <4> QED  BY <4>1, <4>2 DEF Known
    <3>3. ElementsOf(Taken)' = ElementsOf(Taken) \cup {<<p, sent[p] + 1>>}
      BY <2>1, AcceptAppends
    <3>4. \A q \in Poster : \A k \in 1 .. sent'[q] :
            k \in 1 .. sent[q] \/ (q = p /\ k = sent[p] + 1)
      BY <2>0, <2>1, AcceptAppends, Shapes
    <3>5. \A q \in Poster : \A k \in 1 .. sent[q] : <<q, k>> # <<p, sent[p] + 1>>
      BY <2>0
    <3> QED  BY <3>1, <3>2, <3>3, <3>4, <3>5 DEF NothingVanishes, Known
  <2>2. ASSUME NEW p \in Poster, Drop(p)
        PROVE  NothingVanishes'
    <3>0. /\ Taken' = Taken
          /\ sent' = [sent EXCEPT ![p] = sent[p] + 1]
          /\ p \notin telling /\ telling' = telling \cup {p}
          /\ events' = events
      BY <2>2 DEF Drop, Sends, Taken
    <3>1. Known' = Known \cup {<<p, sent[p] + 1>>}
      <4>1. Reported' = Reported
        BY <3>0 DEF Reported, ElementsOf
      <4>2. Unreported' = Unreported \cup {<<p, sent[p] + 1>>}
        BY <2>0, <3>0, Shapes DEF Unreported, Latest
      <4> QED  BY <4>1, <4>2 DEF Known
    <3>2. <<p, sent[p] + 1>> \notin ElementsOf(Taken)
      BY <2>0, Shapes DEF NumberedAsSent, ElementsOf
    <3>4. \A q \in Poster : \A k \in 1 .. sent'[q] :
            k \in 1 .. sent[q] \/ (q = p /\ k = sent[p] + 1)
      BY <2>0, <3>0, Shapes
    <3>5. \A q \in Poster : \A k \in 1 .. sent[q] : <<q, k>> # <<p, sent[p] + 1>>
      BY <2>0
    <3>6. ElementsOf(Taken)' = ElementsOf(Taken)
      BY <3>0 DEF ElementsOf
    <3> QED  BY <3>1, <3>2, <3>4, <3>5, <3>6 DEF NothingVanishes, Known
  <2>3. ASSUME NEW p \in Poster, Tell(p)
        PROVE  NothingVanishes'
    <3>0. /\ Taken' = Taken /\ sent' = sent
          /\ p \in telling /\ telling' = telling \ {p}
          /\ events' = Append(events, <<p, sent[p]>>)
      BY <2>3 DEF Tell, Taken, Latest
    <3>1. Reported' = Reported \cup {<<p, sent[p]>>}
      <4>1. <<p, sent[p]>> \in Note
        BY <2>3 DEF Tell, Typed, TypeOK, Note
      <4>2. events \in Seq(Note)
        BY Shapes
      <4>3. ElementsOf(Append(events, <<p, sent[p]>>)) = ElementsOf(events) \cup {<<p, sent[p]>>}
        BY <4>1, <4>2, Appended
      <4> QED  BY <3>0, <4>3 DEF Reported
    <3>2. Unreported' = Unreported \ {<<p, sent[p]>>} /\ <<p, sent[p]>> \in Unreported
      BY <3>0 DEF Unreported, Latest
    <3>3. Known' = Known
      BY <3>1, <3>2 DEF Known
    <3>6. ElementsOf(Taken)' = ElementsOf(Taken)
      BY <3>0 DEF ElementsOf
    <3> QED  BY <3>0, <3>3, <3>6 DEF NothingVanishes, Known
  <2>4. CASE Collect \/ UNCHANGED vars
    <3>1. Taken' = Taken /\ sent' = sent /\ telling' = telling /\ events' = events
      <4>1. CASE Collect
        BY <4>1, Shapes DEF Collect, Taken
      <4>2. CASE UNCHANGED vars
        BY <4>2 DEF vars, Taken
      <4> QED  BY <2>4, <4>1, <4>2
    <3> QED  BY <3>1 DEF NothingVanishes, Reported, Unreported, ElementsOf, Latest
  <2> QED  BY <2>1, <2>2, <2>3, <2>4 DEF Next
<1>3. Typed /\ [Next]_vars => Typed'
  BY TypedStep
<1>4. Typed /\ NumberedAsSent /\ [Next]_vars => NumberedAsSent'
  BY NumberedStep
<1> QED  BY <1>1, <1>2, <1>3, <1>4, TypedInit, NumberedInit, PTL DEF Spec

-----------------------------------------------------------------------------

(***************************************************************************)
(* The composition runs each service by its own rules.                     *)
(***************************************************************************)
LEMMA CaptureRuns == [AllNext]_all => [Cap!Next]_capVars
  BY DEF AllNext, all, capVars

\* The composition steps each service as the service steps.
LEMMA HistoryRuns == [AllNext]_all => [Con!Next]_conVars
  BY DEF AllNext, all, conVars

\* The same of the workspace.
LEMMA WorkspaceRuns == [AllNext]_all => [Wsp!Next]_wspVars
  BY DEF AllNext, all, wspVars

\* The same of the tools.
LEMMA ToolsRun == [AllNext]_all => [Tus!Next]_tusVars
  BY DEF AllNext, all, tusVars

\* The same of the recorder.
LEMMA RecorderRuns == [AllNext]_all => [Rec!Next]_recVars
  BY DEF AllNext, all, recVars

-----------------------------------------------------------------------------
(***************************************************************************)
(* The capture.  BothEndsKept with the types is inductive once it says     *)
(* that the window fills after the head, and drops when it is full.        *)
(***************************************************************************)
Window ==
  /\ limit \in Nat
  /\ head \in Seq(Nat)
  /\ tail \in Seq(Nat)
  /\ dropped \in Nat
  /\ seen \in Nat
  /\ Len(head) <= Cap!HeadLimit
  /\ Len(tail) <= Cap!TailLimit
  /\ Len(tail) > 0 => Len(head) = Cap!HeadLimit
  /\ dropped > 0 => Len(head) = Cap!HeadLimit /\ Len(tail) = Cap!TailLimit
  /\ Len(head) + dropped + Len(tail) = seen
  /\ \A i \in 1 .. Len(head) : head[i] = i
  /\ \A i \in 1 .. Len(tail) : tail[i] = Len(head) + dropped + i

\* The two halves of the limit add up to it.
LEMMA Halves ==
  ASSUME limit \in Nat
  PROVE  /\ Cap!HeadLimit \in Nat
         /\ Cap!TailLimit \in Nat
         /\ Cap!HeadLimit + Cap!TailLimit = limit
  BY DEF Cap!HeadLimit, Cap!TailLimit

\* Every chunk pushed keeps the window.
LEMMA WindowStep == ASSUME Window, [Cap!Next]_capVars PROVE Window'
<1>w. /\ limit \in Nat /\ head \in Seq(Nat) /\ tail \in Seq(Nat)
      /\ dropped \in Nat /\ seen \in Nat
      /\ Len(head) \in Nat /\ Len(tail) \in Nat
      /\ Len(head) + dropped + Len(tail) = seen
  BY DEF Window
<1>1. limit' = limit BY DEF Cap!Next, Cap!Keep, Cap!Slide, Cap!Discard, Cap!Arrives, capVars
<1>2. /\ Cap!HeadLimit' = Cap!HeadLimit /\ Cap!TailLimit' = Cap!TailLimit
      /\ Cap!HeadLimit \in Nat /\ Cap!TailLimit \in Nat
  BY <1>1, <1>w, Halves DEF Cap!HeadLimit, Cap!TailLimit
<1>3. CASE Cap!Keep
  <2>1. /\ head' = Append(head, seen + 1)
        /\ seen' = seen + 1
        /\ tail' = tail /\ dropped' = dropped
        /\ Len(head) < Cap!HeadLimit
    BY <1>3 DEF Cap!Keep, Cap!Arrives
  <2>2. Len(tail) = 0 /\ dropped = 0 BY <1>2, <1>w, <2>1 DEF Window
  <2>3. head' \in Seq(Nat) /\ Len(head') = Len(head) + 1 BY <1>w, <2>1
  <2>4. \A i \in 1 .. Len(head') : head'[i] = i
    BY <1>w, <2>1, <2>2, <2>3 DEF Window
  <2> QED BY <1>1, <1>2, <1>w, <2>1, <2>2, <2>3, <2>4 DEF Window
<1>4. CASE Cap!Slide
  <2>1. /\ Len(head) = Cap!HeadLimit
        /\ Cap!TailLimit > 0
        /\ head' = head /\ seen' = seen + 1
    BY <1>2, <1>4, <1>w DEF Window, Cap!Slide, Cap!Arrives
  <2>2. CASE Len(tail) = Cap!TailLimit
    <3>1. tail' = Append(Tail(tail), seen + 1) /\ dropped' = dropped + 1
      BY <1>4, <2>2 DEF Cap!Slide
    <3>2. /\ Tail(tail) \in Seq(Nat) /\ Len(Tail(tail)) = Len(tail) - 1
          /\ \A i \in 1 .. Len(tail) - 1 : Tail(tail)[i] = tail[i + 1]
      BY <1>2, <1>w, <2>1, <2>2
    <3>3. /\ tail' \in Seq(Nat) /\ Len(tail') = Len(tail)
          /\ \A i \in 1 .. Len(tail) - 1 : tail'[i] = tail[i + 1]
          /\ tail'[Len(tail)] = seen + 1
      BY <1>w, <3>1, <3>2
    <3>4. /\ Len(head') = Len(head) /\ Len(tail') = Len(tail)
          /\ dropped' = dropped + 1 /\ seen' = seen + 1
      BY <2>1, <3>1, <3>3
    <3>5. Len(head') + dropped' + Len(tail') = seen' BY <1>w, <3>4
    <3>6. ASSUME NEW i \in 1 .. Len(tail')
          PROVE  tail'[i] = Len(head') + dropped' + i
      <4>1. CASE i = Len(tail)
        <5>1. tail'[i] = seen + 1 BY <3>3, <4>1
        <5> QED BY <1>w, <3>4, <4>1, <5>1
      <4>2. CASE i # Len(tail)
        <5>1. i + 1 \in 1 .. Len(tail) /\ i \in 1 .. Len(tail) - 1 BY <1>w, <3>4, <4>2
        <5>2. tail'[i] = tail[i + 1] BY <3>3, <5>1
        <5>3. tail[i + 1] = Len(head) + dropped + (i + 1) BY <5>1 DEF Window
        <5> QED BY <1>w, <3>4, <5>2, <5>3
      <4> QED BY <4>1, <4>2
    <3> QED BY <1>1, <1>2, <1>w, <2>1, <2>2, <3>3, <3>4, <3>5, <3>6 DEF Window
  <2>3. CASE Len(tail) # Cap!TailLimit
    <3>1. tail' = Append(tail, seen + 1) /\ dropped' = dropped
      BY <1>4, <2>3 DEF Cap!Slide
    <3>2. tail' \in Seq(Nat) /\ Len(tail') = Len(tail) + 1 BY <1>w, <3>1
    <3>3. \A i \in 1 .. Len(tail) + 1 :
            tail'[i] = IF i = Len(tail) + 1 THEN seen + 1 ELSE tail[i]
      BY <1>w, <3>1
    <3>4. Len(tail) < Cap!TailLimit /\ dropped = 0 BY <1>2, <1>w, <2>3 DEF Window
    <3>5. Len(head') = Len(head) /\ dropped' = dropped /\ seen' = seen + 1
      BY <2>1, <3>1
    <3>6. ASSUME NEW i \in 1 .. Len(tail')
          PROVE  tail'[i] = Len(head') + dropped' + i
      <4>1. CASE i = Len(tail) + 1
        <5>1. tail'[i] = seen + 1 BY <1>w, <3>3, <4>1
        <5> QED BY <1>w, <3>5, <4>1, <5>1
      <4>2. CASE i # Len(tail) + 1
        <5>1. i \in 1 .. Len(tail) BY <1>w, <3>2, <4>2
        <5>2. tail'[i] = tail[i] BY <1>w, <3>3, <4>2, <5>1
        <5>3. tail[i] = Len(head) + dropped + i BY <5>1 DEF Window
        <5> QED BY <3>5, <5>2, <5>3
      <4> QED BY <4>1, <4>2
    <3>7. Len(head') + dropped' + Len(tail') = seen' BY <1>w, <3>2, <3>5
    <3> QED BY <1>1, <1>2, <1>w, <2>1, <3>2, <3>4, <3>5, <3>6, <3>7 DEF Window
  <2> QED BY <2>2, <2>3
<1>5. CASE Cap!Discard
  <2>1. /\ Len(head) = Cap!HeadLimit
        /\ Len(tail) = Cap!TailLimit /\ Cap!TailLimit = 0
        /\ head' = head /\ tail' = tail /\ seen' = seen + 1 /\ dropped' = dropped + 1
    BY <1>2, <1>5, <1>w DEF Window, Cap!Discard, Cap!Arrives
  <2> QED BY <1>1, <1>2, <1>w, <2>1 DEF Window
<1>6. CASE UNCHANGED capVars BY <1>1, <1>2, <1>6 DEF Window, capVars
<1> QED BY <1>3, <1>4, <1>5, <1>6 DEF Cap!Next

(***************************************************************************)
(* CaptureKeepsBothEnds: BoundedCapture (workspace/types.rs) holds the     *)
(* beginning and the very end of any output, within any limit, and counts  *)
(* every byte between.                                                     *)
(***************************************************************************)
THEOREM CaptureKeepsBothEnds == AllSpec => []BothEndsKept
<1>1. AllInit => Window
  <2> SUFFICES ASSUME AllInit PROVE Window OBVIOUS
  <2>1. limit \in Nat /\ head = << >> /\ tail = << >> /\ dropped = 0 /\ seen = 0
    BY ServicesAssumption DEF AllInit, Cap!Init
  <2> QED BY <2>1, Halves DEF Window
<1>2. Window /\ [AllNext]_all => Window' BY CaptureRuns, WindowStep
<1>3. Window => BothEndsKept
  <2> SUFFICES ASSUME Window PROVE BothEndsKept OBVIOUS
  <2>1. DOMAIN head = 1 .. Len(head) /\ DOMAIN tail = 1 .. Len(tail) BY DEF Window
  <2> QED BY <2>1, Halves DEF Window, BothEndsKept, Cap!BothEndsKept
<1> QED BY <1>1, <1>2, <1>3, PTL DEF AllSpec

-----------------------------------------------------------------------------
(***************************************************************************)
(* The tools.  Both properties are inductive with the types: what a call   *)
(* came to is counted in the step that ends it, and the callers whose      *)
(* requery is being counted are the difference.                            *)
(***************************************************************************)
ToolOrNone == ToolName \cup {""}

InACall ==
  [at : {"idle", "failing", "counting"}, tool : ToolOrNone,
   kind : Tus!Kind, calls : Nat]

ToolsTyped ==
  /\ caller \in [Caller -> InACall]
  /\ \A c \in Caller : caller[c].at # "idle" => caller[c].tool \in ToolName
  /\ messages \in [ToolName -> Nat]
  /\ requeries \in [ToolName -> Nat]
  /\ ended \in [ToolName -> [Tus!Ended -> Nat]]

Counting(t) == {c \in Caller : caller[c].at = "counting" /\ caller[c].tool = t}

Failures(t) == ended[t]["fed_back"] + ended[t]["exhausted"]
                 + ended[t]["salvaged"] + ended[t]["fatal"]

MessagesCounted ==
  \A t \in ToolName : messages[t] = Failures(t) + Cardinality(Counting(t))

ToolsInv == ToolsTyped /\ RequeriesBounded /\ MessagesCounted

\* Only finitely many callers count a failure at once.
LEMMA CountingFinite ==
  \A t : IsFiniteSet(Counting(t)) /\ Cardinality(Counting(t)) \in Nat
<1> TAKE t
<1>1. Counting(t) \subseteq Caller BY DEF Counting
<1> QED BY <1>1, ServicesAssumption, FS_Subset, FS_CardinalityType

\* What the end of a failed call changes.
LEMMA CallEnds ==
  ASSUME ToolsTyped, NEW c \in Caller, caller[c].at # "idle",
         NEW e \in Tus!Ended, Tus!EndsAs(c, e)
  PROVE  /\ caller' \in [Caller -> InACall]
         /\ caller'[c].at = "idle"
         /\ \A d \in Caller : d # c => caller'[d] = caller[d]
         /\ \A d \in Caller : caller'[d].at # "idle" => caller'[d].tool \in ToolName
         /\ ended' \in [ToolName -> [Tus!Ended -> Nat]]
         /\ \A t \in ToolName, f \in Tus!Ended :
              ended'[t][f] = IF t = caller[c].tool /\ f = e THEN ended[t][f] + 1
                                                           ELSE ended[t][f]
<1> DEFINE call == [caller[c] EXCEPT !.at = "idle", !.tool = "", !.kind = "ok"]
           t0 == caller[c].tool
<1>1. call \in InACall /\ call.at = "idle" BY DEF ToolsTyped, InACall, ToolOrNone, Tus!Kind
<1>2. caller' = [caller EXCEPT ![c] = call] BY DEF Tus!EndsAs, ToolsTyped, InACall
<1>3. t0 \in ToolName BY DEF ToolsTyped
<1>4. ended' = [ended EXCEPT ![t0] = [ended[t0] EXCEPT ![e] = ended[t0][e] + 1]]
  BY DEF Tus!EndsAs, ToolsTyped
<1> HIDE DEF call, t0
<1>5. ended[t0] \in [Tus!Ended -> Nat] BY <1>3 DEF ToolsTyped
<1>6. [ended[t0] EXCEPT ![e] = ended[t0][e] + 1] \in [Tus!Ended -> Nat]
  BY <1>5
<1>7. ended' \in [ToolName -> [Tus!Ended -> Nat]] BY <1>4, <1>6 DEF ToolsTyped
<1>8. ASSUME NEW t \in ToolName, NEW f \in Tus!Ended
      PROVE  ended'[t][f] = IF t = t0 /\ f = e THEN ended[t][f] + 1 ELSE ended[t][f]
  <2>1. CASE t = t0 BY <1>3, <1>4, <1>5, <2>1 DEF ToolsTyped
  <2>2. CASE t # t0 BY <1>3, <1>4, <2>2 DEF ToolsTyped
  <2> QED BY <2>1, <2>2
<1>9. /\ caller' \in [Caller -> InACall]
      /\ caller'[c].at = "idle"
      /\ \A d \in Caller : d # c => caller'[d] = caller[d]
  BY <1>1, <1>2 DEF ToolsTyped
<1>10. \A d \in Caller : caller'[d].at # "idle" => caller'[d].tool \in ToolName
  BY <1>9 DEF ToolsTyped
<1> QED BY <1>7, <1>8, <1>9, <1>10 DEF t0

\* The ways a call can end are counted by numbers.
LEMMA FailuresTyped ==
  ASSUME ToolsTyped, NEW t \in ToolName
  PROVE  /\ ended[t]["fed_back"] \in Nat /\ ended[t]["exhausted"] \in Nat
         /\ ended[t]["salvaged"] \in Nat /\ ended[t]["fatal"] \in Nat
         /\ Failures(t) \in Nat
<1>1. ended[t] \in [Tus!Ended -> Nat] BY DEF ToolsTyped
<1> QED BY <1>1 DEF Tus!Ended, Failures

\* It is one failure more of its tool, and of no other.
LEMMA FailureCounted ==
  ASSUME ToolsTyped, NEW c \in Caller, caller[c].at # "idle",
         NEW e \in Tus!Ended, Tus!EndsAs(c, e), NEW t \in ToolName
  PROVE  Failures(t)' = IF t = caller[c].tool THEN Failures(t) + 1 ELSE Failures(t)
<1>1. \A f \in Tus!Ended :
        ended'[t][f] = IF t = caller[c].tool /\ f = e THEN ended[t][f] + 1 ELSE ended[t][f]
  BY CallEnds
<1>2. e \in {"fed_back", "exhausted", "salvaged", "fatal"} BY DEF Tus!Ended
<1> QED BY <1>1, <1>2, FailuresTyped DEF Failures, Tus!Ended

\* A call begins: none is being counted that was not.
LEMMA CallBegins ==
  ASSUME ToolsInv, NEW c \in Caller, NEW to \in {"idle", "failing"},
         NEW tool \in ToolOrNone, NEW kind \in Tus!Kind,
         to = "failing" => tool \in ToolName, Tus!Calls(c, to, tool, kind)
  PROVE  ToolsInv'
<1> DEFINE call == [at |-> to, tool |-> tool, kind |-> kind, calls |-> caller[c].calls + 1]
<1>1. caller[c] \in InACall /\ caller[c].at = "idle" BY DEF ToolsInv, ToolsTyped, Tus!Calls
<1>2. call \in InACall /\ call.at = to /\ call.tool = tool
  BY <1>1 DEF InACall
<1>3. caller' = [caller EXCEPT ![c] = call] /\ UNCHANGED <<messages, requeries, ended>>
  BY DEF Tus!Calls
<1>4. /\ caller' \in [Caller -> InACall]
      /\ caller'[c] = call
      /\ \A d \in Caller : d # c => caller'[d] = caller[d]
  BY <1>2, <1>3 DEF ToolsInv, ToolsTyped
<1> HIDE DEF call
<1>5. ToolsTyped' BY <1>2, <1>3, <1>4 DEF ToolsInv, ToolsTyped
<1>6. \A t : Counting(t)' = Counting(t)
  <2>1. caller[c].at # "counting" /\ caller'[c].at # "counting" BY <1>1, <1>2, <1>4
  <2> QED BY <1>4, <2>1 DEF Counting
<1>7. RequeriesBounded'
  BY <1>3 DEF ToolsInv, RequeriesBounded, Tus!RequeriesBounded
<1>8. MessagesCounted' BY <1>3, <1>6 DEF ToolsInv, MessagesCounted, Failures
<1> QED BY <1>5, <1>7, <1>8 DEF ToolsInv

\* A failure is put into the history, and is being counted until its call ends.
LEMMA RecordFailureKeeps ==
  ASSUME ToolsInv, NEW c \in Caller, Tus!RecordFailure(c) PROVE ToolsInv'
<1> DEFINE t0 == caller[c].tool
<1>1. /\ ToolsTyped /\ caller[c].at = "failing" /\ t0 \in ToolName
      /\ messages' = [messages EXCEPT ![t0] = messages[t0] + 1]
      /\ requeries' = requeries
  BY DEF ToolsInv, ToolsTyped, Tus!RecordFailure
<1>2. messages' \in [ToolName -> Nat] BY <1>1 DEF ToolsTyped
<1>3. \A t \in ToolName : messages'[t] = IF t = t0 THEN messages[t] + 1 ELSE messages[t]
  BY <1>1 DEF ToolsTyped
<1>4. ASSUME NEW e \in {"fatal", "salvaged"}, Tus!EndsAs(c, e) PROVE ToolsInv'
  <2>1. e \in Tus!Ended BY DEF Tus!Ended
  <2>2. ToolsTyped' BY <1>1, <1>2, <1>4, <2>1, CallEnds DEF ToolsTyped
  <2>3. \A t : Counting(t)' = Counting(t)
    <3>1. caller'[c].at = "idle" /\ \A d \in Caller : d # c => caller'[d] = caller[d]
      BY <1>1, <1>4, <2>1, CallEnds
    <3> QED BY <1>1, <3>1 DEF Counting
  <2>4. MessagesCounted'
    <3> SUFFICES ASSUME NEW t \in ToolName
                 PROVE  messages'[t] = Failures(t)' + Cardinality(Counting(t)')
      BY DEF MessagesCounted
    <3>1. Failures(t)' = IF t = t0 THEN Failures(t) + 1 ELSE Failures(t)
      BY <1>1, <1>4, <2>1, FailureCounted
    <3>2. messages[t] = Failures(t) + Cardinality(Counting(t))
      BY DEF ToolsInv, MessagesCounted
    <3>3. Failures(t) \in Nat /\ Cardinality(Counting(t)) \in Nat
      BY <1>1, FailuresTyped, CountingFinite
    <3>4. Cardinality(Counting(t)') = Cardinality(Counting(t)) BY <2>3
    <3> HIDE DEF t0
    <3> QED BY <1>3, <3>1, <3>2, <3>3, <3>4
  <2>5. RequeriesBounded'
    <3>1. \A t \in ToolName : /\ ended'[t]["fed_back"] = ended[t]["fed_back"]
                              /\ ended'[t]["exhausted"] = ended[t]["exhausted"]
      BY <1>1, <1>4, <2>1, CallEnds DEF Tus!Ended
    <3> QED BY <1>1, <3>1 DEF ToolsInv, RequeriesBounded, Tus!RequeriesBounded
  <2> QED BY <2>2, <2>4, <2>5 DEF ToolsInv
<1>5. CASE caller' = [caller EXCEPT ![c].at = "counting"] /\ ended' = ended
  <2> DEFINE call == [caller[c] EXCEPT !.at = "counting"]
  <2>1. call \in InACall /\ call.tool = t0 /\ call.at = "counting"
    BY <1>1 DEF ToolsTyped, InACall
  <2>2. caller' = [caller EXCEPT ![c] = call] BY <1>5
  <2>3. /\ caller' \in [Caller -> InACall]
        /\ caller'[c] = call
        /\ \A d \in Caller : d # c => caller'[d] = caller[d]
    BY <1>1, <2>1, <2>2 DEF ToolsTyped
  <2> HIDE DEF call
  <2>4. ToolsTyped' BY <1>1, <1>2, <1>5, <2>1, <2>3 DEF ToolsTyped
  <2>5. \A t : Counting(t)' = IF t = t0 THEN Counting(t) \cup {c} ELSE Counting(t)
    BY <1>1, <2>1, <2>3 DEF Counting
  <2>6. \A t : c \notin Counting(t) BY <1>1 DEF Counting
  <2>7. MessagesCounted'
    <3> SUFFICES ASSUME NEW t \in ToolName
                 PROVE  messages'[t] = Failures(t)' + Cardinality(Counting(t)')
      BY DEF MessagesCounted
    <3>1. Failures(t)' = Failures(t) BY <1>5 DEF Failures
    <3>2. messages[t] = Failures(t) + Cardinality(Counting(t))
      BY DEF ToolsInv, MessagesCounted
    <3>3. Failures(t) \in Nat /\ Cardinality(Counting(t)) \in Nat
      BY <1>1, FailuresTyped, CountingFinite
    <3>4. Cardinality(Counting(t)') = IF t = t0 THEN Cardinality(Counting(t)) + 1
                                                ELSE Cardinality(Counting(t))
      BY <2>5, <2>6, CountingFinite, FS_AddElement
    <3> HIDE DEF t0
    <3> QED BY <1>3, <3>1, <3>2, <3>3, <3>4
  <2>8. RequeriesBounded'
    BY <1>1, <1>5 DEF ToolsInv, RequeriesBounded, Tus!RequeriesBounded
  <2> QED BY <2>4, <2>7, <2>8 DEF ToolsInv
<1> QED BY <1>4, <1>5 DEF Tus!RecordFailure

\* The requery of a tool is counted, and its bound compared, in one step.
LEMMA CountRequeryKeeps ==
  ASSUME ToolsInv, NEW c \in Caller, Tus!CountRequery(c) PROVE ToolsInv'
<1> DEFINE t0 == caller[c].tool
           e == IF requeries'[t0] > MaxRequeries THEN "exhausted" ELSE "fed_back"
<1>1. /\ ToolsTyped /\ caller[c].at = "counting" /\ t0 \in ToolName
      /\ messages' = messages
      /\ requeries' = [requeries EXCEPT ![t0] = requeries[t0] + 1]
      /\ Tus!EndsAs(c, e)
  BY DEF ToolsInv, ToolsTyped, Tus!CountRequery
<1>2. e \in Tus!Ended BY DEF Tus!Ended
<1>3. /\ requeries' \in [ToolName -> Nat]
      /\ \A t \in ToolName :
           requeries'[t] = IF t = t0 THEN requeries[t] + 1 ELSE requeries[t]
  BY <1>1 DEF ToolsTyped
<1>4. ToolsTyped' BY <1>1, <1>2, <1>3, CallEnds DEF ToolsTyped
<1>5. \A t : Counting(t)' = IF t = t0 THEN Counting(t) \ {c} ELSE Counting(t)
  <2>1. caller'[c].at = "idle" /\ \A d \in Caller : d # c => caller'[d] = caller[d]
    BY <1>1, <1>2, CallEnds
  <2> QED BY <1>1, <2>1 DEF Counting
<1>6. c \in Counting(t0) BY <1>1 DEF Counting
<1>7. MessagesCounted'
  <2> SUFFICES ASSUME NEW t \in ToolName
               PROVE  messages'[t] = Failures(t)' + Cardinality(Counting(t)')
    BY DEF MessagesCounted
  <2>1. Failures(t)' = IF t = t0 THEN Failures(t) + 1 ELSE Failures(t)
    BY <1>1, <1>2, FailureCounted
  <2>2. messages[t] = Failures(t) + Cardinality(Counting(t))
    BY DEF ToolsInv, MessagesCounted
  <2>3. Failures(t) \in Nat /\ Cardinality(Counting(t)) \in Nat
    BY <1>1, FailuresTyped, CountingFinite
  <2>4. Cardinality(Counting(t)') = IF t = t0 THEN Cardinality(Counting(t)) - 1
                                              ELSE Cardinality(Counting(t))
    BY <1>5, <1>6, CountingFinite, FS_RemoveElement
  <2> HIDE DEF t0
  <2> QED BY <1>1, <2>1, <2>2, <2>3, <2>4
<1>8. RequeriesBounded'
  <2> SUFFICES ASSUME NEW t \in ToolName
               PROVE  /\ ended'[t]["fed_back"] <= MaxRequeries
                      /\ ended'[t]["exhausted"] > 0 => ended'[t]["fed_back"] = MaxRequeries
                      /\ requeries'[t] = ended'[t]["fed_back"] + ended'[t]["exhausted"]
    BY DEF RequeriesBounded, Tus!RequeriesBounded
  <2>1. /\ ended[t]["fed_back"] <= MaxRequeries
        /\ ended[t]["exhausted"] > 0 => ended[t]["fed_back"] = MaxRequeries
        /\ requeries[t] = ended[t]["fed_back"] + ended[t]["exhausted"]
    BY DEF ToolsInv, RequeriesBounded, Tus!RequeriesBounded
  <2>2. /\ ended[t]["fed_back"] \in Nat
        /\ ended[t]["exhausted"] \in Nat
        /\ MaxRequeries \in Nat
    BY <1>1, FailuresTyped, ServicesAssumption
  <2>3. \A f \in {"fed_back", "exhausted"} :
          ended'[t][f] = IF t = t0 /\ f = e THEN ended[t][f] + 1 ELSE ended[t][f]
    BY <1>1, <1>2, CallEnds DEF Tus!Ended
  <2>4. CASE t # t0 BY <1>3, <2>1, <2>3, <2>4
  <2>5. CASE t = t0 /\ requeries[t] + 1 > MaxRequeries
    <3>1. e = "exhausted" BY <1>1, <1>3, <2>5
    <3>2. /\ ended'[t]["exhausted"] = ended[t]["exhausted"] + 1
          /\ ended'[t]["fed_back"] = ended[t]["fed_back"]
      BY <2>3, <2>5, <3>1
    <3>3. requeries'[t] = requeries[t] + 1 BY <1>3, <2>5
    <3> QED BY <2>1, <2>2, <2>5, <3>2, <3>3
  <2>6. CASE t = t0 /\ ~(requeries[t] + 1 > MaxRequeries)
    <3>1. e = "fed_back" BY <1>1, <1>3, <2>6
    <3>2. /\ ended'[t]["exhausted"] = ended[t]["exhausted"]
          /\ ended'[t]["fed_back"] = ended[t]["fed_back"] + 1
      BY <2>3, <2>6, <3>1
    <3>3. requeries'[t] = requeries[t] + 1 BY <1>3, <2>6
    <3> QED BY <2>1, <2>2, <2>6, <3>2, <3>3
  <2> QED BY <2>4, <2>5, <2>6
<1> QED BY <1>4, <1>7, <1>8 DEF ToolsInv

\* Every step of the tools keeps the counts.
LEMMA ToolsStep == ASSUME ToolsInv, [Tus!Next]_tusVars PROVE ToolsInv'
<1>1. ASSUME NEW c \in Caller, NEW t \in ToolName,
             Tus!InvokeUnknown(c, t) \/ Tus!InvokeAnswered(c, t)
      PROVE  ToolsInv'
  <2>1. Tus!Calls(c, "idle", "", "ok") BY <1>1 DEF Tus!InvokeUnknown, Tus!InvokeAnswered
  <2>2. "" \in ToolOrNone /\ "ok" \in Tus!Kind BY DEF ToolOrNone, Tus!Kind
  <2> QED BY <2>1, <2>2, CallBegins, Zenon
<1>2. ASSUME NEW c \in Caller, NEW t \in ToolName, NEW kind \in Tus!Kind,
             Tus!InvokeFailed(c, t, kind)
      PROVE  ToolsInv'
  <2>1. Tus!Calls(c, "failing", t, kind) BY <1>2 DEF Tus!InvokeFailed
  <2>2. t \in ToolOrNone BY DEF ToolOrNone
  <2> QED BY <2>1, <2>2, CallBegins
<1>3. ASSUME NEW c \in Caller, Tus!RecordFailure(c) PROVE ToolsInv'
  BY <1>3, RecordFailureKeeps
<1>4. ASSUME NEW c \in Caller, Tus!CountRequery(c) PROVE ToolsInv'
  BY <1>4, CountRequeryKeeps
<1>5. ASSUME UNCHANGED <<caller, messages, requeries, ended>> PROVE ToolsInv'
  BY <1>5 DEF ToolsInv, ToolsTyped, RequeriesBounded, Tus!RequeriesBounded,
              MessagesCounted, Failures, Counting
<1>6. ASSUME \/ \E origin \in ToolName \cup {Tus!Supplied} : Tus!RecordEvidence(origin)
             \/ Tus!Satisfy
             \/ UNCHANGED tusVars
      PROVE  ToolsInv'
  BY <1>5, <1>6 DEF Tus!RecordEvidence, Tus!Satisfy, tusVars
<1> QED BY <1>1, <1>2, <1>3, <1>4, <1>6 DEF Tus!Next

\* The module's own Cardinality is the one the library speaks of.
LEMMA ToolsCardinality == \A S : Tus!Cardinality(S) = Cardinality(S)
  BY DEF Cardinality, Tus!Cardinality

\* No call has been made at first.
LEMMA ToolsInit == AllInit => ToolsInv
<1> SUFFICES ASSUME AllInit PROVE ToolsInv OBVIOUS
<1> DEFINE call == [at |-> "idle", tool |-> "", kind |-> "ok", calls |-> 0]
<1>1. call \in InACall /\ call.at = "idle" BY DEF InACall, ToolOrNone, Tus!Kind
<1>2. caller = [c \in Caller |-> call] BY DEF AllInit, Tus!Init
<1> HIDE DEF call
<1>3. /\ messages = [t \in ToolName |-> 0]
      /\ requeries = [t \in ToolName |-> 0]
      /\ ended = [t \in ToolName |-> [e \in Tus!Ended |-> 0]]
  BY DEF AllInit, Tus!Init
<1>4. \A t \in ToolName : ended[t] = [e \in Tus!Ended |-> 0] BY <1>3
<1>5. \A t \in ToolName, e \in Tus!Ended : ended[t][e] = 0 BY <1>4
<1>6. ToolsTyped BY <1>1, <1>2, <1>3 DEF ToolsTyped
<1>7. RequeriesBounded
  BY <1>3, <1>5, ServicesAssumption DEF RequeriesBounded, Tus!RequeriesBounded, Tus!Ended
<1>8. \A t : Counting(t) = {} BY <1>1, <1>2 DEF Counting
<1>9. MessagesCounted
  BY <1>3, <1>5, <1>8, FS_EmptySet DEF MessagesCounted, Failures, Tus!Ended
<1> QED BY <1>6, <1>7, <1>9 DEF ToolsInv

\* So the counts are kept throughout.
LEMMA ToolsAlways == AllSpec => []ToolsInv
<1>1. ToolsInv /\ [AllNext]_all => ToolsInv' BY ToolsRun, ToolsStep
<1> QED BY <1>1, ToolsInit, PTL DEF AllSpec

(***************************************************************************)
(* RequeriesRunOut: `ToolSet::invoke` (tools/mod.rs) feeds a tool's        *)
(* failures back max_requeries times over the life of the set and refuses  *)
(* the rest, whoever calls and however the calls interleave.               *)
(***************************************************************************)
THEOREM RequeriesRunOut == AllSpec => []RequeriesBounded
<1>1. ToolsInv => RequeriesBounded BY DEF ToolsInv
<1> QED BY <1>1, ToolsAlways, PTL

(***************************************************************************)
(* NoFailureIsPrivate: every failure a call came to is in the history of   *)
(* the set, for any callers and tools.                                     *)
(***************************************************************************)
THEOREM NoFailureIsPrivate == AllSpec => []FailuresAreMessages
<1>1. ToolsInv => FailuresAreMessages
  <2> SUFFICES ASSUME MessagesCounted PROVE Tus!FailuresAreMessages
    BY DEF ToolsInv, FailuresAreMessages
  <2> QED BY ToolsCardinality
       DEF MessagesCounted, Failures, Counting, Tus!FailuresAreMessages
<1> QED BY <1>1, ToolsAlways, PTL

-----------------------------------------------------------------------------
(***************************************************************************)
(* The workspace.  The writers between the insert and their checkpoint are *)
(* what the counts lack; the writer of a file not listed is in between.    *)
(***************************************************************************)
PathOrNone == Path \cup {Wsp!Nowhere}

InAWrite ==
  [at : {"idle", "verified", "landing", "landed"}, path : PathOrNone, writes : Nat]

WritesTyped ==
  /\ author \in [Author -> InAWrite]
  /\ touched \in Seq(PathOrNone)
  /\ commits \in Nat
  /\ failures \in Nat
  /\ landings \in Nat

InFlight == {a \in Author : author[a].at \in {"landing", "landed"}}

LandingsCounted == landings = commits + failures + Cardinality(InFlight)

Listed(path) == \E i \in 1 .. Len(touched) : touched[i] = path

AboutToList(path) == \E a \in Author : author[a].at = "landing" /\ author[a].path = path

LandedSeen == \A path \in landed : Listed(path) \/ AboutToList(path)

WritesInv == WritesTyped /\ LandingsCounted /\ LandedSeen

\* Only finitely many writes are under way.
LEMMA InFlightFinite == IsFiniteSet(InFlight) /\ Cardinality(InFlight) \in Nat
<1>1. InFlight \subseteq Author BY DEF InFlight
<1> QED BY <1>1, ServicesAssumption, FS_Subset, FS_CardinalityType

\* One writer goes on; its path stays.
LEMMA WriterGoes ==
  ASSUME WritesTyped, NEW a \in Author, NEW from, NEW to \in {"idle", "landing", "landed"},
         Wsp!Goes(a, from, to)
  PROVE  /\ author[a].at = from
         /\ author' \in [Author -> InAWrite]
         /\ author'[a].at = to /\ author'[a].path = author[a].path
         /\ \A b \in Author : b # a => author'[b] = author[b]
         /\ author[a].path \in PathOrNone
         /\ UNCHANGED <<commits, failures>>
<1> DEFINE write == [author[a] EXCEPT !.at = to]
<1>1. author[a] \in InAWrite BY DEF WritesTyped
<1>2. write \in InAWrite /\ write.at = to /\ write.path = author[a].path
  BY <1>1 DEF InAWrite
<1>3. author' = [author EXCEPT ![a] = write] BY DEF Wsp!Goes
<1> HIDE DEF write
<1> QED BY <1>1, <1>2, <1>3 DEF WritesTyped, InAWrite, Wsp!Goes

\* A write proposed has landed nothing yet.
LEMMA ProposeKeeps ==
  ASSUME WritesInv, NEW a \in Author, NEW path \in Path, NEW refused \in BOOLEAN,
         Wsp!Propose(a, path, refused)
  PROVE  WritesInv'
<1> DEFINE write == [at     |-> IF refused THEN "idle" ELSE "verified",
                     path   |-> IF refused THEN Wsp!Nowhere ELSE path,
                     writes |-> author[a].writes + 1]
<1>1. author[a] \in InAWrite /\ author[a].at = "idle"
  BY DEF WritesInv, WritesTyped, Wsp!Propose
<1>2. write \in InAWrite /\ write.at \in {"idle", "verified"}
  <2>1. author[a].writes + 1 \in Nat BY <1>1 DEF InAWrite
  <2> QED BY <2>1 DEF InAWrite, PathOrNone
<1>3. /\ author' = [author EXCEPT ![a] = write]
      /\ UNCHANGED <<touched, commits, failures, landed, landings>>
  BY DEF Wsp!Propose
<1> HIDE DEF write
<1>4. /\ author' \in [Author -> InAWrite] /\ author'[a] = write
      /\ \A b \in Author : b # a => author'[b] = author[b]
  BY <1>2, <1>3 DEF WritesInv, WritesTyped
<1>5. InFlight' = InFlight BY <1>1, <1>2, <1>4 DEF InFlight
<1>6. \A p : AboutToList(p) => AboutToList(p)' BY <1>1, <1>4 DEF AboutToList
<1> QED BY <1>3, <1>4, <1>5, <1>6
        DEF WritesInv, WritesTyped, LandingsCounted, LandedSeen, Listed

\* A file lands before it is listed, and is about to be until then.
LEMMA LandKeeps == ASSUME WritesInv, NEW a \in Author, Wsp!Land(a) PROVE WritesInv'
<1> DEFINE p == author[a].path
<1>1. CASE Wsp!Goes(a, "verified", "landing") /\ Wsp!Inserts(p)
  <2>1. /\ author[a].at = "verified"
        /\ author' \in [Author -> InAWrite]
        /\ author'[a].at = "landing" /\ author'[a].path = p
        /\ \A b \in Author : b # a => author'[b] = author[b]
        /\ commits' = commits /\ failures' = failures
    BY <1>1, WriterGoes DEF WritesInv
  <2>2. touched' = touched /\ landed' = landed \cup {p} /\ landings' = landings + 1
    BY <1>1 DEF Wsp!Inserts
  <2>3. WritesTyped' BY <2>1, <2>2 DEF WritesInv, WritesTyped
  <2>4. InFlight' = InFlight \cup {a} /\ a \notin InFlight BY <2>1 DEF InFlight
  <2>5. Cardinality(InFlight') = Cardinality(InFlight) + 1
    BY <2>4, InFlightFinite, FS_AddElement
  <2>6. LandingsCounted'
    BY <2>1, <2>2, <2>5, InFlightFinite DEF WritesInv, WritesTyped, LandingsCounted
  <2>7. LandedSeen'
    <3> SUFFICES ASSUME NEW q \in landed' PROVE Listed(q)' \/ AboutToList(q)'
      BY DEF LandedSeen
    <3>1. CASE q = p BY <2>1, <3>1 DEF AboutToList
    <3>2. CASE q \in landed
      <4>1. Listed(q) \/ AboutToList(q) BY <3>2 DEF WritesInv, LandedSeen
      <4> QED BY <2>1, <2>2, <4>1 DEF Listed, AboutToList
    <3> QED BY <2>2, <3>1, <3>2
  <2> QED BY <2>3, <2>6, <2>7 DEF WritesInv
<1>2. CASE Wsp!Goes(a, "landing", "landed") /\ Wsp!Lists(p)
  <2>1. /\ author[a].at = "landing"
        /\ author' \in [Author -> InAWrite]
        /\ author'[a].at = "landed" /\ author'[a].path = p
        /\ \A b \in Author : b # a => author'[b] = author[b]
        /\ p \in PathOrNone
        /\ commits' = commits /\ failures' = failures
    BY <1>2, WriterGoes DEF WritesInv
  <2>2. touched' = Append(touched, p) /\ landed' = landed /\ landings' = landings
    BY <1>2 DEF Wsp!Lists
  <2> HIDE DEF p
  <2>3. touched \in Seq(PathOrNone) BY DEF WritesInv, WritesTyped
  <2>4. /\ touched' \in Seq(PathOrNone) /\ Len(touched') = Len(touched) + 1
        /\ \A i \in 1 .. Len(touched) : touched'[i] = touched[i]
        /\ touched'[Len(touched) + 1] = p
    BY <2>1, <2>2, <2>3
  <2>5. WritesTyped' BY <2>1, <2>2, <2>4 DEF WritesInv, WritesTyped
  <2>6. InFlight' = InFlight BY <2>1 DEF InFlight
  <2>7. LandingsCounted' BY <2>1, <2>2, <2>6 DEF WritesInv, LandingsCounted
  <2>8. ASSUME NEW q, Listed(q) \/ q = p PROVE Listed(q)'
    <3>1. Len(touched) \in Nat BY <2>3
    <3>2. CASE q = p BY <2>4, <3>1, <3>2 DEF Listed
    <3>3. CASE Listed(q)
      <4>1. PICK i \in 1 .. Len(touched) : touched[i] = q BY <3>3 DEF Listed
      <4>2. i \in 1 .. Len(touched') /\ touched'[i] = q BY <2>4, <3>1, <4>1
      <4> QED BY <4>2 DEF Listed
    <3> QED BY <2>8, <3>2, <3>3
  <2>9. \A q : AboutToList(q) => q = p \/ AboutToList(q)'
    BY <2>1 DEF AboutToList, p
  <2>10. LandedSeen' BY <2>2, <2>8, <2>9 DEF WritesInv, LandedSeen
  <2> QED BY <2>5, <2>7, <2>10 DEF WritesInv
<1> QED BY <1>1, <1>2 DEF Wsp!Land

\* A checkpoint tried ends the write, committed or counted as failed.
LEMMA CheckpointedKeeps ==
  ASSUME WritesInv, NEW a \in Author, NEW ok \in BOOLEAN, Wsp!Checkpointed(a, ok)
  PROVE  WritesInv'
<1> DEFINE write == [author[a] EXCEPT !.at = "idle"]
<1>1. author[a] \in InAWrite /\ author[a].at = "landed"
  BY DEF WritesInv, WritesTyped, Wsp!Checkpointed
<1>2. write \in InAWrite /\ write.at = "idle" BY <1>1 DEF InAWrite
<1>3. author' = [author EXCEPT ![a] = write] /\ UNCHANGED <<touched, landed, landings>>
  BY DEF Wsp!Checkpointed
<1> HIDE DEF write
<1>4. /\ author' \in [Author -> InAWrite] /\ author'[a] = write
      /\ \A b \in Author : b # a => author'[b] = author[b]
  BY <1>2, <1>3 DEF WritesInv, WritesTyped
<1>5. /\ commits' \in Nat /\ failures' \in Nat
      /\ commits' + failures' = commits + failures + 1
  <2>1. commits \in Nat /\ failures \in Nat BY DEF WritesInv, WritesTyped
  <2>2. CASE ok BY <2>1, <2>2 DEF Wsp!Checkpointed
  <2>3. CASE ~ok BY <2>1, <2>3 DEF Wsp!Checkpointed
  <2> QED BY <2>2, <2>3
<1>6. WritesTyped' BY <1>3, <1>4, <1>5 DEF WritesInv, WritesTyped
<1>7. InFlight' = InFlight \ {a} /\ a \in InFlight BY <1>1, <1>2, <1>4 DEF InFlight
<1>8. Cardinality(InFlight') = Cardinality(InFlight) - 1
  BY <1>7, InFlightFinite, FS_RemoveElement
<1>9. LandingsCounted'
  <2>1. landings = commits + failures + Cardinality(InFlight)
    BY DEF WritesInv, LandingsCounted
  <2>2. commits \in Nat /\ failures \in Nat BY DEF WritesInv, WritesTyped
  <2>3. landings' = landings BY <1>3
  <2>4. landings' = commits' + failures' + Cardinality(InFlight')
    <3>1. Cardinality(InFlight) \in Nat BY InFlightFinite
    <3>2. commits + failures + Cardinality(InFlight)
            = (commits + failures + 1) + (Cardinality(InFlight) - 1)
      BY <2>2, <3>1
    <3> QED BY <1>5, <1>8, <2>1, <2>3, <3>2
  <2> QED BY <2>4 DEF LandingsCounted
<1>10. \A q : AboutToList(q) => AboutToList(q)' BY <1>1, <1>4 DEF AboutToList
<1>11. LandedSeen' BY <1>3, <1>10 DEF WritesInv, LandedSeen, Listed
<1> QED BY <1>6, <1>9, <1>11 DEF WritesInv

\* Every step of the workspace keeps the writes.
LEMMA WritesStep == ASSUME WritesInv, [Wsp!Next]_wspVars PROVE WritesInv'
<1>1. ASSUME Wsp!Mark PROVE WritesInv'
  <2>1. /\ touched' = << >> /\ landed' = {}
        /\ UNCHANGED <<commits, failures, author, landings>>
    BY <1>1 DEF Wsp!Mark
  <2> QED BY <2>1 DEF WritesInv, WritesTyped, LandingsCounted, InFlight, LandedSeen
<1>2. ASSUME UNCHANGED wspVars PROVE WritesInv'
  BY <1>2 DEF wspVars, WritesInv, WritesTyped, LandingsCounted, InFlight, LandedSeen,
              Listed, AboutToList
<1> QED BY <1>1, <1>2, ProposeKeeps, LandKeeps, CheckpointedKeeps DEF Wsp!Next

\* Nothing has been written at first.
LEMMA WritesInit == AllInit => WritesInv
<1> SUFFICES ASSUME AllInit PROVE WritesInv OBVIOUS
<1> DEFINE write == [at |-> "idle", path |-> Wsp!Nowhere, writes |-> 0]
<1>1. write \in InAWrite /\ write.at = "idle" BY DEF InAWrite, PathOrNone
<1>2. /\ author = [a \in Author |-> write]
      /\ touched = << >> /\ landed = {} /\ commits = 0 /\ failures = 0 /\ landings = 0
  BY DEF AllInit, Wsp!Init
<1> HIDE DEF write
<1>3. InFlight = {} BY <1>1, <1>2 DEF InFlight
<1> QED BY <1>1, <1>2, <1>3, FS_EmptySet
     DEF WritesInv, WritesTyped, LandingsCounted, LandedSeen

\* So they are kept throughout.
LEMMA WritesAlways == AllSpec => []WritesInv
<1>1. WritesInv /\ [AllNext]_all => WritesInv' BY WorkspaceRuns, WritesStep
<1> QED BY <1>1, WritesInit, PTL DEF AllSpec

\* The module's own Cardinality is the one the library speaks of.
LEMMA WorkspaceCardinality == \A S : Wsp!Cardinality(S) = Cardinality(S)
  BY DEF Cardinality, Wsp!Cardinality

(***************************************************************************)
(* LandingsAccountedFor: whatever authors write and whenever a mark is     *)
(* taken, a file that landed since is listed or about to be, and every     *)
(* write that landed is checkpointed, or its failure reported, or its      *)
(* author still in the call (workspace/mod.rs).                            *)
(***************************************************************************)
THEOREM LandingsAccountedFor == AllSpec => []NoWriteLost
<1>1. WritesInv => NoWriteLost
  <2> SUFFICES ASSUME WritesInv PROVE NoWriteLost OBVIOUS
  <2>1. DOMAIN touched = 1 .. Len(touched) BY DEF WritesInv, WritesTyped
  <2>2. Wsp!MarkHidesNothing
    BY <2>1 DEF WritesInv, LandedSeen, Listed, AboutToList, Wsp!MarkHidesNothing, Wsp!Landing
  <2>3. Wsp!EveryLandingRecorded
    BY WorkspaceCardinality DEF WritesInv, LandingsCounted, InFlight, Wsp!EveryLandingRecorded
  <2> QED BY <2>2, <2>3 DEF NoWriteLost, Wsp!NoWriteLost
<1> QED BY <1>1, WritesAlways, PTL

-----------------------------------------------------------------------------
(***************************************************************************)
(* The history.  What a compaction forgets is past every cut made before   *)
(* it and within its own; that is why no record is forgotten twice.        *)
(***************************************************************************)
Cut == [forgotten : SUBSET Int, offset : Nat]

CutsOrdered ==
  /\ appended \in Nat
  /\ condensations \in Seq(Cut)
  /\ \A i \in 1 .. Len(condensations) :
       /\ condensations[i].offset <= appended
       /\ \A e \in condensations[i].forgotten : e <= condensations[i].offset
  /\ \A i, j \in 1 .. Len(condensations) : i < j =>
       /\ condensations[i].offset < condensations[j].offset
       /\ \A e \in condensations[j].forgotten : condensations[i].offset < e

\* A cut has an offset, and forgets entries by number.
LEMMA CutTyped ==
  ASSUME CutsOrdered, NEW i \in 1 .. Len(condensations)
  PROVE  condensations[i].offset \in Nat /\ condensations[i].forgotten \in SUBSET Int
<1>1. condensations[i] \in Cut BY DEF CutsOrdered
<1> QED BY <1>1 DEF Cut

\* The cut in force is past every other.
LEMMA LatestCut ==
  ASSUME CutsOrdered
  PROVE  /\ Con!OffsetOf(condensations) \in Nat
         /\ Con!OffsetOf(condensations) <= appended
         /\ \A i \in 1 .. Len(condensations) :
              condensations[i].offset <= Con!OffsetOf(condensations)
<1>1. CASE condensations = << >> BY <1>1 DEF CutsOrdered, Con!OffsetOf
<1>2. CASE condensations # << >>
  <2> DEFINE n == Len(condensations)
  <2>1. n \in Nat \ {0} BY <1>2 DEF CutsOrdered
  <2>2. Con!OffsetOf(condensations) = condensations[n].offset BY <1>2 DEF Con!OffsetOf
  <2>3. condensations[n] \in Cut BY <2>1 DEF CutsOrdered
  <2>4. ASSUME NEW i \in 1 .. n PROVE condensations[i].offset <= condensations[n].offset
    <3>1. condensations[i].offset \in Nat BY CutTyped
    <3>2. condensations[n].offset \in Nat BY <2>3 DEF Cut
    <3>3. i = n \/ i < n BY <2>1
    <3>4. i < n => condensations[i].offset < condensations[n].offset
      BY <2>1 DEF CutsOrdered
    <3> QED BY <3>1, <3>2, <3>3, <3>4
  <2>5. condensations[n].offset <= appended BY <2>1 DEF CutsOrdered
  <2> QED BY <2>2, <2>3, <2>4, <2>5 DEF Cut
<1> QED BY <1>1, <1>2

\* A compaction cuts further on than the cut in force, or does nothing.
LEMMA CutGoesOn ==
  ASSUME CutsOrdered, NEW pinned \in SUBSET Int, NEW keep \in Nat,
         ~(appended - Con!OffsetOf(condensations) <= keep)
  PROVE  /\ appended - keep \in Nat
         /\ Con!OffsetOf(condensations) < appended - keep
         /\ Con!Condensed(appended, condensations, pinned, keep)
              = Append(condensations,
                  [forgotten |->
                     ((Con!OffsetOf(condensations) + 1) .. appended - keep) \ pinned,
                   offset |-> appended - keep])
<1>1. appended \in Nat BY DEF CutsOrdered
<1>2. appended - keep \in Nat /\ Con!OffsetOf(condensations) < appended - keep
  BY <1>1, LatestCut
<1> QED BY <1>2 DEF Con!Condensed

\* A compaction cuts at or after the cut before it.
LEMMA CompactKeeps ==
  ASSUME CutsOrdered, NEW pinned \in SUBSET (1 .. MaxEntries), NEW keep \in 0 .. MaxEntries,
         Con!Compact(pinned, keep)
  PROVE  CutsOrdered'
<1>1. pinned \in SUBSET Int /\ keep \in Nat OBVIOUS
<1>2. /\ appended' = appended
      /\ condensations' = Con!Condensed(appended, condensations, pinned, keep)
  BY DEF Con!Compact
<1>3. CASE appended - Con!OffsetOf(condensations) <= keep
  <2>1. condensations' = condensations BY <1>2, <1>3 DEF Con!Condensed
  <2> QED BY <1>2, <2>1 DEF CutsOrdered
<1>4. CASE ~(appended - Con!OffsetOf(condensations) <= keep)
  <2> DEFINE o == Con!OffsetOf(condensations)
             n == Len(condensations)
             cut == [forgotten |-> ((o + 1) .. appended - keep) \ pinned,
                     offset |-> appended - keep]
  <2>1. /\ o \in Nat /\ appended - keep \in Nat /\ o < appended - keep
        /\ condensations' = Append(condensations, cut)
    BY <1>1, <1>2, <1>4, CutGoesOn, LatestCut
  <2>2. /\ cut \in Cut /\ cut.offset = appended - keep
        /\ \A e \in cut.forgotten : e \in Int /\ o < e /\ e <= cut.offset
    BY <1>1, <2>1 DEF Cut
  <2>3. \A i \in 1 .. n : condensations[i] \in Cut /\ condensations[i].offset <= o
    BY LatestCut DEF CutsOrdered
  <2>4. n \in Nat /\ appended \in Nat BY DEF CutsOrdered
  <2> HIDE DEF o, cut
  <2>5. /\ condensations' \in Seq(Cut)
        /\ Len(condensations') = n + 1
        /\ \A i \in 1 .. n : condensations'[i] = condensations[i]
        /\ condensations'[n + 1] = cut
    BY <2>1, <2>2 DEF CutsOrdered
  <2>6. ASSUME NEW i \in 1 .. n + 1
        PROVE  /\ condensations'[i].offset <= appended
               /\ \A e \in condensations'[i].forgotten : e <= condensations'[i].offset
    <3>1. CASE i = n + 1 BY <1>1, <2>1, <2>2, <2>4, <2>5, <3>1
    <3>2. CASE i \in 1 .. n BY <2>5, <3>2 DEF CutsOrdered
    <3> QED BY <2>4, <3>1, <3>2
  <2>7. ASSUME NEW i \in 1 .. n + 1, NEW j \in 1 .. n + 1, i < j
        PROVE  /\ condensations'[i].offset < condensations'[j].offset
               /\ \A e \in condensations'[j].forgotten : condensations'[i].offset < e
    <3>1. i \in 1 .. n BY <2>4, <2>7
    <3>2. CASE j = n + 1
      <4>1. condensations'[i].offset \in Nat /\ condensations'[i].offset <= o
        BY <2>3, <2>5, <3>1 DEF Cut
      <4>2. condensations'[j] = cut BY <2>5, <3>2
      <4> QED BY <2>1, <2>2, <4>1, <4>2
    <3>3. CASE j \in 1 .. n BY <2>5, <2>7, <3>1, <3>3 DEF CutsOrdered
    <3> QED BY <2>4, <3>2, <3>3
  <2> QED BY <1>2, <2>4, <2>5, <2>6, <2>7 DEF CutsOrdered
<1> QED BY <1>3, <1>4

\* Every step of the history keeps the cuts in order.
LEMMA HistoryStep == ASSUME CutsOrdered, [Con!Next]_conVars PROVE CutsOrdered'
<1>1. ASSUME Con!Remember PROVE CutsOrdered'
  <2>1. appended' = appended + 1 /\ condensations' = condensations
    BY <1>1 DEF Con!Remember
  <2>2. \A i \in 1 .. Len(condensations) : condensations[i].offset \in Nat
    BY CutTyped
  <2> QED BY <2>1, <2>2 DEF CutsOrdered
<1>2. ASSUME UNCHANGED conVars PROVE CutsOrdered' BY <1>2 DEF conVars, CutsOrdered
<1> QED BY <1>1, <1>2, CompactKeeps DEF Con!Next

(***************************************************************************)
(* NothingForgottenTwice: however a history is compacted, with whatever    *)
(* pins and limits (`condense`, memory/mod.rs), no record is forgotten     *)
(* twice, nor while it is shown, and a repeat changes nothing.             *)
(***************************************************************************)
THEOREM NothingForgottenTwice == AllSpec => []ForgottenOnce
<1>1. AllInit => CutsOrdered BY DEF AllInit, Con!Init, CutsOrdered
<1>2. CutsOrdered /\ [AllNext]_all => CutsOrdered' BY HistoryRuns, HistoryStep
<1>3. CutsOrdered => ForgottenOnce
  <2> SUFFICES ASSUME CutsOrdered PROVE ForgottenOnce OBVIOUS
  <2> DEFINE o == Con!OffsetOf(condensations)
  <2>1. DOMAIN condensations = 1 .. Len(condensations) BY DEF CutsOrdered
  <2>2. \A i \in 1 .. Len(condensations) :
          condensations[i].offset \in Nat /\ condensations[i].forgotten \in SUBSET Int
    BY CutTyped
  <2>3. ASSUME NEW i \in DOMAIN condensations, NEW j \in DOMAIN condensations, i < j
        PROVE  /\ condensations[i].offset < condensations[j].offset
               /\ condensations[i].forgotten \cap condensations[j].forgotten = {}
    <3>1. \A e \in condensations[i].forgotten : e <= condensations[i].offset
      BY <2>1 DEF CutsOrdered
    <3>2. \A e \in condensations[j].forgotten : condensations[i].offset < e
      BY <2>1, <2>3 DEF CutsOrdered
    <3>3. condensations[i].offset < condensations[j].offset
      BY <2>1, <2>3 DEF CutsOrdered
    <3> QED BY <2>1, <2>2, <3>1, <3>2, <3>3
  <2>4. ASSUME NEW i \in DOMAIN condensations
        PROVE  condensations[i].forgotten \cap Con!View(appended, {}, o) = {}
    <3>1. \A e \in condensations[i].forgotten : e <= condensations[i].offset
      BY <2>1 DEF CutsOrdered
    <3>2. condensations[i].offset <= o /\ o \in Nat BY <2>1, LatestCut
    <3>3. \A e \in Con!View(appended, {}, o) : e > o BY DEF Con!View
    <3> HIDE DEF o
    <3> QED BY <2>1, <2>2, <3>1, <3>2, <3>3
  <2>5. ASSUME NEW keep \in 0 .. MaxEntries
        PROVE  LET once == Con!Condensed(appended, condensations, pins, keep)
               IN  Con!Condensed(appended, once, pins, keep) = once
    <3> DEFINE once == Con!Condensed(appended, condensations, pins, keep)
    <3>1. CASE appended - o <= keep BY <3>1 DEF Con!Condensed
    <3>2. CASE ~(appended - o <= keep)
      <4>1. PICK f : once = Append(condensations,
                               [forgotten |-> f, offset |-> appended - keep])
        BY <3>2 DEF Con!Condensed
      <4>2. appended \in Nat /\ keep \in Nat /\ condensations \in Seq(Cut)
        BY DEF CutsOrdered
      <4> HIDE DEF once
      <4>3. Con!OffsetOf(once) = appended - keep
        <5> DEFINE cut == [forgotten |-> f, offset |-> appended - keep]
        <5>1. cut.offset = appended - keep OBVIOUS
        <5> HIDE DEF cut
        <5>2. once = Append(condensations, cut) BY <4>1 DEF cut
        <5>3. once # << >> /\ once[Len(once)] = cut BY <4>2, <5>2
        <5> QED BY <5>1, <5>3 DEF Con!OffsetOf
      <4>4. appended - (appended - keep) <= keep BY <4>2
      <4> QED BY <4>3, <4>4 DEF Con!Condensed, once
    <3> QED BY <3>1, <3>2
  <2> QED BY <2>3, <2>4, <2>5 DEF ForgottenOnce, Con!ForgottenOnce
<1> QED BY <1>1, <1>2, <1>3, PTL DEF AllSpec

-----------------------------------------------------------------------------
(***************************************************************************)
(* The recorder.  An event is in one thread's hand from the moment what it *)
(* moves is moved until the sink is told, so each of the three properties  *)
(* is an account of the journal that hands make up for.                    *)
(***************************************************************************)
Event ==
  [from : Rec!Thread, number : Nat,
   kind : {"pass_started", "model_called", "node_entered"}, pass : Nat]

Holds(t) == hand[t] # << >>

InHand(t) == hand[t][1]

RecorderTyped ==
  /\ current \in Nat
  /\ charged \in Nat
  /\ entries \in Seq(Event)
  /\ lines \in Seq(Event)
  /\ sinkDrops \in Nat
  /\ made \in [Rec!Thread -> Nat]
  /\ hand \in [Rec!Thread -> Seq(Event)]
  /\ pushed \subseteq Rec!Thread
  /\ \A t \in pushed : Holds(t)
  /\ \A t \in Rec!Thread : Holds(t) =>
       /\ hand[t] = <<InHand(t)>>
       /\ InHand(t) \in Event
       /\ InHand(t).from = t
       /\ InHand(t).number = made[t]
       /\ InHand(t).kind = "pass_started" <=> t = Driver
       /\ InHand(t).pass <= current

\* The calls journalled and the threads with one still to journal.
CallsIn(s) == {i \in 1 .. Len(s) : s[i].kind = "model_called"}

Owing ==
  {t \in Rec!Thread : Holds(t) /\ t \notin pushed /\ InHand(t).kind = "model_called"}

SpendAccounted == charged = Cardinality(CallsIn(entries)) + Cardinality(Owing)

\* The passes journalled among the first n entries of s, and the one about to be.
PassesIn(s, n) == {i \in 1 .. n : s[i].kind = "pass_started"}

AboutToAnnounce == Holds(Driver) /\ Driver \notin pushed

PassesAccounted ==
  /\ current = made[Driver]
  /\ current = Cardinality(PassesIn(entries, Len(entries)))
                 + (IF AboutToAnnounce THEN 1 ELSE 0)
  /\ \A i \in 1 .. Len(entries) : entries[i].pass <= Cardinality(PassesIn(entries, i)) + 1

Journalled(e) == \E i \in 1 .. Len(entries) : entries[i] = e

LinesAccounted ==
  /\ Len(entries) = Len(lines) + sinkDrops + Cardinality(pushed)
  /\ \A i \in 1 .. Len(lines) : Journalled(lines[i])
  /\ \A t \in pushed : Journalled(InHand(t))

LinesOrdered ==
  /\ \A i \in 1 .. Len(lines) :
       /\ lines[i].number <= made[lines[i].from]
       /\ Holds(lines[i].from) => lines[i].number < made[lines[i].from]
  /\ \A i, j \in 1 .. Len(lines) :
       i < j /\ lines[i].from = lines[j].from => lines[i].number < lines[j].number

RecorderInv ==
  RecorderTyped /\ SpendAccounted /\ PassesAccounted /\ LinesAccounted /\ LinesOrdered

\* There are finitely many recording threads, the driver among them.
LEMMA ThreadsFinite ==
  /\ \A S : S \subseteq Rec!Thread => IsFiniteSet(S) /\ Cardinality(S) \in Nat
  /\ Driver \in Rec!Thread
<1>1. IsFiniteSet({Driver} \cup Worker)
  BY ServicesAssumption, FS_Singleton, FS_Union
<1> QED BY <1>1, FS_Subset, FS_CardinalityType DEF Rec!Thread

\* A set of places in a list is finite.
LEMMA PlacesFinite ==
  ASSUME NEW n \in Nat, NEW S \in SUBSET (1 .. n)
  PROVE  IsFiniteSet(S) /\ Cardinality(S) \in Nat
<1>1. IsFiniteSet(1 .. n) BY FS_Interval
<1> QED BY <1>1, FS_Subset, FS_CardinalityType

\* One entry more: what it adds to either account.
LEMMA EntryAdded ==
  ASSUME NEW s \in Seq(Event), NEW e \in Event
  PROVE  LET t == Append(s, e)
         IN  /\ t \in Seq(Event) /\ Len(t) = Len(s) + 1
             /\ \A i \in 1 .. Len(s) : t[i] = s[i]
             /\ t[Len(s) + 1] = e
             /\ Cardinality(CallsIn(s)) \in Nat
             /\ Cardinality(CallsIn(t)) = IF e.kind = "model_called"
                                            THEN Cardinality(CallsIn(s)) + 1
                                            ELSE Cardinality(CallsIn(s))
             /\ \A n \in 1 .. Len(s) : PassesIn(t, n) = PassesIn(s, n)
             /\ Cardinality(PassesIn(s, Len(s))) \in Nat
             /\ Cardinality(PassesIn(t, Len(s) + 1))
                  = IF e.kind = "pass_started" THEN Cardinality(PassesIn(s, Len(s))) + 1
                                               ELSE Cardinality(PassesIn(s, Len(s)))
<1> DEFINE t == Append(s, e)
           n == Len(s)
<1>1. n \in Nat OBVIOUS
<1>2. /\ t \in Seq(Event) /\ Len(t) = n + 1
      /\ \A i \in 1 .. n : t[i] = s[i]
      /\ t[n + 1] = e
  OBVIOUS
<1> HIDE DEF t
<1>3. CallsIn(t) = IF e.kind = "model_called" THEN CallsIn(s) \cup {n + 1} ELSE CallsIn(s)
  <2>1. \A i \in 1 .. n + 1 : i \in 1 .. n \/ i = n + 1 BY <1>1
  <2> QED BY <1>1, <1>2, <2>1 DEF CallsIn
<1>4. PassesIn(t, n + 1) = IF e.kind = "pass_started" THEN PassesIn(s, n) \cup {n + 1}
                                                     ELSE PassesIn(s, n)
  <2>1. \A i \in 1 .. n + 1 : i \in 1 .. n \/ i = n + 1 BY <1>1
  <2> QED BY <1>1, <1>2, <2>1 DEF PassesIn
<1>5. /\ n + 1 \notin CallsIn(s) /\ n + 1 \notin PassesIn(s, n)
      /\ CallsIn(s) \in SUBSET (1 .. n) /\ PassesIn(s, n) \in SUBSET (1 .. n)
  BY <1>1 DEF CallsIn, PassesIn
<1>6. /\ IsFiniteSet(CallsIn(s)) /\ Cardinality(CallsIn(s)) \in Nat
      /\ IsFiniteSet(PassesIn(s, n)) /\ Cardinality(PassesIn(s, n)) \in Nat
  BY <1>1, <1>5, PlacesFinite
<1>7. Cardinality(CallsIn(t)) = IF e.kind = "model_called" THEN Cardinality(CallsIn(s)) + 1
                                                          ELSE Cardinality(CallsIn(s))
  BY <1>3, <1>5, <1>6, FS_AddElement
<1>8. Cardinality(PassesIn(t, n + 1))
        = IF e.kind = "pass_started" THEN Cardinality(PassesIn(s, n)) + 1
                                     ELSE Cardinality(PassesIn(s, n))
  BY <1>4, <1>5, <1>6, FS_AddElement
<1>9. \A m \in 1 .. n : PassesIn(t, m) = PassesIn(s, m)
  <2> TAKE m \in 1 .. n
  <2>1. \A i \in 1 .. m : i \in 1 .. n BY <1>1
  <2> QED BY <1>2, <2>1 DEF PassesIn
<1> QED BY <1>2, <1>6, <1>7, <1>8, <1>9 DEF t

\* A thread takes an event in hand, and what the event moves is moved.
LEMMA EnterKeeps ==
  ASSUME RecorderInv, NEW t \in Rec!Thread, NEW p \in Nat,
         NEW kind \in {"pass_started", "model_called", "node_entered"},
         Rec!Enters(t, kind, p),
         kind = "pass_started" <=> t = Driver,
         current' = IF t = Driver THEN made[Driver] + 1 ELSE current,
         charged' = IF kind = "model_called" THEN charged + 1 ELSE charged,
         p <= current'
  PROVE  RecorderInv'
<1> DEFINE e == [from |-> t, number |-> made[t] + 1, kind |-> kind, pass |-> p]
<1>1. /\ RecorderTyped
      /\ ~Holds(t)
      /\ made' = [made EXCEPT ![t] = made[t] + 1]
      /\ hand' = [hand EXCEPT ![t] = <<e>>]
      /\ UNCHANGED <<entries, lines, sinkDrops, pushed>>
  BY DEF RecorderInv, RecorderTyped, Rec!Enters, Holds
<1>2. /\ e \in Event /\ e.from = t /\ e.number = made[t] + 1 /\ e.kind = kind /\ e.pass = p
      /\ made[t] \in Nat
  BY <1>1 DEF RecorderTyped, Event
<1> HIDE DEF e
<1>3. /\ made' \in [Rec!Thread -> Nat] /\ made'[t] = made[t] + 1
      /\ hand' \in [Rec!Thread -> Seq(Event)] /\ hand'[t] = <<e>>
      /\ \A u \in Rec!Thread : u # t => hand'[u] = hand[u] /\ made'[u] = made[u]
  BY <1>1, <1>2 DEF RecorderTyped
<1>4. /\ Holds(t)' /\ InHand(t)' = e /\ t \notin pushed
      /\ \A u \in Rec!Thread : u # t => (Holds(u)' <=> Holds(u)) /\ InHand(u)' = InHand(u)
  BY <1>1, <1>3 DEF RecorderTyped, Holds, InHand
<1>5. current \in Nat /\ charged \in Nat /\ current' \in Nat /\ charged' \in Nat
      /\ current <= current'
  <2>1. current \in Nat /\ charged \in Nat /\ made[Driver] \in Nat /\ current = made[Driver]
    BY <1>1, ThreadsFinite DEF RecorderTyped, RecorderInv, PassesAccounted
  <2>2. CASE t = Driver BY <2>1, <2>2
  <2>3. CASE t # Driver BY <2>1, <2>3
  <2> QED BY <2>2, <2>3
<1>l. Len(entries) \in Nat BY <1>1 DEF RecorderTyped
<1>6. RecorderTyped'
  <2>1. \A u \in pushed : Holds(u)' BY <1>1, <1>4 DEF RecorderTyped
  <2>2. ASSUME NEW u \in Rec!Thread, Holds(u)'
        PROVE  /\ hand'[u] = <<InHand(u)'>>
               /\ InHand(u)' \in Event
               /\ InHand(u)'.from = u
               /\ InHand(u)'.number = made'[u]
               /\ InHand(u)'.kind = "pass_started" <=> u = Driver
               /\ InHand(u)'.pass <= current'
    <3>1. CASE u = t BY <1>2, <1>3, <1>4, <3>1
    <3>2. CASE u # t
      <4>1. InHand(u) \in Event /\ InHand(u).pass \in Nat /\ InHand(u).pass <= current
        BY <1>1, <1>4, <2>2, <3>2 DEF RecorderTyped, Event
      <4>2. InHand(u).pass <= current' BY <1>5, <4>1
      <4> QED BY <1>1, <1>3, <1>4, <2>2, <3>2, <4>1, <4>2 DEF RecorderTyped
    <3> QED BY <3>1, <3>2
  <2> QED BY <1>1, <1>3, <1>5, <2>1, <2>2 DEF RecorderTyped
<1>7. SpendAccounted'
  <2>1. Owing' = IF kind = "model_called" THEN Owing \cup {t} ELSE Owing
    BY <1>1, <1>2, <1>4 DEF Owing
  <2>2. t \notin Owing /\ Owing \subseteq Rec!Thread BY <1>1 DEF Owing
  <2>3. Cardinality(Owing') = IF kind = "model_called" THEN Cardinality(Owing) + 1
                                                      ELSE Cardinality(Owing)
    BY <2>1, <2>2, ThreadsFinite, FS_AddElement
  <2>4. Cardinality(CallsIn(entries)') = Cardinality(CallsIn(entries)) BY <1>1
  <2>5. CallsIn(entries) \in SUBSET (1 .. Len(entries)) BY DEF CallsIn
  <2>6. Cardinality(CallsIn(entries)) \in Nat BY <1>l, <2>5, PlacesFinite
  <2>7. Cardinality(Owing) \in Nat BY <2>2, ThreadsFinite
  <2>8. charged = Cardinality(CallsIn(entries)) + Cardinality(Owing)
    BY DEF RecorderInv, SpendAccounted
  <2>9. charged' = Cardinality(CallsIn(entries)') + Cardinality(Owing')
    BY <2>3, <2>4, <2>6, <2>7, <2>8
  <2> QED BY <2>9 DEF SpendAccounted
<1>8. PassesAccounted'
  <2>1. \A n \in 1 .. Len(entries) : PassesIn(entries, n)' = PassesIn(entries, n)
    BY <1>1 DEF PassesIn
  <2>2. PassesIn(entries, Len(entries))' = PassesIn(entries, Len(entries))
    BY <1>1 DEF PassesIn
  <2>3. CASE t = Driver
    <3>1. ~AboutToAnnounce /\ AboutToAnnounce'
      BY <1>1, <1>4, <2>3 DEF AboutToAnnounce
    <3>2. current' = made'[Driver] /\ current' = current + 1
      BY <1>3, <2>3 DEF RecorderInv, PassesAccounted
    <3>3. PassesIn(entries, Len(entries)) \in SUBSET (1 .. Len(entries)) BY DEF PassesIn
    <3>4. Cardinality(PassesIn(entries, Len(entries))) \in Nat
      BY <1>l, <3>3, PlacesFinite
    <3>5. current = Cardinality(PassesIn(entries, Len(entries)))
      BY <3>1, <3>4 DEF RecorderInv, PassesAccounted
    <3>6. current' = Cardinality(PassesIn(entries, Len(entries))')
                       + (IF AboutToAnnounce' THEN 1 ELSE 0)
      BY <2>2, <3>1, <3>2, <3>5
    <3>7. \A i \in 1 .. Len(entries) :
            entries[i].pass <= Cardinality(PassesIn(entries, i)') + 1
      BY <2>1 DEF RecorderInv, PassesAccounted
    <3> QED BY <1>1, <3>2, <3>6, <3>7 DEF PassesAccounted
  <2>4. CASE t # Driver
    <3>1. AboutToAnnounce' <=> AboutToAnnounce
      BY <1>1, <1>4, <2>4, ThreadsFinite DEF AboutToAnnounce
    <3>2. current' = current /\ made'[Driver] = made[Driver]
      BY <1>3, <2>4, ThreadsFinite
    <3> QED BY <1>1, <2>1, <2>2, <3>1, <3>2 DEF RecorderInv, PassesAccounted
  <2> QED BY <2>3, <2>4
<1>9. LinesAccounted'
  <2>1. \A u \in pushed : InHand(u)' = InHand(u) BY <1>1, <1>4 DEF RecorderTyped
  <2> QED BY <1>1, <2>1 DEF RecorderInv, LinesAccounted, Journalled
<1>10. LinesOrdered'
  <2> SUFFICES ASSUME NEW i \in 1 .. Len(lines)
               PROVE  /\ lines[i].number <= made'[lines[i].from]
                      /\ Holds(lines[i].from)' => lines[i].number < made'[lines[i].from]
    BY <1>1 DEF RecorderInv, LinesOrdered
  <2>1. lines[i] \in Event BY <1>1 DEF RecorderTyped
  <2>2. lines[i].from \in Rec!Thread /\ lines[i].number \in Nat BY <2>1 DEF Event
  <2>3. /\ lines[i].number <= made[lines[i].from]
        /\ Holds(lines[i].from) => lines[i].number < made[lines[i].from]
    BY DEF RecorderInv, LinesOrdered
  <2>4. CASE lines[i].from = t
    <3>1. made'[lines[i].from] = made[t] + 1 /\ lines[i].number <= made[t]
      BY <1>3, <2>3, <2>4
    <3> QED BY <1>2, <2>2, <3>1
  <2>5. CASE lines[i].from # t
    <3>1. /\ made'[lines[i].from] = made[lines[i].from]
          /\ Holds(lines[i].from)' <=> Holds(lines[i].from)
      BY <1>1, <1>3, <2>2, <2>5 DEF Holds
    <3> QED BY <2>3, <3>1
  <2> QED BY <2>4, <2>5
<1> QED BY <1>6, <1>7, <1>8, <1>9, <1>10 DEF RecorderInv

\* The journal takes the event in hand.
LEMMA PushKeeps ==
  ASSUME RecorderInv, NEW t \in Rec!Thread, Rec!Push(t) PROVE RecorderInv'
<1> DEFINE e == InHand(t)
           n == Len(entries)
<1>1. /\ RecorderTyped
      /\ Holds(t) /\ t \notin pushed
      /\ entries' = entries \o hand[t]
      /\ pushed' = pushed \cup {t}
      /\ UNCHANGED <<current, charged, lines, sinkDrops, hand, made>>
  BY DEF RecorderInv, Rec!Push, Holds
<1>2. hand[t] = <<e>> /\ e \in Event /\ e.pass <= current
      /\ (e.kind = "pass_started" <=> t = Driver)
  BY <1>1 DEF RecorderTyped
<1>3. entries \in Seq(Event) /\ n \in Nat BY <1>1 DEF RecorderTyped
<1>4. \A u : InHand(u)' = InHand(u) /\ (Holds(u)' <=> Holds(u))
  BY <1>1 DEF InHand, Holds
<1>5. e.pass \in Nat BY <1>2 DEF Event
<1> HIDE DEF e
<1>6. entries' = Append(entries, e) BY <1>1, <1>2, <1>3
<1>7. /\ entries' \in Seq(Event) /\ Len(entries') = n + 1
      /\ \A i \in 1 .. n : entries'[i] = entries[i]
      /\ entries'[n + 1] = e
      /\ Cardinality(CallsIn(entries)) \in Nat
      /\ Cardinality(CallsIn(entries')) = IF e.kind = "model_called"
                                            THEN Cardinality(CallsIn(entries)) + 1
                                            ELSE Cardinality(CallsIn(entries))
      /\ \A m \in 1 .. n : PassesIn(entries', m) = PassesIn(entries, m)
      /\ Cardinality(PassesIn(entries, n)) \in Nat
      /\ Cardinality(PassesIn(entries', n + 1))
           = IF e.kind = "pass_started" THEN Cardinality(PassesIn(entries, n)) + 1
                                        ELSE Cardinality(PassesIn(entries, n))
  BY <1>2, <1>3, <1>6, EntryAdded
<1>8. RecorderTyped'
  BY <1>1, <1>4, <1>7 DEF RecorderTyped
<1>9. SpendAccounted'
  <2>1. Owing' = IF e.kind = "model_called" THEN Owing \ {t} ELSE Owing
    BY <1>1, <1>4 DEF Owing, e
  <2>2. e.kind = "model_called" => t \in Owing BY <1>1 DEF Owing, e
  <2>3. Owing \subseteq Rec!Thread BY DEF Owing
  <2>4. IsFiniteSet(Owing) /\ Cardinality(Owing) \in Nat BY <2>3, ThreadsFinite
  <2>5. Cardinality(Owing') = IF e.kind = "model_called" THEN Cardinality(Owing) - 1
                                                        ELSE Cardinality(Owing)
    BY <2>1, <2>2, <2>4, FS_RemoveElement
  <2>6. charged = Cardinality(CallsIn(entries)) + Cardinality(Owing) /\ charged' = charged
    BY <1>1 DEF RecorderInv, SpendAccounted
  <2>7. Cardinality(CallsIn(entries)) \in Nat
        /\ Cardinality(CallsIn(entries')) = IF e.kind = "model_called"
                                            THEN Cardinality(CallsIn(entries)) + 1
                                            ELSE Cardinality(CallsIn(entries))
    BY <1>7
  <2>8. charged' = Cardinality(CallsIn(entries')) + Cardinality(Owing')
    BY <2>4, <2>5, <2>6, <2>7
  <2> QED BY <2>8 DEF SpendAccounted
<1>10. PassesAccounted'
  <2>1. AboutToAnnounce' <=> AboutToAnnounce /\ t # Driver
    BY <1>1, <1>4 DEF AboutToAnnounce
  <2>2. t = Driver => AboutToAnnounce BY <1>1 DEF AboutToAnnounce
  <2>3. /\ current' = current /\ made' = made
        /\ current = made[Driver]
        /\ current = Cardinality(PassesIn(entries, n)) + (IF AboutToAnnounce THEN 1 ELSE 0)
    BY <1>1 DEF RecorderInv, PassesAccounted
  <2>4. Cardinality(PassesIn(entries, n)) \in Nat BY <1>7
  <2>5. Cardinality(PassesIn(entries', n + 1))
          = IF t = Driver THEN Cardinality(PassesIn(entries, n)) + 1
                          ELSE Cardinality(PassesIn(entries, n))
    BY <1>2, <1>7
  <2>6. current' = Cardinality(PassesIn(entries', n + 1))
                     + (IF AboutToAnnounce' THEN 1 ELSE 0)
    BY <2>1, <2>2, <2>3, <2>4, <2>5
  <2>7. ASSUME NEW i \in 1 .. n + 1
        PROVE  entries'[i].pass <= Cardinality(PassesIn(entries', i)) + 1
    <3>1. CASE i = n + 1
      <4>1. entries'[i].pass <= current BY <1>2, <1>7, <3>1
      <4>2. entries'[i].pass \in Nat BY <1>5, <1>7, <3>1
      <4>3. current \in Nat /\ current <= Cardinality(PassesIn(entries', i)) + 1
        BY <1>1, <2>3, <2>4, <2>5, <2>6, <3>1 DEF RecorderTyped
      <4>4. Cardinality(PassesIn(entries', i)) \in Nat BY <2>4, <2>5, <3>1
      <4> QED BY <4>1, <4>2, <4>3, <4>4
    <3>2. CASE i # n + 1
      <4>1. i \in 1 .. n BY <1>3, <3>2
      <4>2. entries[i].pass <= Cardinality(PassesIn(entries, i)) + 1
        BY <4>1 DEF RecorderInv, PassesAccounted
      <4> QED BY <1>7, <4>1, <4>2
    <3> QED BY <3>1, <3>2
  <2> QED BY <1>7, <2>3, <2>6, <2>7 DEF PassesAccounted
<1>11. LinesAccounted'
  <2>1. \A x : Journalled(x) => Journalled(x)'
    <3> SUFFICES ASSUME NEW x, Journalled(x) PROVE Journalled(x)' OBVIOUS
    <3>1. PICK i \in 1 .. n : entries[i] = x BY DEF Journalled
    <3>2. i \in 1 .. Len(entries') /\ entries'[i] = x BY <1>3, <1>7, <3>1
    <3> QED BY <3>2 DEF Journalled
  <2>2. \E i \in 1 .. Len(entries') : entries'[i] = e BY <1>3, <1>7
  <2>3. pushed \subseteq Rec!Thread BY <1>1 DEF RecorderTyped
  <2>4. IsFiniteSet(pushed) /\ Cardinality(pushed) \in Nat BY <2>3, ThreadsFinite
  <2>5. Cardinality(pushed') = Cardinality(pushed) + 1
    BY <1>1, <2>4, FS_AddElement
  <2>6. n = Len(lines) + sinkDrops + Cardinality(pushed)
    BY DEF RecorderInv, LinesAccounted
  <2>7. Len(lines) \in Nat /\ sinkDrops \in Nat BY <1>1 DEF RecorderTyped
  <2>8. Len(entries') = Len(lines') + sinkDrops' + Cardinality(pushed')
    <3>1. n + 1 = Len(lines) + sinkDrops + (Cardinality(pushed) + 1)
      BY <2>4, <2>6, <2>7
    <3> QED BY <1>1, <1>7, <2>5, <3>1
  <2>9. \A i \in 1 .. Len(lines') : Journalled(lines[i])'
    BY <1>1, <2>1 DEF RecorderInv, LinesAccounted
  <2>10. \A u \in pushed' : Journalled(InHand(u))'
    <3> SUFFICES ASSUME NEW u \in pushed' PROVE Journalled(InHand(u))' OBVIOUS
    <3>1. CASE u = t BY <1>4, <2>2, <3>1 DEF Journalled, e
    <3>2. CASE u \in pushed
      <4>1. Journalled(InHand(u)) BY <3>2 DEF RecorderInv, LinesAccounted
      <4>2. PICK i \in 1 .. n : entries[i] = InHand(u) BY <4>1 DEF Journalled
      <4>3. i \in 1 .. Len(entries') /\ entries'[i] = InHand(u)' BY <1>3, <1>4, <1>7, <4>2
      <4> QED BY <4>3 DEF Journalled
    <3> QED BY <1>1, <3>1, <3>2
  <2> QED BY <2>8, <2>9, <2>10 DEF LinesAccounted
<1>12. LinesOrdered' BY <1>1, <1>4 DEF RecorderInv, LinesOrdered, Holds
<1> QED BY <1>8, <1>9, <1>10, <1>11, <1>12 DEF RecorderInv

\* The sink is told; the thread's hand is free.
LEMMA EmitKeeps ==
  ASSUME RecorderInv, NEW t \in Rec!Thread, NEW written \in BOOLEAN, Rec!Emit(t, written)
  PROVE  RecorderInv'
<1> DEFINE e == InHand(t)
           n == Len(lines)
<1>1. /\ RecorderTyped
      /\ t \in pushed /\ Holds(t)
      /\ pushed' = pushed \ {t}
      /\ hand' = [hand EXCEPT ![t] = << >>]
      /\ UNCHANGED <<current, charged, entries, made>>
  BY DEF RecorderInv, RecorderTyped, Rec!Emit
<1>2. /\ hand[t] = <<e>> /\ e \in Event /\ e.from = t /\ e.number = made[t]
      /\ made[t] \in Nat
  BY <1>1 DEF RecorderTyped
<1>3. /\ lines \in Seq(Event) /\ n \in Nat /\ sinkDrops \in Nat
      /\ hand' \in [Rec!Thread -> Seq(Event)] /\ hand'[t] = << >>
      /\ \A u \in Rec!Thread : u # t => hand'[u] = hand[u]
  BY <1>1 DEF RecorderTyped
<1>4. /\ ~Holds(t)'
      /\ \A u \in Rec!Thread : u # t => (Holds(u)' <=> Holds(u)) /\ InHand(u)' = InHand(u)
  BY <1>3 DEF Holds, InHand
<1>5. Journalled(e) BY <1>1 DEF RecorderInv, LinesAccounted
<1> HIDE DEF e
<1>6. /\ lines' \in Seq(Event) /\ Len(lines') \in n .. n + 1
      /\ \A i \in 1 .. n : lines'[i] = lines[i]
      /\ Len(lines') = n + 1 => lines'[n + 1] = e
      /\ sinkDrops' \in Nat /\ Len(lines') + sinkDrops' = n + sinkDrops + 1
  <2>1. CASE written
    <3>1. lines' = Append(lines, e) /\ sinkDrops' = sinkDrops
      BY <1>2, <1>3, <2>1 DEF Rec!Emit
    <3>2. /\ lines' \in Seq(Event) /\ Len(lines') = n + 1
          /\ \A i \in 1 .. n : lines'[i] = lines[i]
          /\ lines'[n + 1] = e
      BY <1>2, <1>3, <3>1
    <3>3. Len(lines') + sinkDrops' = n + sinkDrops + 1 BY <1>3, <3>1, <3>2
    <3> QED BY <1>3, <3>1, <3>2, <3>3
  <2>2. CASE ~written
    <3>1. lines' = lines /\ sinkDrops' = sinkDrops + 1 BY <2>2 DEF Rec!Emit
    <3>2. Len(lines') = n BY <3>1
    <3> QED BY <1>3, <3>1, <3>2
  <2> QED BY <2>1, <2>2
<1>7. \A i \in 1 .. Len(lines') : i \in 1 .. n \/ (i = n + 1 /\ lines'[i] = e)
  BY <1>3, <1>6
<1>8. RecorderTyped'
  <2>1. \A u \in pushed' : Holds(u)' BY <1>1, <1>4 DEF RecorderTyped
  <2>2. ASSUME NEW u \in Rec!Thread, Holds(u)'
        PROVE  /\ hand'[u] = <<InHand(u)'>>
               /\ InHand(u)' \in Event
               /\ InHand(u)'.from = u
               /\ InHand(u)'.number = made'[u]
               /\ InHand(u)'.kind = "pass_started" <=> u = Driver
               /\ InHand(u)'.pass <= current'
    <3>1. u # t BY <1>4, <2>2
    <3> QED BY <1>1, <1>3, <1>4, <2>2, <3>1 DEF RecorderTyped
  <2> QED BY <1>1, <1>3, <1>6, <2>1, <2>2 DEF RecorderTyped
<1>9. SpendAccounted'
  <2>1. Owing' = Owing BY <1>1, <1>4 DEF Owing
  <2> QED BY <1>1, <2>1 DEF RecorderInv, SpendAccounted, CallsIn
<1>10. PassesAccounted'
  <2>1. AboutToAnnounce' <=> AboutToAnnounce
    BY <1>1, <1>4, ThreadsFinite DEF AboutToAnnounce
  <2> QED BY <1>1, <2>1 DEF RecorderInv, PassesAccounted, PassesIn
<1>11. LinesAccounted'
  <2>1. pushed \subseteq Rec!Thread BY <1>1 DEF RecorderTyped
  <2>2. IsFiniteSet(pushed) /\ Cardinality(pushed) \in Nat BY <2>1, ThreadsFinite
  <2>3. Cardinality(pushed') = Cardinality(pushed) - 1
    BY <1>1, <2>2, FS_RemoveElement
  <2>4. Len(entries) = n + sinkDrops + Cardinality(pushed)
    BY DEF RecorderInv, LinesAccounted
  <2>5. Len(entries') = Len(lines') + sinkDrops' + Cardinality(pushed')
    <3>1. Len(lines') + sinkDrops' = n + sinkDrops + 1 BY <1>6
    <3>2. n + sinkDrops + Cardinality(pushed)
            = (n + sinkDrops + 1) + (Cardinality(pushed) - 1)
      BY <1>3, <2>2
    <3> QED BY <1>1, <2>3, <2>4, <3>1, <3>2
  <2>6. \A i \in 1 .. Len(lines') : Journalled(lines'[i])
    <3> SUFFICES ASSUME NEW i \in 1 .. Len(lines') PROVE Journalled(lines'[i]) OBVIOUS
    <3>1. CASE i \in 1 .. n BY <1>6, <3>1 DEF RecorderInv, LinesAccounted
    <3>2. CASE lines'[i] = e BY <1>5, <3>2
    <3> QED BY <1>7, <3>1, <3>2
  <2>7. \A u \in pushed' : InHand(u)' = InHand(u) /\ Journalled(InHand(u))
    BY <1>1, <1>4, <2>1 DEF RecorderInv, LinesAccounted
  <2> QED BY <1>1, <2>5, <2>6, <2>7 DEF LinesAccounted, Journalled
<1>12. LinesOrdered'
  <2>1. ASSUME NEW i \in 1 .. Len(lines')
        PROVE  /\ lines'[i].number <= made[lines'[i].from]
               /\ hand'[lines'[i].from] # << >> => lines'[i].number < made[lines'[i].from]
    <3>1. CASE lines'[i] = e BY <1>2, <1>3, <3>1
    <3>2. CASE i \in 1 .. n
      <4>1. lines'[i] = lines[i] /\ lines[i] \in Event BY <1>3, <1>6, <3>2
      <4>2. lines[i].from \in Rec!Thread BY <4>1 DEF Event
      <4>3. /\ lines[i].number <= made[lines[i].from]
            /\ hand[lines[i].from] # << >> => lines[i].number < made[lines[i].from]
        BY <3>2 DEF RecorderInv, LinesOrdered, Holds
      <4> QED BY <1>3, <4>1, <4>2, <4>3
    <3> QED BY <1>7, <3>1, <3>2
  <2>2. ASSUME NEW i \in 1 .. Len(lines'), NEW j \in 1 .. Len(lines'),
               i < j, lines'[i].from = lines'[j].from
        PROVE  lines'[i].number < lines'[j].number
    <3>1. i \in 1 .. n /\ lines'[i] = lines[i] BY <1>3, <1>6, <2>2
    <3>2. CASE j \in 1 .. n
      BY <1>6, <2>2, <3>1, <3>2 DEF RecorderInv, LinesOrdered
    <3>3. CASE lines'[j] = e
      BY <1>1, <1>2, <2>2, <3>1, <3>3 DEF RecorderInv, LinesOrdered
    <3> QED BY <1>7, <3>2, <3>3
  <2> QED BY <1>1, <2>1, <2>2 DEF LinesOrdered, Holds
<1> QED BY <1>8, <1>9, <1>10, <1>11, <1>12 DEF RecorderInv

\* Every step of the recorder keeps its books.
LEMMA RecorderStep == ASSUME RecorderInv, [Rec!Next]_recVars PROVE RecorderInv'
<1>1. RecorderTyped /\ current \in Nat /\ current = made[Driver]
  BY DEF RecorderInv, RecorderTyped, PassesAccounted
<1>2. ASSUME Rec!Announce PROVE RecorderInv'
  <2>1. made[Driver] + 1 \in Nat BY <1>1
  <2>2. /\ Rec!Enters(Driver, "pass_started", made[Driver] + 1)
        /\ current' = made[Driver] + 1 /\ charged' = charged
    BY <1>2 DEF Rec!Announce
  <2>3. made[Driver] + 1 <= current' BY <2>1, <2>2
  <2> QED BY <2>1, <2>2, <2>3, ThreadsFinite, EnterKeeps
<1>3. ASSUME NEW w \in Worker, Rec!Charge(w) PROVE RecorderInv'
  <2>1. w \in Rec!Thread /\ w # Driver BY ServicesAssumption DEF Rec!Thread
  <2>2. /\ Rec!Enters(w, "model_called", current)
        /\ current' = current /\ charged' = charged + 1
    BY <1>3 DEF Rec!Charge
  <2>3. current <= current' BY <1>1, <2>2
  <2> QED BY <1>1, <2>1, <2>2, <2>3, EnterKeeps
<1>4. ASSUME NEW w \in Worker, Rec!Stamp(w) PROVE RecorderInv'
  <2>1. w \in Rec!Thread /\ w # Driver BY ServicesAssumption DEF Rec!Thread
  <2>2. /\ Rec!Enters(w, "node_entered", current)
        /\ current' = current /\ charged' = charged
    BY <1>4 DEF Rec!Stamp
  <2>3. current <= current' BY <1>1, <2>2
  <2> QED BY <1>1, <2>1, <2>2, <2>3, EnterKeeps
<1>5. ASSUME UNCHANGED recVars PROVE RecorderInv'
  <2>1. /\ current' = current /\ charged' = charged /\ entries' = entries /\ lines' = lines
        /\ sinkDrops' = sinkDrops /\ hand' = hand /\ pushed' = pushed /\ made' = made
    BY <1>5 DEF recVars
  <2>2. RecorderTyped' BY <1>1, <2>1 DEF RecorderTyped, Holds, InHand
  <2>3. SpendAccounted'
    BY <2>1 DEF RecorderInv, SpendAccounted, CallsIn, Owing, Holds, InHand
  <2>4. PassesAccounted'
    BY <2>1 DEF RecorderInv, PassesAccounted, PassesIn, AboutToAnnounce, Holds
  <2>5. LinesAccounted' BY <2>1 DEF RecorderInv, LinesAccounted, Journalled, InHand
  <2>6. LinesOrdered' BY <2>1 DEF RecorderInv, LinesOrdered, Holds
  <2> QED BY <2>2, <2>3, <2>4, <2>5, <2>6 DEF RecorderInv
<1> QED BY <1>2, <1>3, <1>4, <1>5, PushKeeps, EmitKeeps DEF Rec!Next

\* Nothing has been recorded at first.
LEMMA RecorderInit == AllInit => RecorderInv
<1> SUFFICES ASSUME AllInit PROVE RecorderInv OBVIOUS
<1>1. /\ current = 0 /\ charged = 0 /\ entries = << >> /\ lines = << >> /\ sinkDrops = 0
      /\ hand = [t \in Rec!Thread |-> << >>] /\ pushed = {}
      /\ made = [t \in Rec!Thread |-> 0]
  BY DEF AllInit, Rec!Init
<1>2. \A t \in Rec!Thread : ~Holds(t) BY <1>1 DEF Holds
<1>3. RecorderTyped BY <1>1, <1>2 DEF RecorderTyped
<1>4. CallsIn(entries) = {} /\ PassesIn(entries, Len(entries)) = {} /\ Owing = {}
  BY <1>1, <1>2 DEF CallsIn, PassesIn, Owing
<1>5. SpendAccounted BY <1>1, <1>4, FS_EmptySet DEF SpendAccounted
<1>6. PassesAccounted
  BY <1>1, <1>2, <1>4, ThreadsFinite, FS_EmptySet DEF PassesAccounted, AboutToAnnounce
<1>7. LinesAccounted BY <1>1, FS_EmptySet DEF LinesAccounted
<1>8. LinesOrdered BY <1>1 DEF LinesOrdered
<1> QED BY <1>3, <1>5, <1>6, <1>7, <1>8 DEF RecorderInv

\* So they are kept throughout.
LEMMA RecorderAlways == AllSpec => []RecorderInv
<1>1. RecorderInv /\ [AllNext]_all => RecorderInv' BY RecorderRuns, RecorderStep
<1> QED BY <1>1, RecorderInit, PTL DEF AllSpec

\* The module's own Cardinality is the one the library speaks of.
LEMMA RecorderCardinality == \A S : Rec!Cardinality(S) = Cardinality(S)
  BY DEF Cardinality, Rec!Cardinality

(***************************************************************************)
(* SpendIsNeverShort: whatever threads record and whenever a report is     *)
(* made, it is charged for the calls it shows and for those on their way   *)
(* (observe/mod.rs), each once.                                            *)
(***************************************************************************)
THEOREM SpendIsNeverShort == AllSpec => []SpendCovers
<1>1. RecorderInv => SpendCovers
  <2> SUFFICES ASSUME RecorderInv PROVE SpendCovers OBVIOUS
  <2>1. Rec!Called(entries) = CallsIn(entries)
    BY DEF RecorderInv, RecorderTyped, Rec!Called, CallsIn
  <2>2. \A t \in Rec!Thread : Rec!Called(hand[t]) # {} <=>
          Holds(t) /\ InHand(t).kind = "model_called"
    BY DEF RecorderInv, RecorderTyped, Rec!Called, Holds, InHand
  <2>3. {t \in Rec!Thread \ pushed : Rec!Called(hand[t]) # {}} = Owing BY <2>2 DEF Owing
  <2> QED BY <2>1, <2>3, RecorderCardinality
          DEF RecorderInv, SpendAccounted, SpendCovers, Rec!SpendCovers
<1> QED BY <1>1, RecorderAlways, PTL

(***************************************************************************)
(* SinkMissesNothing: the sink has written, counted as dropped, or is      *)
(* about to be told every entry, and each thread's in that thread's order. *)
(***************************************************************************)
THEOREM SinkMissesNothing == AllSpec => []SinkFollows
<1>1. RecorderInv => SinkFollows
  <2> SUFFICES ASSUME RecorderInv PROVE SinkFollows OBVIOUS
  <2>1. DOMAIN lines = 1 .. Len(lines) /\ DOMAIN entries = 1 .. Len(entries)
    BY DEF RecorderInv, RecorderTyped
  <2>2. Rec!ElementsIn(lines) \subseteq Rec!ElementsIn(entries)
    BY <2>1 DEF RecorderInv, LinesAccounted, Journalled, Rec!ElementsIn
  <2> QED BY <2>1, <2>2, RecorderCardinality
          DEF RecorderInv, LinesAccounted, LinesOrdered, SinkFollows, Rec!SinkFollows
<1> QED BY <1>1, RecorderAlways, PTL

(***************************************************************************)
(* StampsStayNear: no entry is stamped with a pass more than one past the  *)
(* passes announced before it, though the pass is stored first.            *)
(***************************************************************************)
THEOREM StampsStayNear == AllSpec => []StampNearlyAnnounced
<1>1. RecorderInv => StampNearlyAnnounced
  <2> SUFFICES ASSUME RecorderInv PROVE StampNearlyAnnounced OBVIOUS
  <2>1. DOMAIN entries = 1 .. Len(entries) BY DEF RecorderInv, RecorderTyped
  <2>2. \A i \in 1 .. Len(entries) :
          entries[i].pass <= Cardinality(PassesIn(entries, i)) + 1
    BY DEF RecorderInv, PassesAccounted
  <2> QED BY <2>1, <2>2, RecorderCardinality
          DEF PassesIn, StampNearlyAnnounced, Rec!StampNearlyAnnounced, Rec!Announced
<1> QED BY <1>1, RecorderAlways, PTL
=============================================================================
