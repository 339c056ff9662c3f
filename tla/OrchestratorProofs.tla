------------------------- MODULE OrchestratorProofs -------------------------
(***************************************************************************)
(* What handing work out keeps for any arms, roles, scripts and briefs:    *)
(* the delegations first, then the board.  A step of the composition is a  *)
(* step of one half or leaves it alone.                                    *)
(***************************************************************************)
EXTENDS MCOrchestrator, Chaining, FiniteSetTheorems, SequenceTheorems

\* The composition steps delegation as delegation steps.
LEMMA DelegationRuns == [AllNext]_all => [Next]_vars
  BY DEF AllNext, all

-----------------------------------------------------------------------------
(***************************************************************************)
(* Delegations.  A role's tickets are counted together with those of the   *)
(* roles whose names extend its own, so numbers may be skipped; but each   *)
(* spawn raises the count, and every ticket of a role is numbered below    *)
(* it.  So no ticket is given twice, whatever the names.                   *)
(***************************************************************************)
Work == [brief : Brief, entry : Entry, notes : 0 .. Capacity, drops : {0, 1},
         settled : BOOLEAN]

Counted(r) == {t \in DOMAIN issued : t[1] = r \/ <<t[1], r>> \in Extends}

Numbered ==
  /\ IsFiniteSet(DOMAIN issued)
  /\ \A t \in DOMAIN issued :
       /\ t \in (Delegates \cap Registered \cap DOMAIN Scripts) \X Nat
       /\ t[2] < Len(Scripts[t[1]])
       /\ issued[t] \in Work
       /\ issued[t].entry = Scripts[t[1]][t[2] + 1]
  /\ \A r \in Role : \A t \in DOMAIN issued : t[1] = r => t[2] < Taken(r)

\* What was collected is what the ticket's own work comes to, once and always.
HeardTrue ==
  /\ DOMAIN heard \subseteq DOMAIN issued
  /\ \A t \in DOMAIN heard : heard[t] = {Outcome(issued[t].entry, issued[t].brief)}

\* Of a role no other's name extends, the count is of its own accepted briefs.
Alone(r) == \A s \in Role : <<s, r>> \notin Extends

InTurn ==
  /\ asked \in [Role -> Seq(Brief)]
  /\ \A r \in Role : Alone(r) =>
       /\ Taken(r) = Len(asked[r])
       /\ {t \in DOMAIN issued : t[1] = r} = {<<r, n - 1>> : n \in DOMAIN asked[r]}
       /\ \A n \in DOMAIN asked[r] : issued[<<r, n - 1>>].brief = asked[r][n]

Lending ==
  /\ served \in [Role -> Nat]
  /\ batch \in [Arm -> Seq(Role \X Brief)]
  /\ calls \in [Arm -> 0 .. MaxSpawns]
  /\ lent \in [Role -> Seq(Nat)]
  /\ \A r \in Role :
       /\ served[r] = Len(lent[r])
       /\ \A n \in DOMAIN lent[r] : lent[r][n] = Least(n, Len(Script(r)))

Handing == Numbered /\ HeardTrue /\ InTurn /\ Lending

\* A role has taken as many entries as calls of it were counted.
LEMMA TakenCounts == ASSUME NEW r PROVE Taken(r) = Cardinality(Counted(r))
  BY DEF Taken, Counted

\* A role with no script of its own has none to run out of.
LEMMA ScriptTyped ==
  ASSUME NEW r \in Role
  PROVE  /\ Script(r) \in Seq(Entry)
         /\ Script(r) # << >> => r \in DOMAIN Scripts
         /\ r \in DOMAIN Scripts => Script(r) = Scripts[r]
  BY DelegationAssumption DEF Script

\* Nothing has been handed out at first.
LEMMA HandingInit == Init => Handing
<1> SUFFICES ASSUME Init PROVE Handing
  OBVIOUS
<1>1. DOMAIN issued = {} /\ DOMAIN heard = {}  BY DEF Init
<1>2. IsFiniteSet({})  BY FS_EmptySet
<1>3. \A r : Counted(r) = {}  BY <1>1 DEF Counted
<1>4. \A r : Taken(r) = 0  BY <1>3, TakenCounts, FS_EmptySet
<1>5. Numbered  BY <1>1, <1>2 DEF Numbered
<1>6. HeardTrue  BY <1>1 DEF HeardTrue
<1>7. InTurn
  <2>1. asked \in [Role -> Seq(Brief)] /\ \A r \in Role : asked[r] = << >>
    BY DEF Init
  <2>2. \A r \in Role : DOMAIN asked[r] = {} /\ Len(asked[r]) = 0  BY <2>1
  <2> QED  BY <1>1, <1>4, <2>1, <2>2 DEF InTurn
<1>8. Lending
  <2>1. \A r \in Role : lent[r] = << >> /\ DOMAIN lent[r] = {} /\ Len(lent[r]) = 0
    BY DEF Init
  <2>2. lent \in [Role -> Seq(Nat)] /\ batch \in [Arm -> Seq(Role \X Brief)]
    BY DEF Init
  <2>3. calls \in [Arm -> 0 .. MaxSpawns]  BY DelegationAssumption DEF Init
  <2> QED  BY <2>1, <2>2, <2>3 DEF Init, Lending
<1> QED  BY <1>5, <1>6, <1>7, <1>8 DEF Handing

\* Steering, reading and settling change no ticket's brief, entry or number.
Kept ==
  /\ DOMAIN issued' = DOMAIN issued
  /\ \A t \in DOMAIN issued : /\ issued'[t] \in Work
                              /\ issued'[t].brief = issued[t].brief
                              /\ issued'[t].entry = issued[t].entry

\* Tickets that stay as they are keep their turns.
LEMMA KeptHolds ==
  ASSUME Numbered, InTurn, Kept, asked' = asked
  PROVE  Numbered' /\ InTurn'
<1>1. \A r : Counted(r)' = Counted(r)  BY DEF Kept, Counted
<1>2. \A r : Taken(r)' = Taken(r)  BY <1>1, TakenCounts DEF Taken, Counted
<1>3. Numbered'  BY <1>2 DEF Numbered, Kept
<1>4. ASSUME NEW r \in Role, Alone(r)
      PROVE  /\ Taken(r)' = Len(asked'[r])
             /\ {t \in DOMAIN issued' : t[1] = r} = {<<r, n - 1>> : n \in DOMAIN asked'[r]}
             /\ \A n \in DOMAIN asked'[r] : issued'[<<r, n - 1>>].brief = asked'[r][n]
  <2>1. \A n \in DOMAIN asked[r] : <<r, n - 1>> \in DOMAIN issued
    BY <1>4 DEF InTurn
  <2> QED  BY <1>2, <1>4, <2>1 DEF InTurn, Kept
<1>5. InTurn'  BY <1>4 DEF InTurn, Alone
<1> QED  BY <1>3, <1>5

\* A step that issues nothing leaves them so.
LEMMA QuietKeeps ==
  ASSUME Numbered, UNCHANGED issued
  PROVE  Kept
  BY DEF Numbered, Kept

\* The mailbox and the settled mark of a delegation are its own.
LEMMA TendingHands ==
  ASSUME Handing, NEW t \in DOMAIN issued, Steer(t) \/ Notes(t) \/ Settle(t)
  PROVE  Handing'
<1>1. \A u \in DOMAIN issued : issued[u] \in Work  BY DEF Handing, Numbered
<1>2. Kept
  <2>1. CASE Steer(t)
    <3>1. CASE issued[t].notes < Capacity
      <4>1. issued' = [issued EXCEPT ![t].notes = @ + 1]  BY <2>1, <3>1 DEF Steer
      <4>2. issued[t].notes + 1 \in 0 .. Capacity
        BY <1>1, <3>1, DelegationAssumption DEF Work
      <4> QED  BY <1>1, <4>1, <4>2 DEF Kept, Work
    <3>2. CASE ~(issued[t].notes < Capacity)
      <4>1. issued' = [issued EXCEPT ![t].drops = 1]  BY <2>1, <3>2 DEF Steer
      <4> QED  BY <1>1, <4>1 DEF Kept, Work
    <3> QED  BY <3>1, <3>2
  <2>2. CASE Notes(t)
    <3>1. issued' = [issued EXCEPT ![t].notes = 0]  BY <2>2 DEF Notes
    <3> QED  BY <1>1, <3>1, DelegationAssumption DEF Kept, Work
  <2>3. CASE Settle(t)
    <3>1. issued' = [issued EXCEPT ![t].settled = TRUE]  BY <2>3 DEF Settle
    <3> QED  BY <1>1, <3>1 DEF Kept, Work
  <2> QED  BY <2>1, <2>2, <2>3
<1>3. Numbered' /\ InTurn'
  <2>1. asked' = asked  BY DEF Steer, Notes, Settle
  <2> QED  BY <1>2, <2>1, KeptHolds DEF Handing
<1>4. Lending'
  <2>1. UNCHANGED <<served, batch, calls, lent>>  BY DEF Steer, Notes, Settle
  <2> QED  BY <2>1 DEF Handing, Lending
<1>5. HeardTrue'
  <2>1. \A u \in DOMAIN issued : Outcome(issued'[u].entry, issued'[u].brief)
                                   = Outcome(issued[u].entry, issued[u].brief)
    BY <1>2 DEF Kept
  <2>2. CASE heard' = heard
    BY <1>2, <2>1, <2>2 DEF Handing, HeardTrue, Kept
  <2>3. CASE Settle(t)
    <3>1. DOMAIN heard' = DOMAIN heard \cup {t}  BY <2>3 DEF Settle, Hears
    <3>2. \A u \in DOMAIN heard \ {t} : heard'[u] = heard[u]
      BY <2>3 DEF Settle, Hears
    <3>3. heard'[t] = IF t \in DOMAIN heard
                        THEN heard[t] \cup {Outcome(issued[t].entry, issued[t].brief)}
                        ELSE {Outcome(issued[t].entry, issued[t].brief)}
      BY <2>3 DEF Settle, Hears
    <3>4. heard'[t] = {Outcome(issued[t].entry, issued[t].brief)}
      BY <3>3 DEF Handing, HeardTrue
    <3> HIDE DEF Handing
    <3> QED  BY <1>2, <2>1, <3>1, <3>2, <3>4 DEF Handing, HeardTrue, Kept
  <2>4. Steer(t) \/ Notes(t) => heard' = heard  BY DEF Steer, Notes
  <2> QED  BY <2>2, <2>3, <2>4
<1> QED  BY <1>3, <1>4, <1>5 DEF Handing

\* Scripts have lengths.
LEMMA ScriptLength == ASSUME NEW r \in Role PROVE Len(Script(r)) \in Nat
  BY ScriptTyped

\* The counted calls of a role are finitely many.
LEMMA TakenTyped ==
  ASSUME Numbered, NEW r
  PROVE  IsFiniteSet(Counted(r)) /\ Taken(r) \in Nat
<1>1. Counted(r) \in SUBSET DOMAIN issued  BY DEF Counted
<1>2. IsFiniteSet(Counted(r))  BY <1>1, FS_Subset DEF Numbered
<1> QED  BY <1>2, FS_CardinalityType, TakenCounts

\* A spawn takes a number no ticket of the role has, and the next entry.
LEMMA SpawnHands ==
  ASSUME Handing, NEW a \in Arm, NEW r \in Role, NEW b \in Brief, Spawn(a, r, b)
  PROVE  Handing'
<1> DEFINE ticket == <<r, Taken(r)>>
           work == [brief |-> b, entry |-> Script(r)[Taken(r) + 1],
                    notes |-> 0, drops |-> 0, settled |-> FALSE]
<1> USE DEF Handing
<1>1. /\ r \in Delegates \cap Registered \cap DOMAIN Scripts
      /\ Taken(r) \in Nat
      /\ Taken(r) < Len(Script(r))
      /\ Script(r) = Scripts[r]
      /\ Scripts[r] \in Seq(Entry)
      /\ Scripts[r][Taken(r) + 1] \in Entry
  <2>1. Declared(r) /\ Resolved(r) /\ Taken(r) < Len(Script(r))
    BY DEF Spawn, Admitted
  <2>2. Taken(r) \in Nat  BY TakenTyped
  <2>3. Script(r) # << >>  BY <2>1, <2>2
  <2>4. Script(r) \in Seq(Entry) /\ Script(r) = Scripts[r] /\ r \in DOMAIN Scripts
    BY <2>3, ScriptTyped
  <2>5. Taken(r) + 1 \in 1 .. Len(Script(r))  BY <2>1, <2>2, ScriptLength
  <2>6. Script(r)[Taken(r) + 1] \in Entry  BY <2>4, <2>5, ElementOfSeq
  <2> QED  BY <2>1, <2>2, <2>4, <2>6 DEF Declared, Resolved
<1>2. ticket \notin DOMAIN issued
  <2>1. SUFFICES ASSUME ticket \in DOMAIN issued PROVE FALSE  OBVIOUS
  <2>2. Taken(r) < Taken(r)  BY <2>1 DEF Numbered
  <2> QED  BY <2>2, <1>1
<1>3. work \in Work  BY <1>1, DelegationAssumption DEF Work
<1>4. /\ DOMAIN issued' = DOMAIN issued \cup {ticket}
      /\ issued'[ticket] = work
      /\ \A t \in DOMAIN issued : issued'[t] = issued[t]
  <2>1. issued' = [t \in DOMAIN issued \cup {ticket} |->
                     IF t = ticket THEN work ELSE issued[t]]
    BY DEF Spawn
  <2> HIDE DEF work
  <2> QED  BY <2>1, <1>2
<1> HIDE DEF work
<1>5. asked' = [asked EXCEPT ![r] = Append(@, b)]  BY DEF Spawn
<1>6. \A s \in Role : Counted(s)' = IF s = r \/ <<r, s>> \in Extends
                                     THEN Counted(s) \cup {ticket} ELSE Counted(s)
  BY <1>4 DEF Counted
<1>7. \A s \in Role : Taken(s)' = IF s = r \/ <<r, s>> \in Extends
                                   THEN Taken(s) + 1 ELSE Taken(s)
  <2> SUFFICES ASSUME NEW s \in Role
               PROVE  Taken(s)' = IF s = r \/ <<r, s>> \in Extends
                                    THEN Taken(s) + 1 ELSE Taken(s)
    OBVIOUS
  <2>1. ticket \notin Counted(s)  BY <1>2 DEF Counted
  <2>2. IsFiniteSet(Counted(s))  BY TakenTyped
  <2>3. Cardinality(Counted(s) \cup {ticket}) = Cardinality(Counted(s)) + 1
    BY <2>1, <2>2, FS_AddElement
  <2>4. Taken(s)' = Cardinality(Counted(s)')  BY DEF Taken, Counted
  <2> QED  BY <1>6, <2>3, <2>4, TakenCounts
<1>8. Numbered'
  <2>1. IsFiniteSet(DOMAIN issued')  BY <1>4, FS_AddElement DEF Numbered
  <2>2. ASSUME NEW s \in Role, NEW t \in DOMAIN issued, t[1] = s
        PROVE  t[2] < Taken(s)'
    <3>1. t[2] \in Nat /\ t[2] < Taken(s)  BY <2>2 DEF Numbered
    <3>2. Taken(s) \in Nat  BY TakenTyped
    <3>3. Taken(s)' \in {Taken(s), Taken(s) + 1}  BY <1>7
    <3> QED  BY <3>1, <3>2, <3>3
  <2>3. ticket[1] = r /\ ticket[2] = Taken(r) /\ Taken(r)' = Taken(r) + 1  BY <1>7
  <2>4. work.entry = Scripts[r][Taken(r) + 1]  BY <1>1 DEF work
  <2>5. ASSUME NEW t \in DOMAIN issued'
        PROVE  /\ t \in (Delegates \cap Registered \cap DOMAIN Scripts) \X Nat
               /\ t[2] < Len(Scripts[t[1]])
               /\ issued'[t] \in Work
               /\ issued'[t].entry = Scripts[t[1]][t[2] + 1]
    <3>1. CASE t \in DOMAIN issued
      <4>1. /\ t \in (Delegates \cap Registered \cap DOMAIN Scripts) \X Nat
            /\ t[2] < Len(Scripts[t[1]])
            /\ issued[t] \in Work
            /\ issued[t].entry = Scripts[t[1]][t[2] + 1]
        BY <3>1 DEF Numbered
      <4>2. issued'[t] = issued[t]  BY <3>1, <1>4
      <4> QED  BY <4>1, <4>2
    <3>2. CASE t = ticket  BY <3>2, <1>1, <1>3, <1>4, <2>3, <2>4
    <3> QED  BY <3>1, <3>2, <1>4
  <2>6. ASSUME NEW s \in Role, NEW t \in DOMAIN issued', t[1] = s
        PROVE  t[2] < Taken(s)'
    <3>1. CASE t \in DOMAIN issued  BY <3>1, <2>2, <2>6
    <3>2. CASE t = ticket  BY <3>2, <2>3, <2>6, <1>1
    <3> QED  BY <3>1, <3>2, <1>4
  <2> QED  BY <2>1, <2>5, <2>6 DEF Numbered
<1>9. HeardTrue'
  <2>1. heard' = heard  BY DEF Spawn
  <2> QED  BY <2>1, <1>4 DEF HeardTrue
<1>10. InTurn'
  <2>1. asked' \in [Role -> Seq(Brief)]  BY <1>5 DEF InTurn
  <2>2. ASSUME NEW s \in Role, Alone(s), s # r
        PROVE  /\ Taken(s)' = Len(asked'[s])
               /\ {t \in DOMAIN issued' : t[1] = s} = {<<s, n - 1>> : n \in DOMAIN asked'[s]}
               /\ \A n \in DOMAIN asked'[s] : issued'[<<s, n - 1>>].brief = asked'[s][n]
    <3>1. asked'[s] = asked[s]  BY <1>5, <2>2 DEF InTurn
    <3>2. Taken(s)' = Taken(s)  BY <1>7, <2>2 DEF Alone
    <3>3. {t \in DOMAIN issued' : t[1] = s} = {t \in DOMAIN issued : t[1] = s}
      BY <1>4, <2>2
    <3>4. \A n \in DOMAIN asked[s] : <<s, n - 1>> \in DOMAIN issued
      BY <2>2 DEF InTurn
    <3>5. \A n \in DOMAIN asked[s] : issued'[<<s, n - 1>>] = issued[<<s, n - 1>>]
      BY <3>4, <1>4
    <3>6. \A n \in DOMAIN asked[s] : issued[<<s, n - 1>>].brief = asked[s][n]
      BY <2>2 DEF InTurn
    <3>7. /\ Taken(s) = Len(asked[s])
          /\ {t \in DOMAIN issued : t[1] = s} = {<<s, n - 1>> : n \in DOMAIN asked[s]}
      BY <2>2 DEF InTurn
    <3> QED  BY <3>1, <3>2, <3>3, <3>5, <3>6, <3>7
  <2>3. ASSUME Alone(r)
        PROVE  /\ Taken(r)' = Len(asked'[r])
               /\ {t \in DOMAIN issued' : t[1] = r} = {<<r, n - 1>> : n \in DOMAIN asked'[r]}
               /\ \A n \in DOMAIN asked'[r] : issued'[<<r, n - 1>>].brief = asked'[r][n]
    <3> DEFINE k == Len(asked[r])
    <3>1. /\ asked[r] \in Seq(Brief)
          /\ asked'[r] = Append(asked[r], b)
      BY <1>5 DEF InTurn
    <3>2. /\ k \in Nat
          /\ DOMAIN asked[r] = 1 .. k
          /\ DOMAIN asked'[r] = 1 .. k + 1
          /\ Len(asked'[r]) = k + 1
          /\ \A n \in 1 .. k : asked'[r][n] = asked[r][n]
          /\ asked'[r][k + 1] = b
      BY <3>1, AppendProperties
    <3>3. /\ Taken(r) = k
          /\ {t \in DOMAIN issued : t[1] = r} = {<<r, n - 1>> : n \in 1 .. k}
          /\ \A n \in 1 .. k : issued[<<r, n - 1>>].brief = asked[r][n]
      BY <2>3, <3>2 DEF InTurn
    <3> HIDE DEF k
    <3>4. Taken(r)' = k + 1  BY <1>7, <3>3
    <3>5. ticket = <<r, (k + 1) - 1>>  BY <3>2, <3>3
    <3>6. {<<r, n - 1>> : n \in 1 .. k + 1} = {<<r, n - 1>> : n \in 1 .. k} \cup {ticket}
      <4>1. 1 .. k + 1 = (1 .. k) \cup {k + 1}  BY <3>2
      <4> QED  BY <4>1, <3>5
    <3>7. {t \in DOMAIN issued' : t[1] = r} = {t \in DOMAIN issued : t[1] = r} \cup {ticket}
      BY <1>4
    <3>8. ASSUME NEW n \in 1 .. k + 1
          PROVE  issued'[<<r, n - 1>>].brief = asked'[r][n]
      <4>1. CASE n \in 1 .. k
        <5>1. <<r, n - 1>> \in DOMAIN issued  BY <4>1, <3>3
        <5> QED  BY <5>1, <4>1, <1>4, <3>2, <3>3
      <4>2. CASE n = k + 1  BY <4>2, <3>5, <3>2, <1>4 DEF work
      <4> QED  BY <4>1, <4>2, <3>2
    <3> QED  BY <3>2, <3>3, <3>4, <3>6, <3>7, <3>8
  <2> QED  BY <2>1, <2>2, <2>3 DEF InTurn, Alone
<1>11. Lending'
  <2>1. UNCHANGED <<served, batch, lent>> /\ Calls(a)  BY DEF Spawn
  <2>2. calls' \in [Arm -> 0 .. MaxSpawns]
    BY <2>1, DelegationAssumption DEF Calls, Lending
  <2> QED  BY <2>1, <2>2 DEF Lending
<1> QED  BY <1>8, <1>9, <1>10, <1>11

\* A refusal and a dispatch move no ticket; a brief served lends one entry.
LEMMA ServingHands ==
  ASSUME Handing, NEW a \in Arm,
         \/ \E r \in Role : SpawnRefused(a, r)
         \/ Serve(a) \/ DispatchFails(a) \/ \E bs \in Batches : Dispatch(a, bs)
  PROVE  Handing'
<1> USE DEF Handing
<1>1. UNCHANGED <<issued, asked, heard>>
  BY DEF SpawnRefused, Serve, DispatchFails, Dispatch
<1>2. Numbered' /\ InTurn'  BY <1>1, QuietKeeps, KeptHolds
<1>3. HeardTrue'  BY <1>1 DEF HeardTrue
<1>4. Calls(a) => calls' \in [Arm -> 0 .. MaxSpawns]
  BY DelegationAssumption DEF Calls, Lending
<1>5. Lending'
  <2>1. CASE \E r \in Role : SpawnRefused(a, r)
    BY <2>1, <1>4 DEF SpawnRefused, Lending
  <2>2. CASE \E bs \in Batches : Dispatch(a, bs)
    <3>1. batch' \in [Arm -> Seq(Role \X Brief)]
      BY <2>2, DelegationAssumption DEF Dispatch, Lending
    <3> QED  BY <2>2, <3>1, <1>4 DEF Dispatch, Lending
  <2>3. CASE DispatchFails(a)
    <3>1. batch' \in [Arm -> Seq(Role \X Brief)]
      BY <2>3 DEF DispatchFails, Lending
    <3> QED  BY <2>3, <3>1 DEF DispatchFails, Lending
  <2>4. CASE Serve(a)
    <3> DEFINE r == Head(batch[a])[1]
               n == served[r] + 1
    <3>1. /\ batch[a] \in Seq(Role \X Brief)
          /\ batch[a] # << >>
      BY <2>4 DEF Serve, Lending
    <3>2. Head(batch[a]) \in Role \X Brief /\ Tail(batch[a]) \in Seq(Role \X Brief)
      BY <3>1, HeadTailProperties
    <3>3. r \in Role  BY <3>2
    <3>4. /\ batch' = [batch EXCEPT ![a] = Tail(@)]
          /\ lent' = [lent EXCEPT ![r] = Append(@, Least(n, Len(Script(r))))]
          /\ served' = [served EXCEPT ![r] = @ + 1]
          /\ UNCHANGED calls
      BY <2>4 DEF Serve
    <3> HIDE DEF r
    <3>5. batch' \in [Arm -> Seq(Role \X Brief)]  BY <3>2, <3>4 DEF Lending
    <3>6. /\ lent[r] \in Seq(Nat)
          /\ served[r] = Len(lent[r])
          /\ n \in Nat
          /\ n = Len(lent[r]) + 1
          /\ Least(n, Len(Script(r))) \in Nat
      BY <3>3, ScriptLength DEF Lending, Least
    <3>7. /\ lent'[r] = Append(lent[r], Least(n, Len(Script(r))))
          /\ served'[r] = n
          /\ \A s \in Role \ {r} : lent'[s] = lent[s] /\ served'[s] = served[s]
      BY <3>3, <3>4 DEF Lending
    <3> HIDE DEF n
    <3>8. /\ lent'[r] \in Seq(Nat)
          /\ Len(lent'[r]) = n
          /\ DOMAIN lent'[r] = 1 .. n
          /\ \A i \in 1 .. Len(lent[r]) : lent'[r][i] = lent[r][i]
          /\ lent'[r][n] = Least(n, Len(Script(r)))
      BY <3>6, <3>7, AppendProperties
    <3>9. lent' \in [Role -> Seq(Nat)] /\ served' \in [Role -> Nat]
      BY <3>3, <3>4, <3>6, <3>7, <3>8 DEF Lending
    <3>10. ASSUME NEW i \in 1 .. n
           PROVE  lent'[r][i] = Least(i, Len(Script(r)))
      <4>1. CASE i \in 1 .. Len(lent[r])
        <5>1. i \in DOMAIN lent[r]  BY <4>1, <3>6
        <5> QED  BY <4>1, <5>1, <3>3, <3>8 DEF Lending
      <4>2. CASE i = n  BY <4>2, <3>8
      <4> QED  BY <4>1, <4>2, <3>6
    <3>11. ASSUME NEW s \in Role
           PROVE  /\ served'[s] = Len(lent'[s])
                  /\ \A i \in DOMAIN lent'[s] : lent'[s][i] = Least(i, Len(Script(s)))
      <4>1. CASE s = r  BY <4>1, <3>7, <3>8, <3>10
      <4>2. CASE s # r  BY <4>2, <3>7 DEF Lending
      <4> QED  BY <4>1, <4>2
    <3> QED  BY <3>4, <3>5, <3>9, <3>11 DEF Lending
  <2> QED  BY <2>1, <2>2, <2>3, <2>4
<1> QED  BY <1>2, <1>3, <1>5

\* Every step of delegation keeps the turns.
LEMMA HandingStep == Handing /\ [Next]_vars => Handing'
<1> SUFFICES ASSUME Handing, [Next]_vars PROVE Handing'
  OBVIOUS
<1>1. ASSUME NEW a \in Arm, NEW r \in Role, NEW b \in Brief, Spawn(a, r, b)
      PROVE  Handing'
  BY <1>1, SpawnHands
<1>2. ASSUME NEW t \in DOMAIN issued, Steer(t) \/ Notes(t) \/ Settle(t)
      PROVE  Handing'
  BY <1>2, TendingHands
<1>3. ASSUME NEW a \in Arm,
             \/ \E r \in Role : SpawnRefused(a, r)
             \/ Serve(a) \/ DispatchFails(a) \/ \E bs \in Batches : Dispatch(a, bs)
      PROVE  Handing'
  BY <1>3, ServingHands
<1>4. CASE UNCHANGED vars
  <2>1. Numbered' /\ InTurn'  BY <1>4, QuietKeeps, KeptHolds DEF vars, Handing
  <2> QED  BY <1>4, <2>1 DEF vars, Handing, HeardTrue, Lending
<1> QED  BY <1>1, <1>2, <1>3, <1>4 DEF Next

\* So they are kept throughout.
LEMMA HandingHolds == AllSpec => []Handing
<1>1. AllInit => Handing  BY HandingInit DEF AllInit
<1> QED  BY <1>1, HandingStep, DelegationRuns, PTL DEF AllSpec

(***************************************************************************)
(* Delegations keep their types: every ticket names a declared role and an *)
(* entry of its script.                                                    *)
(***************************************************************************)
THEOREM TypeCorrect == AllSpec => []TypeOK
<1>1. Handing => TypeOK
  <2> SUFFICES ASSUME Handing PROVE TypeOK
    OBVIOUS
  <2>1. ASSUME NEW t \in DOMAIN issued
        PROVE  /\ t[1] \in Delegates \cap Registered \cap DOMAIN Scripts
               /\ t[2] \in 0 .. Len(Scripts[t[1]]) - 1
               /\ issued[t] \in Work
    <3>1. /\ t[1] \in Delegates \cap Registered \cap DOMAIN Scripts
          /\ t[2] \in Nat /\ t[2] < Len(Scripts[t[1]])
          /\ issued[t] \in Work
      BY DEF Handing, Numbered
    <3>2. Len(Scripts[t[1]]) \in Nat  BY <3>1, DelegationAssumption
    <3> QED  BY <3>1, <3>2
  <2> QED  BY <2>1 DEF Handing, HeardTrue, InTurn, Lending, TypeOK, Work
<1> QED  BY <1>1, HandingHolds, PTL

(***************************************************************************)
(* Whatever the arms do, the nth spawn of a role whose name none extends   *)
(* holds the nth entry and the nth brief (harness/mod.rs, spawn).          *)
(***************************************************************************)
THEOREM ScriptsAreDealtInOrder == AllSpec => []NthEntryForNthSpawn
<1>1. Handing => NthEntryForNthSpawn
  <2> SUFFICES ASSUME Handing, NEW r \in Role, \A s \in Role : <<s, r>> \notin Extends
               PROVE  /\ {t \in DOMAIN issued : t[1] = r}
                           = {<<r, n - 1>> : n \in DOMAIN asked[r]}
                      /\ \A n \in DOMAIN asked[r] :
                           /\ issued[<<r, n - 1>>].brief = asked[r][n]
                           /\ issued[<<r, n - 1>>].entry = Script(r)[n]
    BY DEF NthEntryForNthSpawn
  <2>1. /\ {t \in DOMAIN issued : t[1] = r} = {<<r, n - 1>> : n \in DOMAIN asked[r]}
        /\ \A n \in DOMAIN asked[r] : issued[<<r, n - 1>>].brief = asked[r][n]
    BY DEF Handing, InTurn, Alone
  <2>2. ASSUME NEW n \in DOMAIN asked[r]
        PROVE  issued[<<r, n - 1>>].entry = Script(r)[n]
    <3>1. <<r, n - 1>> \in DOMAIN issued  BY <2>1
    <3>2. /\ r \in DOMAIN Scripts
          /\ issued[<<r, n - 1>>].entry = Scripts[r][(n - 1) + 1]
      BY <3>1 DEF Handing, Numbered
    <3>3. n \in Nat  BY DEF Handing, InTurn
    <3> QED  BY <3>2, <3>3, ScriptTyped
  <2> QED  BY <2>1, <2>2
<1> QED  BY <1>1, HandingHolds, PTL

(***************************************************************************)
(* However many arms collect a ticket, and whenever, they are told one     *)
(* outcome; whatever the names of the roles (harness/mod.rs, settle).      *)
(***************************************************************************)
THEOREM CollectorsAgree == AllSpec => []OneOutcomePerTicket
<1>1. Handing => OneOutcomePerTicket
  BY FS_Singleton DEF Handing, HeardTrue, OneOutcomePerTicket
<1> QED  BY <1>1, HandingHolds, PTL

(***************************************************************************)
(* An entry spawned and the same entry served inline are one               *)
(* (orchestrate/mod.rs, dispatch).                                         *)
(***************************************************************************)
THEOREM TwinsHold == AllSpec => []TwinsAgree
<1>1. Handing => TwinsAgree
  <2> SUFFICES ASSUME Handing, NEW r \in DOMAIN Scripts, NEW n \in DOMAIN lent[r]
               PROVE  /\ lent[r][n] = Least(n, Len(Scripts[r]))
                      /\ <<r, n - 1>> \in DOMAIN issued /\ n <= Len(Scripts[r]) =>
                           issued[<<r, n - 1>>].entry = Scripts[r][lent[r][n]]
    BY DEF TwinsAgree
  <2>1. r \in Role /\ Script(r) = Scripts[r] /\ n \in Nat
    BY DelegationAssumption, ScriptTyped DEF Handing, Lending
  <2>2. lent[r][n] = Least(n, Len(Scripts[r]))  BY <2>1 DEF Handing, Lending
  <2>3. ASSUME <<r, n - 1>> \in DOMAIN issued, n <= Len(Scripts[r])
        PROVE  issued[<<r, n - 1>>].entry = Scripts[r][lent[r][n]]
    <3>1. issued[<<r, n - 1>>].entry = Scripts[r][(n - 1) + 1]
      BY <2>3 DEF Handing, Numbered
    <3> QED  BY <2>1, <2>2, <2>3, <3>1 DEF Least
  <2> QED  BY <2>2, <2>3
<1> QED  BY <1>1, HandingHolds, PTL

-----------------------------------------------------------------------------
(***************************************************************************)
(* The board.  A decomposition is met by a chain of boards, one for each   *)
(* task stated, and the outstanding rows are picked by a chain of lists,   *)
(* one for each row.  The chains exist, and each link keeps what is wanted *)
(* of the whole.                                                           *)
(***************************************************************************)
LEMMA BoardRuns == [AllNext]_all => [Brd!Next]_brdVars
  BY DEF AllNext, all

\* A board: rows with an id each.  A board continues another when it has each
\* of its rows, in its place, with the status it had.
Boards == {rows \in Seq(Brd!Stated) :
             \A i, j \in DOMAIN rows : rows[i].id = rows[j].id => i = j}

Continues(rows, after) ==
  /\ Len(after) >= Len(rows)
  /\ \A i \in DOMAIN rows : /\ after[i].id = rows[i].id
                            /\ after[i].status = rows[i].status

\* A task stated continues the board it meets.
LEMMA SettleContinues ==
  ASSUME NEW rows \in Boards, NEW stated \in Brd!Stated
  PROVE  Brd!Settle(rows, stated) \in Boards /\ Continues(rows, Brd!Settle(rows, stated))
<1> DEFINE same  == {i \in DOMAIN rows : rows[i].id = stated.id}
           after == Brd!Settle(rows, stated)
<1>1. rows \in Seq(Brd!Stated) /\ \A i, j \in DOMAIN rows : rows[i].id = rows[j].id => i = j
  BY DEF Boards
<1>2. Brd!FirstOf(same) = same
  BY <1>1 DEF Brd!FirstOf
<1>3. CASE same = {}
  <2>1. after = Append(rows, stated)
    BY <1>2, <1>3 DEF Brd!Settle
  <2>2. /\ after \in Seq(Brd!Stated) /\ Len(after) = Len(rows) + 1
        /\ \A i \in DOMAIN rows : after[i] = rows[i]
        /\ after[Len(rows) + 1] = stated
    BY <1>1, <2>1
  <2>3. \A i \in DOMAIN after : i \in DOMAIN rows \/ i = Len(rows) + 1
    BY <1>1, <2>2
  <2>4. \A i, j \in DOMAIN after : after[i].id = after[j].id => i = j
    BY <1>1, <1>3, <2>2, <2>3
  <2> QED  BY <1>1, <2>2, <2>4 DEF Boards, Continues
<1>4. CASE same # {}
  <2>1. after = [i \in DOMAIN rows |->
                   IF i \in same THEN [rows[i] EXCEPT !.statement = stated.statement]
                                 ELSE rows[i]]
    BY <1>2, <1>4 DEF Brd!Settle
  <2>2. ASSUME NEW i \in DOMAIN rows
        PROVE  /\ after[i] \in Brd!Stated
               /\ after[i].id = rows[i].id
               /\ after[i].status = rows[i].status
    <3>1. rows[i] \in Brd!Stated
      BY <1>1
    <3> HIDE DEF same
    <3>2. CASE i \in same
      <4>1. after[i] = [rows[i] EXCEPT !.statement = stated.statement]
        BY <2>1, <3>2
      <4> QED  BY <3>1, <4>1 DEF Brd!Stated
    <3>3. CASE i \notin same
      BY <2>1, <3>1, <3>3
    <3> QED  BY <3>2, <3>3
  <2>3. after \in Seq(Brd!Stated) /\ Len(after) = Len(rows) /\ DOMAIN after = DOMAIN rows
    BY <1>1, <2>1, <2>2
  <2> QED  BY <1>1, <2>2, <2>3 DEF Boards, Continues
<1> QED  BY <1>3, <1>4

\* So does a whole decomposition.
Unwinds(f, rows, stated) ==
  f = [n \in 0 .. Len(stated) |->
         IF n = 0 THEN rows ELSE Brd!Settle(f[n - 1], stated[n])]

\* A re-plan loses no task and takes back no settled one: settling a list of statements
\* is settling them one at a time.
LEMMA ReplannedContinues ==
  ASSUME tasks \in Boards, NEW stated \in Seq(Brd!Stated)
  PROVE  Brd!Replanned(stated) \in Boards /\ Continues(tasks, Brd!Replanned(stated))
<1> DEFINE n == Len(stated)
           g == [k \in 1 .. n |-> [rows \in Boards |-> Brd!Settle(rows, stated[k])]]
           f == CHOOSE f : Unwinds(f, tasks, stated)
<1>0. n \in Nat /\ \A k \in 1 .. n : stated[k] \in Brd!Stated
  OBVIOUS
<1>1. g \in Links(n, Boards)
  BY <1>0, SettleContinues DEF Links
<1>2. Unwinds(f, tasks, stated)
  <2>1. PICK h : h \in [0 .. n -> Boards] /\ Chained(h, tasks, n, g)
    <3>1. n \in Nat
      BY <1>0
    <3> HIDE DEF g, n
    <3> QED  BY <1>1, <3>1, Chains
  <2>2. ASSUME NEW k \in 1 .. n PROVE h[k] = Brd!Settle(h[k - 1], stated[k])
    <3>1. k - 1 \in 0 .. n
      BY <1>0
    <3>2. h[k - 1] \in Boards
      BY <2>1, <3>1
    <3> QED  BY <2>1, <3>2 DEF Chained
  <2>3. Unwinds(h, tasks, stated)
    BY <2>1, <2>2 DEF Unwinds, Chained
  <2> QED  BY <2>3
<1>3. Brd!Replanned(stated) = f[n]
  BY DEF Brd!Replanned, Unwinds
<1> DEFINE P == {k \in 0 .. n : f[k] \in Boards /\ Continues(tasks, f[k])}
<1> HIDE DEF f
<1>4. 0 \in P
  <2>1. f[0] = tasks
    BY <1>0, <1>2 DEF Unwinds
  <2> QED  BY <1>0, <2>1 DEF Continues, Boards
<1>5. ASSUME NEW k \in 1 .. n, k - 1 \in P PROVE k \in P
  <2>1. f[k] = Brd!Settle(f[k - 1], stated[k])
    BY <1>0, <1>2 DEF Unwinds
  <2>2. f[k] \in Boards /\ Continues(f[k - 1], f[k])
    BY <1>0, <1>5, <2>1, SettleContinues
  <2>3. Continues(tasks, f[k])
    BY <1>5, <2>2 DEF Continues, Boards
  <2> QED  BY <2>2, <2>3
<1>6. n \in P
  <2>1. \A k \in 1 .. n : k - 1 \in P => k \in P
    BY <1>5
  <2>2. n \in Nat
    BY <1>0
  <2> HIDE DEF P, n
  <2>3. \A k \in 0 .. n : k \in P
    BY <1>4, <2>1, <2>2, Climbs
  <2> QED  BY <2>2, <2>3
<1> QED  BY <1>3, <1>6

\* Every row still to be settled is among the outstanding ones.
Picks(f) ==
  f = [n \in 0 .. Len(tasks) |->
         IF n = 0 THEN << >>
         ELSE IF tasks[n].status \in Brd!Settled THEN f[n - 1]
         ELSE Append(f[n - 1], tasks[n])]

\* Every task not settled is among the outstanding ones.
LEMMA NoneOverlooked ==
  ASSUME tasks \in Boards
  PROVE  /\ Brd!Outstanding \in Seq(Brd!Stated)
         /\ \A i \in DOMAIN tasks : tasks[i].status \notin Brd!Settled =>
              \E k \in DOMAIN Brd!Outstanding : Brd!Outstanding[k] = tasks[i]
<1> DEFINE n == Len(tasks)
           D == Seq(Brd!Stated)
           g == [k \in 1 .. n |-> [rows \in D |->
                   IF tasks[k].status \in Brd!Settled THEN rows
                   ELSE Append(rows, tasks[k])]]
           f == CHOOSE f : Picks(f)
<1>0. n \in Nat /\ DOMAIN tasks = 1 .. n /\ \A k \in 1 .. n : tasks[k] \in Brd!Stated
  BY DEF Boards
<1>1. g \in Links(n, D)
  BY <1>0 DEF Links
<1>2. Picks(f)
  <2>1. PICK h : h \in [0 .. n -> D] /\ Chained(h, << >>, n, g)
    <3>1. n \in Nat /\ << >> \in D
      BY <1>0
    <3> HIDE DEF g, n, D
    <3> QED  BY <1>1, <3>1, Chains
  <2>2. ASSUME NEW k \in 1 .. n
        PROVE  h[k] = IF tasks[k].status \in Brd!Settled THEN h[k - 1]
                      ELSE Append(h[k - 1], tasks[k])
    <3>1. k - 1 \in 0 .. n
      BY <1>0
    <3>2. h[k - 1] \in D
      BY <2>1, <3>1
    <3> QED  BY <2>1, <3>2 DEF Chained
  <2>3. Picks(h)
    <3>1. \A k \in 0 .. n : k # 0 => k \in 1 .. n
      BY <1>0
    <3>2. DOMAIN h = 0 .. Len(tasks) /\ h[0] = << >>
      BY <2>1 DEF Chained
    <3> DEFINE r == [k \in 0 .. Len(tasks) |->
                       IF k = 0 THEN << >>
                       ELSE IF tasks[k].status \in Brd!Settled THEN h[k - 1]
                       ELSE Append(h[k - 1], tasks[k])]
    <3>3. ASSUME NEW k \in 0 .. n PROVE h[k] = r[k]
      BY <2>2, <3>1, <3>2
    <3>4. h = r
      BY <2>1, <3>3
    <3> QED  BY <3>4 DEF Picks
  <2> QED  BY <2>3
<1>3. Brd!Outstanding = f[n]
  BY DEF Brd!Outstanding, Picks
<1> DEFINE P == {m \in 0 .. n :
                   /\ f[m] \in D
                   /\ \A i \in 1 .. m : tasks[i].status \notin Brd!Settled =>
                        \E k \in DOMAIN f[m] : f[m][k] = tasks[i]}
<1> HIDE DEF f
<1>4. 0 \in P
  <2>1. f[0] = << >>
    BY <1>0, <1>2 DEF Picks
  <2>2. f[0] \in D
    BY <2>1
  <2>3. 1 .. 0 = {}
    OBVIOUS
  <2> QED  BY <1>0, <2>2, <2>3
<1>5. ASSUME NEW m \in 1 .. n, m - 1 \in P PROVE m \in P
  <2>1. f[m] = IF tasks[m].status \in Brd!Settled THEN f[m - 1]
               ELSE Append(f[m - 1], tasks[m])
    <3>1. m \in 0 .. Len(tasks) /\ m # 0
      BY <1>0
    <3> QED  BY <1>2, <3>1 DEF Picks
  <2>2. \A i \in 1 .. m : i \in 1 .. m - 1 \/ i = m
    BY <1>0
  <2>3. CASE tasks[m].status \in Brd!Settled
    BY <1>0, <1>5, <2>1, <2>2, <2>3
  <2>4. CASE tasks[m].status \notin Brd!Settled
    <3> DEFINE old == f[m - 1]
    <3>1. f[m] = Append(old, tasks[m]) /\ old \in Seq(Brd!Stated)
      BY <1>5, <2>1, <2>4
    <3>2. tasks[m] \in Brd!Stated
      BY <1>0
    <3> HIDE DEF old
    <3>3. /\ f[m] \in Seq(Brd!Stated) /\ Len(f[m]) = Len(old) + 1
          /\ \A k \in DOMAIN old : k \in DOMAIN f[m] /\ f[m][k] = old[k]
          /\ Len(f[m]) \in DOMAIN f[m] /\ f[m][Len(f[m])] = tasks[m]
      BY <3>1, <3>2
    <3>4. ASSUME NEW i \in 1 .. m, tasks[i].status \notin Brd!Settled
          PROVE  \E k \in DOMAIN f[m] : f[m][k] = tasks[i]
      <4>1. CASE i = m
        BY <3>3, <4>1
      <4>2. CASE i \in 1 .. m - 1
        <5>1. PICK k \in DOMAIN old : old[k] = tasks[i]
          BY <1>5, <3>4, <4>2 DEF old
        <5> QED  BY <3>3, <5>1
      <4> QED  BY <2>2, <4>1, <4>2
    <3> QED  BY <3>3, <3>4
  <2> QED  BY <2>3, <2>4
<1>6. n \in P
  <2>1. \A k \in 1 .. n : k - 1 \in P => k \in P
    BY <1>5
  <2>2. n \in Nat
    BY <1>0
  <2> HIDE DEF P, n
  <2>3. \A k \in 0 .. n : k \in P
    BY <1>4, <2>1, <2>2, Climbs
  <2> QED  BY <2>2, <2>3
<1> QED  BY <1>0, <1>3, <1>6

\* Dealt round n hands, no hand holds more than one card over another's.
Hand(m, n, p) == {k \in 1 .. m : ((k - 1) % n) + 1 = p}

Laps(n, k, p) == \E d \in Nat : k = n * d + p

\* The k-th of m dealt round n hands falls to p exactly when k is p and whole laps.
LEMMA Dealt ==
  ASSUME NEW n \in Nat \ {0}, NEW m \in Nat, NEW k \in 1 .. m, NEW p \in 1 .. n
  PROVE  k \in Hand(m, n, p) <=> Laps(n, k, p)
<1>1. ASSUME ((k - 1) % n) + 1 = p PROVE Laps(n, k, p)
  <2>1. k - 1 \in Nat
    OBVIOUS
  <2>2. k - 1 = n * ((k - 1) \div n) + ((k - 1) % n) /\ (k - 1) \div n \in Nat
    BY <2>1
  <2> DEFINE d == (k - 1) \div n
             t == (k - 1) % n
  <2>3. d \in Nat /\ t \in Int /\ k - 1 = n * d + t /\ t + 1 = p
    BY <1>1, <2>2
  <2> HIDE DEF d, t
  <2>4. n * d \in Int
    BY <2>3
  <2>5. k = n * d + p
    BY <2>3, <2>4
  <2> QED  BY <2>3, <2>5 DEF Laps
<1>2. ASSUME NEW d \in Nat, k = n * d + p PROVE ((k - 1) % n) + 1 = p
  <2> DEFINE r == p - 1
  <2>1. r \in 0 .. n - 1 /\ k - 1 = n * d + r
    BY <1>2
  <2> HIDE DEF r
  <2>2. (n * d + r) % n = r
    BY <2>1
  <2> QED  BY <2>1, <2>2 DEF r
<1>3. k \in Hand(m, n, p) <=> ((k - 1) % n) + 1 = p
  BY DEF Hand
<1> QED  BY <1>1, <1>2, <1>3 DEF Laps

\* No hand is ahead of another by more than one.
LEMMA EvenHands ==
  ASSUME NEW n \in Nat \ {0}, NEW m \in Nat, NEW p \in 1 .. n, NEW q \in 1 .. n
  PROVE  /\ IsFiniteSet(Hand(m, n, p))
         /\ Cardinality(Hand(m, n, p)) <= Cardinality(Hand(m, n, q)) + 1
<1>1. \A r \in 1 .. n : IsFiniteSet(Hand(m, n, r)) /\ Cardinality(Hand(m, n, r)) \in Nat
  <2> TAKE r \in 1 .. n
  <2>1. Hand(m, n, r) \in SUBSET (1 .. m) /\ IsFiniteSet(1 .. m)
    BY FS_Interval DEF Hand
  <2> QED  BY <2>1, FS_Subset, FS_CardinalityType
<1> DEFINE shift == IF q <= p THEN q - p ELSE q - p - n
           R == Hand(m, n, p) \ {p}
           f == [k \in R |-> k + shift]
<1>3. ASSUME NEW k \in R PROVE k + shift \in Hand(m, n, q)
  <2>1. k \in 1 .. m /\ k \in Hand(m, n, p) /\ k # p
    BY DEF Hand
  <2>2. PICK d \in Nat : k = n * d + p
    <3>1. Laps(n, k, p)
      BY <2>1, Dealt
    <3> QED  BY <3>1 DEF Laps
  <2>3. d # 0
    BY <2>1, <2>2
  <2>4. d - 1 \in Nat /\ n * d = n * (d - 1) + n
    BY <2>3
  <2> DEFINE less == n * (d - 1)
  <2>5. less \in Nat /\ k = less + n + p
    BY <2>2, <2>4
  <2> HIDE DEF less
  <2>6. CASE q <= p
    <3>1. k + shift = less + n + q
      BY <2>5, <2>6
    <3>2. k + shift \in 1 .. m
      BY <2>1, <2>5, <2>6
    <3>3. k + shift = n * d + q
      BY <2>4, <3>1 DEF less
    <3> QED  BY <3>2, <3>3, Dealt DEF Laps
  <2>7. CASE ~ (q <= p)
    <3>1. k + shift = less + q
      BY <2>5, <2>7
    <3>2. k + shift \in 1 .. m
      BY <2>1, <2>5, <2>7
    <3>3. k + shift = n * (d - 1) + q
      BY <3>1 DEF less
    <3> QED  BY <2>4, <3>2, <3>3, Dealt DEF Laps
  <2> QED  BY <2>6, <2>7
<1>4. Cardinality(R) <= Cardinality(Hand(m, n, q))
  <2>1. f \in Injection(R, Hand(m, n, q))
    <3>1. R \subseteq Int /\ shift \in Int
      BY DEF Hand
    <3>2. f \in [R -> Hand(m, n, q)]
      BY <1>3
    <3>3. \A a, b \in R : f[a] = f[b] => a = b
      <4> HIDE DEF R, shift
      <4> QED  BY <3>1
    <3> HIDE DEF f
    <3> QED  BY <3>2, <3>3 DEF Injection, IsInjective
  <2>2. IsFiniteSet(Hand(m, n, q))
    BY <1>1
  <2> HIDE DEF f, R
  <2> QED  BY <2>1, <2>2, FS_Injection
<1>5. Cardinality(Hand(m, n, p)) <= Cardinality(R) + 1
  <2>1. Cardinality(R) = IF p \in Hand(m, n, p) THEN Cardinality(Hand(m, n, p)) - 1
                                               ELSE Cardinality(Hand(m, n, p))
    BY <1>1, FS_RemoveElement
  <2> QED  BY <1>1, <2>1
<1>6. Cardinality(R) \in Nat
  BY <1>1, FS_RemoveElement, FS_CardinalityType
<1> HIDE DEF R
<1> QED  BY <1>1, <1>4, <1>5, <1>6

\* The module's own Cardinality is the one the library speaks of.
LEMMA BoardCardinality == \A S : Brd!Cardinality(S) = Cardinality(S)
  BY DEF Cardinality, Brd!Cardinality

\* What an attempt sends out: to roles of the roster, in even loads.
LEMMA SentOut ==
  ASSUME OrchestratorAssumption, tasks \in Boards, NEW diverse \in BOOLEAN,
         NEW sent, sent = Brd!BriefsFor(diverse)
  PROVE  /\ \A k \in DOMAIN sent : /\ \E i \in DOMAIN Roster : Roster[i] = sent[k].role
                                   /\ sent[k].statement \in Statements
         /\ ~diverse =>
              /\ \A i \in DOMAIN tasks : tasks[i].status \notin Brd!Settled =>
                   \E k \in DOMAIN sent : sent[k].statement = tasks[i].statement
              /\ \A i, j \in DOMAIN Roster :
                   Cardinality({k \in DOMAIN sent : sent[k].role = Roster[i]})
                     <= Cardinality({k \in DOMAIN sent : sent[k].role = Roster[j]}) + 1
<1> DEFINE n     == Len(Roster)
           out   == Brd!Outstanding
           topic == IF out = << >> THEN Goal ELSE out[1].statement
<1>0. /\ Goal \in Statements /\ Roster \in Seq(STRING) /\ Roster # << >>
      /\ \A i, j \in DOMAIN Roster : Roster[i] = Roster[j] => i = j
  BY DEF OrchestratorAssumption
<1>1. n \in Nat /\ DOMAIN Roster = 1 .. n /\ n # 0
  BY <1>0
<1>2. /\ out \in Seq(Brd!Stated)
      /\ \A i \in DOMAIN tasks : tasks[i].status \notin Brd!Settled =>
           \E k \in DOMAIN out : out[k] = tasks[i]
  BY NoneOverlooked
<1>3. /\ Len(out) \in Nat /\ DOMAIN out = 1 .. Len(out) /\ (out = << >> <=> Len(out) = 0)
      /\ \A k \in DOMAIN out : out[k].statement \in Statements
  <2> HIDE DEF out
  <2>1. Len(out) \in Nat /\ DOMAIN out = 1 .. Len(out) /\ (out = << >> <=> Len(out) = 0)
    BY <1>2
  <2>2. \A k \in DOMAIN out : out[k] \in Brd!Stated
    BY <1>2, <2>1
  <2> QED  BY <2>1, <2>2 DEF Brd!Stated
<1>4. topic \in Statements
  BY <1>0, <1>3
<1>5. sent = IF diverse THEN [i \in 1 .. n |-> [role |-> Roster[i], statement |-> topic]]
             ELSE IF n = 0 THEN << >>
             ELSE IF out = << >> THEN <<[role |-> Roster[1], statement |-> Goal]>>
             ELSE [i \in DOMAIN out |-> [role |-> Roster[((i - 1) % n) + 1],
                                         statement |-> out[i].statement]]
  BY DEF Brd!BriefsFor
<1> HIDE DEF n, out, topic
<1>6. CASE diverse
  BY <1>0, <1>1, <1>4, <1>5, <1>6
<1>7. CASE ~diverse /\ out = << >>
  <2>1. /\ DOMAIN sent = {1}
        /\ sent[1].role = Roster[1] /\ sent[1].statement = Goal
    BY <1>1, <1>5, <1>7
  <2>2. 1 \in DOMAIN Roster
    BY <1>1, <1>7
  <2>3. \A i \in DOMAIN tasks : tasks[i].status \in Brd!Settled
    BY <1>2, <1>3, <1>7
  <2>4. ASSUME NEW r PROVE LET S == {k \in DOMAIN sent : sent[k].role = r}
                           IN  Cardinality(S) \in {0, 1}
    <3> DEFINE S == {k \in DOMAIN sent : sent[k].role = r}
    <3>1. S = {} \/ S = {1}
      BY <2>1
    <3> HIDE DEF S
    <3>2. Cardinality(S) \in {0, 1}
      BY <3>1, FS_EmptySet, FS_Singleton
    <3> QED  BY <3>2 DEF S
  <2>5. \A i, j \in DOMAIN Roster :
          Cardinality({k \in DOMAIN sent : sent[k].role = Roster[i]})
            <= Cardinality({k \in DOMAIN sent : sent[k].role = Roster[j]}) + 1
    <3> TAKE i, j \in DOMAIN Roster
    <3>1. /\ Cardinality({k \in DOMAIN sent : sent[k].role = Roster[i]}) \in {0, 1}
          /\ Cardinality({k \in DOMAIN sent : sent[k].role = Roster[j]}) \in {0, 1}
      BY <2>4
    <3> QED  BY <3>1
  <2> QED  BY <1>0, <2>1, <2>2, <2>3, <2>5
<1>8. CASE ~diverse /\ out # << >>
  <2>1. /\ DOMAIN sent = 1 .. Len(out)
        /\ \A k \in DOMAIN sent : /\ sent[k].role = Roster[((k - 1) % n) + 1]
                                  /\ sent[k].statement = out[k].statement
    BY <1>1, <1>3, <1>5, <1>8
  <2>2. ASSUME NEW k \in 1 .. Len(out) PROVE ((k - 1) % n) + 1 \in 1 .. n
    <3>1. k - 1 \in Nat /\ n \in Nat \ {0}
      BY <1>1, <1>3, <1>8
    <3> DEFINE t == (k - 1) % n
    <3>2. t \in 0 .. n - 1
      BY <3>1
    <3> HIDE DEF t
    <3>3. t + 1 \in 1 .. n
      BY <3>1, <3>2
    <3> QED  BY <3>3 DEF t
  <2>3. ASSUME NEW i \in 1 .. n
        PROVE  {k \in DOMAIN sent : sent[k].role = Roster[i]} = Hand(Len(out), n, i)
    BY <1>0, <1>1, <2>1, <2>2 DEF Hand
  <2>4. \A i, j \in DOMAIN Roster :
          Cardinality({k \in DOMAIN sent : sent[k].role = Roster[i]})
            <= Cardinality({k \in DOMAIN sent : sent[k].role = Roster[j]}) + 1
    <3> TAKE i, j \in DOMAIN Roster
    <3>1. n \in Nat \ {0} /\ Len(out) \in Nat /\ i \in 1 .. n /\ j \in 1 .. n
      BY <1>1, <1>3, <1>8
    <3>2. Cardinality(Hand(Len(out), n, i)) <= Cardinality(Hand(Len(out), n, j)) + 1
      BY <3>1, EvenHands
    <3> QED  BY <2>3, <3>1, <3>2
  <2>5. \A i \in DOMAIN tasks : tasks[i].status \notin Brd!Settled =>
          \E k \in DOMAIN sent : sent[k].statement = tasks[i].statement
    BY <1>2, <1>3, <2>1
  <2>6. \A k \in DOMAIN sent : /\ \E i \in DOMAIN Roster : Roster[i] = sent[k].role
                               /\ sent[k].statement \in Statements
    BY <1>1, <1>3, <2>1, <2>2
  <2> QED  BY <2>4, <2>5, <2>6
<1> QED  BY <1>6, <1>7, <1>8

\* What an attempt leaves: the board it found, the rows it briefed in flight.
Standing ==
  /\ tasks \in Boards
  /\ step \in {"preamble", "plan", "attempt"}
  /\ pass \in 0 .. MaxPasses
  /\ step = "preamble" => pass = 0
  /\ \A k \in DOMAIN briefs : /\ \E i \in DOMAIN Roster : Roster[i] = briefs[k].role
                              /\ briefs[k].statement \in Statements
  /\ Brd!NoTaskWaits

\* An empty board overlooks nothing.
LEMMA StandingInit == AllInit => Standing
<1> SUFFICES ASSUME AllInit PROVE Standing
  OBVIOUS
<1>1. /\ tasks = << >> /\ step = "preamble" /\ pass = 0 /\ briefs = << >>
  BY DEF AllInit, Brd!Init
<1>2. tasks \in Boards
  BY <1>1 DEF Boards
<1>3. MaxPasses \in Nat
  BY OrchestratorAssumption DEF OrchestratorAssumption
<1> QED  BY <1>1, <1>2, <1>3 DEF Standing, Brd!NoTaskWaits

\* A plan only adds to the board.
LEMMA PlanStands ==
  ASSUME Standing, NEW stated \in Decompositions, Brd!Plan(stated)
  PROVE  Standing' /\ Continues(tasks, tasks')
<1>1. tasks' \in Boards /\ Continues(tasks, tasks')
  <2>1. CASE UNCHANGED tasks
    BY <2>1 DEF Standing, Continues, Boards
  <2>2. CASE tasks' = Brd!Replanned(stated)
    <3>1. stated \in Seq(Brd!Stated)
      BY OrchestratorAssumption DEF OrchestratorAssumption, Brd!Decomposition
    <3> QED  BY <2>2, <3>1, ReplannedContinues DEF Standing
  <2> QED  BY <2>1, <2>2 DEF Brd!Plan
<1>2. /\ step' \in {"plan", "attempt"} /\ (step' = "plan" => pass' = 0)
      /\ UNCHANGED <<pass, briefs>>
  BY DEF Standing, Brd!Plan
<1>3. Brd!NoTaskWaits'
  BY <1>2 DEF Brd!NoTaskWaits
<1> QED  BY <1>1, <1>2, <1>3 DEF Standing

\* An attempt leaves no open task unbriefed.
LEMMA AttemptStands ==
  ASSUME Standing, NEW diverse \in BOOLEAN, Brd!Attempt(diverse)
  PROVE  Standing'
<1> DEFINE sent      == Brd!BriefsFor(diverse)
           Worded(s) == {i \in DOMAIN tasks : tasks[i].statement = s}
           Marked    == UNION {Brd!FirstOf(Worded(sent[k].statement)) : k \in DOMAIN sent}
<1>1. /\ pass < MaxPasses /\ step' = "plan" /\ pass' = pass + 1
      /\ diversify' = diverse /\ briefs' = sent
      /\ tasks' = [i \in DOMAIN tasks |->
                     IF i \in Marked THEN [tasks[i] EXCEPT !.status = "in_flight"]
                                     ELSE tasks[i]]
  BY DEF Brd!Attempt
<1>2. tasks \in Boards /\ tasks \in Seq(Brd!Stated)
  BY DEF Standing, Boards
<1>3. \A i \in Marked : \E k \in DOMAIN sent : sent[k].statement = tasks[i].statement
  BY DEF Brd!FirstOf
<1> HIDE DEF sent, Marked
<1>4. ASSUME NEW i \in DOMAIN tasks
      PROVE  /\ tasks'[i] \in Brd!Stated
             /\ tasks'[i].id = tasks[i].id /\ tasks'[i].statement = tasks[i].statement
             /\ i \notin Marked => tasks'[i].status = tasks[i].status
  <2>1. tasks[i] \in Brd!Stated
    BY <1>2
  <2>2. CASE i \in Marked
    <3>1. tasks'[i] = [tasks[i] EXCEPT !.status = "in_flight"]
      BY <1>1, <2>2
    <3> QED  BY <2>1, <2>2, <3>1 DEF Brd!Stated, Brd!Status
  <2>3. CASE i \notin Marked
    BY <1>1, <2>1, <2>3
  <2> QED  BY <2>2, <2>3
<1>5. DOMAIN tasks' = DOMAIN tasks
  BY <1>1
<1>6. tasks' \in Boards
  <2>1. tasks' \in Seq(Brd!Stated)
    BY <1>1, <1>2, <1>4, <1>5
  <2> QED  BY <1>2, <1>4, <1>5, <2>1 DEF Boards
<1>7. /\ \A k \in DOMAIN sent : /\ \E i \in DOMAIN Roster : Roster[i] = sent[k].role
                                /\ sent[k].statement \in Statements
      /\ ~diverse =>
           /\ \A i \in DOMAIN tasks : tasks[i].status \notin Brd!Settled =>
                \E k \in DOMAIN sent : sent[k].statement = tasks[i].statement
           /\ \A i, j \in DOMAIN Roster :
                Cardinality({k \in DOMAIN sent : sent[k].role = Roster[i]})
                  <= Cardinality({k \in DOMAIN sent : sent[k].role = Roster[j]}) + 1
  BY <1>2, OrchestratorAssumption, SentOut DEF sent
<1>8. Brd!NoTaskWaits'
  <2> SUFFICES ASSUME ~diverse
               PROVE  /\ \A i \in DOMAIN tasks' : tasks'[i].status \notin Brd!Settled =>
                           \E k \in DOMAIN sent : sent[k].statement = tasks'[i].statement
                      /\ \A i, j \in DOMAIN Roster :
                           Cardinality({k \in DOMAIN sent : sent[k].role = Roster[i]})
                             <= Cardinality({k \in DOMAIN sent : sent[k].role = Roster[j]}) + 1
    BY <1>1, BoardCardinality DEF Brd!NoTaskWaits
  <2>1. \A i \in DOMAIN tasks' : tasks'[i].status \notin Brd!Settled =>
          \E k \in DOMAIN sent : sent[k].statement = tasks'[i].statement
    BY <1>3, <1>4, <1>5, <1>7
  <2> QED  BY <1>7, <2>1
<1>9. pass' \in 0 .. MaxPasses
  BY <1>1, OrchestratorAssumption DEF OrchestratorAssumption, Standing
<1> QED  BY <1>1, <1>6, <1>7, <1>8, <1>9 DEF Standing

\* Every step of the board keeps it.
LEMMA StandingStep == Standing /\ [Brd!Next]_brdVars => Standing'
<1> SUFFICES ASSUME Standing, [Brd!Next]_brdVars PROVE Standing'
  OBVIOUS
<1>1. CASE UNCHANGED brdVars
  BY <1>1 DEF brdVars, Standing, Boards, Brd!NoTaskWaits, Brd!Settled
<1>2. CASE \E stated \in Decompositions : Brd!Plan(stated)
  BY <1>2, PlanStands
<1>3. CASE \E diverse \in BOOLEAN : Brd!Attempt(diverse)
  BY <1>3, AttemptStands
<1> QED  BY <1>1, <1>2, <1>3 DEF Brd!Next

\* So it is kept throughout.
LEMMA StandingHolds == AllSpec => []Standing
<1>1. Standing /\ [AllNext]_all => Standing'
  BY BoardRuns, StandingStep
<1> QED  BY <1>1, StandingInit, PTL DEF AllSpec

(***************************************************************************)
(* BoardsAreBoards: whatever a decomposer states and restates, within a    *)
(* batch too, the board holds one row per id, and a brief goes to a role   *)
(* of the roster (Board's TypeOK; orchestrate/board.rs, add and restate).  *)
(***************************************************************************)
THEOREM BoardsAreBoards == AllSpec => []Brd!TypeOK
<1>1. Standing => Brd!TypeOK
  BY DEF Standing, Boards, Brd!TypeOK
<1> QED  BY <1>1, StandingHolds, PTL

(***************************************************************************)
(* NobodyIsForgotten: whatever was planned and settled, an attempt that    *)
(* does not diversify briefs every outstanding task, two specialists'      *)
(* loads differing by one at most (orchestrate/steps.rs, briefs).          *)
(***************************************************************************)
THEOREM NobodyIsForgotten == AllSpec => []NoTaskWaits
<1>1. Standing => NoTaskWaits
  BY DEF Standing, NoTaskWaits
<1> QED  BY <1>1, StandingHolds, PTL

(***************************************************************************)
(* ProgressKept: re-planning, with any decomposition, drops no task, gives *)
(* no id a second row or another's, and takes no progress back             *)
(* (orchestrate/steps.rs, Plan::run; orchestrate/board.rs, add, restate).  *)
(***************************************************************************)
THEOREM ProgressKept == AllSpec => PlanKeepsProgress
<1> DEFINE Keeps ==
      step # "attempt" =>
        /\ Len(tasks') >= Len(tasks)
        /\ \A i, j \in DOMAIN tasks' : tasks'[i].id = tasks'[j].id => i = j
        /\ \A i \in DOMAIN tasks :
             /\ tasks'[i].id = tasks[i].id
             /\ \/ tasks'[i].status = tasks[i].status
                \/ tasks[i].status \notin Brd!Settled /\ tasks'[i].status \in Brd!Settled
<1>1. Standing /\ [AllNext]_all => [Keeps]_brdVars
  <2> SUFFICES ASSUME Standing, Brd!Next, step # "attempt" PROVE Keeps
    BY BoardRuns
  <2>1. PICK stated \in Decompositions : Brd!Plan(stated)
    BY DEF Brd!Next, Brd!Attempt
  <2>2. tasks' \in Boards /\ Continues(tasks, tasks')
    BY <2>1, PlanStands DEF Standing
  <2> QED  BY <2>2 DEF Continues, Boards
<1>2. [Keeps]_brdVars => [Keeps]_(Brd!vars)
  BY DEF brdVars, Brd!vars
<1>3. AllSpec => [][Keeps]_(Brd!vars)
  <2>1. Standing /\ [AllNext]_all => [Keeps]_(Brd!vars)
    BY <1>1, <1>2
  <2> HIDE DEF Keeps
  <2> QED  BY <2>1, StandingHolds, PTL DEF AllSpec
<1> QED  BY <1>3 DEF PlanKeepsProgress, Brd!PlanKeepsProgress
=============================================================================
