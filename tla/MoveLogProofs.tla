---------------------------- MODULE MoveLogProofs ----------------------------
(***************************************************************************)
(* Proofs about module MoveLog: what an undo leaves on the clients, for    *)
(* walks of any length and steps that log and flush as they like.          *)
(***************************************************************************)
EXTENDS MoveLog, SequenceTheorems, TLAPS

Messages == 0 .. MaxSteps

(* What the log shows of the time before step i, were it undone now.       *)
Kept(i) == Len(shown) - (flushed - checkpoints[i])

Types ==
  /\ buffer \in Seq(Messages) /\ shown \in Seq(Messages) /\ flushed \in Nat
  /\ checkpoints \in Seq(Nat) /\ shownAt \in Seq(Seq(Messages))
  /\ asked \in BOOLEAN /\ undone \in BOOLEAN
  /\ step \in 0 .. MaxSteps /\ Len(checkpoints) = step /\ Len(shownAt) = step

(* That is a beginning of what was shown when the step began.  It may be   *)
(* shorter, but not before a step was undone.                              *)
Begins(i) ==
  /\ checkpoints[i] <= flushed
  /\ Kept(i) <= Len(shownAt[i])
  /\ \A j \in 1 .. Kept(i) : shown[j] = shownAt[i][j]
  /\ ~undone => Kept(i) = Len(shownAt[i])

Inv ==
  /\ Types /\ (asked => buffer = <<>>)
  /\ \A i \in 1 .. step : Begins(i)

-----------------------------------------------------------------------------
LEMMA SameIn ==
  ASSUME NEW S, NEW m \in S, NEW n \in Nat
  PROVE  Same(m, n) \in Seq(S) /\ Len(Same(m, n)) = n
<1>1. Same(m, n) \in [1 .. n -> S]
  BY DEF Same
<1>. QED BY <1>1

LEMMA AllButIn ==
  ASSUME NEW S, NEW s \in Seq(S), NEW n \in Nat
  PROVE  /\ AllBut(s, n) \in Seq(S)
         /\ Len(AllBut(s, n)) = IF n > Len(s) THEN 0 ELSE Len(s) - n
         /\ \A i \in 1 .. Len(AllBut(s, n)) : AllBut(s, n)[i] = s[i]
<1> DEFINE k == IF n > Len(s) THEN 0 ELSE Len(s) - n
<1>1. k \in Nat /\ k <= Len(s)
  BY LenProperties
<1>2. \A i \in 1 .. k : s[i] \in S
  BY <1>1, ElementOfSeq
<1> HIDE DEF k
<1>3. /\ SubSeq(s, 1, k) \in Seq(S) /\ Len(SubSeq(s, 1, k)) = IF 1 <= k THEN k - 1 + 1 ELSE 0
      /\ \A i \in 1 .. k - 1 + 1 : SubSeq(s, 1, k)[i] = s[1 + i - 1]
  BY <1>1, <1>2, SubSeqProperties
<1>4. Len(SubSeq(s, 1, k)) = k /\ \A i \in 1 .. k : SubSeq(s, 1, k)[i] = s[i]
  BY <1>1, <1>3
<1>. QED BY <1>3, <1>4 DEF AllBut, k

(* What goes out lengthens what is shown and what is counted alike, so a   *)
(* flush changes nothing for the steps that may be undone.                 *)
LEMMA FlushKeeps ==
  ASSUME Inv, NEW sent \in Seq(Messages), Flushed(sent), UNCHANGED undone,
         NEW i \in 1 .. step, checkpoints'[i] = checkpoints[i], shownAt'[i] = shownAt[i]
  PROVE  Begins(i)'
<1>1. /\ Len(shown') = Len(shown) + Len(sent) /\ flushed' = flushed + Len(sent)
      /\ \A j \in 1 .. Len(shown) : shown'[j] = shown[j]
  BY ConcatProperties, LenProperties DEF Inv, Types, Flushed
<1>2. Len(shown) \in Nat /\ Len(sent) \in Nat /\ checkpoints[i] \in Nat /\ flushed \in Nat
  BY ElementOfSeq, LenProperties DEF Inv, Types
<1>3. Begins(i)
  BY DEF Inv
<1>4. Len(shown') - (flushed' - checkpoints'[i]) = Kept(i) /\ Kept(i) <= Len(shown)
  BY <1>1, <1>2, <1>3 DEF Kept, Begins
<1>. QED BY <1>1, <1>2, <1>3, <1>4 DEF Begins, Kept

LEMMA FlushTyped ==
  ASSUME Inv, NEW sent \in Seq(Messages), Flushed(sent)
  PROVE  buffer' \in Seq(Messages) /\ shown' \in Seq(Messages) /\ flushed' \in Nat /\ buffer' = <<>>
BY ConcatProperties, LenProperties, EmptySeq DEF Inv, Types, Flushed

-----------------------------------------------------------------------------
LEMMA EmptyLog ==
  /\ <<>> \in Seq(Messages) /\ <<>> \in Seq(Nat) /\ <<>> \in Seq(Seq(Messages))
  /\ Len(<<>>) = 0
<1>1. \A S : <<>> \in Seq(S) /\ Len(<<>>) = 0
  BY EmptySeq
<1>. QED BY <1>1

LEMMA NewWalkKeeps ==
  ASSUME Inv, NewWalk
  PROVE  Inv'
<1>1. buffer \o <<0>> \in Seq(Messages)
  BY BoundsAssumption, ConcatProperties DEF Inv, Types, Messages
<1>2. Flushed(buffer \o <<0>>)
  BY DEF NewWalk
<1>3. buffer' = <<>> /\ shown' \in Seq(Messages) /\ flushed' \in Nat
  BY <1>1, <1>2, FlushTyped
<1>4. /\ step' = 0 /\ asked' = FALSE /\ undone' = FALSE
      /\ checkpoints' = <<>> /\ shownAt' = <<>>
  BY DEF NewWalk
<1>5. Types'
  <2>1. 0 \in 0 .. MaxSteps
    BY BoundsAssumption
  <2>2. /\ checkpoints' \in Seq(Nat) /\ shownAt' \in Seq(Seq(Messages))
        /\ Len(checkpoints') = step' /\ Len(shownAt') = step' /\ buffer' \in Seq(Messages)
    BY <1>3, <1>4, EmptyLog
  <2>. QED BY <1>3, <1>4, <2>1, <2>2 DEF Types
<1>6. (\A i \in 1 .. step : Begins(i))'
  BY <1>4
<1>. QED BY <1>3, <1>5, <1>6 DEF Inv

LEMMA AskKeeps ==
  ASSUME Inv, Ask
  PROVE  Inv'
<1>1. buffer \in Seq(Messages) /\ Flushed(buffer)
  BY DEF Inv, Types, Ask
<1>2. \A i \in 1 .. step : Begins(i)'
  BY <1>1, FlushKeeps DEF Ask
<1>. QED BY <1>1, <1>2, FlushTyped DEF Inv, Types, Ask

LEMMA StepKeeps ==
  ASSUME Inv, Step
  PROVE  Inv'
<1>1. PICK n \in 1 .. MaxPerStep, told \in BOOLEAN :
        LET sent == buffer \o Same(step + 1, n) IN
        IF told THEN Flushed(sent) ELSE buffer' = sent /\ UNCHANGED <<flushed, shown>>
  BY DEF Step
<1> DEFINE sent == buffer \o Same(step + 1, n)
<1>2. step + 1 \in Messages /\ step \in Nat /\ buffer = <<>> /\ TotalCount = flushed
      /\ flushed \in Nat
  BY BoundsAssumption, EmptySeq DEF Inv, Types, Step, Messages, TotalCount
<1>3. n \in Nat
  BY BoundsAssumption
<1>4. sent \in Seq(Messages)
  BY <1>2, <1>3, SameIn, ConcatProperties DEF Inv, Types
<1> HIDE DEF sent
<1>5. /\ checkpoints' \in Seq(Nat) /\ shownAt' \in Seq(Seq(Messages))
      /\ Len(checkpoints') = step + 1 /\ Len(shownAt') = step + 1
      /\ checkpoints'[step + 1] = flushed /\ shownAt'[step + 1] = shown
      /\ \A i \in 1 .. step : checkpoints'[i] = checkpoints[i] /\ shownAt'[i] = shownAt[i]
  BY <1>2, AppendProperties DEF Inv, Types, Step
<1>6. step' = step + 1 /\ step' \in 0 .. MaxSteps /\ asked' = FALSE /\ undone' = undone
  BY <1>2 DEF Step, Messages
<1>7. Flushed(sent) \/ (buffer' = sent /\ UNCHANGED <<flushed, shown>>)
  BY <1>1 DEF sent
<1>8. Types'
  BY <1>4, <1>5, <1>6, <1>7, FlushTyped DEF Inv, Types
<1>9. ASSUME NEW i \in 1 .. step PROVE Begins(i)'
  <2>1. CASE Flushed(sent)
    BY <1>4, <1>5, <1>6, <2>1, FlushKeeps
  <2>2. CASE UNCHANGED <<flushed, shown>>
    BY <1>5, <1>6, <2>2 DEF Inv, Begins, Kept
  <2>. QED BY <1>7, <2>1, <2>2
<1>10. ASSUME NEW k, k = step + 1 PROVE Begins(k)'
  <2>1. Len(shown) \in Nat /\ Len(sent) \in Nat
    BY <1>4, LenProperties DEF Inv, Types
  <2>2. checkpoints'[k] = flushed /\ shownAt'[k] = shown
    BY <1>5, <1>10
  <2>3. /\ flushed <= flushed' /\ Len(shown') - (flushed' - flushed) = Len(shown)
        /\ \A j \in 1 .. Len(shown) : shown'[j] = shown[j]
    <3>1. CASE Flushed(sent)
      <4>1. /\ Len(shown') = Len(shown) + Len(sent) /\ flushed' = flushed + Len(sent)
            /\ \A j \in 1 .. Len(shown) : shown'[j] = shown[j]
        BY <1>4, <2>1, <3>1, ConcatProperties DEF Inv, Types, Flushed
      <4>. QED BY <1>2, <2>1, <4>1
    <3>2. CASE UNCHANGED <<flushed, shown>>
      BY <1>2, <2>1, <3>2
    <3>. QED BY <1>7, <3>1, <3>2
  <2>4. Kept(k)' = Len(shown)
    BY <2>2, <2>3 DEF Kept
  <2>. QED BY <2>1, <2>2, <2>3, <2>4 DEF Begins
<1>11. (\A i \in 1 .. step : Begins(i))'
  <2>1. ASSUME NEW i \in 1 .. step + 1 PROVE Begins(i)'
    <3>1. i \in 1 .. step \/ i = step + 1
      BY <1>2
    <3>. QED BY <1>9, <1>10, <3>1
  <2>. QED BY <1>6, <2>1
<1>. QED BY <1>6, <1>8, <1>11 DEF Inv

(* An undo takes the clients back to what is kept of the time before.      *)
LEMMA UndoTakesBack ==
  ASSUME Inv, Undo
  PROVE  /\ step \in Nat \ {0} /\ step' = step - 1
         /\ buffer' = <<>> /\ UNCHANGED flushed
         /\ shown' \in Seq(Messages)
         /\ Len(shown') = IF Kept(step) < 0 THEN 0 ELSE Kept(step)
         /\ Len(shown') <= Len(shown)
         /\ \A j \in 1 .. Len(shown') : shown'[j] = shown[j]
         /\ checkpoints' \in Seq(Nat) /\ Len(checkpoints') = step - 1
         /\ shownAt' \in Seq(Seq(Messages)) /\ Len(shownAt') = step - 1
         /\ \A i \in 1 .. step - 1 : checkpoints'[i] = checkpoints[i] /\ shownAt'[i] = shownAt[i]
<1> DEFINE retract == TotalCount - checkpoints[Len(checkpoints)]
           unflushed == IF Len(buffer) < retract THEN Len(buffer) ELSE retract
<1>1. step \in Nat \ {0} /\ step' = step - 1 /\ UNCHANGED flushed
  BY EmptySeq DEF Undo, Inv, Types
<1>2. buffer = <<>> /\ Len(buffer) = 0 /\ TotalCount = flushed /\ flushed \in Nat
  BY EmptySeq DEF Undo, Inv, Types, TotalCount
<1>3. checkpoints[step] \in Nat /\ checkpoints[step] <= flushed /\ Len(shown) \in Nat
  BY <1>1, ElementOfSeq, LenProperties DEF Inv, Types, Begins
<1>4. retract = flushed - checkpoints[step] /\ retract \in Nat /\ unflushed = 0
      /\ retract - unflushed = retract /\ Kept(step) = Len(shown) - retract
  BY <1>1, <1>2, <1>3 DEF Inv, Types, Kept
<1>5. /\ buffer' = AllBut(buffer, unflushed) /\ shown' = AllBut(shown, retract - unflushed)
      /\ checkpoints' = AllBut(checkpoints, 1) /\ shownAt' = AllBut(shownAt, 1)
  BY DEF Undo, RetractMoveLog
<1> HIDE DEF retract, unflushed
<1>6. buffer' = <<>>
  <2>1. AllBut(<<>>, 0) = <<>>
    BY SubSeqEmpty DEF AllBut
  <2>. QED BY <1>2, <1>4, <1>5, <2>1
<1>0. /\ shown \in Seq(Messages) /\ checkpoints \in Seq(Nat) /\ shownAt \in Seq(Seq(Messages))
      /\ Len(checkpoints) = step /\ Len(shownAt) = step
  BY DEF Inv, Types
<1>7. /\ shown' \in Seq(Messages)
      /\ Len(shown') = IF retract > Len(shown) THEN 0 ELSE Len(shown) - retract
      /\ \A j \in 1 .. Len(shown') : shown'[j] = shown[j]
  <2>1. shown' = AllBut(shown, retract)
    BY <1>4, <1>5
  <2>2. shown \in Seq(Messages) /\ retract \in Nat
    BY <1>0, <1>4
  <2>3. /\ AllBut(shown, retract) \in Seq(Messages)
        /\ Len(AllBut(shown, retract)) = IF retract > Len(shown) THEN 0 ELSE Len(shown) - retract
        /\ \A j \in 1 .. Len(AllBut(shown, retract)) : AllBut(shown, retract)[j] = shown[j]
    BY <2>2, AllButIn, ZenonT(60)
  <2>. QED BY <2>1, <2>3
<1>8. /\ checkpoints' \in Seq(Nat) /\ Len(checkpoints') = step - 1
      /\ \A i \in 1 .. step - 1 : checkpoints'[i] = checkpoints[i]
  <2>1. checkpoints \in Seq(Nat) /\ 1 \in Nat
    BY <1>0
  <2>2. /\ AllBut(checkpoints, 1) \in Seq(Nat)
        /\ Len(AllBut(checkpoints, 1)) = IF 1 > Len(checkpoints) THEN 0 ELSE Len(checkpoints) - 1
        /\ \A i \in 1 .. Len(AllBut(checkpoints, 1)) : AllBut(checkpoints, 1)[i] = checkpoints[i]
    BY <2>1, AllButIn, ZenonT(60)
  <2>3. checkpoints' = AllBut(checkpoints, 1) /\ Len(checkpoints) = step
    BY <1>0, <1>5
  <2>. QED BY <1>1, <2>2, <2>3
<1>9. /\ shownAt' \in Seq(Seq(Messages)) /\ Len(shownAt') = step - 1
      /\ \A i \in 1 .. step - 1 : shownAt'[i] = shownAt[i]
  <2>1. shownAt \in Seq(Seq(Messages)) /\ 1 \in Nat
    BY <1>0
  <2>2. /\ AllBut(shownAt, 1) \in Seq(Seq(Messages))
        /\ Len(AllBut(shownAt, 1)) = IF 1 > Len(shownAt) THEN 0 ELSE Len(shownAt) - 1
        /\ \A i \in 1 .. Len(AllBut(shownAt, 1)) : AllBut(shownAt, 1)[i] = shownAt[i]
    BY <2>1, AllButIn, ZenonT(60)
  <2>3. shownAt' = AllBut(shownAt, 1) /\ Len(shownAt) = step
    BY <1>0, <1>5
  <2>. QED BY <1>1, <2>2, <2>3
<1>. QED BY <1>1, <1>3, <1>4, <1>6, <1>7, <1>8, <1>9

LEMMA UndoKeeps ==
  ASSUME Inv, Undo
  PROVE  Inv'
<1>0. step' \in 0 .. MaxSteps /\ asked' = FALSE /\ undone' = TRUE /\ flushed' \in Nat
  <2>1. step \in 0 .. MaxSteps /\ flushed \in Nat
    BY DEF Inv, Types
  <2>2. step \in Nat \ {0} /\ step' = step - 1 /\ UNCHANGED flushed
    BY UndoTakesBack
  <2>3. asked' = FALSE /\ undone' = TRUE
    BY DEF Undo
  <2>. QED BY <2>1, <2>2, <2>3, BoundsAssumption
<1>1. Types'
  BY <1>0, UndoTakesBack, EmptySeq DEF Types
<1>2. ASSUME NEW i \in 1 .. step - 1 PROVE Begins(i)'
  <2> DEFINE c == checkpoints[i]
             then == shownAt[i]
  <2>1. i \in 1 .. Len(checkpoints) /\ i \in 1 .. Len(shownAt) /\ Begins(i) /\ flushed \in Nat
    BY UndoTakesBack DEF Inv, Types
  <2>2. c \in Nat /\ Len(then) \in Nat /\ Len(shown) \in Nat /\ Len(shown') \in Nat
    <3>1. then \in Seq(Messages) /\ c \in Nat
      BY <2>1, ElementOfSeq DEF Inv, Types
    <3>. QED BY <3>1, UndoTakesBack, LenProperties DEF Inv, Types
  <2>3. checkpoints'[i] = c /\ shownAt'[i] = then /\ UNCHANGED flushed
        /\ Len(shown') <= Len(shown) /\ \A j \in 1 .. Len(shown') : shown'[j] = shown[j]
    BY UndoTakesBack
  <2>4. /\ c <= flushed /\ Len(shown) - (flushed - c) <= Len(then)
        /\ \A j \in 1 .. Len(shown) - (flushed - c) : shown[j] = then[j]
    BY <2>1 DEF Begins, Kept
  <2> HIDE DEF c, then
  <2>5. /\ Len(shown') - (flushed - c) <= Len(then)
        /\ \A j \in 1 .. Len(shown') - (flushed - c) : shown'[j] = then[j]
    <3>1. Len(shown') - (flushed - c) <= Len(shown) - (flushed - c)
          /\ Len(shown') - (flushed - c) <= Len(shown')
          /\ Len(shown') - (flushed - c) \in Int /\ Len(shown) - (flushed - c) \in Int
      BY <2>1, <2>2, <2>3, <2>4
    <3>. QED BY <2>2, <2>3, <2>4, <3>1
  <2>. QED BY <1>0, <2>3, <2>4, <2>5 DEF Begins, Kept
<1>3. (\A i \in 1 .. step : Begins(i))'
  BY <1>2, UndoTakesBack
<1>. QED BY <1>0, <1>1, <1>3 DEF Inv

LEMMA InitInv == Init => Inv
<1>. SUFFICES ASSUME Init PROVE Inv  OBVIOUS
<1>1. Types
  <2>1. 0 \in 0 .. MaxSteps
    BY BoundsAssumption
  <2>2. /\ checkpoints \in Seq(Nat) /\ shownAt \in Seq(Seq(Messages))
        /\ Len(checkpoints) = step /\ Len(shownAt) = step
        /\ buffer \in Seq(Messages) /\ shown \in Seq(Messages)
    BY EmptyLog DEF Init
  <2>. QED BY <2>1, <2>2 DEF Init, Types
<1>2. \A i \in 1 .. step : FALSE
  BY DEF Init
<1>. QED BY <1>1, <1>2 DEF Init, Inv

LEMMA NextInv == Inv /\ [Next]_vars => Inv'
<1>. SUFFICES ASSUME Inv, [Next]_vars PROVE Inv'  OBVIOUS
<1>1. CASE UNCHANGED vars
  BY <1>1 DEF Inv, Types, Begins, Kept, vars
<1>. QED BY <1>1, NewWalkKeeps, AskKeeps, StepKeeps, UndoKeeps DEF Next

LEMMA OnlyUndo ==
  ASSUME Inv, Next, IsUndo
  PROVE  Undo
<1>1. Len(checkpoints) \in Nat
  BY LenProperties DEF Inv, Types
<1>2. ~NewWalk
  BY DEF NewWalk, IsUndo
<1>3. ~Ask
  <2>1. ASSUME Ask PROVE checkpoints' = checkpoints
    BY <2>1 DEF Ask
  <2>. QED BY <1>1, <2>1 DEF IsUndo
<1>4. ~Step
  <2>1. Len(Append(checkpoints, TotalCount)) = Len(checkpoints) + 1
    <3>1. TotalCount \in Nat /\ checkpoints \in Seq(Nat)
      BY LenProperties DEF Inv, Types, TotalCount
    <3>. QED BY <3>1, AppendProperties
  <2>2. ASSUME Step PROVE checkpoints' = Append(checkpoints, TotalCount)
    BY <2>2 DEF Step
  <2>. QED BY <1>1, <2>1, <2>2 DEF IsUndo
<1>. QED BY <1>2, <1>3, <1>4 DEF Next

-----------------------------------------------------------------------------
(* Every state of the log has the types of its fields: a client shows      *)
(* messages of steps of this walk only.                                    *)
THEOREM TypeCorrect == Spec => []TypeOK
<1>1. Inv => TypeOK
  BY ElementOfSeq, LenProperties DEF Inv, Types, TypeOK, Messages
<1>. QED BY <1>1, InitInv, NextInv, PTL DEF Spec

(* The first undo of a walk is exact, for steps that log any number of     *)
(* messages and flush them or not.                                         *)
THEOREM UndoExact == Spec => FirstUndoExact
<1>1. Inv /\ [Next]_vars => [IsUndo /\ ~undone => shown' \o buffer' = shownAt[Len(shownAt)]]_vars
  <2> SUFFICES ASSUME Inv, Next, IsUndo, ~undone PROVE shown' \o buffer' = shownAt[Len(shownAt)]
    OBVIOUS
  <2>1. Undo
    BY OnlyUndo
  <2>2. step \in 1 .. step /\ Len(shownAt) = step /\ Begins(step)
    BY <2>1, UndoTakesBack DEF Inv, Types
  <2>3. shownAt[step] \in Seq(Messages) /\ Len(shownAt[step]) \in Nat
    BY <2>2, ElementOfSeq, LenProperties DEF Inv, Types
  <2>4. shown' \in Seq(Messages) /\ Len(shown') = Len(shownAt[step])
        /\ \A j \in 1 .. Len(shown') : shown'[j] = shownAt[step][j]
    BY <2>1, <2>2, <2>3, UndoTakesBack DEF Begins
  <2>5. shown' = shownAt[step]
    BY <2>3, <2>4, SeqEqual
  <2>. QED BY <2>1, <2>2, <2>4, <2>5, UndoTakesBack, ConcatEmptySeq
<1>. QED BY <1>1, InitInv, NextInv, PTL DEF Spec, FirstUndoExact

(* No message of an undone step stays, however many steps are undone.      *)
THEOREM NoneStays == Spec => NothingUndoneStays
<1>1. Inv /\ [Next]_vars =>
        [IsUndo => /\ Len(shown') <= Len(shownAt[Len(shownAt)])
                   /\ shown' = SubSeq(shownAt[Len(shownAt)], 1, Len(shown'))]_vars
  <2> SUFFICES ASSUME Inv, Next, IsUndo
               PROVE  /\ Len(shown') <= Len(shownAt[Len(shownAt)])
                      /\ shown' = SubSeq(shownAt[Len(shownAt)], 1, Len(shown'))
    OBVIOUS
  <2> DEFINE then == shownAt[step]
             k == Len(shown')
  <2>1. Undo
    BY OnlyUndo
  <2>2. step \in 1 .. step /\ Len(shownAt) = step /\ Begins(step)
    BY <2>1, UndoTakesBack DEF Inv, Types
  <2>3. then \in Seq(Messages) /\ Len(then) \in Nat
    BY <2>2, ElementOfSeq, LenProperties DEF Inv, Types
  <2>4. shown' \in Seq(Messages) /\ k \in Nat /\ k <= Len(then)
        /\ \A j \in 1 .. k : shown'[j] = then[j]
    BY <2>1, <2>2, <2>3, UndoTakesBack, LenProperties DEF Begins
  <2> HIDE DEF then, k
  <2>5. \A j \in 1 .. k : then[j] \in Messages
    BY <2>3, <2>4, ElementOfSeq
  <2>6. /\ SubSeq(then, 1, k) \in Seq(Messages)
        /\ Len(SubSeq(then, 1, k)) = IF 1 <= k THEN k - 1 + 1 ELSE 0
        /\ \A j \in 1 .. k - 1 + 1 : SubSeq(then, 1, k)[j] = then[1 + j - 1]
    BY <2>4, <2>5, SubSeqProperties
  <2>7. Len(SubSeq(then, 1, k)) = k /\ \A j \in 1 .. k : SubSeq(then, 1, k)[j] = then[j]
    BY <2>4, <2>6
  <2>8. shown' = SubSeq(then, 1, k)
    BY <2>4, <2>6, <2>7, SeqEqual DEF k
  <2>. QED BY <2>2, <2>4, <2>8 DEF then, k
<1>. QED BY <1>1, InitInv, NextInv, PTL DEF Spec, NothingUndoneStays
=============================================================================
