------------------------------ MODULE TurnProofs ------------------------------
(* Proofs about Turn, for every bound of the queue.                          *)
EXTENDS Turn, SequenceTheorems, TLAPS

\* What waits to be read was said by Casa, and is the last it said.
FramesAreCasas ==
  \A i \in 1 .. Len(inbox) :
    /\ inbox[i] = "done" /\ transport = "ws" => casa = "done"
    /\ inbox[i] = "error" => casa = "failed"
    /\ inbox[i] = "handoff" => casa = "handingOff" /\ transport = "ws"
    /\ inbox[i] = "closed" => socket = "lost"

\* Where the turn is, and where Casa.
StagesAgree ==
  /\ pc \in {"idle", "connecting", "sending"} => casa = "idle" /\ result = "none"
  /\ pc = "confirming" => casa = "handingOff" /\ transport = "ws"
  /\ pc \in {"reading", "feeding", "confirming"} => result = "none"
  /\ pc \in {"idle", "connecting", "cancelling", "closing", "over"} => inbox = <<>>

\* What the result says of Casa.
ResultsAreTrue ==
  /\ result \in {"content", "silent", "error", "handoff"} => pc = "over"
  /\ transport = "ws" /\ result \in {"content", "silent"} => casa = "done"
  /\ result = "error" => casa = "failed"
  /\ result = "handoff" => casa = "confirmed"
  /\ casa = "confirmed" => pc = "over" /\ result \in {"handoff", "timeout", "cancelled"}

TurnInv ==
  /\ TurnTypeOK
  /\ FramesAreCasas
  /\ StagesAgree
  /\ ResultsAreTrue
  /\ AbandonedIsCancelled

Inboxes == Seq(Frames \cup {"closed"})

\* What becomes of a queue.
LEMMA InboxSteps ==
  /\ <<>> \in Inboxes
  /\ \A q \in Inboxes : q # <<>> =>
       /\ Tail(q) \in Inboxes
       /\ Len(Tail(q)) = Len(q) - 1
       /\ \A i \in 1 .. Len(q) - 1 : Tail(q)[i] = q[i + 1]
       /\ Head(q) = q[1] /\ Len(q) \in Nat \ {0}
<1>1. <<>> \in Inboxes
  BY EmptySeq DEF Inboxes
<1>2. ASSUME NEW q \in Inboxes, q # <<>>
      PROVE  /\ Tail(q) \in Inboxes
             /\ Len(Tail(q)) = Len(q) - 1
             /\ \A i \in 1 .. Len(q) - 1 : Tail(q)[i] = q[i + 1]
             /\ Head(q) = q[1] /\ Len(q) \in Nat \ {0}
  BY <1>2, HeadTailProperties, EmptySeq DEF Inboxes
<1>3. QED
  BY <1>1, <1>2

\* Every step keeps the types.
LEMMA TurnTypesStep ==
  ASSUME TurnTypeOK, [TurnNext]_turnVars
  PROVE  TurnTypeOK'
<1> USE DEF TurnTypeOK
<1>1. CASE Begin
  <2>1. inbox' \in Inboxes
    BY <1>1, InboxSteps DEF Begin, End, Inboxes
  <2>2. QED
    BY <1>1, <2>1 DEF Begin, End, Inboxes
<1>2. CASE Connected
  BY <1>2 DEF Connected
<1>3. CASE ConnectFails
  <2>1. inbox' \in Inboxes
    BY <1>3, InboxSteps DEF ConnectFails, End, Inboxes
  <2>2. QED
    BY <1>3, <2>1 DEF ConnectFails, End, Inboxes
<1>4. CASE Sent
  BY <1>4 DEF Sent
<1>5. CASE SendFails
  <2>1. inbox' \in Inboxes
    BY <1>5, InboxSteps DEF SendFails, Abandon, End, SendsCancel, Inboxes
  <2>2. QED
    BY <1>5, <2>1 DEF SendFails, Abandon, End, SendsCancel, Inboxes
<1>6. CASE Read
  <2>1. inbox' \in Inboxes
    BY <1>6, InboxSteps DEF Read, Rest, End, Broken, Inboxes
  <2>2. QED
    BY <1>6, <2>1 DEF Read, Rest, End, Broken, Inboxes
<1>7. CASE Fed
  <2>1. inbox' \in Inboxes
    BY <1>7, InboxSteps DEF Fed, Abandon, SendsCancel, Inboxes
  <2>2. QED
    BY <1>7, <2>1 DEF Fed, Abandon, SendsCancel, Inboxes
<1>8. CASE Confirmed
  BY <1>8 DEF Confirmed, Receipt, End
<1>9. CASE CancelSent
  BY <1>9 DEF CancelSent
<1>10. CASE TimesOut
  <2>1. inbox' \in Inboxes
    BY <1>10, InboxSteps DEF TimesOut, CutOff, End, Abandon, SendsCancel, Inboxes
  <2>2. QED
    BY <1>10, <2>1 DEF TimesOut, CutOff, End, Abandon, SendsCancel, Inboxes
<1>11. CASE BargeIn
  <2>1. inbox' \in Inboxes
    BY <1>11, InboxSteps DEF BargeIn, CutOff, End, Abandon, SendsCancel, Inboxes
  <2>2. QED
    BY <1>11, <2>1 DEF BargeIn, CutOff, End, Abandon, SendsCancel, Inboxes
<1>12. ASSUME NEW frame \in Frames, CasaSends(frame) PROVE TurnTypeOK'
  BY <1>12 DEF CasaSends, Delivered, Frames
<1>13. CASE ConnectionLost
  BY <1>13 DEF ConnectionLost, Delivered, Frames
<1>14. CASE UNCHANGED turnVars
  BY <1>14 DEF turnVars
<1>15. QED
  BY <1>1, <1>2, <1>3, <1>4, <1>5, <1>6, <1>7, <1>8, <1>9, <1>10, <1>11, <1>12, <1>13, <1>14
  DEF TurnNext, TurnStep

\* Every step keeps the queue truthful.
LEMMA FramesStep ==
  ASSUME TurnTypeOK, FramesAreCasas, StagesAgree, [TurnNext]_turnVars
  PROVE  FramesAreCasas'
<1> USE DEF TurnTypeOK, FramesAreCasas, StagesAgree
<1>1. CASE Begin
  BY <1>1 DEF Begin, End
<1>2. CASE Connected
  BY <1>2 DEF Connected
<1>3. CASE ConnectFails
  BY <1>3 DEF ConnectFails, End
<1>4. CASE Sent
  BY <1>4 DEF Sent
<1>5. CASE SendFails
  BY <1>5 DEF SendFails, Abandon, End, SendsCancel
<1>6. CASE Read
  <2> DEFINE True(f) ==
        /\ f = "done" /\ transport = "ws" => casa = "done"
        /\ f = "error" => casa = "failed"
        /\ f = "handoff" => casa = "handingOff" /\ transport = "ws"
        /\ f = "closed" => socket = "lost"
  <2>1. inbox \in Inboxes
    BY DEF Inboxes
  <2>2. inbox' = Tail(inbox) \/ inbox' = <<>>
    BY <1>6 DEF Read, Rest, End
  <2>3. \A i \in 1 .. Len(inbox') : True(inbox'[i])
    <3>1. CASE inbox' = <<>>
      BY <3>1
    <3>2. CASE inbox' = Tail(inbox) /\ inbox # <<>>
      <4>1. /\ Len(Tail(inbox)) = Len(inbox) - 1
            /\ \A i \in 1 .. Len(inbox) - 1 : Tail(inbox)[i] = inbox[i + 1]
            /\ Len(inbox) \in Nat \ {0}
        BY <2>1, <3>2, InboxSteps
      <4>2. \A i \in 1 .. Len(inbox) : True(inbox[i])
        OBVIOUS
      <4> HIDE DEF True
      <4>3. QED
        BY <3>2, <4>1, <4>2
    <3>3. QED
      BY <1>6, <2>2, <3>1, <3>2 DEF Read
  <2>4. QED
    BY <1>6, <2>3 DEF Read
<1>7. CASE Fed
  BY <1>7 DEF Fed, Abandon, SendsCancel
<1>8. CASE Confirmed
  BY <1>8 DEF Confirmed, Receipt, End
<1>9. CASE CancelSent
  BY <1>9 DEF CancelSent
<1>10. CASE TimesOut
  BY <1>10 DEF TimesOut, CutOff, End, Abandon, SendsCancel
<1>11. CASE BargeIn
  BY <1>11 DEF BargeIn, CutOff, End, Abandon, SendsCancel
<1>12. ASSUME NEW frame \in Frames, CasaSends(frame) PROVE FramesAreCasas'
  BY <1>12 DEF CasaSends, Delivered, Frames
<1>13. CASE ConnectionLost
  BY <1>13 DEF ConnectionLost, Delivered, Frames
<1>14. CASE UNCHANGED turnVars
  BY <1>14 DEF turnVars
<1>15. QED
  BY <1>1, <1>2, <1>3, <1>4, <1>5, <1>6, <1>7, <1>8, <1>9, <1>10, <1>11, <1>12, <1>13, <1>14
  DEF TurnNext, TurnStep

\* Every step keeps the turn and Casa together.
LEMMA StagesStep ==
  ASSUME TurnTypeOK, FramesAreCasas, StagesAgree, ResultsAreTrue, [TurnNext]_turnVars
  PROVE  StagesAgree'
<1> USE DEF TurnTypeOK, FramesAreCasas, StagesAgree, ResultsAreTrue
<1>1. CASE Begin
  BY <1>1 DEF Begin, End
<1>2. CASE Connected
  BY <1>2 DEF Connected
<1>3. CASE ConnectFails
  BY <1>3 DEF ConnectFails, End
<1>4. CASE Sent
  BY <1>4 DEF Sent
<1>5. CASE SendFails
  BY <1>5 DEF SendFails, Abandon, End, SendsCancel
<1>6. CASE Read
  BY <1>6 DEF Read, Rest, End, Broken
<1>7. CASE Fed
  BY <1>7 DEF Fed, Abandon, SendsCancel
<1>8. CASE Confirmed
  BY <1>8 DEF Confirmed, Receipt, End
<1>9. CASE CancelSent
  BY <1>9 DEF CancelSent
<1>10. CASE TimesOut
  BY <1>10 DEF TimesOut, CutOff, End, Abandon, SendsCancel
<1>11. CASE BargeIn
  BY <1>11 DEF BargeIn, CutOff, End, Abandon, SendsCancel
<1>12. ASSUME NEW frame \in Frames, CasaSends(frame) PROVE StagesAgree'
  BY <1>12 DEF CasaSends, Delivered, Frames
<1>13. CASE ConnectionLost
  BY <1>13 DEF ConnectionLost, Delivered, Frames
<1>14. CASE UNCHANGED turnVars
  BY <1>14 DEF turnVars
<1>15. QED
  BY <1>1, <1>2, <1>3, <1>4, <1>5, <1>6, <1>7, <1>8, <1>9, <1>10, <1>11, <1>12, <1>13, <1>14
  DEF TurnNext, TurnStep

\* Every step keeps the result truthful.
LEMMA ResultsStep ==
  ASSUME TurnTypeOK, FramesAreCasas, StagesAgree, ResultsAreTrue, [TurnNext]_turnVars
  PROVE  ResultsAreTrue'
<1> USE DEF TurnTypeOK, FramesAreCasas, StagesAgree, ResultsAreTrue
<1>1. CASE Begin
  BY <1>1 DEF Begin, End
<1>2. CASE Connected
  BY <1>2 DEF Connected
<1>3. CASE ConnectFails
  BY <1>3 DEF ConnectFails, End
<1>4. CASE Sent
  BY <1>4 DEF Sent
<1>5. CASE SendFails
  BY <1>5 DEF SendFails, Abandon, End, SendsCancel
<1>6. CASE Read
  BY <1>6 DEF Read, Rest, End, Broken
<1>7. CASE Fed
  BY <1>7 DEF Fed, Abandon, SendsCancel
<1>8. CASE Confirmed
  BY <1>8 DEF Confirmed, Receipt, End
<1>9. CASE CancelSent
  BY <1>9 DEF CancelSent
<1>10. CASE TimesOut
  BY <1>10 DEF TimesOut, CutOff, End, Abandon, SendsCancel
<1>11. CASE BargeIn
  BY <1>11 DEF BargeIn, CutOff, End, Abandon, SendsCancel
<1>12. ASSUME NEW frame \in Frames, CasaSends(frame) PROVE ResultsAreTrue'
  BY <1>12 DEF CasaSends, Delivered, Frames
<1>13. CASE ConnectionLost
  BY <1>13 DEF ConnectionLost, Delivered, Frames
<1>14. CASE UNCHANGED turnVars
  BY <1>14 DEF turnVars
<1>15. QED
  BY <1>1, <1>2, <1>3, <1>4, <1>5, <1>6, <1>7, <1>8, <1>9, <1>10, <1>11, <1>12, <1>13, <1>14
  DEF TurnNext, TurnStep

\* Every step keeps what is abandoned cancelled.
LEMMA AbandonStep ==
  ASSUME TurnTypeOK, FramesAreCasas, StagesAgree, ResultsAreTrue, AbandonedIsCancelled, [TurnNext]_turnVars
  PROVE  AbandonedIsCancelled'
<1> USE DEF TurnTypeOK, FramesAreCasas, StagesAgree, ResultsAreTrue, AbandonedIsCancelled
<1>1. CASE Begin
  BY <1>1 DEF Begin, End
<1>2. CASE Connected
  BY <1>2 DEF Connected
<1>3. CASE ConnectFails
  BY <1>3 DEF ConnectFails, End
<1>4. CASE Sent
  BY <1>4 DEF Sent
<1>5. CASE SendFails
  BY <1>5 DEF SendFails, Abandon, End, SendsCancel
<1>6. CASE Read
  BY <1>6 DEF Read, Rest, End, Broken
<1>7. CASE Fed
  BY <1>7 DEF Fed, Abandon, SendsCancel
<1>8. CASE Confirmed
  BY <1>8 DEF Confirmed, Receipt, End
<1>9. CASE CancelSent
  BY <1>9 DEF CancelSent
<1>10. CASE TimesOut
  BY <1>10 DEF TimesOut, CutOff, End, Abandon, SendsCancel
<1>11. CASE BargeIn
  BY <1>11 DEF BargeIn, CutOff, End, Abandon, SendsCancel
<1>12. ASSUME NEW frame \in Frames, CasaSends(frame) PROVE AbandonedIsCancelled'
  BY <1>12 DEF CasaSends, Delivered, Frames
<1>13. CASE ConnectionLost
  BY <1>13 DEF ConnectionLost, Delivered, Frames
<1>14. CASE UNCHANGED turnVars
  BY <1>14 DEF turnVars
<1>15. QED
  BY <1>1, <1>2, <1>3, <1>4, <1>5, <1>6, <1>7, <1>8, <1>9, <1>10, <1>11, <1>12, <1>13, <1>14
  DEF TurnNext, TurnStep

\* The inductive invariant.
THEOREM TurnInvariant == TurnSpec => []TurnInv
<1>1. TurnInit => TurnInv
  <2> SUFFICES ASSUME TurnInit PROVE TurnInv
    OBVIOUS
  <2>1. TurnTypeOK
    BY InboxSteps DEF Inboxes, TurnInit, TurnTypeOK
  <2>2. FramesAreCasas
    BY DEF TurnInit, FramesAreCasas
  <2>3. StagesAgree /\ ResultsAreTrue /\ AbandonedIsCancelled
    BY DEF TurnInit, StagesAgree, ResultsAreTrue, AbandonedIsCancelled
  <2>4. QED
    BY <2>1, <2>2, <2>3 DEF TurnInv
<1>2. TurnInv /\ [TurnNext]_turnVars => TurnInv'
  BY TurnTypesStep, FramesStep, StagesStep, ResultsStep, AbandonStep DEF TurnInv
<1>3. QED
  BY <1>1, <1>2, PTL DEF TurnSpec

\* Casa hears of every turn that was abandoned, unless that was cut off.
THEOREM AbandonmentReachesCasa == TurnSpec => []AbandonedIsCancelled
<1>1. TurnInv => AbandonedIsCancelled
  BY DEF TurnInv
<1>2. QED
  BY <1>1, TurnInvariant, PTL

\* Casa and the turn agree on who has the handoff.
THEOREM HandoffsStayAgreed == TurnSpec => []HandoffsAgree
<1>1. TurnInv => HandoffsAgree
  BY DEF TurnInv, ResultsAreTrue, HandoffsAgree
<1>2. QED
  BY <1>1, TurnInvariant, PTL

\* No broken answer passes for a whole one.
THEOREM AnswersAreWhole == TurnSpec => []OnlyWholeAnswers
<1>1. TurnInv => OnlyWholeAnswers
  BY DEF TurnInv, ResultsAreTrue, OnlyWholeAnswers
<1>2. QED
  BY <1>1, TurnInvariant, PTL

=============================================================================
