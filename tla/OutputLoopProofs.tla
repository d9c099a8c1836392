-------------------------- MODULE OutputLoopProofs --------------------------
(***************************************************************************)
(* Proofs about the output loop, for every set of events and every         *)
(* capacity of the two channels: nothing is lost, doubled or reordered     *)
(* between a channel and stdout, and a channel is given up only when all   *)
(* that was sent on it is printed.                                         *)
(***************************************************************************)
EXTENDS MCOutputLoop, QueueLemmas

\* The variables have their types.
TypeInv ==
    /\ OutTypeOK
    /\ sentEvents \in Seq(Events) /\ sentAlerts \in Seq(Events)

\* What was sent on a channel is what was printed and then what waits; the loop
\* has set its own copy of the channel to nil only at the end of the channel.
Accounted(ch, printed, sent, isNil) ==
    /\ sent = printed \o ch.buf
    /\ isNil => AtEnd(ch)

OutputInv ==
    /\ TypeInv
    /\ Accounted(outputCh, printedEvents, sentEvents, eventNil)
    /\ Accounted(alertsCh, printedAlerts, sentAlerts, alertNil)

\* A value is sent.
LEMMA AccountedSent ==
    ASSUME NEW S, NEW ch \in Chan(S), NEW x \in S, NEW cap \in Nat, CanSend(ch, cap),
           NEW printed \in Seq(S), NEW sent, NEW isNil,
           Accounted(ch, printed, sent, isNil)
    PROVE  Accounted(Sent(ch, x), printed, Append(sent, x), isNil)
<1>1. /\ ch.buf \in Seq(S)
      /\ Sent(ch, x).buf = Append(ch.buf, x)
      /\ ch.open
  BY SentFacts DEF Chan, CanSend
<1>2. Append(sent, x) = printed \o Sent(ch, x).buf
  <2>1. sent = printed \o ch.buf
    BY DEF Accounted
  <2>2. printed \o Append(ch.buf, x) = Append(printed \o ch.buf, x)
    BY <1>1, JoinOne
  <2> QED
    BY <1>1, <2>1, <2>2
<1>3. ~isNil
  BY <1>1 DEF Accounted, AtEnd
<1> QED
  BY <1>2, <1>3 DEF Accounted

\* A value is received and printed.
LEMMA AccountedReceived ==
    ASSUME NEW S, NEW ch \in Chan(S), NEW cap \in Nat, Len(ch.buf) <= cap, CanReceive(ch),
           NEW printed \in Seq(S), NEW sent, NEW isNil, ~isNil,
           Accounted(ch, printed, sent, isNil)
    PROVE  Accounted(Received(ch), Append(printed, Head(ch.buf)), sent, isNil)
<1>1. ch.buf \in Seq(S) /\ ch.buf # <<>> /\ Received(ch).buf = Tail(ch.buf)
  BY ReceivedFacts
<1>2. Append(printed, Head(ch.buf)) \o Tail(ch.buf) = printed \o ch.buf
  BY <1>1, TakeOne
<1> QED
  BY <1>1, <1>2 DEF Accounted

\* A channel is closed.
LEMMA AccountedClosed ==
    ASSUME NEW S, NEW ch \in Chan(S), NEW printed, NEW sent, NEW isNil,
           Accounted(ch, printed, sent, isNil)
    PROVE  Accounted(Closed(ch), printed, sent, isNil)
<1>1. Closed(ch).buf = ch.buf /\ Closed(ch).open = FALSE
  BY ClosedFacts
<1> QED
  BY <1>1 DEF Accounted, AtEnd

\* Nothing is sent, buffered or printed when the loop starts.
LEMMA OutputInit == Init => OutputInv
<1> SUFFICES ASSUME Init PROVE OutputInv
  OBVIOUS
<1> USE CapAssumption DEF Init, OutInit
<1>1. /\ NewChan \in Chan(Events) /\ NewChan.buf = <<>>
      /\ Len(NewChan.buf) <= Cap /\ Len(NewChan.buf) <= AlertCap
  BY NewChanFacts
<1>2. <<>> \in Seq(Events) /\ <<>> = <<>> \o <<>>
  OBVIOUS
<1>3. {eventNil, alertNil, returned} \subseteq BOOLEAN
  OBVIOUS
<1>4. TypeInv
  BY <1>1, <1>2, <1>3 DEF TypeInv, OutTypeOK
<1> QED
  BY <1>1, <1>2, <1>4 DEF OutputInv, Accounted

\* Every select branch, the exit check and both producers keep the account.
LEMMA OutputStepKeeps == OutputInv /\ [Next]_vars => OutputInv'
<1> SUFFICES ASSUME OutputInv, [Next]_vars PROVE OutputInv'
  OBVIOUS
<1> USE CapAssumption
<1>1. /\ outputCh \in Chan(Events) /\ Len(outputCh.buf) <= Cap
      /\ alertsCh \in Chan(Events) /\ Len(alertsCh.buf) <= AlertCap
      /\ eventNil \in BOOLEAN /\ alertNil \in BOOLEAN /\ returned \in BOOLEAN
      /\ printedEvents \in Seq(Events) /\ printedAlerts \in Seq(Events)
      /\ sentEvents \in Seq(Events) /\ sentAlerts \in Seq(Events)
      /\ Cap \in Nat /\ AlertCap \in Nat
  BY DEF OutputInv, TypeInv, OutTypeOK
<1>2. /\ Accounted(outputCh, printedEvents, sentEvents, eventNil)
      /\ Accounted(alertsCh, printedAlerts, sentAlerts, alertNil)
  BY DEF OutputInv
<1>3. ASSUME NEW e \in Events, SendToOutput(e) PROVE OutputInv'
  <2>1. CanSend(outputCh, Cap) /\ outputCh' = Sent(outputCh, e) /\ sentEvents' = Append(sentEvents, e)
    BY <1>3 DEF SendToOutput
  <2>2. UNCHANGED <<alertsCh, eventNil, alertNil, printedEvents, printedAlerts, returned, sentAlerts>>
    BY <1>3 DEF SendToOutput, loopVars
  <2>3. outputCh' \in Chan(Events) /\ Len(outputCh'.buf) <= Cap /\ sentEvents' \in Seq(Events)
    BY <1>1, <2>1, SentFacts, AppendFacts
  <2>4. Accounted(outputCh', printedEvents, sentEvents', eventNil)
    BY <1>1, <1>2, <2>1, AccountedSent
  <2> QED
    BY <1>1, <1>2, <2>2, <2>3, <2>4 DEF OutputInv, TypeInv, OutTypeOK
<1>4. ASSUME NEW e \in Events, SendToAlerts(e) PROVE OutputInv'
  <2>1. CanSend(alertsCh, AlertCap) /\ alertsCh' = Sent(alertsCh, e) /\ sentAlerts' = Append(sentAlerts, e)
    BY <1>4 DEF SendToAlerts
  <2>2. UNCHANGED <<outputCh, eventNil, alertNil, printedEvents, printedAlerts, returned, sentEvents>>
    BY <1>4 DEF SendToAlerts, loopVars
  <2>3. alertsCh' \in Chan(Events) /\ Len(alertsCh'.buf) <= AlertCap /\ sentAlerts' \in Seq(Events)
    BY <1>1, <2>1, SentFacts, AppendFacts
  <2>4. Accounted(alertsCh', printedAlerts, sentAlerts', alertNil)
    BY <1>1, <1>2, <2>1, AccountedSent
  <2> QED
    BY <1>1, <1>2, <2>2, <2>3, <2>4 DEF OutputInv, TypeInv, OutTypeOK
<1>5. CASE CloseOutput
  <2>1. outputCh' \in Chan(Events) /\ Len(outputCh'.buf) <= Cap
    BY <1>1, <1>5, ClosedFacts DEF CloseOutput
  <2>2. Accounted(outputCh', printedEvents, sentEvents, eventNil)
    BY <1>1, <1>2, <1>5, AccountedClosed DEF CloseOutput
  <2> QED
    BY <1>1, <1>2, <1>5, <2>1, <2>2 DEF CloseOutput, loopVars, OutputInv, TypeInv, OutTypeOK
<1>6. CASE CloseAlerts
  <2>1. alertsCh' \in Chan(Events) /\ Len(alertsCh'.buf) <= AlertCap
    BY <1>1, <1>6, ClosedFacts DEF CloseAlerts
  <2>2. Accounted(alertsCh', printedAlerts, sentAlerts, alertNil)
    BY <1>1, <1>2, <1>6, AccountedClosed DEF CloseAlerts
  <2> QED
    BY <1>1, <1>2, <1>6, <2>1, <2>2 DEF CloseAlerts, loopVars, OutputInv, TypeInv, OutTypeOK
<1>7. CASE OutputEvent /\ UNCHANGED <<sentEvents, sentAlerts>>
  <2>1. /\ CanReceive(outputCh) /\ ~eventNil
        /\ outputCh' = Received(outputCh) /\ printedEvents' = Append(printedEvents, Head(outputCh.buf))
        /\ UNCHANGED <<alertsCh, eventNil, alertNil, printedAlerts, sentEvents, sentAlerts>>
    BY <1>7 DEF OutputEvent
  <2>2. returned' \in BOOLEAN
    BY <1>1, <1>7 DEF OutputEvent, ExitCheck
  <2>3. outputCh' \in Chan(Events) /\ Len(outputCh'.buf) <= Cap /\ printedEvents' \in Seq(Events)
    BY <1>1, <2>1, ReceivedFacts, AppendFacts
  <2>4. Accounted(outputCh', printedEvents', sentEvents, eventNil)
    BY <1>1, <1>2, <2>1, AccountedReceived
  <2> QED
    BY <1>1, <1>2, <2>1, <2>2, <2>3, <2>4 DEF OutputInv, TypeInv, OutTypeOK
<1>8. CASE OutputAlert /\ UNCHANGED <<sentEvents, sentAlerts>>
  <2>1. /\ CanReceive(alertsCh) /\ ~alertNil
        /\ alertsCh' = Received(alertsCh) /\ printedAlerts' = Append(printedAlerts, Head(alertsCh.buf))
        /\ UNCHANGED <<outputCh, eventNil, alertNil, printedEvents, sentEvents, sentAlerts>>
    BY <1>8 DEF OutputAlert
  <2>2. returned' \in BOOLEAN
    BY <1>1, <1>8 DEF OutputAlert, ExitCheck
  <2>3. alertsCh' \in Chan(Events) /\ Len(alertsCh'.buf) <= AlertCap /\ printedAlerts' \in Seq(Events)
    BY <1>1, <2>1, ReceivedFacts, AppendFacts
  <2>4. Accounted(alertsCh', printedAlerts', sentAlerts, alertNil)
    BY <1>1, <1>2, <2>1, AccountedReceived
  <2> QED
    BY <1>1, <1>2, <2>1, <2>2, <2>3, <2>4 DEF OutputInv, TypeInv, OutTypeOK
<1>9. CASE OutputChEnd /\ UNCHANGED <<sentEvents, sentAlerts>>
  <2>1. Accounted(outputCh, printedEvents, sentEvents, TRUE)
    BY <1>2, <1>9 DEF OutputChEnd, Accounted
  <2> QED
    BY <1>1, <1>2, <1>9, <2>1 DEF OutputChEnd, OutputInv, TypeInv, OutTypeOK
<1>10. CASE AlertsChEnd /\ UNCHANGED <<sentEvents, sentAlerts>>
  <2>1. Accounted(alertsCh, printedAlerts, sentAlerts, TRUE)
    BY <1>2, <1>10 DEF AlertsChEnd, Accounted
  <2> QED
    BY <1>1, <1>2, <1>10, <2>1 DEF AlertsChEnd, OutputInv, TypeInv, OutTypeOK
<1>11. CASE UNCHANGED vars
  BY <1>1, <1>2, <1>11 DEF vars, outVars, loopVars, OutputInv, TypeInv, OutTypeOK
<1> QED
  BY <1>3, <1>4, <1>5, <1>6, <1>7, <1>8, <1>9, <1>10, <1>11 DEF Next, OutputStep

\* Nothing is lost, doubled or reordered on the way to stdout (OutputLoop).
THEOREM OutputAccounted == Spec => []OutputInv
  BY OutputInit, OutputStepKeeps, PTL DEF Spec

\* The loop gives a channel up (eventCh = nil, alertCh = nil) only when
\* everything sent on it is printed, in the order it was sent.
THEOREM NilIsLast == Spec => []NilAfterLast
<1>1. OutputInv => NilAfterLast
  <2> SUFFICES ASSUME OutputInv PROVE NilAfterLast
    OBVIOUS
  <2>1. \A s \in Seq(Events) : s \o <<>> = s
    OBVIOUS
  <2>2. printedEvents \in Seq(Events) /\ printedAlerts \in Seq(Events)
    BY DEF OutputInv, TypeInv, OutTypeOK
  <2> QED
    BY <2>1, <2>2 DEF OutputInv, Accounted, AtEnd, NilAfterLast
<1> QED
  BY <1>1, OutputAccounted, PTL
=============================================================================
