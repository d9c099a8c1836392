--------------------------- MODULE PipelineProofs ---------------------------
(***************************************************************************)
(* Proofs about Pipeline, for every set of events and containers, every    *)
(* capacity of the channels, every filter and every number of rules: type  *)
(* correctness, no panic before the signal, the source container of every  *)
(* event the rule engine gets, the order of the events of one route, and   *)
(* the refinement of EventDelivery.                                        *)
(***************************************************************************)
EXTENDS Pipeline, QueueLemmas

-----------------------------------------------------------------------------
\* The fan-out goroutine at another place, with the same event.
LEMMA FanOutMoves ==
    ASSUME NEW f \in [at : {"filter", "output", "engine"}, ev : Events],
           NEW p \in {"filter", "output", "engine"}
    PROVE  /\ [f EXCEPT !.at = p] = [at |-> p, ev |-> f.ev]
           /\ f.ev \in Events
  OBVIOUS

\* The engine after one more alert.
LEMMA EngineOwesLess ==
    ASSUME NEW g \in [ev : Events, left : 0..MaxFired], g.left > 0, MaxFired \in Nat
    PROVE  /\ [g EXCEPT !.left = @ - 1] = [ev |-> g.ev, left |-> g.left - 1]
           /\ g.ev \in Events /\ g.left - 1 \in 0..MaxFired
  OBVIOUS

\* Setting one end of an event's info.
LEMMA InfoFacts ==
    ASSUME NEW I \in [Events -> Info], NEW e \in Events, NEW c \in Containers \cup {NoContainer}
    PROVE  /\ [I EXCEPT ![e].src = c] \in [Events -> Info]
           /\ [I EXCEPT ![e].dst = c] \in [Events -> Info]
<1>1. /\ I[e].src \in Containers \cup {NoContainer} /\ I[e].dst \in Containers \cup {NoContainer}
      /\ [I[e] EXCEPT !.src = c] = [src |-> c, dst |-> I[e].dst]
      /\ [I[e] EXCEPT !.dst = c] = [src |-> I[e].src, dst |-> c]
  BY DEF Info
<1>2. [I[e] EXCEPT !.src = c] \in Info /\ [I[e] EXCEPT !.dst = c] \in Info
  BY <1>1 DEF Info
<1>3. \A r \in Info : [I EXCEPT ![e] = r] \in [Events -> Info]
  OBVIOUS
<1> QED
  BY ONLY <1>2, <1>3, Zenon

-----------------------------------------------------------------------------
\* Every goroutine keeps every variable in its type; in particular no send
\* exceeds the capacity of its channel, and the rule engine never owes a
\* negative number of alerts.
THEOREM PipelineTypeCorrect == Spec => []TypeOK
<1> USE CapAssumption, PipelineAssumption DEF CapAssumption, PipelineAssumption
<1>1. Init => TypeOK
  <2> SUFFICES ASSUME Init PROVE TypeOK
    OBVIOUS
  <2>1. OutTypeOK
    <3>1. /\ outputCh \in Chan(Events) /\ Len(outputCh.buf) <= Cap
          /\ alertsCh \in Chan(Events) /\ Len(alertsCh.buf) <= AlertCap
      BY NewChanFacts DEF Init, OutInit
    <3>2. {eventNil, alertNil, returned} \subseteq BOOLEAN
      BY DEF Init, OutInit
    <3>3. printedEvents \in Seq(Events) /\ printedAlerts \in Seq(Events)
      BY DEF Init, OutInit
    <3> QED
      BY <3>1, <3>2, <3>3 DEF OutTypeOK
  <2>2. /\ info \in [Events -> Info]
        /\ fanOut = Idle /\ engine = EngineIdle
    BY DEF Init, Info
  <2>3. /\ corrOutput \in Chan(Events) /\ Len(corrOutput.buf) <= Cap
        /\ eventsCh \in Chan(Events) /\ Len(eventsCh.buf) <= Cap
        /\ engineCh \in Chan(Events) /\ Len(engineCh.buf) <= Cap
    BY NewChanFacts DEF Init
  <2> QED
    BY <2>1, <2>2, <2>3 DEF Init, TypeOK
<1>2. TypeOK /\ [Next]_vars => TypeOK'
  <2> SUFFICES ASSUME TypeOK, [Next]_vars PROVE TypeOK'
    OBVIOUS
  <2> USE DEF TypeOK, OutTypeOK
  <2>1. ASSUME NEW e \in Events, Read(e) PROVE TypeOK'
    BY <2>1 DEF Read, linkVars, sortVars, ruleVars, ctlVars, outVars, loopVars
  <2>2. CASE ReadFails
    BY <2>2 DEF ReadFails, inVars, linkVars, sortVars, ruleVars, outVars, loopVars
  <2>3. CASE SendConnection
    <3>1. corrOutput' \in Chan(Events) /\ Len(corrOutput'.buf) <= Cap
      BY <2>3, SentFacts DEF SendConnection
    <3> QED
      BY <2>3, <3>1 DEF SendConnection, sortVars, ruleVars, ctlVars, outVars, loopVars
  <2>4. CASE SendLocal
    <3>1. eventsCh' \in Chan(Events) /\ Len(eventsCh'.buf) <= Cap
      BY <2>4, SentFacts DEF SendLocal
    <3> QED
      BY <2>4, <3>1 DEF SendLocal, sortVars, ruleVars, ctlVars, outVars, loopVars
  <2>5. CASE FanInReceive
    <3>1. /\ corrOutput' \in Chan(Events) /\ Len(corrOutput'.buf) <= Cap
          /\ fanIn' \in Events
      BY <2>5, ReceivedFacts DEF FanInReceive
    <3> QED
      BY <2>5, <3>1 DEF FanInReceive, inVars, sortVars, ruleVars, ctlVars, outVars, loopVars
  <2>6. CASE FanInSend
    <3>1. eventsCh' \in Chan(Events) /\ Len(eventsCh'.buf) <= Cap
      BY <2>6, SentFacts DEF FanInSend
    <3> QED
      BY <2>6, <3>1 DEF FanInSend, inVars, sortVars, ruleVars, ctlVars, outVars, loopVars
  <2>7. CASE FanInEnd
    <3>1. eventsCh' \in Chan(Events) /\ Len(eventsCh'.buf) <= Cap
      BY <2>7, ClosedFacts DEF FanInEnd
    <3> QED
      BY <2>7, <3>1 DEF FanInEnd, inVars, sortVars, ruleVars, ctlVars, outVars, loopVars
  <2>8. CASE FanOutReceive
    <3>1. /\ eventsCh' \in Chan(Events) /\ Len(eventsCh'.buf) <= Cap
          /\ Head(eventsCh.buf) \in Events
      BY <2>8, ReceivedFacts DEF FanOutReceive
    <3>2. Resolve(SrcOf[Head(eventsCh.buf)]) \in Containers \cup {NoContainer}
      BY DEF Resolve
    <3>3. /\ fanOut' \in [at : {"filter", "output", "engine"}, ev : Events] \cup {Idle}
          /\ info' \in [Events -> Info]
          /\ dropped' \in SUBSET Events
      <4>1. [info EXCEPT ![Head(eventsCh.buf)].src = Resolve(SrcOf[Head(eventsCh.buf)])] \in [Events -> Info]
        <5>1. info \in [Events -> Info]
          OBVIOUS
        <5> QED
          BY ONLY <5>1, <3>1, <3>2, InfoFacts, Zenon
      <4>2. CASE Resolve(SrcOf[Head(eventsCh.buf)]) = NoContainer
        <5>1. dropped' = dropped \cup {Head(eventsCh.buf)} /\ UNCHANGED <<fanOut, info>>
          BY <2>8, <4>2 DEF FanOutReceive
        <5> QED
          BY <3>1, <5>1
      <4>3. CASE Resolve(SrcOf[Head(eventsCh.buf)]) # NoContainer
        <5>1. /\ fanOut' = [at |-> "filter", ev |-> Head(eventsCh.buf)]
              /\ info' = [info EXCEPT ![Head(eventsCh.buf)].src = Resolve(SrcOf[Head(eventsCh.buf)])]
              /\ UNCHANGED dropped
          BY <2>8, <4>3 DEF FanOutReceive
        <5> QED
          BY <3>1, <4>1, <5>1
      <4> QED
        BY <4>2, <4>3
    <3> QED
      BY <2>8, <3>1, <3>3 DEF FanOutReceive, inVars, ruleVars, ctlVars, outVars, loopVars
  <2>9. CASE FanOutFilter
    <3>1. fanOut \in [at : {"filter", "output", "engine"}, ev : Events]
      BY <2>9 DEF FanOutFilter, Idle
    <3>2. Resolve(DstOf[fanOut.ev]) \in Containers \cup {NoContainer}
      BY <3>1 DEF Resolve
    <3>3. /\ fanOut' \in [at : {"filter", "output", "engine"}, ev : Events] \cup {Idle}
          /\ info' \in [Events -> Info]
          /\ dropped' \in SUBSET Events
      <4>1. [info EXCEPT ![fanOut.ev].dst = Resolve(DstOf[fanOut.ev])] \in [Events -> Info]
        <5>1. info \in [Events -> Info] /\ fanOut.ev \in Events
          BY <3>1
        <5> QED
          BY ONLY <5>1, <3>2, InfoFacts, Zenon
      <4>2. [fanOut EXCEPT !.at = "output"] = [at |-> "output", ev |-> fanOut.ev] /\ fanOut.ev \in Events
        BY <3>1, FanOutMoves
      <4> QED
        BY <2>9, <4>1, <4>2 DEF FanOutFilter
    <3> QED
      BY <2>9, <3>3 DEF FanOutFilter, inVars, linkVars, ruleVars, ctlVars, outVars, loopVars
  <2>10. CASE FanOutOutput
    <3>1. fanOut \in [at : {"filter", "output", "engine"}, ev : Events]
      BY <2>10 DEF FanOutOutput, Idle
    <3>2. outputCh' \in Chan(Events) /\ Len(outputCh'.buf) <= Cap
      BY <2>10, <3>1, SentFacts DEF FanOutOutput
    <3>3. fanOut' \in [at : {"filter", "output", "engine"}, ev : Events] /\ admitted' \in Seq(Events)
      <4>1. [fanOut EXCEPT !.at = "engine"] = [at |-> "engine", ev |-> fanOut.ev] /\ fanOut.ev \in Events
        BY <3>1, FanOutMoves
      <4> QED
        BY <2>10, <4>1 DEF FanOutOutput
    <3> QED
      BY <2>10, <3>2, <3>3 DEF FanOutOutput, inVars, linkVars, ruleVars, ctlVars, loopVars
  <2>11. CASE FanOutEngine
    <3>1. fanOut \in [at : {"filter", "output", "engine"}, ev : Events]
      BY <2>11 DEF FanOutEngine, Idle
    <3>2. engineCh' \in Chan(Events) /\ Len(engineCh'.buf) <= Cap
      BY <2>11, <3>1, SentFacts DEF FanOutEngine
    <3> QED
      BY <2>11, <3>2 DEF FanOutEngine, inVars, linkVars, ctlVars, outVars, loopVars
  <2>12. CASE ProcessEvent
    <3>1. /\ engineCh' \in Chan(Events) /\ Len(engineCh'.buf) <= Cap
          /\ Head(engineCh.buf) \in Events
      BY <2>12, ReceivedFacts DEF ProcessEvent
    <3>2. engine' \in [ev : Events, left : 0..MaxFired] /\ processed' \in Seq(Events)
      BY <2>12, <3>1 DEF ProcessEvent
    <3>3. UNCHANGED <<inVars, linkVars, sortVars, ctlVars, outVars, cache>>
      BY ONLY <2>12 DEF ProcessEvent
    <3> QED
      BY <3>1, <3>2, <3>3 DEF inVars, linkVars, sortVars, ctlVars, outVars, loopVars
  <2>13. CASE emitAlert
    <3>1. engine \in [ev : Events, left : 0..MaxFired]
      BY <2>13 DEF emitAlert, EngineIdle
    <3>2. alertsCh' \in Chan(Events) /\ Len(alertsCh'.buf) <= AlertCap
      BY <2>13, <3>1, SentFacts DEF emitAlert
    <3>3. engine' \in [ev : Events, left : 0..MaxFired]
      BY <2>13, <3>1, EngineOwesLess DEF emitAlert
    <3> QED
      BY <2>13, <3>2, <3>3 DEF emitAlert, inVars, linkVars, sortVars, ctlVars, loopVars
  <2>14. CASE Output
    <3> USE DEF Output, mainVars, inVars, linkVars, sortVars, ruleVars, ctlVars
    <3>1. CASE OutputEvent
      <4>1. outputCh' \in Chan(Events) /\ Len(outputCh'.buf) <= Cap /\ Head(outputCh.buf) \in Events
        BY <3>1, ReceivedFacts DEF OutputEvent
      <4>3. printedEvents' \in Seq(Events)
        BY <3>1, <4>1 DEF OutputEvent
      <4>2. {eventNil', alertNil', returned'} \subseteq BOOLEAN
        BY <3>1 DEF OutputEvent, ExitCheck
      <4> QED
        BY <2>14, <3>1, <4>1, <4>2, <4>3 DEF OutputEvent
    <3>2. CASE OutputChEnd
      BY <2>14, <3>2 DEF OutputChEnd
    <3>3. CASE OutputAlert
      <4>1. alertsCh' \in Chan(Events) /\ Len(alertsCh'.buf) <= AlertCap /\ Head(alertsCh.buf) \in Events
        BY <3>3, ReceivedFacts DEF OutputAlert
      <4>3. printedAlerts' \in Seq(Events)
        BY <3>3, <4>1 DEF OutputAlert
      <4>2. {eventNil', alertNil', returned'} \subseteq BOOLEAN
        BY <3>3 DEF OutputAlert, ExitCheck
      <4> QED
        BY <2>14, <3>3, <4>1, <4>2, <4>3 DEF OutputAlert
    <3>4. CASE AlertsChEnd
      BY <2>14, <3>4 DEF AlertsChEnd
    <3> QED
      BY <2>14, <3>1, <3>2, <3>3, <3>4 DEF OutputStep
  <2>15. ASSUME NEW c \in Containers, Learn(c) PROVE TypeOK'
    BY <2>15 DEF Learn, inVars, linkVars, sortVars, ruleVars, ctlVars, outVars, loopVars
  <2>16. CASE Interrupt
    BY <2>16 DEF Interrupt, inVars, linkVars, sortVars, ruleVars, outVars, loopVars
  <2>17. CASE CloseRd
    BY <2>17 DEF CloseRd, linkVars, sortVars, ruleVars, outVars, loopVars
  <2>18. CASE CloseCorr
    <3>1. corrOutput' \in Chan(Events) /\ Len(corrOutput'.buf) <= Cap
      BY <2>18, ClosedFacts DEF CloseCorr
    <3> QED
      BY <2>18, <3>1 DEF CloseCorr, inVars, sortVars, ruleVars, outVars, loopVars
  <2>19. CASE CloseEngine
    <3>1. engineCh' \in Chan(Events) /\ Len(engineCh'.buf) <= Cap
      BY <2>19, ClosedFacts DEF CloseEngine
    <3> QED
      BY <2>19, <3>1 DEF CloseEngine, inVars, linkVars, sortVars, outVars, loopVars
  <2>20. CASE CloseOutput
    <3>1. outputCh' \in Chan(Events) /\ Len(outputCh'.buf) <= Cap
      BY <2>20, ClosedFacts DEF CloseOutput
    <3> QED
      BY <2>20, <3>1 DEF CloseOutput, inVars, linkVars, sortVars, ruleVars, loopVars
  <2>21. CASE Panic
    BY <2>21 DEF Panic, inVars, linkVars, sortVars, ruleVars, outVars, loopVars
  <2>22. CASE UNCHANGED vars
    BY <2>22 DEF vars, mainVars, inVars, linkVars, sortVars, ruleVars, ctlVars, outVars, loopVars
  <2> QED
    BY <2>1, <2>2, <2>3, <2>4, <2>5, <2>6, <2>7, <2>8, <2>9, <2>10, <2>11, <2>12, <2>13, <2>14,
       <2>15, <2>16, <2>17, <2>18, <2>19, <2>20, <2>21, <2>22
       DEF Next, Reader, FanInStep, FanOutStep, EngineStep, SignalStep, Gone
<1> QED
  BY <1>1, <1>2, PTL DEF Spec

-----------------------------------------------------------------------------
\* Until the signal arrives every channel is open: the fan-in goroutine closes
\* eventsCh only when corr.output has been closed, which the signal does.
OpenUntilSignal ==
    /\ signal = "wait" =>
         \A ch \in {corrOutput, eventsCh, engineCh, outputCh, alertsCh} : ch.open = TRUE
    /\ proc = "panicked" => signal # "wait"

\* No goroutine sends on a closed channel before the signal goroutine starts
\* to close them, in whatever order the goroutines run.
THEOREM NoEarlyPanic == Spec => []PanicOnlyAfterSignal
<1> USE CapAssumption DEF CapAssumption
<1>1. Init => OpenUntilSignal
  BY NewChanFacts DEF Init, OutInit, OpenUntilSignal
<1>2. TypeOK /\ OpenUntilSignal /\ [Next]_vars => OpenUntilSignal'
  <2> SUFFICES ASSUME TypeOK, OpenUntilSignal, [Next]_vars PROVE OpenUntilSignal'
    OBVIOUS
  <2>0. /\ \A ch \in {corrOutput, eventsCh, engineCh, outputCh} : ch \in Chan(Events) /\ Len(ch.buf) <= Cap
        /\ alertsCh \in Chan(Events) /\ Len(alertsCh.buf) <= AlertCap
        /\ Cap \in Nat /\ AlertCap \in Nat
    BY DEF TypeOK, OutTypeOK
  <2> USE DEF OpenUntilSignal
  <2>1. ASSUME NEW e \in Events, Read(e) PROVE OpenUntilSignal'
    BY <2>1 DEF Read, linkVars, ruleVars, ctlVars, outVars
  <2>2. CASE ReadFails
    BY <2>2 DEF ReadFails, linkVars, ruleVars, outVars
  <2>3. CASE SendConnection
    <3>1. reader \in Events
      BY <2>3, PipelineAssumption DEF SendConnection, PipelineAssumption
    <3>2. corrOutput'.open = corrOutput.open
      BY <2>0, <2>3, <3>1, SentFacts DEF SendConnection
    <3> QED
      BY <2>3, <3>2 DEF SendConnection, ruleVars, ctlVars, outVars
  <2>4. CASE SendLocal
    <3>1. reader \in Events
      BY <2>4, PipelineAssumption DEF SendLocal, PipelineAssumption
    <3>2. eventsCh'.open = eventsCh.open
      BY <2>0, <2>4, <3>1, SentFacts DEF SendLocal
    <3> QED
      BY <2>4, <3>2 DEF SendLocal, ruleVars, ctlVars, outVars
  <2>5. CASE FanInReceive
    <3>1. corrOutput'.open = corrOutput.open
      BY <2>0, <2>5, ReceivedFacts DEF FanInReceive
    <3> QED
      BY <2>5, <3>1 DEF FanInReceive, ruleVars, ctlVars, outVars
  <2>6. CASE FanInSend
    <3>1. fanIn \in Events
      BY <2>6 DEF FanInSend, TypeOK
    <3>2. eventsCh'.open = eventsCh.open
      BY <2>0, <2>6, <3>1, SentFacts DEF FanInSend
    <3> QED
      BY <2>6, <3>2 DEF FanInSend, ruleVars, ctlVars, outVars
  <2>7. CASE FanInEnd
    <3>1. corrOutput.open # TRUE
      BY <2>7 DEF FanInEnd, AtEnd
    <3>2. UNCHANGED <<signal, proc>>
      BY <2>7 DEF FanInEnd, ctlVars
    <3> QED
      BY <3>1, <3>2
  <2>8. CASE FanOutReceive
    <3>1. eventsCh'.open = eventsCh.open
      BY <2>0, <2>8, ReceivedFacts DEF FanOutReceive
    <3> QED
      BY <2>8, <3>1 DEF FanOutReceive, ruleVars, ctlVars, outVars
  <2>9. CASE FanOutFilter
    BY <2>9 DEF FanOutFilter, linkVars, ruleVars, ctlVars, outVars
  <2>10. CASE FanOutOutput
    <3>1. fanOut.ev \in Events
      BY <2>10 DEF FanOutOutput, Idle, TypeOK
    <3>2. outputCh'.open = outputCh.open
      BY <2>0, <2>10, <3>1, SentFacts DEF FanOutOutput
    <3> QED
      BY <2>10, <3>2 DEF FanOutOutput, linkVars, ruleVars, ctlVars
  <2>11. CASE FanOutEngine
    <3>1. fanOut.ev \in Events
      BY <2>11 DEF FanOutEngine, Idle, TypeOK
    <3>2. engineCh'.open = engineCh.open
      BY <2>0, <2>11, <3>1, SentFacts DEF FanOutEngine
    <3> QED
      BY <2>11, <3>2 DEF FanOutEngine, linkVars, ctlVars, outVars
  <2>12. CASE ProcessEvent
    <3>1. engineCh'.open = engineCh.open
      BY <2>0, <2>12, ReceivedFacts DEF ProcessEvent
    <3> QED
      BY <2>12, <3>1 DEF ProcessEvent, linkVars, ctlVars, outVars
  <2>13. CASE emitAlert
    <3>1. engine.ev \in Events
      BY <2>13 DEF emitAlert, EngineIdle, TypeOK
    <3>2. alertsCh'.open = alertsCh.open
      BY <2>0, <2>13, <3>1, SentFacts DEF emitAlert
    <3> QED
      BY <2>13, <3>2 DEF emitAlert, linkVars, ctlVars
  <2>14. CASE Output
    <3>1. outputCh'.open = outputCh.open /\ alertsCh'.open = alertsCh.open
      <4>1. CASE OutputEvent
        BY <2>0, <4>1, ReceivedFacts DEF OutputEvent
      <4>2. CASE OutputAlert
        BY <2>0, <4>2, ReceivedFacts DEF OutputAlert
      <4> QED
        BY <2>14, <4>1, <4>2 DEF Output, OutputStep, OutputChEnd, AlertsChEnd
    <3> QED
      BY <2>14, <3>1 DEF Output, mainVars, linkVars, ruleVars, ctlVars
  <2>15. ASSUME NEW c \in Containers, Learn(c) PROVE OpenUntilSignal'
    BY <2>15 DEF Learn, linkVars, ruleVars, ctlVars, outVars
  <2>16. CASE Interrupt
    BY <2>16 DEF Interrupt
  <2>17. CASE CloseRd
    BY <2>17 DEF CloseRd
  <2>18. CASE CloseCorr
    BY <2>18 DEF CloseCorr
  <2>19. CASE CloseEngine
    BY <2>19 DEF CloseEngine
  <2>20. CASE CloseOutput
    BY <2>20 DEF CloseOutput
  <2>21. CASE Panic
    <3>1. signal # "wait"
      BY <2>21 DEF Panic, SendTargets
    <3> QED
      BY <2>21, <3>1 DEF Panic
  <2>22. CASE UNCHANGED vars
    BY <2>22 DEF vars, mainVars, linkVars, ruleVars, ctlVars, outVars
  <2> QED
    BY <2>1, <2>2, <2>3, <2>4, <2>5, <2>6, <2>7, <2>8, <2>9, <2>10, <2>11, <2>12, <2>13, <2>14,
       <2>15, <2>16, <2>17, <2>18, <2>19, <2>20, <2>21, <2>22
       DEF Next, Reader, FanInStep, FanOutStep, EngineStep, SignalStep, Gone
<1>3. OpenUntilSignal => PanicOnlyAfterSignal
  BY DEF OpenUntilSignal, PanicOnlyAfterSignal
<1> QED
  BY <1>1, <1>2, <1>3, PipelineTypeCorrect, PTL DEF Spec

-----------------------------------------------------------------------------
\* What the fan-out goroutine's first step does to the event it takes.
LEMMA FanOutReceiveFacts ==
    ASSUME TypeOK, FanOutReceive
    PROVE  LET e == Head(eventsCh.buf) IN
           /\ eventsCh.buf \in Seq(Events) /\ eventsCh.buf # <<>> /\ e \in Events
           /\ eventsCh'.buf = Tail(eventsCh.buf)
           /\ \/ UNCHANGED <<fanOut, info>>
              \/ /\ fanOut' = [at |-> "filter", ev |-> e]
                 /\ info'[e].src # NoContainer
                 /\ \A d \in Events : d # e => info'[d].src = info[d].src
<1> DEFINE e == Head(eventsCh.buf)
           c == Resolve(SrcOf[e])
<1>1. eventsCh.buf \in Seq(Events) /\ eventsCh.buf # <<>> /\ e \in Events /\ eventsCh'.buf = Tail(eventsCh.buf)
  BY CapAssumption, ReceivedFacts DEF FanOutReceive, TypeOK, CapAssumption
<1>2. c \in Containers \cup {NoContainer} /\ info \in [Events -> Info]
  BY DEF Resolve, TypeOK
<1>3. \/ UNCHANGED <<fanOut, info>>
      \/ c # NoContainer /\ fanOut' = [at |-> "filter", ev |-> e] /\ info' = [info EXCEPT ![e].src = c]
  BY DEF FanOutReceive
<1>4. /\ [info EXCEPT ![e].src = c][e].src = c
      /\ \A d \in Events \ {e} : [info EXCEPT ![e].src = c][d].src = info[d].src
  <2> HIDE DEF e, c
  <2> QED
    BY ONLY <1>1, <1>2 DEF Info
<1> QED
  BY <1>1, <1>3, <1>4

\* The second step passes the event on or drops it, and keeps every source.
LEMMA FanOutFilterFacts ==
    ASSUME TypeOK, FanOutFilter
    PROVE  /\ fanOut.ev \in Events
           /\ fanOut' = Idle \/ fanOut' = [at |-> "output", ev |-> fanOut.ev]
           /\ \A d \in Events : info'[d].src = info[d].src
<1> DEFINE e == fanOut.ev
           c == Resolve(DstOf[e])
<1>1. fanOut \in [at : {"filter", "output", "engine"}, ev : Events]
  BY DEF FanOutFilter, TypeOK, Idle
<1>2. e \in Events /\ [fanOut EXCEPT !.at = "output"] = [at |-> "output", ev |-> e]
  BY <1>1, FanOutMoves
<1>3. c \in Containers \cup {NoContainer} /\ info \in [Events -> Info]
  BY DEF Resolve, TypeOK
<1>4. \/ fanOut' = Idle /\ UNCHANGED info
      \/ fanOut' = [fanOut EXCEPT !.at = "output"] /\ info' = [info EXCEPT ![e].dst = c]
  BY DEF FanOutFilter
<1>5. \A d \in Events : [info EXCEPT ![e].dst = c][d].src = info[d].src
  <2> HIDE DEF e, c
  <2> QED
    BY ONLY <1>2, <1>3 DEF Info
<1> QED
  BY <1>2, <1>4, <1>5

\* The two sends of the fan-out goroutine.
LEMMA FanOutSendFacts ==
    ASSUME TypeOK
    PROVE  /\ FanOutOutput =>
                /\ fanOut.ev \in Events /\ outputCh.buf \in Seq(Events)
                /\ outputCh'.buf = Append(outputCh.buf, fanOut.ev)
                /\ fanOut' = [at |-> "engine", ev |-> fanOut.ev]
           /\ FanOutEngine =>
                /\ fanOut.ev \in Events /\ engineCh.buf \in Seq(Events)
                /\ engineCh'.buf = Append(engineCh.buf, fanOut.ev)
                /\ fanOut' = Idle
<1> USE CapAssumption DEF CapAssumption
<1>1. outputCh \in Chan(Events) /\ engineCh \in Chan(Events)
  BY DEF TypeOK, OutTypeOK
<1>2. outputCh.buf \in Seq(Events) /\ engineCh.buf \in Seq(Events)
  BY <1>1 DEF Chan
<1>3. ASSUME FanOutOutput \/ FanOutEngine
      PROVE  fanOut \in [at : {"filter", "output", "engine"}, ev : Events] /\ fanOut.ev \in Events
  BY <1>3 DEF FanOutOutput, FanOutEngine, TypeOK, Idle
<1>4. ASSUME FanOutOutput PROVE outputCh'.buf = Append(outputCh.buf, fanOut.ev)
  BY <1>1, <1>3, <1>4, SentFacts DEF FanOutOutput
<1>5. ASSUME FanOutEngine PROVE engineCh'.buf = Append(engineCh.buf, fanOut.ev)
  BY <1>1, <1>3, <1>5, SentFacts DEF FanOutEngine
<1>6. ASSUME FanOutOutput PROVE fanOut' = [at |-> "engine", ev |-> fanOut.ev]
  BY <1>3, <1>6, FanOutMoves DEF FanOutOutput
<1> QED
  BY <1>2, <1>3, <1>4, <1>5, <1>6 DEF FanOutEngine

\* The rule engine takes the head of its channel.
LEMMA ProcessEventFacts ==
    ASSUME TypeOK, ProcessEvent
    PROVE  /\ engineCh.buf \in Seq(Events) /\ engineCh.buf # <<>> /\ Head(engineCh.buf) \in Events
           /\ engineCh'.buf = Tail(engineCh.buf)
           /\ processed \in Seq(Events)
           /\ processed' = Append(processed, Head(engineCh.buf))
  BY CapAssumption, ReceivedFacts DEF ProcessEvent, TypeOK, CapAssumption

-----------------------------------------------------------------------------
\* The event in the hands of the fan-out goroutine has its source container.
SourceKnown ==
    /\ fanOut.at # "receive" => info[fanOut.ev].src # NoContainer
    /\ EngineGetsSource

\* buildGroupKey never meets a nil SrcContainer: the fan-out goroutine sends
\* no event without a source, and no later step takes the source away again.
THEOREM SourceNeverNil == Spec => []EngineGetsSource
<1>1. Init => SourceKnown
  <2> SUFFICES ASSUME Init PROVE SourceKnown
    OBVIOUS
  <2>1. engineCh.buf = <<>> /\ processed = <<>> /\ fanOut.at = "receive"
    BY DEF Init, NewChan, Idle
  <2> QED
    BY <2>1 DEF SourceKnown, EngineGetsSource, Range
<1>2. TypeOK /\ SourceKnown /\ [Next]_vars => SourceKnown'
  <2> SUFFICES ASSUME TypeOK, SourceKnown, [Next]_vars PROVE SourceKnown'
    OBVIOUS
  <2>0. /\ engineCh \in Chan(Events) /\ engineCh.buf \in Seq(Events) /\ processed \in Seq(Events)
        /\ Range(engineCh.buf) \subseteq Events /\ Range(processed) \subseteq Events
    BY RangeInSet DEF TypeOK, Chan
  <2> USE DEF SourceKnown, EngineGetsSource
  <2>1. CASE FanOutReceive
    <3>1. UNCHANGED <<engineCh, processed>>
      BY <2>1 DEF FanOutReceive, ruleVars
    <3> QED
      BY <2>0, <2>1, <3>1, FanOutReceiveFacts
  <2>2. CASE FanOutFilter
    <3>1. UNCHANGED <<engineCh, processed>> /\ fanOut.at # "receive"
      BY <2>2 DEF FanOutFilter, ruleVars
    <3> QED
      BY <2>0, <2>2, <3>1, FanOutFilterFacts DEF Idle
  <2>3. CASE FanOutOutput
    <3>1. UNCHANGED <<engineCh, processed, info>> /\ fanOut.at # "receive"
      BY <2>3 DEF FanOutOutput, ruleVars
    <3> QED
      BY <2>3, <3>1, FanOutSendFacts
  <2>4. CASE FanOutEngine
    <3>1. UNCHANGED <<processed, info>> /\ fanOut.at # "receive"
      BY <2>4 DEF FanOutEngine
    <3>2. fanOut.ev \in Events /\ engineCh'.buf = Append(engineCh.buf, fanOut.ev) /\ fanOut' = Idle
      BY <2>4, FanOutSendFacts
    <3>3. Range(Append(engineCh.buf, fanOut.ev)) = Range(engineCh.buf) \cup {fanOut.ev}
      BY <2>0, <3>2, RangeAppend
    <3> QED
      BY <3>1, <3>2, <3>3 DEF Idle
  <2>5. CASE ProcessEvent
    <3>1. UNCHANGED <<fanOut, info>>
      BY <2>5 DEF ProcessEvent, sortVars
    <3>2. /\ engineCh.buf # <<>> /\ Head(engineCh.buf) \in Events
          /\ engineCh'.buf = Tail(engineCh.buf) /\ processed' = Append(processed, Head(engineCh.buf))
      BY <2>5, ProcessEventFacts
    <3>3. Range(Append(processed, Head(engineCh.buf))) = Range(processed) \cup {Head(engineCh.buf)}
      BY <2>0, <3>2, RangeAppend
    <3>4. Range(engineCh.buf) = {Head(engineCh.buf)} \cup Range(Tail(engineCh.buf))
      BY <2>0, <3>2, RangeHeadTail
    <3> QED
      BY <3>1, <3>2, <3>3, <3>4
  <2>6. CASE CloseEngine
    <3>1. engineCh'.buf = engineCh.buf
      BY <2>0, <2>6, ClosedFacts DEF CloseEngine
    <3> QED
      BY <2>6, <3>1 DEF CloseEngine, sortVars
  <2>7. CASE UNCHANGED <<fanOut, info, engineCh, processed>>
    BY <2>7
  <2>8. \/ FanOutReceive \/ FanOutFilter \/ FanOutOutput \/ FanOutEngine \/ ProcessEvent \/ CloseEngine
        \/ UNCHANGED <<fanOut, info, engineCh, processed>>
    BY DEF Next, Read, Reader, ReadFails, SendConnection, SendLocal, FanInStep, FanInReceive, FanInSend,
           FanInEnd, FanOutStep, EngineStep, emitAlert, Output, Learn, Interrupt, SignalStep, CloseRd,
           CloseCorr, CloseOutput, Panic, Gone, vars, mainVars, sortVars, ruleVars
  <2> QED
    BY <2>1, <2>2, <2>3, <2>4, <2>5, <2>6, <2>7, <2>8
<1>3. SourceKnown => EngineGetsSource
  BY DEF SourceKnown
<1> QED
  BY <1>1, <1>2, <1>3, PipelineTypeCorrect, PTL DEF Spec

-----------------------------------------------------------------------------
(***************************************************************************)
(* The order of the events: those of one route keep the order of their     *)
(* records, and the pipeline implements EventDelivery, in which the printer *)
(* and the rule engine follow one log of distinct events.                  *)
(***************************************************************************)
\* d was read before e.
Before(log, d, e) == \E i, j \in DOMAIN log : i < j /\ log[i] = d /\ log[j] = e

SameRoute(d, e) == {d, e} \subseteq NetEvents \/ {d, e} \subseteq LocalEvents

\* A queue, and two sets of events one ahead of the other, in reading order as
\* far as the events take the same route.
InOrder(log, q) == \A i, j \in DOMAIN q : i < j /\ SameRoute(q[i], q[j]) => Before(log, q[i], q[j])
Ahead(log, S, T) == \A d \in S, e \in T : SameRoute(d, e) => Before(log, d, e)

\* The places between the reader and the consumers, the last one first: what
\* was admitted, the event the fan-out goroutine holds, eventsCh, the event the
\* fan-in goroutine holds, corr.output, and the event the reader sends.  Each
\* is ahead of all that are behind it.
PlacesInOrder(log, A, F, E, I, C, R) ==
    /\ Ahead(log, A, F \cup E \cup I \cup C \cup R)
    /\ Ahead(log, F, E \cup I \cup C \cup R)
    /\ Ahead(log, E, I \cup C \cup R)
    /\ Ahead(log, I, C \cup R)
    /\ Ahead(log, C, R)

AtReader == {reader} \ {NoEvent}
AtFanIn == {fanIn} \ {NoEvent}
AtFanOut == IF fanOut.at \in {"filter", "output"} THEN {fanOut.ev} ELSE {}

\* No record is read twice, and what is on its way has been read.
ReadOnce ==
    /\ IsInjective(readLog)
    /\ Range(readLog) \cap unread = {}
    /\ Range(admitted) \cup AtFanOut \cup Range(eventsCh.buf) \cup AtFanIn
         \cup Range(corrOutput.buf) \cup AtReader \subseteq Range(readLog)

\* Only connections go through corr.output.
CorrCarriesNet == AtFanIn \cup Range(corrOutput.buf) \subseteq NetEvents

QueuesInOrder ==
    /\ InOrder(readLog, admitted)
    /\ InOrder(readLog, eventsCh.buf)
    /\ InOrder(readLog, corrOutput.buf)

RouteInv ==
    /\ ReadOnce
    /\ CorrCarriesNet
    /\ QueuesInOrder
    /\ PlacesInOrder(readLog, Range(admitted), AtFanOut, Range(eventsCh.buf),
                     AtFanIn, Range(corrOutput.buf), AtReader)

\* What the consumers have taken and what waits for them is what was admitted.
EngineQueue == IF fanOut.at = "engine" THEN Append(engineCh.buf, fanOut.ev) ELSE engineCh.buf

LogsAgree ==
    /\ admitted = printedEvents \o outputCh.buf
    /\ admitted = processed \o EngineQueue

-----------------------------------------------------------------------------
\* A record that is read later changes nothing in the order of the others ...
LEMMA BeforeGrows ==
    ASSUME NEW log \in Seq(Events), NEW x \in Events, NEW d, NEW e, Before(log, d, e)
    PROVE  Before(Append(log, x), d, e)
<1>1. PICK i, j \in DOMAIN log : i < j /\ log[i] = d /\ log[j] = e
  BY DEF Before
<1>2. /\ i \in DOMAIN Append(log, x) /\ j \in DOMAIN Append(log, x)
      /\ Append(log, x)[i] = d /\ Append(log, x)[j] = e
  BY <1>1
<1> QED
  BY <1>1, <1>2 DEF Before

\* ... and comes after all of them.
LEMMA BeforeNewest ==
    ASSUME NEW log \in Seq(Events), NEW x \in Events, NEW d \in Range(log)
    PROVE  Before(Append(log, x), d, x)
<1>1. PICK i \in DOMAIN log : log[i] = d
  BY DEF Range
<1>2. /\ i \in DOMAIN Append(log, x) /\ Len(log) + 1 \in DOMAIN Append(log, x)
      /\ i < Len(log) + 1
      /\ Append(log, x)[i] = d /\ Append(log, x)[Len(log) + 1] = x
  BY <1>1
<1> QED
  BY <1>2 DEF Before

\* Without a record read twice, nothing is read before itself.
LEMMA BeforeIrreflexive ==
    ASSUME NEW log \in Seq(Events), IsInjective(log), NEW e
    PROVE  ~Before(log, e, e)
<1> SUFFICES ASSUME Before(log, e, e) PROVE FALSE
  OBVIOUS
<1>1. PICK i, j \in DOMAIN log : i < j /\ log[i] = e /\ log[j] = e
  BY DEF Before
<1>2. i = j
  BY <1>1 DEF IsInjective
<1>3. i \in Nat
  OBVIOUS
<1> QED
  BY <1>1, <1>2, <1>3

\* Order is kept by reading on.
LEMMA OrderGrows ==
    ASSUME NEW log \in Seq(Events), NEW x \in Events
    PROVE  /\ \A q : InOrder(log, q) => InOrder(Append(log, x), q)
           /\ \A S, T : Ahead(log, S, T) => Ahead(Append(log, x), S, T)
           /\ \A S : S \subseteq Range(log) => Ahead(Append(log, x), S, {x})
<1>1. \A d, e : Before(log, d, e) => Before(Append(log, x), d, e)
  BY BeforeGrows
<1>2. \A d \in Range(log) : Before(Append(log, x), d, x)
  BY BeforeNewest
<1>3. ASSUME NEW q, InOrder(log, q) PROVE InOrder(Append(log, x), q)
  BY <1>1, <1>3, Zenon DEF InOrder
<1>4. ASSUME NEW S, NEW T, Ahead(log, S, T) PROVE Ahead(Append(log, x), S, T)
  BY <1>1, <1>4, Zenon DEF Ahead
<1>5. ASSUME NEW S, S \subseteq Range(log) PROVE Ahead(Append(log, x), S, {x})
  BY <1>2, <1>5, Zenon DEF Ahead
<1> QED
  BY <1>3, <1>4, <1>5, Zenon

\* An event joins a queue that is ahead of it.
LEMMA InOrderAppend ==
    ASSUME NEW log, NEW q \in Seq(Events), NEW x \in Events,
           InOrder(log, q), Ahead(log, Range(q), {x})
    PROVE  InOrder(log, Append(q, x))
<1> SUFFICES ASSUME NEW i \in DOMAIN Append(q, x), NEW j \in DOMAIN Append(q, x), i < j,
                    SameRoute(Append(q, x)[i], Append(q, x)[j])
             PROVE  Before(log, Append(q, x)[i], Append(q, x)[j])
  BY DEF InOrder
<1>1. /\ DOMAIN q = 1..Len(q) /\ Len(q) \in Nat
      /\ DOMAIN Append(q, x) = 1..(Len(q) + 1)
      /\ \A k \in 1..Len(q) : Append(q, x)[k] = q[k]
      /\ Append(q, x)[Len(q) + 1] = x
  BY AppendFacts
<1>2. i \in DOMAIN q /\ Append(q, x)[i] = q[i]
  BY <1>1
<1>3. CASE j = Len(q) + 1
  <2>1. q[i] \in Range(q) /\ Append(q, x)[j] = x
    BY <1>1, <1>2, <1>3 DEF Range
  <2> QED
    BY <1>2, <2>1 DEF Ahead
<1>4. CASE j # Len(q) + 1
  <2>1. j \in DOMAIN q /\ Append(q, x)[j] = q[j]
    BY <1>1, <1>4
  <2> QED
    BY <1>2, <2>1 DEF InOrder
<1> QED
  BY <1>3, <1>4

\* The head of a queue in order is ahead of the rest, which is in order.
LEMMA InOrderTail ==
    ASSUME NEW log, NEW q \in Seq(Events), q # <<>>, InOrder(log, q)
    PROVE  InOrder(log, Tail(q)) /\ Ahead(log, {Head(q)}, Range(Tail(q)))
<1>1. /\ DOMAIN q = 1..Len(q) /\ Len(q) \in Nat /\ Len(q) >= 1
      /\ Head(q) = q[1]
      /\ DOMAIN Tail(q) = 1..(Len(q) - 1)
      /\ \A k \in 1..(Len(q) - 1) : Tail(q)[k] = q[k + 1]
  BY TailFacts
<1>2. ASSUME NEW i \in DOMAIN Tail(q), NEW j \in DOMAIN Tail(q), i < j, SameRoute(Tail(q)[i], Tail(q)[j])
      PROVE  Before(log, Tail(q)[i], Tail(q)[j])
  <2>1. /\ i + 1 \in DOMAIN q /\ j + 1 \in DOMAIN q /\ i + 1 < j + 1
        /\ Tail(q)[i] = q[i + 1] /\ Tail(q)[j] = q[j + 1]
    BY <1>1, <1>2
  <2> QED
    BY <1>2, <2>1 DEF InOrder
<1>3. ASSUME NEW e \in Range(Tail(q)), SameRoute(Head(q), e) PROVE Before(log, Head(q), e)
  <2>1. PICK i \in DOMAIN Tail(q) : e = Tail(q)[i]
    BY <1>3 DEF Range
  <2>2. 1 \in DOMAIN q /\ i + 1 \in DOMAIN q /\ 1 < i + 1 /\ e = q[i + 1]
    BY <1>1, <2>1
  <2> QED
    BY <1>1, <1>3, <2>2 DEF InOrder
<1> QED
  BY <1>2, <1>3 DEF InOrder, Ahead

\* Reading puts an event behind everything.
LEMMA PlacesRead ==
    ASSUME NEW log \in Seq(Events), NEW x \in Events, NEW A, NEW F, NEW E, NEW I, NEW C,
           PlacesInOrder(log, A, F, E, I, C, {}),
           A \cup F \cup E \cup I \cup C \subseteq Range(log)
    PROVE  PlacesInOrder(Append(log, x), A, F, E, I, C, {x})
<1>1. \A d, e : Before(log, d, e) => Before(Append(log, x), d, e)
  BY BeforeGrows
<1>2. \A d \in Range(log) : Before(Append(log, x), d, x)
  BY BeforeNewest
<1> QED
  BY <1>1, <1>2 DEF PlacesInOrder, Ahead

\* An event moves on to the next place; a local event goes from the reader to
\* eventsCh, past connections only.
LEMMA PlacesMove ==
    ASSUME NEW log, NEW A, NEW F, NEW E, NEW I, NEW C, NEW R, NEW x
    PROVE  /\ PlacesInOrder(log, A, F, E, I, C, {x}) => PlacesInOrder(log, A, F, E, I, C \cup {x}, {})
           /\ PlacesInOrder(log, A, F, E, I, C, {x}) /\ x \in LocalEvents /\ I \cup C \subseteq NetEvents
                => PlacesInOrder(log, A, F, E \cup {x}, I, C, {})
           /\ PlacesInOrder(log, A, F, E, {}, {x} \cup C, R) /\ Ahead(log, {x}, C)
                => PlacesInOrder(log, A, F, E, {x}, C, R)
           /\ PlacesInOrder(log, A, F, E, {x}, C, R) => PlacesInOrder(log, A, F, E \cup {x}, {}, C, R)
           /\ PlacesInOrder(log, A, {}, {x} \cup E, I, C, R) /\ Ahead(log, {x}, E)
                => PlacesInOrder(log, A, {x}, E, I, C, R)
           /\ PlacesInOrder(log, A, {x}, E, I, C, R) => PlacesInOrder(log, A \cup {x}, {}, E, I, C, R)
<1> USE DEF PlacesInOrder
<1>1. PlacesInOrder(log, A, F, E, I, C, {x}) => PlacesInOrder(log, A, F, E, I, C \cup {x}, {})
  BY DEF Ahead
<1>2. PlacesInOrder(log, A, F, E, I, C, {x}) /\ x \in LocalEvents /\ I \cup C \subseteq NetEvents
        => PlacesInOrder(log, A, F, E \cup {x}, I, C, {})
  BY PipelineAssumption DEF Ahead, SameRoute, PipelineAssumption
<1>3. PlacesInOrder(log, A, F, E, {}, {x} \cup C, R) /\ Ahead(log, {x}, C)
        => PlacesInOrder(log, A, F, E, {x}, C, R)
  BY DEF Ahead
<1>4. PlacesInOrder(log, A, F, E, {x}, C, R) => PlacesInOrder(log, A, F, E \cup {x}, {}, C, R)
  BY DEF Ahead
<1>5. PlacesInOrder(log, A, {}, {x} \cup E, I, C, R) /\ Ahead(log, {x}, E)
        => PlacesInOrder(log, A, {x}, E, I, C, R)
  BY DEF Ahead
<1>6. PlacesInOrder(log, A, {x}, E, I, C, R) => PlacesInOrder(log, A \cup {x}, {}, E, I, C, R)
  BY DEF Ahead
<1> QED
  BY <1>1, <1>2, <1>3, <1>4, <1>5, <1>6, Zenon

\* An event is dropped from eventsCh or by the filter.
LEMMA PlacesDrop ==
    ASSUME NEW log, NEW A, NEW F, NEW E, NEW I, NEW C, NEW R, NEW x
    PROVE  /\ PlacesInOrder(log, A, F, {x} \cup E, I, C, R) => PlacesInOrder(log, A, F, E, I, C, R)
           /\ PlacesInOrder(log, A, F, E, I, C, R) => PlacesInOrder(log, A, {}, E, I, C, R)
  BY DEF PlacesInOrder, Ahead

-----------------------------------------------------------------------------
routeVars == <<readLog, unread, admitted, fanOut, eventsCh, fanIn, corrOutput, reader>>

\* The steps that move an event along the route; no other step touches it.
LEMMA RouteSteps ==
    ASSUME [Next]_vars
    PROVE  \/ \E e \in Events : Read(e)
           \/ SendConnection \/ SendLocal \/ FanInReceive \/ FanInSend \/ FanInEnd
           \/ FanOutReceive \/ FanOutFilter \/ FanOutOutput \/ FanOutEngine \/ CloseCorr
           \/ UNCHANGED routeVars
  BY DEF Next, Reader, ReadFails, FanInStep, FanOutStep, EngineStep, ProcessEvent, emitAlert, Output,
         Learn, Interrupt, SignalStep, CloseRd, CloseEngine, CloseOutput, Panic, Gone,
         vars, mainVars, inVars, linkVars, sortVars, routeVars

\* No event is in two places of the route.
LEMMA RouteDisjoint ==
    ASSUME TypeOK, RouteInv
    PROVE  AtFanOut \cap Range(admitted) = {}
<1>1. readLog \in Seq(Events) /\ IsInjective(readLog) /\ Ahead(readLog, Range(admitted), AtFanOut)
  BY DEF TypeOK, RouteInv, ReadOnce, PlacesInOrder, Ahead
<1>2. AtFanOut \subseteq NetEvents \cup LocalEvents
  BY PipelineAssumption DEF TypeOK, AtFanOut, Idle, PipelineAssumption
<1>3. \A e \in AtFanOut : SameRoute(e, e)
  BY <1>2 DEF SameRoute
<1> QED
  BY <1>1, <1>3, BeforeIrreflexive DEF Ahead

\* The route from the ring buffer to the fan-out goroutine keeps its order:
\* each record is read once, each event is in one place, and every place is
\* ahead of the ones behind it.
THEOREM RouteKept == Spec => []RouteInv
<1> USE CapAssumption, PipelineAssumption DEF CapAssumption, PipelineAssumption
<1>1. Init => RouteInv
  <2> SUFFICES ASSUME Init PROVE RouteInv
    OBVIOUS
  <2>1. /\ readLog = <<>> /\ admitted = <<>> /\ eventsCh.buf = <<>> /\ corrOutput.buf = <<>>
        /\ AtFanIn = {} /\ AtReader = {} /\ AtFanOut = {}
    BY DEF Init, NewChan, Idle, AtFanIn, AtReader, AtFanOut
  <2>2. Range(<<>>) = {} /\ DOMAIN <<>> = {}
    BY DEF Range
  <2>3. ReadOnce /\ CorrCarriesNet
    BY <2>1, <2>2 DEF ReadOnce, CorrCarriesNet, IsInjective
  <2>4. QueuesInOrder
    BY <2>1, <2>2 DEF QueuesInOrder, InOrder
  <2>5. PlacesInOrder(readLog, {}, {}, {}, {}, {}, {})
    BY DEF PlacesInOrder, Ahead
  <2> QED
    BY <2>1, <2>2, <2>3, <2>4, <2>5 DEF RouteInv
<1>2. TypeOK /\ RouteInv /\ [Next]_vars => RouteInv'
  <2> SUFFICES ASSUME TypeOK, RouteInv, [Next]_vars PROVE RouteInv'
    OBVIOUS
  <2>0. /\ corrOutput \in Chan(Events) /\ Len(corrOutput.buf) <= Cap /\ corrOutput.buf \in Seq(Events)
        /\ eventsCh \in Chan(Events) /\ Len(eventsCh.buf) <= Cap /\ eventsCh.buf \in Seq(Events)
        /\ readLog \in Seq(Events) /\ admitted \in Seq(Events)
        /\ Cap \in Nat
    BY DEF TypeOK, Chan
  <2> DEFINE A == Range(admitted)
             E == Range(eventsCh.buf)
             C == Range(corrOutput.buf)
  <2>1. ASSUME NEW e \in Events, Read(e) PROVE RouteInv'
    <3>1. /\ e \in unread /\ unread' = unread \ {e} /\ readLog' = Append(readLog, e)
          /\ UNCHANGED <<admitted, fanOut, eventsCh, fanIn, corrOutput>>
          /\ AtReader = {} /\ AtReader' = {e}
      BY <2>1 DEF Read, linkVars, sortVars, AtReader
    <3>2. AtFanOut' = AtFanOut /\ AtFanIn' = AtFanIn
      BY <3>1 DEF AtFanOut, AtFanIn
    <3>3. Range(readLog') = Range(readLog) \cup {e}
      BY <2>0, <3>1, RangeAppend
    <3>4. IsInjective(readLog')
      <4>1. e \notin Range(readLog)
        BY <3>1 DEF RouteInv, ReadOnce
      <4>2. /\ DOMAIN readLog = 1..Len(readLog) /\ Len(readLog) \in Nat
            /\ DOMAIN readLog' = 1..(Len(readLog) + 1)
            /\ \A i \in 1..Len(readLog) : readLog'[i] = readLog[i] /\ readLog[i] # e
            /\ readLog'[Len(readLog) + 1] = e
        BY <2>0, <3>1, <4>1, AppendFacts DEF Range
      <4>3. \A i, j \in DOMAIN readLog : readLog[i] = readLog[j] => i = j
        BY DEF RouteInv, ReadOnce, IsInjective
      <4> QED
        BY <4>2, <4>3 DEF IsInjective
    <3>5. ReadOnce'
      BY <3>1, <3>2, <3>3, <3>4 DEF RouteInv, ReadOnce
    <3>6. CorrCarriesNet'
      BY <3>1, <3>2 DEF RouteInv, CorrCarriesNet
    <3>7. QueuesInOrder'
      BY <2>0, <3>1, OrderGrows DEF RouteInv, QueuesInOrder
    <3>8. PlacesInOrder(Append(readLog, e), A, AtFanOut, E, AtFanIn, C, {e})
      BY <2>0, <3>1, PlacesRead DEF RouteInv, ReadOnce
    <3> QED
      BY <3>1, <3>2, <3>5, <3>6, <3>7, <3>8 DEF RouteInv
  <2>2. CASE SendConnection
    <3>1. /\ reader \in NetEvents /\ reader \in Events
          /\ UNCHANGED <<readLog, unread, admitted, fanOut, eventsCh, fanIn>>
          /\ AtReader = {reader} /\ AtReader' = {}
      BY <2>2 DEF SendConnection, sortVars, AtReader
    <3>2. corrOutput'.buf = Append(corrOutput.buf, reader)
      <4>1. CanSend(corrOutput, Cap) /\ corrOutput' = Sent(corrOutput, reader)
        BY <2>2 DEF SendConnection
      <4> QED
        BY ONLY <2>0, <3>1, <4>1, SentFacts
    <3>3. Range(corrOutput'.buf) = C \cup {reader}
      BY ONLY <2>0, <3>1, <3>2, RangeAppend
    <3>4. AtFanOut' = AtFanOut /\ AtFanIn' = AtFanIn
      BY <3>1 DEF AtFanOut, AtFanIn
    <3>5. ReadOnce' /\ CorrCarriesNet'
      BY <3>1, <3>3, <3>4 DEF RouteInv, ReadOnce, CorrCarriesNet
    <3>6. InOrder(readLog, corrOutput'.buf)
      <4>1. Ahead(readLog, C, {reader}) /\ InOrder(readLog, corrOutput.buf)
        BY <3>1 DEF RouteInv, PlacesInOrder, QueuesInOrder
      <4> QED
        BY ONLY <2>0, <3>1, <3>2, <4>1, InOrderAppend
    <3>7. QueuesInOrder'
      BY <3>1, <3>6 DEF RouteInv, QueuesInOrder
    <3>8. PlacesInOrder(readLog, A, AtFanOut, E, AtFanIn, C \cup {reader}, {})
      BY <3>1, PlacesMove DEF RouteInv
    <3> QED
      BY <3>1, <3>3, <3>4, <3>5, <3>7, <3>8 DEF RouteInv
  <2>3. CASE SendLocal
    <3>1. /\ reader \in LocalEvents /\ reader \in Events
          /\ UNCHANGED <<readLog, unread, admitted, fanOut, corrOutput, fanIn>>
          /\ AtReader = {reader} /\ AtReader' = {}
      BY <2>3 DEF SendLocal, sortVars, AtReader
    <3>2. eventsCh'.buf = Append(eventsCh.buf, reader)
      BY <2>0, <2>3, <3>1, SentFacts DEF SendLocal
    <3>3. Range(eventsCh'.buf) = E \cup {reader}
      BY ONLY <2>0, <3>1, <3>2, RangeAppend
    <3>4. AtFanOut' = AtFanOut /\ AtFanIn' = AtFanIn
      BY <3>1 DEF AtFanOut, AtFanIn
    <3>5. ReadOnce' /\ CorrCarriesNet'
      BY <3>1, <3>3, <3>4 DEF RouteInv, ReadOnce, CorrCarriesNet
    <3>6. InOrder(readLog, eventsCh'.buf)
      <4>1. Ahead(readLog, E, {reader}) /\ InOrder(readLog, eventsCh.buf)
        BY <3>1 DEF RouteInv, PlacesInOrder, QueuesInOrder, Ahead
      <4> QED
        BY <2>0, <3>1, <3>2, <4>1, InOrderAppend
    <3>7. QueuesInOrder'
      BY <3>1, <3>6 DEF RouteInv, QueuesInOrder
    <3>8. PlacesInOrder(readLog, A, AtFanOut, E \cup {reader}, AtFanIn, C, {})
      <4>1. PlacesInOrder(readLog, A, AtFanOut, E, AtFanIn, C, {reader}) /\ AtFanIn \cup C \subseteq NetEvents
        BY <3>1 DEF RouteInv, CorrCarriesNet
      <4> QED
        BY ONLY <3>1, <4>1, PlacesMove
    <3> QED
      BY <3>1, <3>3, <3>4, <3>5, <3>7, <3>8 DEF RouteInv
  <2>4. CASE FanInReceive
    <3> DEFINE x == Head(corrOutput.buf)
               T == Range(Tail(corrOutput.buf))
    <3>1. UNCHANGED <<readLog, unread, admitted, fanOut, eventsCh, reader>>
      BY <2>4 DEF FanInReceive, inVars, sortVars
    <3>2. /\ corrOutput.buf # <<>> /\ x \in Events
          /\ corrOutput'.buf = Tail(corrOutput.buf)
      BY <2>0, <2>4, ReceivedFacts DEF FanInReceive
    <3>3. AtFanIn = {} /\ AtFanIn' = {x}
      BY <2>4, <3>2 DEF FanInReceive, AtFanIn
    <3>4. C = {x} \cup T
      BY <2>0, <3>2, RangeHeadTail
    <3>5. AtFanOut' = AtFanOut /\ AtReader' = AtReader
      BY <3>1 DEF AtFanOut, AtReader
    <3>6. ReadOnce' /\ CorrCarriesNet'
      BY <3>1, <3>2, <3>3, <3>4, <3>5 DEF RouteInv, ReadOnce, CorrCarriesNet
    <3>7. InOrder(readLog, Tail(corrOutput.buf)) /\ Ahead(readLog, {x}, T)
      BY <2>0, <3>2, InOrderTail DEF RouteInv, QueuesInOrder
    <3>8. QueuesInOrder'
      BY <3>1, <3>2, <3>7 DEF RouteInv, QueuesInOrder
    <3>9. PlacesInOrder(readLog, A, AtFanOut, E, {x}, T, AtReader)
      BY <3>3, <3>4, <3>7, PlacesMove DEF RouteInv
    <3> QED
      BY <3>1, <3>2, <3>3, <3>5, <3>6, <3>8, <3>9 DEF RouteInv
  <2>5. CASE FanInSend
    <3>1. /\ fanIn \in Events
          /\ UNCHANGED <<readLog, unread, admitted, fanOut, corrOutput, reader>>
          /\ AtFanIn = {fanIn} /\ AtFanIn' = {}
      BY <2>5 DEF FanInSend, inVars, sortVars, AtFanIn, TypeOK
    <3>2. eventsCh'.buf = Append(eventsCh.buf, fanIn)
      <4>1. CanSend(eventsCh, Cap) /\ eventsCh' = Sent(eventsCh, fanIn)
        BY <2>5 DEF FanInSend
      <4> QED
        BY ONLY <2>0, <3>1, <4>1, SentFacts
    <3>3. Range(eventsCh'.buf) = E \cup {fanIn}
      BY <2>0, <3>1, <3>2, RangeAppend
    <3>4. AtFanOut' = AtFanOut /\ AtReader' = AtReader
      BY <3>1 DEF AtFanOut, AtReader
    <3>5. ReadOnce' /\ CorrCarriesNet'
      BY <3>1, <3>3, <3>4 DEF RouteInv, ReadOnce, CorrCarriesNet
    <3>6. InOrder(readLog, eventsCh'.buf)
      <4>1. Ahead(readLog, E, {fanIn}) /\ InOrder(readLog, eventsCh.buf)
        BY <3>1 DEF RouteInv, PlacesInOrder, QueuesInOrder, Ahead
      <4> QED
        BY <2>0, <3>1, <3>2, <4>1, InOrderAppend
    <3>7. QueuesInOrder'
      BY <3>1, <3>6 DEF RouteInv, QueuesInOrder
    <3>8. PlacesInOrder(readLog, A, AtFanOut, E \cup {fanIn}, {}, C, AtReader)
      BY <3>1, PlacesMove DEF RouteInv
    <3> QED
      BY <3>1, <3>3, <3>4, <3>5, <3>7, <3>8 DEF RouteInv
  <2>6. CASE FanInEnd \/ CloseCorr
    <3>1. /\ UNCHANGED <<readLog, unread, admitted, fanOut, fanIn, reader>>
          /\ eventsCh'.buf = eventsCh.buf /\ corrOutput'.buf = corrOutput.buf
      BY <2>0, <2>6, ClosedFacts DEF FanInEnd, CloseCorr, inVars, sortVars
    <3> QED
      BY <3>1 DEF RouteInv, ReadOnce, CorrCarriesNet, QueuesInOrder, AtFanOut, AtFanIn, AtReader
  <2>7. CASE FanOutReceive
    <3> DEFINE x == Head(eventsCh.buf)
               T == Range(Tail(eventsCh.buf))
    <3>1. UNCHANGED <<readLog, unread, admitted, corrOutput, fanIn, reader>> /\ AtFanOut = {}
      BY <2>7 DEF FanOutReceive, inVars, AtFanOut
    <3>2. /\ eventsCh.buf # <<>> /\ x \in Events
          /\ eventsCh'.buf = Tail(eventsCh.buf)
          /\ UNCHANGED fanOut \/ fanOut' = [at |-> "filter", ev |-> x]
      BY <2>7, FanOutReceiveFacts
    <3>3. E = {x} \cup T
      BY <2>0, <3>2, RangeHeadTail
    <3>4. AtFanIn' = AtFanIn /\ AtReader' = AtReader /\ (AtFanOut' = {} \/ AtFanOut' = {x})
      BY <3>1, <3>2 DEF AtFanOut, AtFanIn, AtReader
    <3>5. ReadOnce' /\ CorrCarriesNet'
      BY <3>1, <3>2, <3>3, <3>4 DEF RouteInv, ReadOnce, CorrCarriesNet
    <3>6. InOrder(readLog, Tail(eventsCh.buf)) /\ Ahead(readLog, {x}, T)
      BY <2>0, <3>2, InOrderTail DEF RouteInv, QueuesInOrder
    <3>7. QueuesInOrder'
      BY <3>1, <3>2, <3>6 DEF RouteInv, QueuesInOrder
    <3>8. PlacesInOrder(readLog, A, {}, {x} \cup T, AtFanIn, C, AtReader)
      BY <3>1, <3>3 DEF RouteInv
    <3>9. PlacesInOrder(readLog, A, {}, T, AtFanIn, C, AtReader)
      BY <3>8, PlacesDrop
    <3>10. PlacesInOrder(readLog, A, {x}, T, AtFanIn, C, AtReader)
      BY <3>6, <3>8, PlacesMove
    <3> QED
      BY <3>1, <3>2, <3>4, <3>5, <3>7, <3>9, <3>10 DEF RouteInv
  <2>8. CASE FanOutFilter
    <3>1. UNCHANGED <<readLog, unread, admitted, eventsCh, corrOutput, fanIn, reader>> /\ AtFanOut = {fanOut.ev}
      BY <2>8 DEF FanOutFilter, inVars, linkVars, AtFanOut
    <3>2. AtFanIn' = AtFanIn /\ AtReader' = AtReader /\ (AtFanOut' = {} \/ AtFanOut' = AtFanOut)
      <4>1. AtFanIn' = AtFanIn /\ AtReader' = AtReader
        BY <3>1 DEF AtFanIn, AtReader
      <4>2. CASE fanOut' = Idle
        BY <4>1, <4>2 DEF AtFanOut, Idle
      <4>3. CASE fanOut' = [at |-> "output", ev |-> fanOut.ev]
        BY <3>1, <4>1, <4>3 DEF AtFanOut
      <4> QED
        BY <2>8, <4>2, <4>3, FanOutFilterFacts
    <3>3. ReadOnce' /\ CorrCarriesNet' /\ QueuesInOrder'
      BY <3>1, <3>2 DEF RouteInv, ReadOnce, CorrCarriesNet, QueuesInOrder
    <3>4. PlacesInOrder(readLog, A, {}, E, AtFanIn, C, AtReader)
      BY PlacesDrop DEF RouteInv
    <3> QED
      BY <3>1, <3>2, <3>3, <3>4 DEF RouteInv
  <2>9. CASE FanOutOutput
    <3> DEFINE x == fanOut.ev
    <3>1. /\ UNCHANGED <<readLog, unread, eventsCh, corrOutput, fanIn, reader>>
          /\ admitted' = Append(admitted, x)
      BY <2>9 DEF FanOutOutput, inVars, linkVars
    <3>2. x \in Events /\ AtFanOut = {x} /\ AtFanOut' = {} /\ AtFanIn' = AtFanIn /\ AtReader' = AtReader
      BY <2>9, <3>1, FanOutSendFacts DEF FanOutOutput, AtFanOut, AtFanIn, AtReader
    <3>3. Range(admitted') = A \cup {x}
      BY <2>0, <3>1, <3>2, RangeAppend
    <3>4. ReadOnce' /\ CorrCarriesNet'
      BY <3>1, <3>2, <3>3 DEF RouteInv, ReadOnce, CorrCarriesNet
    <3>5. InOrder(readLog, admitted')
      <4>1. Ahead(readLog, A, {x}) /\ InOrder(readLog, admitted)
        BY <3>2 DEF RouteInv, PlacesInOrder, QueuesInOrder, Ahead
      <4> QED
        BY <2>0, <3>1, <3>2, <4>1, InOrderAppend
    <3>6. QueuesInOrder'
      BY <3>1, <3>5 DEF RouteInv, QueuesInOrder
    <3>7. PlacesInOrder(readLog, A \cup {x}, {}, E, AtFanIn, C, AtReader)
      BY <3>2, PlacesMove DEF RouteInv
    <3> QED
      BY <3>1, <3>2, <3>3, <3>4, <3>6, <3>7 DEF RouteInv
  <2>10. CASE FanOutEngine
    <3>1. UNCHANGED <<readLog, unread, admitted, eventsCh, corrOutput, fanIn, reader>>
      BY <2>10 DEF FanOutEngine, inVars, linkVars
    <3>2. AtFanOut = {} /\ AtFanOut' = {} /\ AtFanIn' = AtFanIn /\ AtReader' = AtReader
      BY <2>10, <3>1 DEF FanOutEngine, AtFanOut, AtFanIn, AtReader, Idle
    <3> QED
      BY <3>1, <3>2 DEF RouteInv, ReadOnce, CorrCarriesNet, QueuesInOrder
  <2>11. CASE UNCHANGED routeVars
    BY <2>11 DEF routeVars, RouteInv, ReadOnce, CorrCarriesNet, QueuesInOrder, AtFanOut, AtFanIn, AtReader
  <2> QED
    BY <2>1, <2>2, <2>3, <2>4, <2>5, <2>6, <2>7, <2>8, <2>9, <2>10, <2>11, RouteSteps
<1> QED
  BY <1>1, <1>2, PipelineTypeCorrect, PTL DEF Spec

\* Two events of one route are admitted in the order their records were read,
\* for any number of events on the way and any capacity of the channels.
THEOREM OneRouteOneOrder == Spec => []RouteOrder
<1>1. TypeOK /\ RouteInv => RouteOrder
  <2> SUFFICES ASSUME TypeOK, RouteInv,
                      NEW i \in DOMAIN admitted, NEW j \in DOMAIN admitted, i < j,
                      SameRoute(admitted[i], admitted[j])
               PROVE  ReadAt(admitted[i]) < ReadAt(admitted[j])
    BY DEF RouteOrder, SameRoute
  <2>1. PICK m, n \in DOMAIN readLog : m < n /\ readLog[m] = admitted[i] /\ readLog[n] = admitted[j]
    BY DEF RouteInv, QueuesInOrder, InOrder, Before
  <2>2. \A k, l \in DOMAIN readLog : readLog[k] = readLog[l] => k = l
    BY DEF RouteInv, ReadOnce, IsInjective
  <2>3. ReadAt(admitted[i]) = m
    BY <2>1, <2>2 DEF ReadAt
  <2>4. ReadAt(admitted[j]) = n
    BY <2>1, <2>2 DEF ReadAt
  <2> QED
    BY <2>1, <2>3, <2>4
<1> QED
  BY <1>1, RouteKept, PipelineTypeCorrect, PTL

-----------------------------------------------------------------------------
logVars == <<admitted, printedEvents, processed, fanOut, engineCh, outputCh>>

\* The steps that change what the two consumers have or wait for.
LEMMA LogSteps ==
    ASSUME [Next]_vars
    PROVE  \/ FanOutReceive \/ FanOutFilter \/ FanOutOutput \/ FanOutEngine \/ ProcessEvent
           \/ OutputEvent /\ UNCHANGED mainVars
           \/ CloseEngine \/ CloseOutput
           \/ UNCHANGED logVars
  BY DEF Next, Read, Reader, ReadFails, SendConnection, SendLocal, FanInStep, FanInReceive, FanInSend, FanInEnd,
         FanOutStep, EngineStep, emitAlert, Output, OutputStep, OutputChEnd, OutputAlert, AlertsChEnd,
         Learn, Interrupt, SignalStep, CloseRd, CloseCorr, Panic, Gone,
         vars, mainVars, sortVars, ruleVars, outVars, loopVars, logVars

\* The queues behind the fan-out goroutine, with the event it still has to
\* send to the rule engine.
LEMMA QueueTypes ==
    ASSUME TypeOK
    PROVE  /\ engineCh.buf \in Seq(Events) /\ outputCh.buf \in Seq(Events)
           /\ admitted \in Seq(Events) /\ printedEvents \in Seq(Events) /\ processed \in Seq(Events)
           /\ fanOut.at # "receive" => fanOut.ev \in Events
           /\ EngineQueue \in Seq(Events)
<1>1. /\ engineCh.buf \in Seq(Events) /\ outputCh.buf \in Seq(Events)
      /\ admitted \in Seq(Events) /\ printedEvents \in Seq(Events) /\ processed \in Seq(Events)
  BY DEF TypeOK, OutTypeOK, Chan
<1>2. fanOut.at # "receive" => fanOut.ev \in Events
  BY DEF TypeOK, Idle
<1> QED
  BY <1>1, <1>2 DEF EngineQueue

\* The rule engine takes the head of EngineQueue.
LEMMA ProcessEventQueue ==
    ASSUME TypeOK, ProcessEvent
    PROVE  /\ EngineQueue # <<>>
           /\ Head(EngineQueue) = Head(engineCh.buf)
           /\ EngineQueue' = Tail(EngineQueue)
<1>1. engineCh.buf \in Seq(Events) /\ engineCh.buf # <<>> /\ engineCh'.buf = Tail(engineCh.buf)
  BY ProcessEventFacts
<1>2. UNCHANGED fanOut /\ (fanOut.at # "receive" => fanOut.ev \in Events)
  BY QueueTypes DEF ProcessEvent, sortVars
<1>3. CASE fanOut.at = "engine"
  <2>1. /\ Append(engineCh.buf, fanOut.ev) # <<>>
        /\ Head(Append(engineCh.buf, fanOut.ev)) = Head(engineCh.buf)
        /\ Tail(Append(engineCh.buf, fanOut.ev)) = Append(Tail(engineCh.buf), fanOut.ev)
    BY <1>1, <1>2, <1>3
  <2> QED
    BY <1>1, <1>2, <1>3, <2>1 DEF EngineQueue
<1>4. CASE fanOut.at # "engine"
  BY <1>1, <1>2, <1>4 DEF EngineQueue
<1> QED
  BY <1>3, <1>4

\* The printer takes the head of outputCh.
LEMMA OutputEventFacts ==
    ASSUME TypeOK, OutputEvent
    PROVE  /\ outputCh.buf # <<>> /\ Head(outputCh.buf) \in Events
           /\ outputCh'.buf = Tail(outputCh.buf)
           /\ printedEvents' = Append(printedEvents, Head(outputCh.buf))
  BY CapAssumption, ReceivedFacts DEF OutputEvent, TypeOK, OutTypeOK, CapAssumption

\* What either consumer has taken, followed by what waits for it, is the log
\* of admitted events: the two never see different events or another order.
THEOREM ConsumersAgree == Spec => []LogsAgree
<1>1. Init => LogsAgree
  <2> SUFFICES ASSUME Init PROVE LogsAgree
    OBVIOUS
  <2>1. /\ admitted = <<>> /\ printedEvents = <<>> /\ processed = <<>>
        /\ outputCh.buf = <<>> /\ engineCh.buf = <<>> /\ fanOut.at = "receive"
    BY DEF Init, OutInit, NewChan, Idle
  <2> QED
    BY <2>1 DEF LogsAgree, EngineQueue
<1>2. TypeOK /\ LogsAgree /\ [Next]_vars => LogsAgree'
  <2> SUFFICES ASSUME TypeOK, LogsAgree, [Next]_vars PROVE LogsAgree'
    OBVIOUS
  <2>0. /\ engineCh.buf \in Seq(Events) /\ outputCh.buf \in Seq(Events) /\ EngineQueue \in Seq(Events)
        /\ admitted \in Seq(Events) /\ printedEvents \in Seq(Events) /\ processed \in Seq(Events)
        /\ engineCh \in Chan(Events) /\ outputCh \in Chan(Events)
    BY QueueTypes DEF TypeOK, OutTypeOK
  <2>1. CASE FanOutReceive \/ FanOutFilter
    <3>1. UNCHANGED <<admitted, printedEvents, processed, engineCh, outputCh>> /\ fanOut.at # "engine"
      BY <2>1 DEF FanOutReceive, FanOutFilter, ruleVars, outVars, loopVars
    <3>2. fanOut'.at # "engine"
      BY <2>1, <3>1, FanOutReceiveFacts, FanOutFilterFacts DEF Idle
    <3> QED
      BY <3>1, <3>2 DEF LogsAgree, EngineQueue
  <2>2. CASE FanOutOutput
    <3>1. /\ admitted' = Append(admitted, fanOut.ev) /\ UNCHANGED <<printedEvents, processed, engineCh>>
          /\ fanOut.at = "output"
      BY <2>2 DEF FanOutOutput, ruleVars, loopVars
    <3>2. /\ fanOut.ev \in Events /\ outputCh'.buf = Append(outputCh.buf, fanOut.ev)
          /\ fanOut' = [at |-> "engine", ev |-> fanOut.ev]
      BY <2>2, FanOutSendFacts
    <3>3. EngineQueue = engineCh.buf /\ EngineQueue' = Append(engineCh.buf, fanOut.ev)
      BY <3>1, <3>2 DEF EngineQueue
    <3>4. printedEvents' \o outputCh'.buf = Append(printedEvents \o outputCh.buf, fanOut.ev)
      <4>0. printedEvents \in Seq(Events) /\ outputCh.buf \in Seq(Events) /\ fanOut.ev \in Events
        BY <2>0, <3>2
      <4>1. printedEvents \o Append(outputCh.buf, fanOut.ev) = Append(printedEvents \o outputCh.buf, fanOut.ev)
        BY ONLY <4>0, JoinOne
      <4> QED
        BY <3>1, <3>2, <4>1, Zenon
    <3>5. processed' \o EngineQueue' = Append(processed \o EngineQueue, fanOut.ev)
      <4>0. processed \in Seq(Events) /\ engineCh.buf \in Seq(Events) /\ fanOut.ev \in Events
        BY <2>0, <3>2
      <4>1. processed \o Append(engineCh.buf, fanOut.ev) = Append(processed \o engineCh.buf, fanOut.ev)
        BY ONLY <4>0, JoinOne
      <4> QED
        BY <3>1, <3>3, <4>1, Zenon
    <3> QED
      BY <3>1, <3>4, <3>5 DEF LogsAgree
  <2>3. CASE FanOutEngine
    <3>1. UNCHANGED <<admitted, printedEvents, processed, outputCh>> /\ fanOut.at = "engine"
      BY <2>3 DEF FanOutEngine, outVars, loopVars
    <3>2. EngineQueue' = EngineQueue
      BY <2>3, <3>1, FanOutSendFacts DEF EngineQueue, Idle
    <3> QED
      BY <3>1, <3>2 DEF LogsAgree
  <2>4. CASE ProcessEvent
    <3>1. UNCHANGED <<admitted, printedEvents, outputCh>>
      BY <2>4 DEF ProcessEvent, sortVars, outVars, loopVars
    <3>2. processed' = Append(processed, Head(EngineQueue)) /\ EngineQueue # <<>> /\ EngineQueue' = Tail(EngineQueue)
      BY <2>4, ProcessEventFacts, ProcessEventQueue
    <3>3. processed' \o EngineQueue' = processed \o EngineQueue
      BY <2>0, <3>2, TakeOne
    <3> QED
      BY <3>1, <3>3 DEF LogsAgree
  <2>5. CASE OutputEvent /\ UNCHANGED mainVars
    <3>1. UNCHANGED <<admitted, processed, fanOut, engineCh>>
      BY <2>5 DEF mainVars, sortVars, ruleVars
    <3>2. printedEvents' \o outputCh'.buf = printedEvents \o outputCh.buf
      BY <2>0, <2>5, OutputEventFacts, TakeOne
    <3> QED
      BY <3>1, <3>2 DEF LogsAgree, EngineQueue
  <2>6. CASE CloseEngine \/ CloseOutput
    <3>1. /\ UNCHANGED <<admitted, printedEvents, processed, fanOut>>
          /\ engineCh'.buf = engineCh.buf /\ outputCh'.buf = outputCh.buf
      BY <2>0, <2>6, ClosedFacts DEF CloseEngine, CloseOutput, sortVars, ruleVars, outVars, loopVars
    <3> QED
      BY <3>1 DEF LogsAgree, EngineQueue
  <2>7. CASE UNCHANGED logVars
    BY <2>7 DEF logVars, LogsAgree, EngineQueue
  <2> QED
    BY <2>1, <2>2, <2>3, <2>4, <2>5, <2>6, <2>7, LogSteps
<1> QED
  BY <1>1, <1>2, PipelineTypeCorrect, PTL DEF Spec

-----------------------------------------------------------------------------
\* The pipeline implements EventDelivery: sending to outputCh admits an event,
\* which was not admitted before; printing and processing each take the next
\* one of the log; an exit or a panic stops the process.  All other steps,
\* the shutdown's included, are invisible.
THEOREM PipelineDelivers == Spec => DeliverySafe
<1>1. Init => Delivery!Init
  BY DEF Init, OutInit, Delivery!Init, Running
<1>2. TypeOK /\ RouteInv /\ LogsAgree /\ [Next]_vars => [Delivery!Next]_(Delivery!vars)
  <2> SUFFICES ASSUME TypeOK, RouteInv, LogsAgree, [Next]_vars
               PROVE  Delivery!Next \/ UNCHANGED Delivery!vars
    OBVIOUS
  <2> USE DEF Delivery!Next, Delivery!vars, Running
  <2>0. /\ engineCh.buf \in Seq(Events) /\ outputCh.buf \in Seq(Events) /\ EngineQueue \in Seq(Events)
        /\ printedEvents \in Seq(Events) /\ processed \in Seq(Events)
    BY QueueTypes
  <2>1. CASE FanOutOutput
    <3>1. fanOut.ev \in Events
      BY <2>1, FanOutSendFacts
    <3>2. fanOut.ev \notin Range(admitted)
      BY <2>1, RouteDisjoint DEF FanOutOutput, AtFanOut
    <3>3. Delivery!Admit(fanOut.ev)
      BY <2>1, <3>2 DEF FanOutOutput, Delivery!Admit, Delivery!Range, Range, ruleVars, ctlVars, loopVars
    <3> QED
      BY <3>1, <3>3
  <2>2. CASE ProcessEvent
    <3>1. /\ processed' = Append(processed, Head(EngineQueue)) /\ EngineQueue # <<>>
          /\ admitted = processed \o EngineQueue
      BY <2>2, ProcessEventFacts, ProcessEventQueue DEF LogsAgree
    <3>2. Len(processed) < Len(admitted) /\ Head(EngineQueue) = admitted[Len(processed) + 1]
      BY <2>0, <3>1, TakeOne
    <3>3. Delivery!Process1
      BY <2>2, <3>1, <3>2 DEF ProcessEvent, Delivery!Process1, sortVars, ctlVars, outVars, loopVars
    <3> QED
      BY <3>3
  <2>3. CASE Output /\ OutputEvent
    <3>1. /\ printedEvents' = Append(printedEvents, Head(outputCh.buf)) /\ outputCh.buf # <<>>
          /\ admitted = printedEvents \o outputCh.buf
      BY <2>3, OutputEventFacts DEF LogsAgree
    <3>2. Len(printedEvents) < Len(admitted) /\ Head(outputCh.buf) = admitted[Len(printedEvents) + 1]
      BY <2>0, <3>1, TakeOne
    <3>3. Delivery!Print1
      BY <2>3, <3>1, <3>2 DEF Output, Delivery!Print1, mainVars, sortVars, ruleVars, ctlVars
    <3> QED
      BY <3>3
  <2>4. CASE ReadFails \/ Panic
    <3>1. Delivery!Stop
      BY <2>4 DEF ReadFails, Panic, Delivery!Stop, sortVars, ruleVars, outVars, loopVars
    <3> QED
      BY <3>1
  <2>5. CASE UNCHANGED <<admitted, printedEvents, processed, proc>>
    BY <2>5
  <2>6. \/ FanOutOutput \/ ProcessEvent \/ (Output /\ OutputEvent) \/ ReadFails \/ Panic
        \/ UNCHANGED <<admitted, printedEvents, processed, proc>>
    BY DEF Next, Read, Reader, SendConnection, SendLocal, FanInStep, FanInReceive, FanInSend, FanInEnd,
           FanOutStep, FanOutReceive, FanOutFilter, FanOutEngine, EngineStep, emitAlert, Output, OutputStep,
           OutputChEnd, OutputAlert, AlertsChEnd, Learn, Interrupt, SignalStep, CloseRd, CloseCorr,
           CloseEngine, CloseOutput, Gone, vars, mainVars, sortVars, ruleVars, ctlVars, outVars, loopVars
  <2> QED
    BY <2>1, <2>2, <2>3, <2>4, <2>5, <2>6
<1> QED
  BY <1>1, <1>2, PipelineTypeCorrect, RouteKept, ConsumersAgree, PTL DEF Spec, DeliverySafe, Delivery!Spec

-----------------------------------------------------------------------------
(* The filter.                                                             *)

\* The event has its source and, if the resolver knew it from the start, its
\* destination, and the filter lets it through.
Passes(e) ==
    /\ info[e].src = SrcOf[e]
    /\ DstOf[e] \in Known => info[e].dst = DstOf[e]
    /\ FilterSet => {SrcOf[e], DstOf[e]} \cap Matching # {} \/ DstOf[e] \notin Known

\* The event was not wanted.
Unwanted(e) ==
    SrcOf[e] \in Known =>
        FilterSet /\ DstOf[e] \in cache /\ {SrcOf[e], DstOf[e]} \cap Matching = {}

FilterInv ==
    /\ Known \subseteq cache
    /\ fanOut.at # "receive" => info[fanOut.ev].src = SrcOf[fanOut.ev]
    /\ fanOut.at = "output" => Passes(fanOut.ev)
    /\ \A e \in Range(admitted) : Passes(e)
    /\ \A e \in dropped : Unwanted(e)

\* The info of one event changes at one end.
LEMMA InfoEnds ==
    ASSUME NEW I \in [Events -> Info], NEW e \in Events, NEW c
    PROVE  /\ [I EXCEPT ![e].src = c][e].src = c /\ [I EXCEPT ![e].src = c][e].dst = I[e].dst
           /\ [I EXCEPT ![e].dst = c][e].dst = c /\ [I EXCEPT ![e].dst = c][e].src = I[e].src
           /\ \A d \in Events \ {e} : /\ [I EXCEPT ![e].src = c][d] = I[d]
                                      /\ [I EXCEPT ![e].dst = c][d] = I[d]
  BY DEF Info

\* What Resolve says of a container.
LEMMA ResolveFacts ==
    ASSUME TypeOK, NEW c \in Containers \cup {NoContainer}
    PROVE  /\ Resolve(c) = NoContainer => c \notin cache
           /\ Resolve(c) # NoContainer => Resolve(c) = c /\ c \in cache
<1>1. NoContainer \notin cache
  BY PipelineAssumption DEF TypeOK, PipelineAssumption
<1> QED
  BY <1>1 DEF Resolve

\* The first step of the fan-out goroutine.
LEMMA FilterReceive == ASSUME TypeOK, FilterInv, FanOutReceive PROVE FilterInv'
<1> DEFINE e == Head(eventsCh.buf)
           src == Resolve(SrcOf[e])
<1>1. e \in Events
  BY FanOutReceiveFacts
<1>2. SrcOf[e] \in Containers \cup {NoContainer} /\ info \in [Events -> Info] /\ Range(admitted) \subseteq Events
  BY <1>1, PipelineAssumption, RangeInSet DEF PipelineAssumption, TypeOK
<1>3. UNCHANGED <<admitted, cache>>
  BY DEF FanOutReceive
<1>4. CASE src = NoContainer /\ dropped' = dropped \cup {e} /\ UNCHANGED <<fanOut, info>>
  <2>1. SrcOf[e] \notin Known
    BY <1>2, <1>4, ResolveFacts DEF FilterInv
  <2> HIDE DEF e
  <2>2. \A d \in dropped' : Unwanted(d)'
    BY ONLY <1>3, <1>4, <2>1, FilterInv DEF FilterInv, Unwanted
  <2> QED
    BY ONLY <1>3, <1>4, <2>2, FilterInv DEF FilterInv, Passes
<1>5. CASE /\ src # NoContainer /\ fanOut' = [at |-> "filter", ev |-> e]
           /\ info' = [info EXCEPT ![e].src = src] /\ UNCHANGED dropped
  <2>1. src = SrcOf[e]
    BY ONLY <1>2, <1>5, TypeOK, ResolveFacts
  <2> HIDE DEF e, src
  <2>2. /\ info'[e].src = SrcOf[e] /\ info'[e].dst = info[e].dst
        /\ \A d \in Events \ {e} : info'[d] = info[d]
    BY ONLY <1>1, <1>2, <1>5, <2>1, InfoEnds
  <2>3. \A d \in Range(admitted') : Passes(d)'
    BY ONLY <1>2, <1>3, <2>2, FilterInv DEF FilterInv, Passes
  <2>4. \A d \in dropped' : Unwanted(d)'
    BY ONLY <1>3, <1>5, FilterInv DEF FilterInv, Unwanted
  <2>5. fanOut'.at = "filter" /\ fanOut'.ev = e /\ Known \subseteq cache'
    BY ONLY <1>3, <1>5, FilterInv DEF FilterInv
  <2> QED
    BY ONLY <2>2, <2>3, <2>4, <2>5 DEF FilterInv
<1> QED
  BY <1>4, <1>5 DEF FanOutReceive

\* The second step: the filter.
LEMMA FilterStep == ASSUME TypeOK, FilterInv, FanOutFilter PROVE FilterInv'
<1>1. PICK e \in Events : e = fanOut.ev /\ fanOut.at = "filter"
  BY FanOutFilterFacts DEF FanOutFilter
<1> DEFINE dst == Resolve(DstOf[e])
<1>2. /\ DstOf[e] \in Containers \cup {NoContainer} /\ info \in [Events -> Info]
      /\ Range(admitted) \subseteq Events /\ NoContainer \notin Matching
  BY <1>1, PipelineAssumption, RangeInSet DEF PipelineAssumption, TypeOK
<1>3. UNCHANGED <<admitted, cache>>
  BY DEF FanOutFilter
<1>4. /\ dst = NoContainer => DstOf[e] \notin cache
      /\ dst # NoContainer => dst = DstOf[e] /\ DstOf[e] \in cache
  BY <1>2, ResolveFacts
<1>5. info[e].src = SrcOf[e] /\ Known \subseteq cache
  BY <1>1 DEF FilterInv
<1>6. CASE FilterDrops(info[e].src, dst) /\ fanOut' = Idle /\ dropped' = dropped \cup {e} /\ UNCHANGED info
  <2> HIDE DEF dst
  <2>1. FilterSet /\ DstOf[e] \in cache /\ {SrcOf[e], DstOf[e]} \cap Matching = {}
    BY ONLY <1>4, <1>5, <1>6 DEF FilterDrops
  <2>2. \A d \in dropped' : Unwanted(d)'
    BY ONLY <1>3, <1>6, <2>1, FilterInv DEF FilterInv, Unwanted
  <2>3. fanOut'.at = "receive"
    BY ONLY <1>6 DEF Idle
  <2> QED
    BY ONLY <1>3, <1>6, <2>2, <2>3, FilterInv DEF FilterInv, Passes
<1>7. CASE /\ ~FilterDrops(info[e].src, dst) /\ fanOut' = [fanOut EXCEPT !.at = "output"]
           /\ info' = [info EXCEPT ![e].dst = dst] /\ UNCHANGED dropped
  <2>1. fanOut'.at = "output" /\ fanOut'.ev = e
    BY <1>1, <1>7, FanOutMoves DEF TypeOK, Idle
  <2> HIDE DEF dst
  <2>2. /\ info'[e].src = SrcOf[e] /\ info'[e].dst = dst
        /\ \A d \in Events \ {e} : info'[d] = info[d]
    BY ONLY <1>1, <1>2, <1>5, <1>7, InfoEnds
  <2>3. DstOf[e] \in Known => dst = DstOf[e]
    BY ONLY <1>4, <1>5
  <2>4. FilterSet => {SrcOf[e], DstOf[e]} \cap Matching # {} \/ DstOf[e] \notin Known
    BY ONLY <1>4, <1>5, <1>7 DEF FilterDrops
  <2>5. Passes(e)'
    BY ONLY <2>2, <2>3, <2>4 DEF Passes
  <2>6. \A d \in Range(admitted') : Passes(d)'
    <3> SUFFICES ASSUME NEW d \in Range(admitted'), d # e PROVE Passes(d)'
      BY <2>5
    <3>1. d \in Events \ {e} /\ Passes(d)
      BY ONLY <1>2, <1>3, d \in Range(admitted'), d # e, FilterInv DEF FilterInv
    <3> QED
      BY ONLY <2>2, <3>1 DEF Passes
  <2>7. \A d \in dropped' : Unwanted(d)'
    BY ONLY <1>3, <1>7, FilterInv DEF FilterInv, Unwanted
  <2>8. Known \subseteq cache'
    BY ONLY <1>3, <1>5
  <2> QED
    BY ONLY <2>1, <2>2, <2>5, <2>6, <2>7, <2>8 DEF FilterInv
<1> QED
  BY <1>1, <1>6, <1>7 DEF FanOutFilter

\* FilterInv holds in every state.
LEMMA FilterKept == Spec => []FilterInv
<1>1. Init => FilterInv
  <2> SUFFICES ASSUME Init PROVE FilterInv
    OBVIOUS
  <2>1. admitted = <<>> /\ dropped = {} /\ cache = Known /\ fanOut.at = "receive"
    BY DEF Init, Idle
  <2> QED
    BY <2>1 DEF FilterInv, Range
<1>2. TypeOK /\ FilterInv /\ [Next]_vars => FilterInv'
  <2> SUFFICES ASSUME TypeOK, FilterInv, [Next]_vars PROVE FilterInv'
    OBVIOUS
  <2>1. CASE FanOutReceive
    BY <2>1, FilterReceive
  <2>2. CASE FanOutFilter
    BY <2>2, FilterStep
  <2>3. CASE FanOutOutput
    <3>1. UNCHANGED <<info, dropped, cache>> /\ fanOut.at = "output" /\ admitted' = Append(admitted, fanOut.ev)
      BY <2>3 DEF FanOutOutput
    <3>2. fanOut' = [at |-> "engine", ev |-> fanOut.ev] /\ fanOut.ev \in Events
      BY <2>3, FanOutSendFacts
    <3>3. Range(admitted') = Range(admitted) \cup {fanOut.ev}
      BY <3>1, <3>2, RangeAppend DEF TypeOK
    <3>4. fanOut'.at = "engine" /\ fanOut'.ev = fanOut.ev
      BY ONLY <3>2
    <3> QED
      BY ONLY <3>1, <3>3, <3>4, FilterInv DEF FilterInv, Passes, Unwanted
  <2>4. CASE FanOutEngine
    <3>1. UNCHANGED <<info, dropped, cache, admitted>>
      BY <2>4 DEF FanOutEngine
    <3>2. fanOut'.at = "receive"
      BY <2>4, FanOutSendFacts DEF Idle
    <3> QED
      BY ONLY <3>1, <3>2, FilterInv DEF FilterInv, Passes, Unwanted
  <2>5. CASE UNCHANGED <<fanOut, info, dropped, admitted>> /\ cache \subseteq cache'
    BY ONLY <2>5, FilterInv DEF FilterInv, Passes, Unwanted
  <2>6. \/ FanOutReceive \/ FanOutFilter \/ FanOutOutput \/ FanOutEngine
        \/ UNCHANGED <<fanOut, info, dropped, admitted>> /\ cache \subseteq cache'
    BY DEF Next, Read, Reader, ReadFails, SendConnection, SendLocal, FanInStep, FanInReceive, FanInSend,
           FanInEnd, FanOutStep, EngineStep, ProcessEvent, emitAlert, Output, Learn, Interrupt, SignalStep,
           CloseRd, CloseCorr, CloseEngine, CloseOutput, Panic, Gone, vars, mainVars, sortVars
  <2> QED
    BY <2>1, <2>2, <2>3, <2>4, <2>5, <2>6
<1> QED
  BY <1>1, <1>2, PipelineTypeCorrect, PTL DEF Spec

\* What gets through the filter and what is lost, for every filter and whatever
\* the resolver learns while the monitor runs.
THEOREM FilterIsExact == Spec => []FilterExact
<1>1. FilterInv => FilterExact
  BY DEF FilterInv, FilterExact, Passes, Unwanted
<1> QED
  BY <1>1, FilterKept, PTL

\* The filter is what its comment says ("drop not matching connections") as
\* long as the resolver knows the destination of every connection when main
\* starts: the connections it lets through otherwise all go to a destination
\* that was not known.
THEOREM FilterHoldsForKnownPeers ==
    ASSUME \A e \in NetEvents : DstOf[e] \in Known
    PROVE  Spec => []FilterRespected
<1>1. FilterInv => FilterRespected
  BY DEF FilterInv, FilterRespected, Passes
<1> QED
  BY <1>1, FilterKept, PTL
=============================================================================
