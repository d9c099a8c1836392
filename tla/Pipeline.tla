------------------------------ MODULE Pipeline ------------------------------
(***************************************************************************)
(* The goroutines of cmd/main.go and the channels between them:            *)
(*                                                                         *)
(*   reader --> corr.output --> fan-in --> eventsCh --> fan-out            *)
(*     |                                      ^           |    |           *)
(*     +--------- local events ---------------+           |    |           *)
(*                                                        |    |           *)
(*   OutputLoop <-- outputCh <----------------------------+    |           *)
(*     ^                                                       |           *)
(*     +-- alertsCh <-- ProcessLoop <-- engineCh <-------------+           *)
(*                                                                         *)
(* and the goroutine that takes the signal, which closes the ring buffer   *)
(* reader and then the channels, one after the other, while the others go  *)
(* on.  The process ends when the reader's next Read fails (os.Exit) or    *)
(* when a goroutine sends on a closed channel (a panic ends the process).  *)
(*                                                                         *)
(* An event is the record that leads to it: an accept that HandleAccept    *)
(* pairs (NetEvents) or an openat or execve (LocalEvents).  The records    *)
(* that lead to none - connects, unpaired accepts, records that do not     *)
(* parse - take the reader straight back to Read.                          *)
(***************************************************************************)
EXTENDS OutputLoop, Functions

CONSTANTS
    NetEvents, LocalEvents,
    Containers,     \* containers, each known by its cgroup id
    NoContainer,    \* nil, the container of cgroup 0 and of a host process
    SrcOf, DstOf,   \* the container that caused an event, and the one it reached
    Known,          \* the containers the resolver knows when main starts
    FilterSet,      \* -filter-prefix was given ...
    Matching,       \* ... and these containers have the prefix
    MaxFired,       \* bound: the rules that fire for one event
    NoEvent

ASSUME PipelineAssumption ==
    /\ Events = NetEvents \cup LocalEvents
    /\ NetEvents \cap LocalEvents = {}
    /\ NoContainer \notin Containers
    /\ SrcOf \in [Events -> Containers \cup {NoContainer}]
    /\ DstOf \in [Events -> Containers \cup {NoContainer}]
    /\ Known \subseteq Containers
    /\ FilterSet \in BOOLEAN
    /\ Matching \subseteq Containers
    /\ MaxFired \in Nat
    /\ NoEvent \notin Events

VARIABLES
    unread,         \* events whose record is still to be read
    rdOpen,         \* the ring buffer reader is open
    reader,         \* the event the reader is sending
    corrOutput, eventsCh, engineCh,
    fanIn,          \* the event the fan-in goroutine is sending
    fanOut,         \* where the fan-out goroutine is, and with which event
    engine,         \* the event ProcessEvent is at, and the alerts it still has to emit
    cache,          \* the containers the resolver knows
    info,           \* event.SrcContainer and event.DstContainer
    signal,         \* what the signal goroutine does next
    proc,           \* the process
    readLog, admitted, processed, dropped     \* history

inVars == <<unread, rdOpen, reader, readLog>>
linkVars == <<corrOutput, eventsCh, fanIn>>
sortVars == <<fanOut, info, admitted, dropped>>
ruleVars == <<engineCh, engine, processed>>
ctlVars == <<signal, proc>>
mainVars == <<inVars, linkVars, sortVars, ruleVars, ctlVars, cache>>
vars == <<mainVars, outVars>>

Info == [src : Containers \cup {NoContainer}, dst : Containers \cup {NoContainer}]

Idle == [at |-> "receive", ev |-> NoEvent]
EngineIdle == [ev |-> NoEvent, left |-> 0]

Running == proc = "running"

-----------------------------------------------------------------------------
Init ==
    /\ OutInit
    /\ unread = Events
    /\ rdOpen = TRUE
    /\ reader = NoEvent
    /\ corrOutput = NewChan
    /\ eventsCh = NewChan
    /\ engineCh = NewChan
    /\ fanIn = NoEvent
    /\ fanOut = Idle
    /\ engine = EngineIdle
    /\ cache = Known
    /\ info = [e \in Events |-> [src |-> NoContainer, dst |-> NoContainer]]
    /\ signal = "wait"
    /\ proc = "running"
    /\ readLog = <<>>
    /\ admitted = <<>>
    /\ processed = <<>>
    /\ dropped = {}

-----------------------------------------------------------------------------
\* The reader: the loop at the end of main.

Read(e) ==
    /\ Running /\ rdOpen
    /\ reader = NoEvent
    /\ e \in unread
    /\ unread' = unread \ {e}
    /\ reader' = e
    /\ readLog' = Append(readLog, e)
    /\ UNCHANGED <<rdOpen, linkVars, sortVars, ruleVars, ctlVars, outVars, cache>>

\* rd.Read returns an error once the reader is closed, and os.Exit(-1) follows.
ReadFails ==
    /\ Running /\ ~rdOpen
    /\ reader = NoEvent
    /\ proc' = "exited"
    /\ UNCHANGED <<inVars, linkVars, sortVars, ruleVars, signal, outVars, cache>>

\* Mutant of SendConnection: around a full corr.output instead of waiting.
SendConnectionAround ==
    /\ Running
    /\ reader \in NetEvents
    /\ reader' = NoEvent
    /\ \/ /\ CanSend(corrOutput, Cap)
          /\ corrOutput' = Sent(corrOutput, reader)
          /\ UNCHANGED eventsCh
       \/ /\ Len(corrOutput.buf) = Cap
          /\ CanSend(eventsCh, Cap)
          /\ eventsCh' = Sent(eventsCh, reader)
          /\ UNCHANGED corrOutput
    /\ UNCHANGED <<unread, rdOpen, readLog, fanIn, sortVars,
                   ruleVars, ctlVars, outVars, cache>>

\* The send at the end of HandleAccept.
SendConnection ==
    /\ Running
    /\ reader \in NetEvents
    /\ CanSend(corrOutput, Cap)
    /\ corrOutput' = Sent(corrOutput, reader)
    /\ reader' = NoEvent
    /\ UNCHANGED <<unread, rdOpen, readLog, eventsCh, fanIn, sortVars,
                   ruleVars, ctlVars, outVars, cache>>

\* A file_open or exec event takes the short way.
SendLocal ==
    /\ Running
    /\ reader \in LocalEvents
    /\ CanSend(eventsCh, Cap)
    /\ eventsCh' = Sent(eventsCh, reader)
    /\ reader' = NoEvent
    /\ UNCHANGED <<unread, rdOpen, readLog, corrOutput, fanIn, sortVars,
                   ruleVars, ctlVars, outVars, cache>>

-----------------------------------------------------------------------------
\* The fan-in goroutine: for event := range corr.Output() { eventsCh <- event }

FanInReceive ==
    /\ Running
    /\ fanIn = NoEvent
    /\ CanReceive(corrOutput)
    /\ fanIn' = Head(corrOutput.buf)
    /\ corrOutput' = Received(corrOutput)
    /\ UNCHANGED <<inVars, eventsCh, sortVars, ruleVars, ctlVars, outVars, cache>>

\* Mutant of FanInSend: does not wait for room.
FanInSendOrLose ==
    /\ Running
    /\ fanIn # NoEvent
    /\ eventsCh' = IF CanSend(eventsCh, Cap) THEN Sent(eventsCh, fanIn) ELSE eventsCh
    /\ fanIn' = NoEvent
    /\ UNCHANGED <<inVars, corrOutput, sortVars, ruleVars, ctlVars, outVars, cache>>

FanInSend ==
    /\ Running
    /\ fanIn # NoEvent
    /\ CanSend(eventsCh, Cap)
    /\ eventsCh' = Sent(eventsCh, fanIn)
    /\ fanIn' = NoEvent
    /\ UNCHANGED <<inVars, corrOutput, sortVars, ruleVars, ctlVars, outVars, cache>>

\* Mutant of FanInEnd: takes an empty channel for a closed one.
FanInEndWhenEmpty ==
    /\ Running
    /\ fanIn = NoEvent
    /\ ~CanReceive(corrOutput) /\ eventsCh.open
    /\ eventsCh' = Closed(eventsCh)
    /\ UNCHANGED <<inVars, corrOutput, fanIn, sortVars, ruleVars, ctlVars, outVars, cache>>

\* The range ends and the deferred close(eventsCh) runs.
FanInEnd ==
    /\ Running
    /\ fanIn = NoEvent
    /\ AtEnd(corrOutput) /\ eventsCh.open
    /\ eventsCh' = Closed(eventsCh)
    /\ UNCHANGED <<inVars, corrOutput, fanIn, sortVars, ruleVars, ctlVars, outVars, cache>>

-----------------------------------------------------------------------------
\* The fan-out goroutine.

\* Resolver.Resolve: the cache has the container, or nil comes back.
Resolve(c) == IF c \in cache THEN c ELSE NoContainer

\* Mutant of FanOutReceive: no test for a nil source.
FanOutReceiveAny ==
    /\ Running
    /\ fanOut.at = "receive"
    /\ CanReceive(eventsCh)
    /\ eventsCh' = Received(eventsCh)
    /\ fanOut' = [at |-> "filter", ev |-> Head(eventsCh.buf)]
    /\ info' = [info EXCEPT ![Head(eventsCh.buf)].src = Resolve(SrcOf[Head(eventsCh.buf)])]
    /\ UNCHANGED <<inVars, corrOutput, fanIn, admitted, dropped,
                   ruleVars, ctlVars, outVars, cache>>

\* Takes the next event and resolves its source; no source, no event.
FanOutReceive ==
    /\ Running
    /\ fanOut.at = "receive"
    /\ CanReceive(eventsCh)
    /\ eventsCh' = Received(eventsCh)
    /\ LET e == Head(eventsCh.buf)
           src == Resolve(SrcOf[e]) IN
         \/ /\ src = NoContainer
            /\ dropped' = dropped \cup {e}
            /\ UNCHANGED <<fanOut, info>>
         \/ /\ src # NoContainer
            /\ fanOut' = [at |-> "filter", ev |-> e]
            /\ info' = [info EXCEPT ![e].src = src]
            /\ UNCHANGED dropped
    /\ UNCHANGED <<inVars, corrOutput, fanIn, admitted, ruleVars, ctlVars, outVars, cache>>

\* Mutant of FilterDrops: a destination that is not known does not match.
FilterDropsUnknown(src, dst) ==
    /\ FilterSet
    /\ src \notin Matching
    /\ dst \notin Matching

\* Mutant of FilterDrops: the test for an empty prefix is the wrong way round.
FilterDropsUnset(src, dst) ==
    /\ ~FilterSet
    /\ src \notin Matching
    /\ dst # NoContainer /\ dst \notin Matching

\* The filter drops an event if the source does not match and the destination
\* is known and does not match either.
FilterDrops(src, dst) ==
    /\ FilterSet
    /\ src \notin Matching
    /\ dst # NoContainer /\ dst \notin Matching

\* Resolves the destination, filters and enriches.
FanOutFilter ==
    /\ Running
    /\ fanOut.at = "filter"
    /\ LET e == fanOut.ev
           dst == Resolve(DstOf[e]) IN
         \/ /\ FilterDrops(info[e].src, dst)
            /\ fanOut' = Idle
            /\ dropped' = dropped \cup {e}
            /\ UNCHANGED info
         \/ /\ ~FilterDrops(info[e].src, dst)
            /\ fanOut' = [fanOut EXCEPT !.at = "output"]
            /\ info' = [info EXCEPT ![e].dst = dst]
            /\ UNCHANGED dropped
    /\ UNCHANGED <<inVars, linkVars, admitted, ruleVars, ctlVars, outVars, cache>>

\* Mutant of FanOutOutput: skips a full outputCh and goes on to engineCh.
FanOutOutputOrSkip ==
    /\ Running
    /\ fanOut.at = "output"
    /\ fanOut' = [fanOut EXCEPT !.at = "engine"]
    /\ \/ /\ CanSend(outputCh, Cap)
          /\ outputCh' = Sent(outputCh, fanOut.ev)
          /\ admitted' = Append(admitted, fanOut.ev)
       \/ /\ Len(outputCh.buf) = Cap
          /\ UNCHANGED <<outputCh, admitted>>
    /\ UNCHANGED <<inVars, linkVars, info, dropped, ruleVars, ctlVars, alertsCh, loopVars, cache>>

\* outputCh <- event
FanOutOutput ==
    /\ Running
    /\ fanOut.at = "output"
    /\ CanSend(outputCh, Cap)
    /\ outputCh' = Sent(outputCh, fanOut.ev)
    /\ admitted' = Append(admitted, fanOut.ev)
    /\ fanOut' = [fanOut EXCEPT !.at = "engine"]
    /\ UNCHANGED <<inVars, linkVars, info, dropped, ruleVars, ctlVars, alertsCh, loopVars, cache>>

\* engineCh <- event
FanOutEngine ==
    /\ Running
    /\ fanOut.at = "engine"
    /\ CanSend(engineCh, Cap)
    /\ engineCh' = Sent(engineCh, fanOut.ev)
    /\ fanOut' = Idle
    /\ UNCHANGED <<inVars, linkVars, info, admitted, dropped, engine,
                   processed, ctlVars, outVars, cache>>

-----------------------------------------------------------------------------
\* RuleEngine.ProcessLoop: of the rules, some number fires for the event.

ProcessEvent ==
    /\ Running
    /\ engine.left = 0
    /\ CanReceive(engineCh)
    /\ engineCh' = Received(engineCh)
    /\ processed' = Append(processed, Head(engineCh.buf))
    /\ \E n \in 0..MaxFired : engine' = [ev |-> Head(engineCh.buf), left |-> n]
    /\ UNCHANGED <<inVars, linkVars, sortVars, ctlVars, outVars, cache>>

\* Mutant of emitAlert: one alert too many.
emitAlertOneMore ==
    /\ Running
    /\ engine.left >= 0
    /\ CanSend(alertsCh, AlertCap)
    /\ alertsCh' = Sent(alertsCh, engine.ev)
    /\ engine' = [engine EXCEPT !.left = @ - 1]
    /\ UNCHANGED <<inVars, linkVars, sortVars, engineCh, processed, ctlVars, outputCh, loopVars, cache>>

emitAlert ==
    /\ Running
    /\ engine.left > 0
    /\ CanSend(alertsCh, AlertCap)
    /\ alertsCh' = Sent(alertsCh, engine.ev)
    /\ engine' = [engine EXCEPT !.left = @ - 1]
    /\ UNCHANGED <<inVars, linkVars, sortVars, engineCh, processed, ctlVars, outputCh, loopVars, cache>>

Output == Running /\ OutputStep /\ UNCHANGED mainVars

\* The resolver learns of a container (updateInfo, run by MonitorEventsLoop).
Learn(c) ==
    /\ Running
    /\ c \notin cache
    /\ cache' = cache \cup {c}
    /\ UNCHANGED <<inVars, linkVars, sortVars, ruleVars, ctlVars, outVars>>

-----------------------------------------------------------------------------
\* The signal goroutine.  cancel(), between corr.Close and the next close,
\* stops the resolver's loop and touches nothing here.

Interrupt ==
    /\ Running
    /\ signal = "wait"
    /\ signal' = "rd"
    /\ UNCHANGED <<inVars, linkVars, sortVars, ruleVars, proc, outVars, cache>>

\* Mutant of CloseRd: the channels are closed, the ring buffer reader is not.
CloseRdForgotten ==
    /\ Running
    /\ signal = "rd"
    /\ signal' = "corr"
    /\ UNCHANGED <<inVars, linkVars, sortVars, ruleVars, proc, outVars, cache>>

CloseRd ==
    /\ Running
    /\ signal = "rd"
    /\ rdOpen' = FALSE
    /\ signal' = "corr"
    /\ UNCHANGED <<unread, reader, readLog, linkVars, sortVars,
                   ruleVars, proc, outVars, cache>>

\* corr.Close: it does not take the mutex HandleAccept sends under.
CloseCorr ==
    /\ Running
    /\ signal = "corr"
    /\ corrOutput' = Closed(corrOutput)
    /\ signal' = "engine"
    /\ UNCHANGED <<inVars, eventsCh, fanIn, sortVars, ruleVars, proc, outVars, cache>>

CloseEngine ==
    /\ Running
    /\ signal = "engine"
    /\ engineCh' = Closed(engineCh)
    /\ signal' = "output"
    /\ UNCHANGED <<inVars, linkVars, sortVars, engine, processed, proc, outVars, cache>>

CloseOutput ==
    /\ Running
    /\ signal = "output"
    /\ outputCh' = Closed(outputCh)
    /\ signal' = "done"
    /\ UNCHANGED <<inVars, linkVars, sortVars, ruleVars, proc, alertsCh, loopVars, cache>>

\* The channels the goroutines are about to send on.
SendTargets ==
    (IF reader \in NetEvents THEN {corrOutput} ELSE {})
      \cup (IF reader \in LocalEvents \/ fanIn # NoEvent THEN {eventsCh} ELSE {})
      \cup (IF fanOut.at = "output" THEN {outputCh} ELSE {})
      \cup (IF fanOut.at = "engine" THEN {engineCh} ELSE {})
      \cup (IF engine.left > 0 THEN {alertsCh} ELSE {})

\* A send on a closed channel panics and ends the process.
Panic ==
    /\ Running
    /\ \E ch \in SendTargets : ~ch.open
    /\ proc' = "panicked"
    /\ UNCHANGED <<inVars, linkVars, sortVars, ruleVars, signal, outVars, cache>>

\* Nothing moves once the process is gone.
Gone == ~Running /\ UNCHANGED vars

-----------------------------------------------------------------------------
Reader == ReadFails \/ SendConnection \/ SendLocal
FanInStep == FanInReceive \/ FanInSend \/ FanInEnd
FanOutStep == FanOutReceive \/ FanOutFilter \/ FanOutOutput \/ FanOutEngine
EngineStep == ProcessEvent \/ emitAlert
SignalStep == CloseRd \/ CloseCorr \/ CloseEngine \/ CloseOutput

Next ==
    \/ \E e \in Events : Read(e)
    \/ Reader
    \/ FanInStep
    \/ FanOutStep
    \/ EngineStep
    \/ Output
    \/ \E c \in Containers : Learn(c)
    \/ Interrupt
    \/ SignalStep
    \/ Panic
    \/ Gone

Spec == Init /\ [][Next]_vars

(***************************************************************************)
(* The Go scheduler runs every goroutine that can run.  A full channel     *)
(* serves its waiting senders in order, hence strong fairness for the two  *)
(* goroutines that compete for room in eventsCh.  A ready branch of the    *)
(* select in OutputLoop stays ready until it is taken, and the choice is   *)
(* random.  Nothing is assumed of the records, the signal, the resolver.   *)
(***************************************************************************)
Fairness ==
    /\ WF_vars(ReadFails) /\ WF_vars(SendConnection) /\ SF_vars(SendLocal)
    /\ WF_vars(FanInReceive) /\ SF_vars(FanInSend) /\ WF_vars(FanInEnd)
    /\ WF_vars(FanOutStep)
    /\ WF_vars(EngineStep)
    /\ WF_vars(Running /\ OutputEvent /\ UNCHANGED mainVars)
    /\ WF_vars(Running /\ OutputAlert /\ UNCHANGED mainVars)
    /\ WF_vars(SignalStep)
    /\ WF_vars(Panic)

FairSpec == Spec /\ Fairness

-----------------------------------------------------------------------------
\* The variables have their types and no channel holds more than it can.
TypeOK ==
    /\ OutTypeOK
    /\ unread \in SUBSET Events
    /\ rdOpen \in BOOLEAN
    /\ reader \in Events \cup {NoEvent}
    /\ corrOutput \in Chan(Events) /\ Len(corrOutput.buf) <= Cap
    /\ eventsCh \in Chan(Events) /\ Len(eventsCh.buf) <= Cap
    /\ engineCh \in Chan(Events) /\ Len(engineCh.buf) <= Cap
    /\ fanIn \in Events \cup {NoEvent}
    /\ fanOut \in [at : {"filter", "output", "engine"}, ev : Events] \cup {Idle}
    /\ engine \in [ev : Events, left : 0..MaxFired] \cup {EngineIdle}
    /\ cache \in SUBSET Containers
    /\ info \in [Events -> Info]
    /\ signal \in {"wait", "rd", "corr", "engine", "output", "done"}
    /\ proc \in {"running", "exited", "panicked"}
    /\ readLog \in Seq(Events)
    /\ admitted \in Seq(Events)
    /\ processed \in Seq(Events)
    /\ dropped \in SUBSET Events

\* No goroutine sends on a closed channel while the monitor is in service: the
\* shutdown of one stage never reaches a sender before the signal does.
PanicOnlyAfterSignal == proc = "panicked" => signal # "wait"

\* The rule engine reads event.SrcContainer.Name without a test
\* (buildGroupKey): every event it gets has its source container.
EngineGetsSource ==
    \A e \in Range(engineCh.buf) \cup Range(processed) : info[e].src # NoContainer

\* Where an event stands in the order of reading.
ReadAt(e) == CHOOSE i \in DOMAIN readLog : readLog[i] = e

\* Two events that take the same way to eventsCh reach the consumers in the
\* order their records were read.  (A local event may overtake a connection.)
RouteOrder ==
    \A i, j \in DOMAIN admitted :
        /\ i < j
        /\ {admitted[i], admitted[j]} \subseteq NetEvents
             \/ {admitted[i], admitted[j]} \subseteq LocalEvents
        => ReadAt(admitted[i]) < ReadAt(admitted[j])

\* "If filter is set, drop not matching connections" (cmd/main.go:147): of a
\* connection that gets through, one end has the prefix.
FilterRespected ==
    FilterSet => \A e \in Range(admitted) \cap NetEvents :
                    info[e].src \in Matching \/ info[e].dst \in Matching

\* What the filter does keep (cmd/main.go:150): an event that gets through has
\* an end with the prefix, or a destination that was not known when main
\* started; one that is lost had a source that was not known then, or both its
\* ends are known and neither has the prefix, whatever the resolver learns and
\* whenever it does.
FilterExact ==
    /\ \A e \in Range(admitted) :
          FilterSet => {SrcOf[e], DstOf[e]} \cap Matching # {} \/ DstOf[e] \notin Known
    /\ \A e \in dropped :
          SrcOf[e] \in Known =>
              FilterSet /\ DstOf[e] \in cache /\ {SrcOf[e], DstOf[e]} \cap Matching = {}

\* The abstract view: one order for both consumers.
Delivery == INSTANCE EventDelivery
              WITH log <- admitted, printed <- printedEvents, up <- Running

\* The pipeline keeps what EventDelivery promises.
DeliverySafe == Delivery!Spec

\* ... and neither the printer nor the rule engine stays behind for ever.
DeliveryLive == Delivery!FairSpec

\* An event that was read is processed or dropped unless the process ends: no
\* cycle of full channels stops the pipeline.
EventSettled ==
    \A e \in Events :
        reader = e ~> (e \in Range(processed) \cup dropped \/ ~Running)

\* Ctrl+C ends the process ("Close ringbuffer on Ctrl+C", cmd/main.go:178),
\* wherever the goroutines are and however full the channels.
InterruptEnds == signal # "wait" ~> ~Running
=============================================================================
