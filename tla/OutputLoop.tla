----------------------------- MODULE OutputLoop -----------------------------
(***************************************************************************)
(* internal/output/output.go: one goroutine prints the events and the      *)
(* alerts that arrive on two channels.  Each branch of the select is an    *)
(* action.  The Go runtime picks among the ready branches at random.       *)
(*                                                                         *)
(* json.Marshal cannot fail on the values of these channels (strings,      *)
(* integers, times of this century), so its error branch is not a step.    *)
(***************************************************************************)
EXTENDS Channels

CONSTANTS
    Events,       \* the events; an alert is known by its event
    Cap,          \* capacity of an event channel: 1024 in the code
    AlertCap      \* capacity of the alert channel: 100 in the code

ASSUME CapAssumption == Cap \in Nat \ {0} /\ AlertCap \in Nat \ {0}

VARIABLES
    outputCh, alertsCh,             \* the two channels
    eventNil, alertNil,             \* the loop's own eventCh, alertCh are nil
    printedEvents, printedAlerts,   \* what went to stdout
    returned                        \* OutputLoop has returned

loopVars == <<eventNil, alertNil, printedEvents, printedAlerts, returned>>
outVars == <<outputCh, alertsCh, loopVars>>

OutInit ==
    /\ outputCh = NewChan
    /\ alertsCh = NewChan
    /\ eventNil = FALSE
    /\ alertNil = FALSE
    /\ printedEvents = <<>>
    /\ printedAlerts = <<>>
    /\ returned = FALSE

\* Mutants of ExitCheck: one closed channel is enough; the condition negated.
ExitCheckEither == returned' = (eventNil \/ alertNil)
ExitCheckNegated == returned' = ~(eventNil /\ alertNil)

\* The test at the end of the loop body: "Exit if both channels are closed".
ExitCheck == returned' = (eventNil /\ alertNil)

OutputEvent ==
    /\ ~returned
    /\ ~eventNil /\ CanReceive(outputCh)
    /\ outputCh' = Received(outputCh)
    /\ printedEvents' = Append(printedEvents, Head(outputCh.buf))
    /\ ExitCheck
    /\ UNCHANGED <<alertsCh, eventNil, alertNil, printedAlerts>>

\* Mutant of OutputChEnd: gives a closed channel up with events still in it.
OutputChEndEarly ==
    /\ ~returned
    /\ ~eventNil /\ ~outputCh.open
    /\ eventNil' = TRUE
    /\ UNCHANGED <<outputCh, alertsCh, alertNil, printedEvents, printedAlerts, returned>>

\* The channel is closed and empty.  The continue skips the exit check.
OutputChEnd ==
    /\ ~returned
    /\ ~eventNil /\ AtEnd(outputCh)
    /\ eventNil' = TRUE
    /\ UNCHANGED <<outputCh, alertsCh, alertNil, printedEvents, printedAlerts, returned>>

OutputAlert ==
    /\ ~returned
    /\ ~alertNil /\ CanReceive(alertsCh)
    /\ alertsCh' = Received(alertsCh)
    /\ printedAlerts' = Append(printedAlerts, Head(alertsCh.buf))
    /\ ExitCheck
    /\ UNCHANGED <<outputCh, eventNil, alertNil, printedEvents>>

AlertsChEnd ==
    /\ ~returned
    /\ ~alertNil /\ AtEnd(alertsCh)
    /\ alertNil' = TRUE
    /\ UNCHANGED <<outputCh, alertsCh, eventNil, printedEvents, printedAlerts, returned>>

OutputStep == OutputEvent \/ OutputChEnd \/ OutputAlert \/ AlertsChEnd

OutTypeOK ==
    /\ outputCh \in Chan(Events) /\ Len(outputCh.buf) <= Cap
    /\ alertsCh \in Chan(Events) /\ Len(alertsCh.buf) <= AlertCap
    /\ {eventNil, alertNil, returned} \subseteq BOOLEAN
    /\ printedEvents \in Seq(Events)
    /\ printedAlerts \in Seq(Events)
=============================================================================
