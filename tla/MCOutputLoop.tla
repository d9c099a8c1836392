---------------------------- MODULE MCOutputLoop ----------------------------
(***************************************************************************)
(* OutputLoop by itself: two producers send every event, once, and any     *)
(* alert for it, and close their channels when they like.                  *)
(***************************************************************************)
EXTENDS OutputLoop, Functions

VARIABLES sentEvents, sentAlerts    \* history: what was sent, in order

vars == <<outVars, sentEvents, sentAlerts>>

Init == OutInit /\ sentEvents = <<>> /\ sentAlerts = <<>>

SendToOutput(e) ==
    /\ e \notin Range(sentEvents)
    /\ CanSend(outputCh, Cap)
    /\ outputCh' = Sent(outputCh, e)
    /\ sentEvents' = Append(sentEvents, e)
    /\ UNCHANGED <<alertsCh, loopVars, sentAlerts>>

SendToAlerts(e) ==
    /\ e \notin Range(sentAlerts)
    /\ CanSend(alertsCh, AlertCap)
    /\ alertsCh' = Sent(alertsCh, e)
    /\ sentAlerts' = Append(sentAlerts, e)
    /\ UNCHANGED <<outputCh, loopVars, sentEvents>>

CloseOutput ==
    /\ outputCh.open
    /\ outputCh' = Closed(outputCh)
    /\ UNCHANGED <<alertsCh, loopVars, sentEvents, sentAlerts>>

CloseAlerts ==
    /\ alertsCh.open
    /\ alertsCh' = Closed(alertsCh)
    /\ UNCHANGED <<outputCh, loopVars, sentEvents, sentAlerts>>

Next ==
    \/ \E e \in Events : SendToOutput(e) \/ SendToAlerts(e)
    \/ CloseOutput \/ CloseAlerts
    \/ OutputStep /\ UNCHANGED <<sentEvents, sentAlerts>>

\* A ready branch of the select is taken in the end; nothing is assumed of
\* the producers.
Fairness ==
    /\ WF_outVars(OutputEvent)
    /\ WF_outVars(OutputChEnd)
    /\ WF_outVars(OutputAlert)
    /\ WF_outVars(AlertsChEnd)

Spec == Init /\ [][Next]_vars /\ Fairness

-----------------------------------------------------------------------------
\* The loop gives a channel up only when everything sent on it is printed, in
\* the order it was sent.
NilAfterLast ==
    /\ eventNil => printedEvents = sentEvents
    /\ alertNil => printedAlerts = sentAlerts

\* Whatever is sent is printed, whichever channel is closed meanwhile: the end
\* of one channel does not end the loop for the other.
AllPrinted ==
    \A e \in Events :
        /\ e \in Range(sentEvents) ~> e \in Range(printedEvents)
        /\ e \in Range(sentAlerts) ~> e \in Range(printedAlerts)

\* "Exit if both channels are closed" (output.go:63): once both channels are
\* closed the loop returns.
ReturnsWhenClosed == (~outputCh.open /\ ~alertsCh.open) ~> returned
=============================================================================
