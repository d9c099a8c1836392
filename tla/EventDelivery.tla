---------------------------- MODULE EventDelivery ----------------------------
(***************************************************************************)
(* What the goroutines of cmd/main.go promise together: there is one order *)
(* of the events that pass the filter, and both consumers, the printer and *)
(* the rule engine, see exactly these events, each once, in that order,    *)
(* until the process ends.                                                 *)
(***************************************************************************)
EXTENDS Naturals, Sequences, Functions

CONSTANT Events

VARIABLES
    log,          \* the events that passed the filter
    printed,      \* those on stdout
    processed,    \* those the rule engine has taken
    up            \* the process runs

vars == <<log, printed, processed, up>>

Init ==
    /\ log = <<>>
    /\ printed = <<>>
    /\ processed = <<>>
    /\ up = TRUE

Admit(e) ==
    /\ up
    /\ e \notin Range(log)
    /\ log' = Append(log, e)
    /\ UNCHANGED <<printed, processed, up>>

Print1 ==
    /\ up
    /\ Len(printed) < Len(log)
    /\ printed' = Append(printed, log[Len(printed) + 1])
    /\ UNCHANGED <<log, processed, up>>

Process1 ==
    /\ up
    /\ Len(processed) < Len(log)
    /\ processed' = Append(processed, log[Len(processed) + 1])
    /\ UNCHANGED <<log, printed, up>>

Stop ==
    /\ up
    /\ up' = FALSE
    /\ UNCHANGED <<log, printed, processed>>

Next == (\E e \in Events : Admit(e)) \/ Print1 \/ Process1 \/ Stop

Spec == Init /\ [][Next]_vars

\* Neither consumer stays behind for ever.
FairSpec == Spec /\ WF_vars(Print1) /\ WF_vars(Process1)
=============================================================================
