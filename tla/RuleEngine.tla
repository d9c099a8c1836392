----------------------------- MODULE RuleEngine -----------------------------
(***************************************************************************)
(* The rule engine: engine.go and sequence.go.  ProcessLoop takes events   *)
(* one by one and ProcessEvent shows each to the rules in order; one step  *)
(* here is one rule.  Only this goroutine uses the mutex.                  *)
(*                                                                         *)
(* A string is the sequence of its pieces between colons, so that joining  *)
(* strings with ":" is the concatenation of the sequences.  Container      *)
(* names, addresses and numbers have one piece, rule names any number.     *)
(*                                                                         *)
(* An event carries a time of its own.  Connections carry the time of      *)
(* their connect and come in the order of their accepts, and they share    *)
(* eventsCh with local events that took a shorter way: an event may be     *)
(* older than one that came before it, by at most Lag.                     *)
(***************************************************************************)
EXTENDS RuleMatch, Integers, FiniteSetsExt

CONSTANTS
    Rules,          \* the rules that LoadRules found, in order
    Kinds,          \* the events, but for their times
    NoKind,
    DefaultWindow,  \* 10 s: the window of a rule whose window does not parse
    Lag,
    MaxTime,        \* bound: the latest time of an event
    MaxEvents       \* bound: the events that come

ASSUME RuleEngineAssumption ==
    /\ \A i \in DOMAIN Rules : /\ Rules[i].count \in Int
                               /\ Rules[i].window \in Int \cup {Unset}
    /\ Len(Rules) \in Nat /\ DOMAIN Rules = 1..Len(Rules)
    /\ NoKind \notin Kinds
    /\ \A k \in Kinds : k.src_container # NoContainer     \* EngineGetsSource
    /\ DefaultWindow \in Int
    /\ Lag \in Nat
    /\ MaxTime \in Nat
    /\ MaxEvents \in Nat

VARIABLES
    event,          \* the event ProcessEvent is at, and its time
    next,           \* the rule it comes to next
    thresholds,     \* group key -> window
    proc,           \* the process
    newest,         \* history: the latest time of an event so far,
    count,          \* ... the events that came,
    matched,        \* ... what each rule matched: time, group, newest at that moment
    alerts          \* ... the alerts sent: the rule, and which of its matches

engineVars == <<event, next, proc>>
history == <<newest, count>>
vars == <<engineVars, thresholds, history, matched, alerts>>

NoEvent == [kind |-> NoKind, time |-> 0]

GroupFields == {"src_container", "dst_container", "src_addr", "dst_addr",
                "src_port", "dst_port"}

Rule == Rules[next]

-----------------------------------------------------------------------------
Init ==
    /\ event = NoEvent
    /\ next = 1
    /\ thresholds = <<>>
    /\ proc = "running"
    /\ newest = 0
    /\ count = 0
    /\ matched = [i \in DOMAIN Rules |-> <<>>]
    /\ alerts = <<>>

\* The name of the rule and the values of the fields; a nil destination gives
\* the empty string and an unknown field is left out.
buildGroupKey(ruleName, groupBy, e) ==
    LET known == SelectSeq(groupBy, LAMBDA f : f \in GroupFields)
    IN  ruleName \o [i \in DOMAIN known |-> e[known[i]]]

ParseDuration(window) == IF window = Unset THEN DefaultWindow ELSE window

\* Mutant of AddEvent: a timestamp as old as the window is removed.
AddEventEarly(th, now) ==
    LET all == Append(th.timestamps, now)
        inside == {i \in DOMAIN all : now - all[i] < th.windowSize}
    IN  [th EXCEPT !.timestamps =
            IF inside = {} THEN <<>> ELSE SubSeq(all, Min(inside), Len(all))]

\* Mutant of AddEvent: removes one old timestamp, not all of them.
AddEventDropsOne(th, now) ==
    LET all == Append(th.timestamps, now)
    IN  [th EXCEPT !.timestamps = IF now - Head(all) <= th.windowSize THEN all ELSE Tail(all)]

\* Append, then remove from the front up to the first timestamp in the window.
AddEvent(th, now) ==
    LET all == Append(th.timestamps, now)
        inside == {i \in DOMAIN all : now - all[i] <= th.windowSize}
    IN  [th EXCEPT !.timestamps =
            IF inside = {} THEN <<>> ELSE SubSeq(all, Min(inside), Len(all))]

\* The window of a key; the rule that comes first gives it its size.
WindowOf(key) ==
    IF key \in DOMAIN thresholds THEN thresholds[key]
    ELSE [timestamps |-> <<>>, windowSize |-> ParseDuration(Rule.window)]

\* History: the rule matches the event.
Group(rule, e) == [f \in Range(rule.group_by) \cap GroupFields |-> e[f]]
RecordMatch ==
    matched' = [matched EXCEPT ![next] = Append(@,
        [time |-> event.time, group |-> Group(Rule, event.kind), newest |-> newest])]

\* Mutant of emitAlert: sends a second time.
emitAlertTwice ==
    alerts' = alerts \o [i \in 1..2 |-> [rule |-> next, no |-> Len(matched[next]) + 1]]

emitAlert ==
    alerts' = Append(alerts, [rule |-> next, no |-> Len(matched[next]) + 1])

-----------------------------------------------------------------------------
\* ProcessLoop receives an event.
Receive(k, t) ==
    /\ proc = "running"
    /\ event = NoEvent
    /\ count < MaxEvents
    /\ t + Lag >= newest
    /\ event' = [kind |-> k, time |-> t]
    /\ next' = 1
    /\ newest' = Max({newest, t})
    /\ count' = count + 1
    /\ UNCHANGED <<thresholds, proc, matched, alerts>>

AtRule == proc = "running" /\ event # NoEvent /\ next <= Len(Rules)

Continue == next' = next + 1 /\ UNCHANGED <<event, proc>>

\* handleSequence, when the event matches no step.
NoStep ==
    /\ AtRule
    /\ Rule.steps # Unset
    /\ \A i \in DOMAIN Rule.steps : ~BlockMatches(Rule.steps[i], event.kind)
    /\ Continue
    /\ UNCHANGED <<thresholds, history, matched, alerts>>

\* handleSequence, when it matches one: the map of trackers was never made.
\* Looking the key up finds nothing, and storing a new tracker panics.
handleSequence ==
    /\ AtRule
    /\ Rule.steps # Unset
    /\ \E i \in DOMAIN Rule.steps : BlockMatches(Rule.steps[i], event.kind)
    /\ proc' = "panicked"
    /\ UNCHANGED <<event, next, thresholds, history, matched, alerts>>

NoMatch ==
    /\ AtRule
    /\ Rule.steps = Unset
    /\ ~RuleMatches(Rule, event.kind)
    /\ Continue
    /\ UNCHANGED <<thresholds, history, matched, alerts>>

\* Every mode but "threshold" raises an alert for each match.
Single ==
    /\ AtRule
    /\ Rule.steps = Unset
    /\ RuleMatches(Rule, event.kind)
    /\ Rule.mode # "threshold"
    /\ emitAlert
    /\ RecordMatch
    /\ Continue
    /\ UNCHANGED <<thresholds, history>>

handleThreshold ==
    /\ AtRule
    /\ Rule.steps = Unset
    /\ RuleMatches(Rule, event.kind)
    /\ Rule.mode = "threshold"
    /\ LET key == buildGroupKey(Rule.name, Rule.group_by, event.kind)
           th == AddEvent(WindowOf(key), event.time) IN
         /\ thresholds' = [k \in DOMAIN thresholds \cup {key} |->
                             IF k = key THEN th ELSE thresholds[k]]
         /\ IF Len(th.timestamps) > Rule.count THEN emitAlert ELSE UNCHANGED alerts
    /\ RecordMatch
    /\ Continue
    /\ UNCHANGED history

\* ProcessEvent returns.
EventDone ==
    /\ proc = "running"
    /\ event # NoEvent
    /\ next > Len(Rules)
    /\ event' = NoEvent
    /\ UNCHANGED <<next, proc, thresholds, history, matched, alerts>>

Next ==
    \/ \E k \in Kinds, t \in 0..MaxTime : Receive(k, t)
    \/ NoStep
    \/ handleSequence
    \/ NoMatch
    \/ Single
    \/ handleThreshold
    \/ EventDone

Spec == Init /\ [][Next]_vars

-----------------------------------------------------------------------------
\* The variables have their types, and no match raises two alerts.
TypeOK ==
    /\ event \in [kind : Kinds, time : 0..MaxTime] \cup {NoEvent}
    /\ next \in 1..Len(Rules) + 1
    /\ \A k \in DOMAIN thresholds :
          thresholds[k] \in [timestamps : Seq(0..MaxTime), windowSize : Int]
    /\ proc \in {"running", "panicked"}
    /\ newest \in 0..MaxTime
    /\ count \in 0..MaxEvents
    /\ DOMAIN matched = DOMAIN Rules
    /\ \A i \in DOMAIN Rules : \A j \in DOMAIN matched[i] :
          matched[i][j].time \in 0..MaxTime /\ matched[i][j].newest \in 0..MaxTime
    /\ \A a \in Range(alerts) : a.rule \in DOMAIN Rules /\ a.no \in DOMAIN matched[a.rule]
    /\ \A i, j \in DOMAIN alerts : alerts[i] = alerts[j] => i = j

\* The matches of rule i up to its m-th that belong to the group of the m-th
\* and are no older than span before the moment now.
Recent(i, m, now, span) ==
    {j \in 1..m : /\ matched[i][j].group = matched[i][m].group
                  /\ now - matched[i][j].time <= span}

ThresholdRules == {i \in DOMAIN Rules : Rules[i].mode = "threshold" /\ Rules[i].steps = Unset}
Alerted(i, m) == [rule |-> i, no |-> m] \in Range(alerts)

\* No two threshold rules use one key, and no two groups of a rule do.  The
\* name of a rule may hold colons and nothing keeps two rules from having one
\* name, so this is a condition on the rule files: without it rules share the
\* windows of groups, and the size of the window is that of the rule whose
\* match came first.
KeyOf(i, k) == buildGroupKey(Rules[i].name, Rules[i].group_by, k)
KeysTellGroups ==
    \A i, j \in ThresholdRules : \A k, l \in Kinds :
        KeyOf(i, k) = KeyOf(j, l) <=> i = j /\ Group(Rules[i], k) = Group(Rules[j], l)

\* A burst is never missed (handleThreshold): if more than Count matches of a
\* group lie in the window before the newest event, the last one raises an
\* alert, whatever the order the events came in.
NoMissedBurst ==
    \A i \in ThresholdRules : \A m \in DOMAIN matched[i] :
        Cardinality(Recent(i, m, matched[i][m].newest, ParseDuration(Rules[i].window))) > Rules[i].count
          => Alerted(i, m)

\* An alert is never far-fetched (handleThreshold): it stands for more than
\* Count matches of one group in a window that the disorder of the events
\* stretches by Lag at most.  With events in order both bounds are exact.
NoFalseBurst ==
    \A i \in ThresholdRules : \A m \in DOMAIN matched[i] :
        Alerted(i, m) =>
          Cardinality(Recent(i, m, matched[i][m].time, ParseDuration(Rules[i].window) + Lag)) > Rules[i].count

\* "Find tracker (or create new)" (sequence.go:74): an event that matches a
\* step finds its tracker or makes one, and the engine goes on.
TrackerFoundOrCreated == proc # "panicked"
=============================================================================
