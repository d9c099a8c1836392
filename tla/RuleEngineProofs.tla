-------------------------- MODULE RuleEngineProofs --------------------------
(***************************************************************************)
(* Proofs about the rule engine: the type invariant, and the two promises  *)
(* of handleThreshold, that no burst is missed and that no alert is        *)
(* far-fetched.                                                            *)
(***************************************************************************)
EXTENDS RuleEngine, QueueLemmas, FiniteSetTheorems

-----------------------------------------------------------------------------
(* Sliding windows.                                                        *)

\* A position that is not the new one is an old one.
LEMMA BelowNext ==
    ASSUME NEW n \in Nat, NEW a \in 1..(n + 1), a # n + 1
    PROVE  a \in 1..n
  OBVIOUS

\* The first of the positions in a set.
LEMMA FirstOf ==
    ASSUME NEW S \in SUBSET Nat, S # {}
    PROVE  Min(S) \in S /\ \A x \in S : Min(S) <= x
<1>1. \E x \in S : \A y \in S : x <= y
  BY FirstExists, Zenon
<1> QED
  BY ONLY <1>1, Zenon DEF Min

\* The later of two times.
LEMMA LatestOf ==
    ASSUME NEW a \in Nat, NEW b \in Nat
    PROVE  Max({a, b}) = IF a >= b THEN a ELSE b
<1> DEFINE m == IF a >= b THEN a ELSE b
<1>1. m \in {a, b} /\ \A y \in {a, b} : m >= y
  OBVIOUS
<1>2. \A x \in {a, b} : (\A y \in {a, b} : x >= y) => x = m
  OBVIOUS
<1> HIDE DEF m
<1>3. Max({a, b}) \in {a, b} /\ \A y \in {a, b} : Max({a, b}) >= y
  BY <1>1 DEF Max
<1>4. Max({a, b}) = m
  BY <1>2, <1>3
<1> QED
  BY <1>4 DEF m

\* What AddEvent leaves of a window: the timestamps from position s on, the
\* first that is young enough, and none if none is.
LEMMA AddEventDrops ==
    ASSUME NEW M \in Nat, NEW th \in [timestamps : Seq(0..M), windowSize : Int], NEW now \in 0..M
    PROVE  LET all == Append(th.timestamps, now)
               kept == AddEvent(th, now).timestamps
           IN  /\ AddEvent(th, now) \in [timestamps : Seq(0..M), windowSize : Int]
               /\ AddEvent(th, now).windowSize = th.windowSize
               /\ \E s \in 1..(Len(all) + 1) :
                    /\ \A a \in 1..(s - 1) : now - all[a] > th.windowSize
                    /\ s <= Len(all) => now - all[s] <= th.windowSize
                    /\ Len(kept) = Len(all) + 1 - s
                    /\ \A a \in 1..Len(kept) : kept[a] = all[s - 1 + a]
<1> DEFINE all == Append(th.timestamps, now)
           inside == {i \in DOMAIN all : now - all[i] <= th.windowSize}
           ts == IF inside = {} THEN <<>> ELSE SubSeq(all, Min(inside), Len(all))
<1>1. /\ th.timestamps \in Seq(0..M) /\ th.windowSize \in Int
      /\ th = [timestamps |-> th.timestamps, windowSize |-> th.windowSize]
  OBVIOUS
<1>2. all \in Seq(0..M) /\ Len(all) \in Nat /\ DOMAIN all = 1..Len(all)
  BY <1>1
<1>3. AddEvent(th, now) = [th EXCEPT !.timestamps = ts]
  BY DEF AddEvent
<1>4. AddEvent(th, now).timestamps = ts /\ AddEvent(th, now).windowSize = th.windowSize
  BY <1>1, <1>3
<1>5. ASSUME NEW a \in DOMAIN all PROVE all[a] \in Int
  BY <1>2
<1>6. \E s \in 1..(Len(all) + 1) :
        /\ \A a \in 1..(s - 1) : now - all[a] > th.windowSize
        /\ s <= Len(all) => now - all[s] <= th.windowSize
        /\ ts \in Seq(0..M)
        /\ Len(ts) = Len(all) + 1 - s
        /\ \A a \in 1..Len(ts) : ts[a] = all[s - 1 + a]
  <2> HIDE DEF all
  <2>1. CASE inside = {}
    <3>1. ts = <<>> /\ ts \in Seq(0..M) /\ Len(ts) = 0
      BY <2>1
    <3>2. ASSUME NEW a \in 1..Len(all) PROVE now - all[a] > th.windowSize
      <4>1. a \in DOMAIN all /\ ~(now - all[a] <= th.windowSize)
        BY <1>2, <2>1
      <4> QED
        BY <1>1, <1>5, <4>1
    <3> WITNESS Len(all) + 1 \in 1..(Len(all) + 1)
    <3> QED
      BY <1>2, <3>1, <3>2
  <2>2. CASE inside # {}
    <3> DEFINE s == Min(inside)
    <3>1. s \in inside /\ \A x \in inside : s <= x
      <4>1. inside \in SUBSET Nat
        BY <1>2
      <4> HIDE DEF inside
      <4> QED
        BY <2>2, <4>1, FirstOf
    <3>2. s \in 1..Len(all) /\ now - all[s] <= th.windowSize
      BY <1>2, <3>1
    <3>3. \A a \in 1..(s - 1) : now - all[a] > th.windowSize
      <4> SUFFICES ASSUME NEW a \in 1..(s - 1) PROVE now - all[a] > th.windowSize
        OBVIOUS
      <4>1. a \in DOMAIN all /\ ~(s <= a)
        BY <1>2, <3>2
      <4>2. ~(now - all[a] <= th.windowSize)
        BY <3>1, <4>1
      <4> QED
        BY <1>1, <1>5, <4>1, <4>2
    <3>4. ts = SubSeq(all, s, Len(all))
      BY <2>2
    <3> HIDE DEF s, ts
    <3>5. /\ ts \in Seq(0..M)
          /\ Len(ts) = Len(all) + 1 - s
          /\ \A a \in 1..Len(ts) : ts[a] = all[s - 1 + a]
      <4>1. Len(all) \in Nat /\ s \in Nat /\ s <= Len(all) /\ 1 <= s
        BY <1>2, <3>2
      <4>2. Len(ts) = Len(all) + 1 - s /\ DOMAIN ts = 1..(Len(all) + 1 - s)
        BY ONLY <1>2, <3>4, <4>1
      <4>3. \A a \in 1..(Len(all) + 1 - s) : ts[a] = all[s - 1 + a] /\ s - 1 + a \in 1..Len(all)
        BY ONLY <1>2, <3>4, <4>1
      <4>4. ts \in Seq(0..M)
        BY ONLY <1>2, <3>4, <4>1
      <4> QED
        BY ONLY <4>2, <4>3, <4>4
    <3>6. s \in 1..(Len(all) + 1)
      BY <1>2, <3>2
    <3> QED
      BY <3>2, <3>3, <3>5, <3>6
  <2> QED
    BY <2>1, <2>2
<1>7. AddEvent(th, now) \in [timestamps : Seq(0..M), windowSize : Int]
  <2>1. ts \in Seq(0..M)
    BY <1>6
  <2> HIDE DEF ts
  <2> QED
    BY <1>1, <1>3, <2>1
<1> HIDE DEF ts
<1> QED
  BY <1>4, <1>6, <1>7, Zenon

-----------------------------------------------------------------------------
(* The type invariant.                                                     *)

Window == [timestamps : Seq(0..MaxTime), windowSize : Int]
MatchRecord ==
    [time : 0..MaxTime,
     group : {Group(Rules[i], k) : i \in DOMAIN Rules, k \in Kinds},
     newest : 0..MaxTime]
Alert == [rule : DOMAIN Rules, no : Nat]

\* TypeOK leaves open what kinds of sequences the histories are.
TypeInv ==
    /\ TypeOK
    /\ matched \in [DOMAIN Rules -> Seq(MatchRecord)]
    /\ alerts \in Seq(Alert)

\* The record that RecordMatch adds.
NewMatch == [time |-> event.time, group |-> Group(Rule, event.kind), newest |-> newest]

\* An engine that has seen no event has the right type.
LEMMA TypeInit == Init => TypeInv
<1> SUFFICES ASSUME Init PROVE TypeInv
  OBVIOUS
<1> USE RuleEngineAssumption DEF Init
<1>1. /\ event = NoEvent /\ next \in 1..Len(Rules) + 1
      /\ newest \in 0..MaxTime /\ count \in 0..MaxEvents
  OBVIOUS
<1>2. DOMAIN thresholds = {}
  OBVIOUS
<1>3. matched \in [DOMAIN Rules -> Seq(MatchRecord)] /\ alerts \in Seq(Alert)
  OBVIOUS
<1>4. /\ \A i \in DOMAIN Rules : DOMAIN matched[i] = {}
      /\ DOMAIN alerts = {} /\ Range(alerts) = {}
  BY DEF Range
<1> QED
  BY <1>1, <1>2, <1>3, <1>4 DEF TypeInv, TypeOK

\* While an event is shown to the rules it is one of Kinds, and the rule it
\* comes to is one of Rules.
LEMMA AtRuleFacts ==
    ASSUME TypeInv, AtRule
    PROVE  /\ next \in DOMAIN Rules
           /\ event.kind \in Kinds /\ event.time \in 0..MaxTime
           /\ next + 1 \in 1..Len(Rules) + 1
           /\ NewMatch \in MatchRecord
<1> USE RuleEngineAssumption
<1>1. next \in DOMAIN Rules /\ next + 1 \in 1..Len(Rules) + 1
  BY DEF TypeInv, TypeOK, AtRule
<1>2. event \in [kind : Kinds, time : 0..MaxTime] /\ newest \in 0..MaxTime
  BY DEF TypeInv, TypeOK, AtRule
<1>3. event.kind \in Kinds /\ event.time \in 0..MaxTime
  BY <1>2
<1>4. Group(Rule, event.kind) \in {Group(Rules[i], k) : i \in DOMAIN Rules, k \in Kinds}
  BY <1>1, <1>3 DEF Rule
<1> QED
  BY <1>1, <1>2, <1>3, <1>4 DEF NewMatch, MatchRecord

\* A match is recorded at the end of the matches of its rule.
LEMMA MatchRecorded ==
    ASSUME TypeInv, AtRule, RecordMatch
    PROVE  /\ matched' \in [DOMAIN Rules -> Seq(MatchRecord)]
           /\ matched'[next] = Append(matched[next], NewMatch)
           /\ \A i \in DOMAIN Rules : i # next => matched'[i] = matched[i]
           /\ \A i \in DOMAIN Rules :
                /\ Len(matched[i]) \in Nat /\ DOMAIN matched[i] = 1..Len(matched[i])
                /\ DOMAIN matched[i] \subseteq DOMAIN matched'[i]
                /\ \A j \in DOMAIN matched[i] : matched'[i][j] = matched[i][j]
<1>1. matched \in [DOMAIN Rules -> Seq(MatchRecord)]
  BY DEF TypeInv
<1>2. matched' = [matched EXCEPT ![next] = Append(matched[next], NewMatch)]
  BY DEF RecordMatch, NewMatch
<1>3. next \in DOMAIN Rules /\ NewMatch \in MatchRecord
  BY AtRuleFacts
<1>4. matched[next] \in Seq(MatchRecord) /\ Append(matched[next], NewMatch) \in Seq(MatchRecord)
  BY <1>1, <1>3
<1>5. /\ matched' \in [DOMAIN Rules -> Seq(MatchRecord)]
      /\ matched'[next] = Append(matched[next], NewMatch)
      /\ \A i \in DOMAIN Rules : i # next => matched'[i] = matched[i]
  BY <1>1, <1>2, <1>3, <1>4
<1>6. ASSUME NEW i \in DOMAIN Rules
      PROVE  /\ Len(matched[i]) \in Nat /\ DOMAIN matched[i] = 1..Len(matched[i])
             /\ DOMAIN matched[i] \subseteq DOMAIN matched'[i]
             /\ \A j \in DOMAIN matched[i] : matched'[i][j] = matched[i][j]
  <2>1. matched[i] \in Seq(MatchRecord)
    BY <1>1
  <2>2. Len(matched[i]) \in Nat /\ DOMAIN matched[i] = 1..Len(matched[i])
    BY <2>1
  <2>3. CASE i = next
    BY <1>3, <1>4, <1>5, <2>1, <2>2, <2>3, AppendFacts
  <2>4. CASE i # next
    BY <1>5, <2>2, <2>4
  <2> QED
    BY <2>3, <2>4
<1> QED
  BY <1>5, <1>6

\* An alert for the match being recorded is the first for it.
LEMMA AlertRaised ==
    ASSUME TypeInv, AtRule, RecordMatch, emitAlert \/ UNCHANGED alerts
    PROVE  /\ alerts' \in Seq(Alert)
           /\ \A a \in Range(alerts)' : a.rule \in DOMAIN Rules /\ a.no \in DOMAIN matched'[a.rule]
           /\ \A i, j \in DOMAIN alerts' : alerts'[i] = alerts'[j] => i = j
           /\ Range(alerts) \subseteq Range(alerts)'
           /\ \A a \in Range(alerts)' \ Range(alerts) :
                a = [rule |-> next, no |-> Len(matched[next]) + 1]
           /\ emitAlert => [rule |-> next, no |-> Len(matched[next]) + 1] \in Range(alerts)'
<1> DEFINE new == [rule |-> next, no |-> Len(matched[next]) + 1]
<1>1. /\ alerts \in Seq(Alert)
      /\ \A a \in Range(alerts) : a.rule \in DOMAIN Rules /\ a.no \in DOMAIN matched[a.rule]
      /\ \A i, j \in DOMAIN alerts : alerts[i] = alerts[j] => i = j
  BY DEF TypeInv, TypeOK
<1>2. /\ next \in DOMAIN Rules /\ NewMatch \in MatchRecord
      /\ matched[next] \in Seq(MatchRecord)
  BY AtRuleFacts DEF TypeInv
<1>3. ASSUME NEW a \in Range(alerts)
      PROVE  a.rule \in DOMAIN Rules /\ a.no \in DOMAIN matched'[a.rule]
  BY <1>1, MatchRecorded
<1>4. CASE UNCHANGED alerts
  <2>1. Range(alerts)' = Range(alerts)
    BY <1>4 DEF Range
  <2>2. emitAlert => FALSE
    <3> SUFFICES ASSUME alerts = Append(alerts, new) PROVE FALSE
      BY <1>4 DEF emitAlert
    <3>1. Len(matched[next]) \in Nat
      BY <1>2
    <3>2. new \in Alert
      BY <1>2, <3>1 DEF Alert
    <3> QED
      BY <1>1, <3>2, AppendFacts
  <2> QED
    BY <1>1, <1>3, <1>4, <2>1, <2>2
<1>5. CASE emitAlert
  <2>1. alerts' = Append(alerts, new)
    BY <1>5 DEF emitAlert
  <2>2. Len(matched[next]) \in Nat
    BY <1>2
  <2>3. new \in Alert /\ new.rule = next /\ new.no = Len(matched[next]) + 1
    BY <1>2, <2>2 DEF Alert
  <2> HIDE DEF new
  <2>4. new.no \in DOMAIN matched'[new.rule]
    BY <1>2, <2>2, <2>3, MatchRecorded, AppendFacts
  <2>5. new \notin Range(alerts)
    <3> SUFFICES ASSUME new \in Range(alerts) PROVE FALSE
      OBVIOUS
    <3>1. Len(matched[next]) + 1 \in DOMAIN matched[next]
      BY <1>1, <2>3
    <3> QED
      BY <1>2, <2>2, <3>1
  <2>6. alerts' \in Seq(Alert) /\ Range(alerts)' = Range(alerts) \cup {new}
    <3>1. Range(Append(alerts, new)) = Range(alerts) \cup {new}
      BY <1>1, <2>3, RangeAppend
    <3> QED
      BY <1>1, <2>1, <2>3, <3>1, AppendFacts DEF Range
  <2>7. ASSUME NEW i \in DOMAIN alerts', NEW j \in DOMAIN alerts', alerts'[i] = alerts'[j]
        PROVE  i = j
    <3>1. /\ Len(alerts) \in Nat /\ DOMAIN alerts = 1..Len(alerts)
          /\ DOMAIN alerts' = 1..(Len(alerts) + 1)
          /\ \A k \in DOMAIN alerts : alerts'[k] = alerts[k]
          /\ alerts'[Len(alerts) + 1] = new
      BY <1>1, <2>1, <2>3, AppendFacts
    <3>2. \A k \in DOMAIN alerts : alerts[k] # new
      BY <2>5 DEF Range
    <3>3. CASE i \in DOMAIN alerts /\ j \in DOMAIN alerts
      BY <1>1, <2>7, <3>1, <3>3
    <3>4. CASE i \notin DOMAIN alerts \/ j \notin DOMAIN alerts
      BY <2>7, <3>1, <3>2, <3>4
    <3> QED
      BY <3>3, <3>4
  <2>8. \A a \in Range(alerts)' : a.rule \in DOMAIN Rules /\ a.no \in DOMAIN matched'[a.rule]
    BY <1>2, <1>3, <2>3, <2>4, <2>6
  <2> QED
    BY <2>6, <2>7, <2>8 DEF new
<1> QED
  BY <1>4, <1>5

\* The window of a key, present or new, is a window.
LEMMA WindowOfType ==
    ASSUME TypeInv, AtRule, NEW key
    PROVE  WindowOf(key) \in Window
<1> USE RuleEngineAssumption
<1>1. Rule.window \in Int \cup {Unset}
  BY AtRuleFacts DEF Rule
<1>2. ParseDuration(Rule.window) \in Int
  BY <1>1 DEF ParseDuration
<1>3. CASE key \in DOMAIN thresholds
  BY <1>3 DEF WindowOf, TypeInv, TypeOK, Window
<1>4. CASE key \notin DOMAIN thresholds
  <2>1. [timestamps |-> <<>>, windowSize |-> ParseDuration(Rule.window)] \in Window
    BY <1>2 DEF Window
  <2> QED
    BY <1>4, <2>1 DEF WindowOf
<1> QED
  BY <1>3, <1>4

\* Every step of the engine keeps the type.
LEMMA TypeStep == TypeInv /\ [Next]_vars => TypeInv'
<1> SUFFICES ASSUME TypeInv, [Next]_vars PROVE TypeInv'
  OBVIOUS
<1> USE RuleEngineAssumption
<1>1. ASSUME NEW k \in Kinds, NEW t \in 0..MaxTime, Receive(k, t) PROVE TypeInv'
  <2>1. /\ event' \in [kind : Kinds, time : 0..MaxTime]
        /\ next' \in 1..Len(Rules) + 1
        /\ count' \in 0..MaxEvents
    BY <1>1 DEF Receive, TypeInv, TypeOK
  <2>2. newest' \in 0..MaxTime
    <3>1. {newest, t} \in SUBSET Nat
      BY DEF TypeInv, TypeOK
    <3>2. newest' \in {newest, t}
      BY <1>1, <3>1, LatestOf DEF Receive
    <3> QED
      BY <3>2 DEF TypeInv, TypeOK
  <2> QED
    BY <1>1, <2>1, <2>2 DEF Receive, TypeInv, TypeOK, Range
<1>2. ASSUME AtRule, Continue, UNCHANGED <<thresholds, history, matched, alerts>> PROVE TypeInv'
  <2>1. next' \in 1..Len(Rules) + 1
    BY <1>2, AtRuleFacts DEF Continue
  <2> QED
    BY <1>2, <2>1 DEF TypeInv, TypeOK, Continue, Range, history
<1>3. ASSUME AtRule, Continue, RecordMatch, emitAlert \/ UNCHANGED alerts, UNCHANGED history,
             \A k \in DOMAIN thresholds' : thresholds'[k] \in Window
      PROVE  TypeInv'
  <2>1. next' \in 1..Len(Rules) + 1 /\ UNCHANGED <<event, proc, newest, count>>
    BY <1>3, AtRuleFacts DEF Continue, history
  <2>2. /\ matched' \in [DOMAIN Rules -> Seq(MatchRecord)]
        /\ alerts' \in Seq(Alert)
        /\ \A a \in Range(alerts)' : a.rule \in DOMAIN Rules /\ a.no \in DOMAIN matched'[a.rule]
        /\ \A i, j \in DOMAIN alerts' : alerts'[i] = alerts'[j] => i = j
    BY <1>3, MatchRecorded, AlertRaised
  <2>3. ASSUME NEW i \in DOMAIN Rules, NEW j \in DOMAIN matched'[i]
        PROVE  matched'[i][j].time \in 0..MaxTime /\ matched'[i][j].newest \in 0..MaxTime
    <3>1. matched'[i] \in Seq(MatchRecord)
      BY <2>2
    <3>2. matched'[i][j] \in MatchRecord
      BY <3>1
    <3> QED
      BY <3>2 DEF MatchRecord
  <2>4. DOMAIN matched' = DOMAIN Rules
    BY <2>2
  <2> QED
    BY <1>3, <2>1, <2>2, <2>3, <2>4 DEF TypeInv, TypeOK, Window
<1>4. CASE NoStep
  BY <1>2, <1>4 DEF NoStep
<1>5. CASE handleSequence
  BY <1>5 DEF handleSequence, TypeInv, TypeOK, history, Range
<1>6. CASE NoMatch
  BY <1>2, <1>6 DEF NoMatch
<1>7. CASE Single
  <2>1. \A k \in DOMAIN thresholds' : thresholds'[k] \in Window
    BY <1>7 DEF Single, TypeInv, TypeOK, Window
  <2> QED
    BY <1>3, <1>7, <2>1 DEF Single
<1>8. CASE handleThreshold
  <2>1. AtRule /\ RecordMatch /\ Continue /\ UNCHANGED history
    BY <1>8 DEF handleThreshold
  <2>2. emitAlert \/ UNCHANGED alerts
    BY <1>8 DEF handleThreshold
  <2>3. PICK key, th : /\ th = AddEvent(WindowOf(key), event.time)
                       /\ thresholds' = [k \in DOMAIN thresholds \cup {key} |->
                                           IF k = key THEN th ELSE thresholds[k]]
    BY <1>8, Zenon DEF handleThreshold
  <2>4. th \in Window
    <3>1. WindowOf(key) \in Window /\ event.time \in 0..MaxTime
      BY <2>1, WindowOfType, AtRuleFacts
    <3> QED
      BY <2>3, <3>1, AddEventDrops DEF Window
  <2>5. \A k \in DOMAIN thresholds' : thresholds'[k] \in Window
    BY <2>3, <2>4 DEF TypeInv, TypeOK, Window
  <2> QED
    BY <1>3, <2>1, <2>2, <2>5
<1>9. CASE EventDone
  BY <1>9 DEF EventDone, TypeInv, TypeOK, history, Range
<1>10. CASE UNCHANGED vars
  BY <1>10 DEF vars, engineVars, history, TypeInv, TypeOK, Range
<1> QED
  BY <1>1, <1>4, <1>5, <1>6, <1>7, <1>8, <1>9, <1>10 DEF Next

\* The rule engine keeps its variables in their types, and no match raises two
\* alerts (ProcessEvent), for any rules, events and bounds.
THEOREM EngineTypeCorrect == Spec => []TypeOK
<1>1. TypeInv => TypeOK
  BY DEF TypeInv
<1> QED
  BY <1>1, TypeInit, TypeStep, PTL DEF Spec

-----------------------------------------------------------------------------
(* Bursts.                                                                 *)

\* The timestamps ts of a window stand for matches of the group g: at tells
\* which, in the order they came, and a match of g without a timestamp is older
\* than the window w.
StandsFor(ts, at, ms, g, w, now) ==
    /\ \A a, b \in DOMAIN ts : a < b => at[a] < at[b]
    /\ \A a \in DOMAIN ts : ms[at[a]].time = ts[a] /\ ms[at[a]].group = g
    /\ \A j \in DOMAIN ms :
          ms[j].group = g => (\E a \in DOMAIN ts : at[a] = j) \/ now - ms[j].time > w

Represents(ts, ms, g, w, now) ==
    \E at \in [DOMAIN ts -> DOMAIN ms] : StandsFor(ts, at, ms, g, w, now)

\* What the times of an event and of the matches say of each other.
TimesInv ==
    /\ event # NoEvent => event.time <= newest /\ newest <= event.time + Lag
    /\ \A i \in DOMAIN Rules : \A j, k \in DOMAIN matched[i] :
          /\ matched[i][j].time <= newest
          /\ j < k => matched[i][j].time <= matched[i][k].time + Lag

Timestamps(key) == IF key \in DOMAIN thresholds THEN thresholds[key].timestamps ELSE <<>>

\* The window of every rule and group stands for the matches of that rule in
\* that group.
WindowsInv ==
    \A i \in ThresholdRules : \A k \in Kinds :
        /\ KeyOf(i, k) \in DOMAIN thresholds =>
              thresholds[KeyOf(i, k)].windowSize = ParseDuration(Rules[i].window)
        /\ Represents(Timestamps(KeyOf(i, k)), matched[i], Group(Rules[i], k),
                      ParseDuration(Rules[i].window), newest)

\* A new event makes no timestamp stand for less.
LEMMA RepresentsLater ==
    ASSUME NEW ts, NEW ms, NEW g, NEW w \in Int, NEW now \in Nat, NEW later \in Nat, now <= later,
           \A j \in DOMAIN ms : ms[j].time \in Nat,
           Represents(ts, ms, g, w, now)
    PROVE  Represents(ts, ms, g, w, later)
<1>1. PICK at \in [DOMAIN ts -> DOMAIN ms] : StandsFor(ts, at, ms, g, w, now)
  BY DEF Represents
<1>2. \A j \in DOMAIN ms : now - ms[j].time > w => later - ms[j].time > w
  OBVIOUS
<1>3. StandsFor(ts, at, ms, g, w, later)
  BY <1>1, <1>2, Zenon DEF StandsFor
<1> QED
  BY <1>3 DEF Represents

\* A match of another group changes nothing for a window.
LEMMA RepresentsOther ==
    ASSUME NEW S, NEW ts, NEW ms \in Seq(S), NEW rec \in S, NEW g, NEW w, NEW now,
           rec.group # g,
           Represents(ts, ms, g, w, now)
    PROVE  Represents(ts, Append(ms, rec), g, w, now)
<1> DEFINE new == Append(ms, rec)
<1>1. PICK at \in [DOMAIN ts -> DOMAIN ms] : StandsFor(ts, at, ms, g, w, now)
  BY DEF Represents
<1>2. /\ DOMAIN ms = 1..Len(ms) /\ DOMAIN new = 1..(Len(ms) + 1) /\ Len(ms) \in Nat
      /\ \A j \in DOMAIN ms : new[j] = ms[j]
      /\ new[Len(ms) + 1] = rec
  BY AppendFacts
<1> HIDE DEF new
<1>3. \A j \in DOMAIN new : j \in DOMAIN ms \/ new[j].group # g
  BY <1>2
<1>4. DOMAIN ms \subseteq DOMAIN new
  BY <1>2
<1>5. StandsFor(ts, at, new, g, w, now)
  <2>1. \A a \in DOMAIN ts : new[at[a]] = ms[at[a]]
    BY <1>1, <1>2
  <2> QED
    BY <1>1, <1>2, <1>3, <2>1, Zenon DEF StandsFor
<1>6. at \in [DOMAIN ts -> DOMAIN new]
  BY <1>1, <1>4
<1> QED
  BY <1>5, <1>6 DEF Represents, new

\* AddEvent keeps a window standing for its matches: what it removes has become
\* too old.
LEMMA RepresentsAdded ==
    ASSUME NEW M \in Nat, NEW S, NEW ms \in Seq(S), NEW rec \in S, NEW now \in Nat, NEW g,
           NEW th \in [timestamps : Seq(0..M), windowSize : Int],
           \A j \in DOMAIN ms : ms[j].time \in Nat,
           rec.time \in 0..M, rec.time <= now, rec.group = g,
           Represents(th.timestamps, ms, g, th.windowSize, now)
    PROVE  Represents(AddEvent(th, rec.time).timestamps, Append(ms, rec), g, th.windowSize, now)
<1> DEFINE ts == th.timestamps
           w == th.windowSize
           all == Append(ts, rec.time)
           new == Append(ms, rec)
           kept == AddEvent(th, rec.time).timestamps
<1>1. PICK at \in [DOMAIN ts -> DOMAIN ms] : StandsFor(ts, at, ms, g, w, now)
  BY DEF Represents
<1>2. /\ DOMAIN ms = 1..Len(ms) /\ DOMAIN new = 1..(Len(ms) + 1) /\ Len(ms) \in Nat
      /\ \A j \in DOMAIN ms : new[j] = ms[j]
      /\ new[Len(ms) + 1] = rec
  BY AppendFacts
<1>3. ts \in Seq(0..M) /\ w \in Int
  OBVIOUS
<1>4. /\ DOMAIN ts = 1..Len(ts) /\ Len(ts) \in Nat /\ Len(all) = Len(ts) + 1
      /\ \A a \in DOMAIN ts : all[a] = ts[a]
      /\ all[Len(ts) + 1] = rec.time
  BY <1>3, AppendFacts
<1>5. kept \in Seq(0..M)
  <2>1. AddEvent(th, rec.time) \in [timestamps : Seq(0..M), windowSize : Int]
    BY AddEventDrops
  <2> QED
    BY <2>1
<1>6. PICK s \in 1..(Len(all) + 1) :
        /\ \A a \in 1..(s - 1) : rec.time - all[a] > w
        /\ Len(kept) = Len(all) + 1 - s
        /\ \A a \in 1..Len(kept) : kept[a] = all[s - 1 + a]
  BY AddEventDrops
<1>7. DOMAIN kept = 1..Len(kept)
  BY <1>5
<1> HIDE DEF new, kept, all, ts, w
<1> DEFINE pos == [a \in 1..(Len(ts) + 1) |-> IF a = Len(ts) + 1 THEN Len(ms) + 1 ELSE at[a]]
           to == [a \in DOMAIN kept |-> pos[s - 1 + a]]
<1>8. \A a \in 1..(Len(ts) + 1) :
        /\ pos[a] \in DOMAIN new
        /\ new[pos[a]].time = all[a] /\ new[pos[a]].group = g
  <2> SUFFICES ASSUME NEW a \in 1..(Len(ts) + 1)
               PROVE  /\ pos[a] \in DOMAIN new
                      /\ new[pos[a]].time = all[a] /\ new[pos[a]].group = g
    OBVIOUS
  <2>1. CASE a = Len(ts) + 1
    BY <1>2, <1>4, <2>1
  <2>2. CASE a # Len(ts) + 1
    <3>1. a \in DOMAIN ts /\ pos[a] = at[a] /\ at[a] \in DOMAIN ms
      <4>1. a \in DOMAIN ts
        BY <1>4, <2>2, BelowNext, Zenon
      <4>2. pos[a] = at[a]
        BY <2>2
      <4> QED
        BY <1>1, <4>1, <4>2
    <3>2. ms[at[a]].time = ts[a] /\ ms[at[a]].group = g
      BY <1>1, <3>1 DEF StandsFor
    <3> QED
      BY <1>2, <1>4, <3>1, <3>2
  <2> QED
    BY <2>1, <2>2
<1>9. \A a, b \in 1..(Len(ts) + 1) : a < b => pos[a] < pos[b]
  <2> SUFFICES ASSUME NEW a \in 1..(Len(ts) + 1), NEW b \in 1..(Len(ts) + 1), a < b
               PROVE  pos[a] < pos[b]
    OBVIOUS
  <2>1. a \in DOMAIN ts /\ pos[a] = at[a] /\ at[a] \in DOMAIN ms
    BY <1>1, <1>4
  <2>2. CASE b = Len(ts) + 1
    BY <1>2, <1>4, <2>1, <2>2
  <2>3. CASE b # Len(ts) + 1
    <3>1. b \in DOMAIN ts
      BY <1>4, <2>3, BelowNext, Zenon
    <3>2. pos[b] = at[b]
      BY <2>3
    <3> QED
      BY <1>1, <2>1, <3>1, <3>2 DEF StandsFor
  <2> QED
    BY <2>2, <2>3
<1> HIDE DEF pos
<1>10. \A a \in DOMAIN kept :
         /\ s - 1 + a \in 1..(Len(ts) + 1) /\ to[a] = pos[s - 1 + a] /\ kept[a] = all[s - 1 + a]
  <2> SUFFICES ASSUME NEW a \in DOMAIN kept
               PROVE  /\ s - 1 + a \in 1..(Len(ts) + 1)
                      /\ to[a] = pos[s - 1 + a] /\ kept[a] = all[s - 1 + a]
    OBVIOUS
  <2>1. s - 1 + a \in 1..(Len(ts) + 1)
    BY <1>4, <1>6, <1>7
  <2>2. kept[a] = all[s - 1 + a]
    BY <1>6, <1>7
  <2> QED
    BY <2>1, <2>2
<1>11. to \in [DOMAIN kept -> DOMAIN new]
  BY <1>8, <1>10
<1>12. \A a, b \in DOMAIN kept : a < b => to[a] < to[b]
  BY <1>7, <1>9, <1>10
<1>13. \A a \in DOMAIN kept : new[to[a]].time = kept[a] /\ new[to[a]].group = g
  BY <1>8, <1>10
<1>14. ASSUME NEW j \in DOMAIN new, new[j].group = g, ~(now - new[j].time > w)
       PROVE  \E a \in DOMAIN kept : to[a] = j
  <2>1. PICK b \in 1..(Len(ts) + 1) : pos[b] = j
    <3>1. CASE j = Len(ms) + 1
      <4>1. Len(ts) + 1 \in 1..(Len(ts) + 1) /\ pos[Len(ts) + 1] = Len(ms) + 1
        BY <1>4 DEF pos
      <4> QED
        BY <3>1, <4>1
    <3>2. CASE j # Len(ms) + 1
      <4>1. j \in DOMAIN ms /\ new[j] = ms[j]
        BY <1>2, <3>2
      <4>2. PICK b \in DOMAIN ts : at[b] = j
        BY <1>1, <1>14, <4>1 DEF StandsFor
      <4>3. b \in 1..(Len(ts) + 1) /\ pos[b] = j
        BY <1>4, <4>2 DEF pos
      <4> QED
        BY <4>3
    <3> QED
      BY <3>1, <3>2
  <2>2. new[j].time = all[b] /\ all[b] \in Int
    <3>1. all \in Seq(0..M)
      BY <1>3, AppendFacts DEF all
    <3> QED
      BY <1>4, <1>8, <2>1, <3>1
  <2>3. ~(rec.time - all[b] > w)
    <3>1. rec.time \in Int /\ rec.time <= now /\ now \in Int /\ w \in Int /\ all[b] \in Int
      BY <1>3, <2>2
    <3>2. ~(now - all[b] > w)
      BY <1>14, <2>2, Zenon
    <3> QED
      BY ONLY <3>1, <3>2
  <2>4. ~(b \in 1..(s - 1))
    BY <1>6, <2>3
  <2>5. b - (s - 1) \in DOMAIN kept /\ s - 1 + (b - (s - 1)) = b
    BY <1>4, <1>6, <1>7, <2>4
  <2> QED
    BY <1>10, <2>1, <2>5
<1> HIDE DEF to
<1>15. StandsFor(kept, to, new, g, w, now)
  BY <1>12, <1>13, <1>14, Zenon DEF StandsFor
<1> QED
  BY <1>11, <1>15 DEF Represents, kept, new, w

\* The matches of g among ms that are no older than span before the moment now.
RecentOf(ms, g, now, span) == {j \in DOMAIN ms : ms[j].group = g /\ now - ms[j].time <= span}

\* A sequence of length n has n positions.
LEMMA Positions ==
    ASSUME NEW n \in Nat
    PROVE  IsFiniteSet(1..n) /\ Cardinality(1..n) = n
<1>1. /\ IsFiniteSet(1..n)
      /\ Cardinality(1..n) = IF 1 > n THEN 0 ELSE n - 1 + 1
  BY FS_Interval
<1> QED
  BY <1>1

\* A window has a timestamp for every match that is young enough.
LEMMA WindowHoldsAll ==
    ASSUME NEW S, NEW ms \in Seq(S), NEW T, NEW ts \in Seq(T), NEW g, NEW w \in Int, NEW now \in Nat,
           \A j \in DOMAIN ms : ms[j].time \in Nat,
           Represents(ts, ms, g, w, now)
    PROVE  /\ Cardinality(RecentOf(ms, g, now, w)) \in Nat
           /\ Cardinality(RecentOf(ms, g, now, w)) <= Len(ts)
<1>1. PICK at \in [DOMAIN ts -> DOMAIN ms] : StandsFor(ts, at, ms, g, w, now)
  BY DEF Represents
<1>2. DOMAIN ts = 1..Len(ts) /\ Len(ts) \in Nat
  OBVIOUS
<1> DEFINE stood == {at[a] : a \in DOMAIN ts}
<1>3. RecentOf(ms, g, now, w) \subseteq stood
  <2> SUFFICES ASSUME NEW j \in DOMAIN ms, ms[j].group = g, now - ms[j].time <= w
               PROVE  \E a \in DOMAIN ts : at[a] = j
    BY DEF RecentOf
  <2>1. ~(now - ms[j].time > w)
    OBVIOUS
  <2> QED
    BY <1>1, <2>1 DEF StandsFor
<1>4. at \in Surjection(DOMAIN ts, stood)
  BY <1>1 DEF Surjection
<1>5. IsFiniteSet(DOMAIN ts) /\ Cardinality(DOMAIN ts) = Len(ts)
  BY <1>2, Positions
<1> HIDE DEF stood
<1>6. IsFiniteSet(stood) /\ Cardinality(stood) <= Len(ts)
  BY <1>4, <1>5, FS_Surjection
<1>7. /\ IsFiniteSet(RecentOf(ms, g, now, w))
      /\ Cardinality(RecentOf(ms, g, now, w)) <= Cardinality(stood)
  BY <1>3, <1>6, FS_Subset
<1>8. Cardinality(stood) \in Nat /\ Cardinality(RecentOf(ms, g, now, w)) \in Nat
  BY <1>6, <1>7, FS_CardinalityType
<1> QED
  BY <1>2, <1>6, <1>7, <1>8

\* A window has no more timestamps than there are matches that are as young as
\* all of them.
LEMMA WindowHoldsNoMore ==
    ASSUME NEW S, NEW ms \in Seq(S), NEW M \in Nat, NEW ts \in Seq(0..M), NEW g, NEW w, NEW now,
           NEW t \in Nat, NEW span \in Int,
           \A a \in DOMAIN ts : t - ts[a] <= span,
           Represents(ts, ms, g, w, now)
    PROVE  /\ Cardinality(RecentOf(ms, g, t, span)) \in Nat
           /\ Len(ts) <= Cardinality(RecentOf(ms, g, t, span))
<1> DEFINE recent == RecentOf(ms, g, t, span)
<1>1. PICK at \in [DOMAIN ts -> DOMAIN ms] : StandsFor(ts, at, ms, g, w, now)
  BY DEF Represents
<1>2. /\ DOMAIN ts = 1..Len(ts) /\ Len(ts) \in Nat
      /\ DOMAIN ms = 1..Len(ms) /\ Len(ms) \in Nat
  OBVIOUS
<1>3. at \in [DOMAIN ts -> recent]
  BY <1>1 DEF StandsFor, RecentOf
<1>4. \A a, b \in DOMAIN ts : at[a] = at[b] => a = b
  <2> SUFFICES ASSUME NEW a \in DOMAIN ts, NEW b \in DOMAIN ts, at[a] = at[b], a # b PROVE FALSE
    OBVIOUS
  <2>1. at[a] \in Nat /\ at[b] \in Nat
    BY <1>1, <1>2
  <2>2. a < b \/ b < a
    BY <1>2
  <2> QED
    BY <1>1, <2>1, <2>2 DEF StandsFor
<1>5. at \in Injection(DOMAIN ts, recent)
  BY <1>3, <1>4 DEF Injection, IsInjective
<1>6. IsFiniteSet(recent)
  <2>1. IsFiniteSet(DOMAIN ms)
    BY <1>2, FS_Interval
  <2>2. recent \in SUBSET DOMAIN ms
    BY DEF RecentOf
  <2> QED
    BY <2>1, <2>2, FS_Subset
<1>7. Cardinality(DOMAIN ts) = Len(ts)
  BY <1>2, Positions
<1> HIDE DEF recent
<1>8. Cardinality(DOMAIN ts) <= Cardinality(recent) /\ Cardinality(recent) \in Nat
  BY <1>5, <1>6, FS_Injection, FS_CardinalityType
<1> QED
  BY <1>7, <1>8 DEF recent

\* After AddEvent every timestamp is in the window, but for the disorder: the
\* first one is, and the ones after it are older by at most lag.
LEMMA KeptAreYoung ==
    ASSUME NEW M \in Nat, NEW lag \in Nat, NEW S, NEW ms \in Seq(S), NEW g, NEW now,
           NEW th \in [timestamps : Seq(0..M), windowSize : Int], NEW t \in 0..M,
           \A j, k \in DOMAIN ms : j < k => ms[j].time <= ms[k].time + lag,
           Represents(AddEvent(th, t).timestamps, ms, g, th.windowSize, now)
    PROVE  \A a \in DOMAIN AddEvent(th, t).timestamps :
              t - AddEvent(th, t).timestamps[a] <= th.windowSize + lag
<1> DEFINE all == Append(th.timestamps, t)
           kept == AddEvent(th, t).timestamps
           w == th.windowSize
<1>1. PICK at \in [DOMAIN kept -> DOMAIN ms] : StandsFor(kept, at, ms, g, w, now)
  BY DEF Represents
<1>2. AddEvent(th, t) \in [timestamps : Seq(0..M), windowSize : Int]
  BY AddEventDrops
<1>3. kept \in Seq(0..M) /\ DOMAIN kept = 1..Len(kept) /\ Len(kept) \in Nat /\ w \in Int
  BY <1>2
<1>4. all \in Seq(0..M) /\ Len(all) \in Nat
  OBVIOUS
<1>5. PICK s \in 1..(Len(all) + 1) :
        /\ s <= Len(all) => t - all[s] <= w
        /\ Len(kept) = Len(all) + 1 - s
        /\ \A a \in 1..Len(kept) : kept[a] = all[s - 1 + a]
  BY AddEventDrops
<1> HIDE DEF all, kept, w
<1> SUFFICES ASSUME NEW a \in DOMAIN kept PROVE t - kept[a] <= w + lag
  BY DEF kept, w
<1>6. 1 \in 1..Len(kept) /\ s <= Len(all) /\ s - 1 + 1 = s
  BY <1>3, <1>4, <1>5
<1>7. t - kept[1] <= w
  BY <1>5, <1>6
<1>8. kept[1] \in Nat /\ kept[a] \in Nat
  BY <1>3, <1>6
<1>9. CASE a = 1
  BY <1>3, <1>7, <1>8, <1>9
<1>10. CASE a # 1
  <2>1. 1 < a
    BY <1>3, <1>10
  <2>2. at[1] < at[a] /\ ms[at[1]].time = kept[1] /\ ms[at[a]].time = kept[a]
    BY <1>1, <1>3, <1>6, <2>1 DEF StandsFor
  <2>3. kept[1] <= kept[a] + lag
    BY <1>1, <1>3, <1>6, <2>2
  <2>4. t \in Nat /\ w \in Int
    BY <1>3
  <2> QED
    <3>1. t - kept[a] <= t - kept[1] + lag
      BY ONLY <1>8, <2>3, <2>4, lag \in Nat
    <3>2. t - kept[a] \in Int /\ t - kept[1] \in Int
      BY ONLY <1>8, <2>4
    <3> QED
      BY ONLY <1>7, <2>4, <3>1, <3>2, lag \in Nat
<1> QED
  BY <1>9, <1>10

\* The kinds of steps: an event comes, a match is recorded, or neither the
\* windows nor the histories change.
LEMMA EngineMoves ==
    ASSUME TypeInv, [Next]_vars
    PROVE  \/ \E k \in Kinds, t \in 0..MaxTime : Receive(k, t)
           \/ Single
           \/ handleThreshold
           \/ /\ UNCHANGED <<thresholds, newest, matched, alerts>>
              /\ event' \in {event, NoEvent}
<1>1. CASE NoStep \/ NoMatch
  BY <1>1 DEF NoStep, NoMatch, Continue, history
<1>2. CASE handleSequence
  BY <1>2 DEF handleSequence, history
<1>3. CASE EventDone
  BY <1>3 DEF EventDone, history
<1>4. CASE UNCHANGED vars
  BY <1>4 DEF vars, engineVars, history
<1> QED
  BY <1>1, <1>2, <1>3, <1>4 DEF Next

\* The events come in order but for Lag.
LEMMA TimesStep ==
    ASSUME TypeInv, TimesInv, [Next]_vars
    PROVE  TimesInv'
<1> USE RuleEngineAssumption
<1>1. /\ newest \in Nat
      /\ matched \in [DOMAIN Rules -> Seq(MatchRecord)]
      /\ \A i \in DOMAIN Rules : \A j \in DOMAIN matched[i] : matched[i][j].time \in Nat
  BY DEF TypeInv, TypeOK
<1>2. ASSUME NEW k \in Kinds, NEW t \in 0..MaxTime, Receive(k, t) PROVE TimesInv'
  <2>1. newest' = IF newest >= t THEN newest ELSE t
    <3>1. newest' = Max({newest, t}) /\ t \in Nat
      BY <1>2 DEF Receive
    <3>2. Max({newest, t}) = IF newest >= t THEN newest ELSE t
      BY <1>1, <3>1, LatestOf
    <3> QED
      BY <3>1, <3>2
  <2>2. event'.time = t /\ t + Lag >= newest /\ matched' = matched
    BY <1>2 DEF Receive
  <2>3. event'.time <= newest' /\ newest' <= event'.time + Lag
    BY <1>1, <2>1, <2>2
  <2>4. newest <= newest' /\ newest' \in Nat
    BY <1>1, <2>1
  <2>5. \A i \in DOMAIN Rules : \A j \in DOMAIN matched[i] : matched[i][j].time <= newest'
    BY <1>1, <2>4 DEF TimesInv
  <2> QED
    BY <2>2, <2>3, <2>5 DEF TimesInv
<1>3. ASSUME AtRule, RecordMatch, Continue, UNCHANGED newest PROVE TimesInv'
  <2>1. event' = event /\ event # NoEvent
    BY <1>3 DEF Continue, AtRule
  <2>2. event.time <= newest /\ newest <= event.time + Lag /\ event.time \in Nat
    BY <1>3, <2>1, AtRuleFacts DEF TimesInv
  <2> DEFINE ms == matched'[next]
             n == Len(matched[next])
  <2>3. /\ next \in DOMAIN Rules
        /\ ms = Append(matched[next], NewMatch) /\ NewMatch \in MatchRecord
        /\ matched[next] \in Seq(MatchRecord)
    BY <1>1, <1>3, MatchRecorded, AtRuleFacts
  <2>4. /\ n \in Nat /\ DOMAIN ms = 1..(n + 1) /\ DOMAIN matched[next] = 1..n
        /\ \A j \in 1..n : ms[j] = matched[next][j]
        /\ ms[n + 1] = NewMatch
    BY <2>3, AppendFacts
  <2>5. NewMatch.time = event.time
    BY DEF NewMatch
  <2>6. \A j \in 1..n : ms[j].time \in Nat /\ ms[j].time <= newest
    BY <1>1, <2>3, <2>4 DEF TimesInv
  <2>7. \A j \in DOMAIN ms : ms[j].time <= newest
    BY <2>2, <2>4, <2>5, <2>6
  <2>8. ASSUME NEW j \in DOMAIN ms, NEW k \in DOMAIN ms, j < k
        PROVE  ms[j].time <= ms[k].time + Lag
    <3>1. j \in 1..n
      BY <2>4, <2>8
    <3>2. CASE k = n + 1
      <4>1. ms[j].time <= newest /\ ms[j].time \in Nat /\ ms[k].time = event.time
        BY <2>4, <2>5, <2>6, <3>1, <3>2
      <4>2. newest \in Nat /\ event.time \in Nat /\ newest <= event.time + Lag
        BY <1>1, <2>2
      <4> HIDE DEF ms
      <4> QED
        BY <4>1, <4>2
    <3>3. CASE k # n + 1
      <4>1. k \in 1..n
        BY <2>4, <3>3
      <4> QED
        BY <2>3, <2>4, <2>8, <3>1, <4>1 DEF TimesInv
    <3> QED
      BY <3>2, <3>3
  <2> HIDE DEF ms
  <2>9. ASSUME NEW i \in DOMAIN Rules, NEW j \in DOMAIN matched'[i], NEW k \in DOMAIN matched'[i]
        PROVE  /\ matched'[i][j].time <= newest
               /\ j < k => matched'[i][j].time <= matched'[i][k].time + Lag
    <3>1. CASE i = next
      BY <2>7, <2>8, <2>9, <3>1 DEF ms
    <3>2. CASE i # next
      <4>1. matched'[i] = matched[i]
        BY <1>3, <3>2, MatchRecorded
      <4> QED
        BY <2>9, <4>1 DEF TimesInv
    <3> QED
      BY <3>1, <3>2
  <2> QED
    BY <1>3, <2>1, <2>2, <2>9 DEF TimesInv
<1>4. CASE Single
  BY <1>3, <1>4 DEF Single, history
<1>5. CASE handleThreshold
  BY <1>3, <1>5 DEF handleThreshold, history
<1>6. CASE UNCHANGED <<thresholds, newest, matched, alerts>> /\ event' \in {event, NoEvent}
  BY <1>6 DEF TimesInv
<1> QED
  BY <1>2, <1>4, <1>5, <1>6, EngineMoves

\* What handleThreshold makes of the window of the match.
LEMMA ThresholdStep ==
    ASSUME KeysTellGroups, TypeInv, TimesInv, TimesInv', WindowsInv, handleThreshold
    PROVE  LET key == KeyOf(next, event.kind)
               th == AddEvent(WindowOf(key), event.time)
               w == ParseDuration(Rule.window)
           IN  /\ next \in ThresholdRules
               /\ th \in Window /\ th.windowSize = w /\ w \in Int
               /\ thresholds' = [k \in DOMAIN thresholds \cup {key} |->
                                   IF k = key THEN th ELSE thresholds[k]]
               /\ Len(th.timestamps) > Rule.count => emitAlert
               /\ ~(Len(th.timestamps) > Rule.count) => UNCHANGED alerts
               /\ Represents(th.timestamps, matched'[next], Group(Rule, event.kind), w, newest)
               /\ \A a \in DOMAIN th.timestamps : event.time - th.timestamps[a] <= w + Lag
<1> USE RuleEngineAssumption
<1> DEFINE key == KeyOf(next, event.kind)
           old == WindowOf(key)
           th == AddEvent(old, event.time)
           w == ParseDuration(Rule.window)
           g == Group(Rule, event.kind)
<1>1. AtRule /\ RecordMatch
  BY DEF handleThreshold
<1>2. /\ next \in DOMAIN Rules /\ event.kind \in Kinds /\ event.time \in 0..MaxTime
      /\ NewMatch \in MatchRecord
  BY <1>1, AtRuleFacts
<1>3. next \in ThresholdRules
  BY <1>2 DEF handleThreshold, ThresholdRules, Rule
<1>4. key = buildGroupKey(Rule.name, Rule.group_by, event.kind)
  BY DEF KeyOf, Rule
<1>5. /\ thresholds' = [k \in DOMAIN thresholds \cup {key} |->
                          IF k = key THEN th ELSE thresholds[k]]
      /\ Len(th.timestamps) > Rule.count => emitAlert
      /\ ~(Len(th.timestamps) > Rule.count) => UNCHANGED alerts
  BY <1>4 DEF handleThreshold
<1>6. old \in Window
  BY <1>1, WindowOfType
<1>7. old.windowSize = w /\ old.timestamps = Timestamps(key)
  BY <1>2, <1>3 DEF WindowsInv, WindowOf, Timestamps, Rule
<1>8. Represents(old.timestamps, matched[next], g, old.windowSize, newest)
  BY <1>2, <1>3, <1>7 DEF WindowsInv, Rule
<1>9. /\ matched[next] \in Seq(MatchRecord)
      /\ matched'[next] = Append(matched[next], NewMatch)
      /\ matched'[next] \in Seq(MatchRecord)
      /\ \A j \in DOMAIN matched[next] : matched[next][j].time \in Nat
      /\ newest \in Nat
  BY <1>1, <1>2, MatchRecorded DEF TypeInv, TypeOK
<1>10. /\ NewMatch.time = event.time /\ NewMatch.group = g
       /\ event.time <= newest
  BY <1>1 DEF NewMatch, TimesInv, AtRule
<1> HIDE DEF key, old, g
<1>11. Represents(th.timestamps, matched'[next], g, old.windowSize, newest)
  <2>1. NewMatch.time \in 0..MaxTime /\ NewMatch.time <= newest
    BY <1>2, <1>10
  <2>2. old \in [timestamps : Seq(0..MaxTime), windowSize : Int]
    BY <1>6 DEF Window
  <2>3. Represents(AddEvent(old, NewMatch.time).timestamps, Append(matched[next], NewMatch), g,
                   old.windowSize, newest)
    BY <1>2, <1>8, <1>9, <1>10, <2>1, <2>2, RepresentsAdded
  <2> QED
    BY <1>9, <1>10, <2>3
<1>12. th \in Window /\ th.windowSize = old.windowSize
  BY <1>2, <1>6, AddEventDrops DEF Window
<1>13. \A j, k \in DOMAIN matched'[next] :
          j < k => matched'[next][j].time <= matched'[next][k].time + Lag
  BY <1>2 DEF TimesInv
<1>14. \A a \in DOMAIN th.timestamps : event.time - th.timestamps[a] <= old.windowSize + Lag
  BY <1>2, <1>6, <1>9, <1>11, <1>13, KeptAreYoung DEF Window
<1>15. old.windowSize \in Int
  BY <1>6 DEF Window
<1> HIDE DEF th, w
<1> QED
  BY <1>3, <1>5, <1>7, <1>11, <1>12, <1>14, <1>15 DEF key, th, old, w, g

\* Every step keeps every window standing for its matches.
LEMMA WindowsStep ==
    ASSUME KeysTellGroups, TypeInv, TimesInv, TimesInv', WindowsInv, [Next]_vars
    PROVE  WindowsInv'
<1> USE RuleEngineAssumption
<1> DEFINE w(i) == ParseDuration(Rules[i].window)
<1>1. /\ newest \in Nat
      /\ matched \in [DOMAIN Rules -> Seq(MatchRecord)]
      /\ \A i \in DOMAIN Rules : \A j \in DOMAIN matched[i] : matched[i][j].time \in Nat
      /\ \A i \in DOMAIN Rules : w(i) \in Int
  BY DEF TypeInv, TypeOK, ParseDuration
<1>2. ThresholdRules \subseteq DOMAIN Rules
  BY DEF ThresholdRules
<1>3. ASSUME NEW k \in Kinds, NEW t \in 0..MaxTime, Receive(k, t) PROVE WindowsInv'
  <2>1. thresholds' = thresholds /\ matched' = matched /\ newest' = Max({newest, t}) /\ t \in Nat
    BY <1>3 DEF Receive
  <2>2. newest' \in Nat /\ newest <= newest'
    <3>1. Max({newest, t}) = IF newest >= t THEN newest ELSE t
      BY <1>1, <2>1, LatestOf
    <3> QED
      BY <1>1, <2>1, <3>1
  <2> SUFFICES ASSUME NEW i \in ThresholdRules, NEW l \in Kinds
               PROVE  /\ KeyOf(i, l) \in DOMAIN thresholds =>
                            thresholds[KeyOf(i, l)].windowSize = w(i)
                      /\ Represents(Timestamps(KeyOf(i, l)), matched[i], Group(Rules[i], l), w(i), newest')
    BY <2>1 DEF WindowsInv, Timestamps
  <2>3. Represents(Timestamps(KeyOf(i, l)), matched[i], Group(Rules[i], l), w(i), newest)
    BY DEF WindowsInv
  <2>4. w(i) \in Int /\ \A j \in DOMAIN matched[i] : matched[i][j].time \in Nat
    BY <1>1, <1>2
  <2> HIDE DEF w
  <2>5. Represents(Timestamps(KeyOf(i, l)), matched[i], Group(Rules[i], l), w(i), newest')
    BY <1>1, <2>2, <2>3, <2>4, RepresentsLater
  <2> QED
    BY <2>5 DEF WindowsInv, w
<1>4. CASE Single
  <2>1. /\ AtRule /\ RecordMatch /\ next \notin ThresholdRules
        /\ thresholds' = thresholds /\ newest' = newest
    BY <1>4 DEF Single, ThresholdRules, Rule, history
  <2>2. \A i \in ThresholdRules : matched'[i] = matched[i]
    BY <1>2, <2>1, MatchRecorded
  <2> QED
    BY <2>1, <2>2 DEF WindowsInv, Timestamps
<1>5. CASE handleThreshold
  <2> DEFINE key == KeyOf(next, event.kind)
             th == AddEvent(WindowOf(key), event.time)
  <2>1. /\ next \in ThresholdRules
        /\ th.windowSize = w(next)
        /\ thresholds' = [k \in DOMAIN thresholds \cup {key} |->
                            IF k = key THEN th ELSE thresholds[k]]
        /\ Represents(th.timestamps, matched'[next], Group(Rules[next], event.kind), w(next), newest)
    BY <1>5, ThresholdStep DEF Rule
  <2>2. /\ AtRule /\ RecordMatch /\ newest' = newest
        /\ event.kind \in Kinds /\ NewMatch \in MatchRecord
    BY <1>5, AtRuleFacts DEF handleThreshold, history
  <2> SUFFICES ASSUME NEW i \in ThresholdRules, NEW l \in Kinds
               PROVE  /\ KeyOf(i, l) \in DOMAIN thresholds' =>
                            thresholds'[KeyOf(i, l)].windowSize = w(i)
                      /\ Represents(Timestamps(KeyOf(i, l))', matched'[i], Group(Rules[i], l), w(i), newest)
    BY <2>2 DEF WindowsInv, Timestamps
  <2>3. /\ KeyOf(i, l) \in DOMAIN thresholds => thresholds[KeyOf(i, l)].windowSize = w(i)
        /\ Represents(Timestamps(KeyOf(i, l)), matched[i], Group(Rules[i], l), w(i), newest)
    BY DEF WindowsInv
  <2>4. CASE KeyOf(i, l) = key
    <3>1. i = next /\ Group(Rules[i], l) = Group(Rules[next], event.kind)
      BY <2>1, <2>2, <2>4 DEF KeysTellGroups
    <3>2. KeyOf(i, l) \in DOMAIN thresholds' /\ thresholds'[KeyOf(i, l)] = th
      BY <2>1, <2>4
    <3>3. Timestamps(KeyOf(i, l))' = th.timestamps
      BY <3>2 DEF Timestamps
    <3> HIDE DEF w, th, key
    <3> QED
      BY <2>1, <3>1, <3>2, <3>3
  <2>5. CASE KeyOf(i, l) # key
    <3>1. /\ KeyOf(i, l) \in DOMAIN thresholds' <=> KeyOf(i, l) \in DOMAIN thresholds
          /\ KeyOf(i, l) \in DOMAIN thresholds => thresholds'[KeyOf(i, l)] = thresholds[KeyOf(i, l)]
      BY <2>1, <2>5
    <3>2. Timestamps(KeyOf(i, l))' = Timestamps(KeyOf(i, l))
      BY <3>1 DEF Timestamps
    <3>3. Represents(Timestamps(KeyOf(i, l)), matched'[i], Group(Rules[i], l), w(i), newest)
      <4>1. CASE i # next
        <5>1. matched'[i] = matched[i]
          BY <1>2, <2>2, <4>1, MatchRecorded
        <5> QED
          BY <2>3, <5>1
      <4>2. CASE i = next
        <5>1. Group(Rules[i], l) # Group(Rules[next], event.kind)
          BY <2>1, <2>2, <2>5, <4>2 DEF KeysTellGroups
        <5>2. NewMatch.group # Group(Rules[i], l)
          BY <5>1 DEF NewMatch, Rule
        <5>3. matched[i] \in Seq(MatchRecord) /\ matched'[i] = Append(matched[i], NewMatch)
          BY <1>1, <1>2, <2>2, <4>2, MatchRecorded
        <5> HIDE DEF w
        <5> QED
          BY <2>2, <2>3, <5>2, <5>3, RepresentsOther
      <4> QED
        BY <4>1, <4>2
    <3> QED
      BY <2>3, <3>1, <3>2, <3>3
  <2> QED
    BY <2>4, <2>5
<1>6. CASE UNCHANGED <<thresholds, newest, matched, alerts>>
  BY <1>6 DEF WindowsInv, Timestamps
<1> QED
  BY <1>3, <1>4, <1>5, <1>6, EngineMoves

\* A match keeps its place: the burst it belongs to is the same ever after.
LEMMA RecentKept ==
    ASSUME TypeInv, AtRule, RecordMatch, NEW i \in DOMAIN Rules, NEW m \in DOMAIN matched[i],
           NEW now, NEW span
    PROVE  /\ matched'[i][m] = matched[i][m]
           /\ Recent(i, m, now, span)' = Recent(i, m, now, span)
<1>1. /\ DOMAIN matched[i] = 1..Len(matched[i]) /\ Len(matched[i]) \in Nat
      /\ \A j \in DOMAIN matched[i] : matched'[i][j] = matched[i][j]
  BY MatchRecorded
<1>2. 1..m \subseteq DOMAIN matched[i]
  BY <1>1
<1>3. matched'[i][m] = matched[i][m] /\ \A j \in 1..m : matched'[i][j] = matched[i][j]
  BY <1>1, <1>2
<1> QED
  BY <1>3 DEF Recent

\* A step keeps the promises for the matches that were there before it.
LEMMA OldMatches ==
    ASSUME TypeInv, NoMissedBurst, NoFalseBurst, AtRule, RecordMatch, emitAlert \/ UNCHANGED alerts,
           NEW i \in ThresholdRules, NEW m \in DOMAIN matched[i]
    PROVE  /\ Cardinality(Recent(i, m, matched[i][m].newest, ParseDuration(Rules[i].window)))'
                > Rules[i].count => Alerted(i, m)'
           /\ Alerted(i, m)' =>
              Cardinality(Recent(i, m, matched[i][m].time, ParseDuration(Rules[i].window) + Lag))'
                > Rules[i].count
<1> USE RuleEngineAssumption
<1>1. i \in DOMAIN Rules
  BY DEF ThresholdRules
<1>2. matched'[i][m] = matched[i][m]
  BY <1>1, RecentKept
<1>3. /\ Recent(i, m, matched[i][m].newest, ParseDuration(Rules[i].window))'
           = Recent(i, m, matched[i][m].newest, ParseDuration(Rules[i].window))
      /\ Recent(i, m, matched[i][m].time, ParseDuration(Rules[i].window) + Lag)'
           = Recent(i, m, matched[i][m].time, ParseDuration(Rules[i].window) + Lag)
  <2>1. matched'[i][m].newest = matched[i][m].newest /\ matched'[i][m].time = matched[i][m].time
    BY <1>2
  <2>2. \A now, span : {j \in 1..m : /\ matched'[i][j].group = matched'[i][m].group
                                     /\ now - matched'[i][j].time <= span}
                       = Recent(i, m, now, span)
    BY <1>1, RecentKept DEF Recent
  <2> QED
    BY <2>1, <2>2 DEF Recent
<1>4. Alerted(i, m)' <=> Alerted(i, m)
  <2>1. Alerted(i, m) => Alerted(i, m)'
    BY AlertRaised DEF Alerted
  <2>2. ASSUME Alerted(i, m)', ~Alerted(i, m) PROVE FALSE
    <3>1. [rule |-> i, no |-> m] = [rule |-> next, no |-> Len(matched[next]) + 1]
      BY <2>2, AlertRaised DEF Alerted
    <3>2. i = next /\ m = Len(matched[i]) + 1
      BY <3>1
    <3>3. DOMAIN matched[i] = 1..Len(matched[i]) /\ Len(matched[i]) \in Nat
      BY <1>1, MatchRecorded
    <3> QED
      BY <3>2, <3>3
  <2> QED
    BY <2>1, <2>2
<1> QED
  BY <1>3, <1>4 DEF NoMissedBurst, NoFalseBurst

\* The promises hold of the match that handleThreshold has just recorded.
LEMMA NewBurst ==
    ASSUME KeysTellGroups, TypeInv, TimesInv, TimesInv', WindowsInv, handleThreshold
    PROVE  LET ms == matched'[next]
               g == Group(Rule, event.kind)
               w == ParseDuration(Rule.window)
               new == [rule |-> next, no |-> Len(matched[next]) + 1]
           IN  /\ Cardinality(RecentOf(ms, g, newest, w)) > Rule.count => new \in Range(alerts')
               /\ new \in Range(alerts') =>
                    Cardinality(RecentOf(ms, g, event.time, w + Lag)) > Rule.count
<1> USE RuleEngineAssumption
<1> DEFINE ms == matched'[next]
           g == Group(Rule, event.kind)
           w == ParseDuration(Rule.window)
           new == [rule |-> next, no |-> Len(matched[next]) + 1]
           th == AddEvent(WindowOf(KeyOf(next, event.kind)), event.time)
           ts == th.timestamps
<1>1. /\ th \in Window /\ w \in Int
      /\ Len(ts) > Rule.count => emitAlert
      /\ ~(Len(ts) > Rule.count) => UNCHANGED alerts
      /\ Represents(ts, ms, g, w, newest)
      /\ \A a \in DOMAIN ts : event.time - ts[a] <= w + Lag
  BY ThresholdStep
<1>2. AtRule /\ RecordMatch
  BY DEF handleThreshold
<1>3. next \in DOMAIN Rules /\ event.time \in 0..MaxTime /\ NewMatch \in MatchRecord
  BY <1>2, AtRuleFacts
<1>4. ms \in Seq(MatchRecord) /\ newest \in Nat /\ Rule.count \in Int
  BY <1>2, <1>3, MatchRecorded DEF TypeInv, TypeOK, Rule
<1>5. \A j \in DOMAIN ms : ms[j].time \in Nat
  <2> SUFFICES ASSUME NEW j \in DOMAIN ms PROVE ms[j].time \in Nat
    OBVIOUS
  <2>1. ms[j] \in MatchRecord
    BY <1>4
  <2> QED
    BY <2>1 DEF MatchRecord
<1>6. new \in Range(alerts') <=> Len(ts) > Rule.count
  <2>1. ASSUME Len(ts) > Rule.count PROVE new \in Range(alerts')
    BY <1>1, <1>2, <2>1, AlertRaised DEF Range
  <2>2. ASSUME ~(Len(ts) > Rule.count), new \in Range(alerts') PROVE FALSE
    <3>1. new \in Range(alerts)
      BY <1>1, <2>2 DEF Range
    <3>2. new.rule = next /\ new.no = Len(matched[next]) + 1
      OBVIOUS
    <3> HIDE DEF new
    <3>3. Len(matched[next]) + 1 \in DOMAIN matched[next]
      BY <3>1, <3>2 DEF TypeInv, TypeOK
    <3>4. DOMAIN matched[next] = 1..Len(matched[next]) /\ Len(matched[next]) \in Nat
      BY <1>2, <1>3, MatchRecorded
    <3> QED
      BY <3>3, <3>4
  <2> QED
    BY <2>1, <2>2
<1>7. ts \in Seq(0..MaxTime) /\ Len(ts) \in Nat
  BY <1>1 DEF Window
<1> HIDE DEF ms, g, w, new, th, ts
<1>8. /\ Cardinality(RecentOf(ms, g, newest, w)) \in Nat
      /\ Cardinality(RecentOf(ms, g, newest, w)) <= Len(ts)
  BY <1>1, <1>4, <1>5, <1>7, WindowHoldsAll
<1>9. /\ Cardinality(RecentOf(ms, g, event.time, w + Lag)) \in Nat
      /\ Len(ts) <= Cardinality(RecentOf(ms, g, event.time, w + Lag))
  <2>1. w + Lag \in Int /\ event.time \in Nat
    BY <1>1, <1>3
  <2> QED
    BY <1>1, <1>4, <1>7, <2>1, WindowHoldsNoMore
<1>10. /\ Cardinality(RecentOf(ms, g, newest, w)) > Rule.count => Len(ts) > Rule.count
       /\ Len(ts) > Rule.count => Cardinality(RecentOf(ms, g, event.time, w + Lag)) > Rule.count
  BY <1>4, <1>7, <1>8, <1>9
<1> QED
  BY <1>6, <1>10 DEF ms, g, w, new

\* Every step keeps both promises.
LEMMA BurstStep ==
    ASSUME KeysTellGroups, TypeInv, TimesInv, TimesInv', WindowsInv, NoMissedBurst, NoFalseBurst,
           [Next]_vars
    PROVE  NoMissedBurst' /\ NoFalseBurst'
<1> USE RuleEngineAssumption
<1> DEFINE w(i) == ParseDuration(Rules[i].window)
           Missed(i, m) == Cardinality(Recent(i, m, matched[i][m].newest, w(i))) > Rules[i].count
                             => Alerted(i, m)
           False(i, m) == Alerted(i, m) =>
                            Cardinality(Recent(i, m, matched[i][m].time, w(i) + Lag)) > Rules[i].count
<1>1. ASSUME AtRule, RecordMatch, emitAlert \/ UNCHANGED alerts,
             next \in ThresholdRules => handleThreshold
      PROVE  NoMissedBurst' /\ NoFalseBurst'
  <2> SUFFICES ASSUME NEW i \in ThresholdRules, NEW m \in DOMAIN matched'[i]
               PROVE  Missed(i, m)' /\ False(i, m)'
    BY DEF NoMissedBurst, NoFalseBurst
  <2>1. i \in DOMAIN Rules
    BY DEF ThresholdRules
  <2>2. CASE m \in DOMAIN matched[i]
    BY <1>1, <2>2, OldMatches
  <2>3. CASE m \notin DOMAIN matched[i]
    <3> DEFINE n == Len(matched[next])
    <3>1. i = next
      BY <1>1, <2>1, <2>3, MatchRecorded
    <3>2. /\ matched[next] \in Seq(MatchRecord) /\ NewMatch \in MatchRecord
          /\ matched'[next] = Append(matched[next], NewMatch)
      BY <1>1, <2>1, <3>1, MatchRecorded, AtRuleFacts DEF TypeInv
    <3>3. /\ n \in Nat /\ DOMAIN matched[next] = 1..n /\ DOMAIN matched'[next] = 1..(n + 1)
          /\ matched'[next][n + 1] = NewMatch
      BY <3>2, AppendFacts
    <3>4. m = n + 1
      BY <2>3, <3>1, <3>3
    <3>5. /\ NewMatch.group = Group(Rule, event.kind)
          /\ NewMatch.time = event.time /\ NewMatch.newest = newest
      BY DEF NewMatch
    <3>6. \A now, span : {j \in 1..m : /\ matched'[i][j].group = matched'[i][m].group
                                       /\ now - matched'[i][j].time <= span}
                         = RecentOf(matched'[next], Group(Rule, event.kind), now, span)
      BY <3>1, <3>3, <3>4, <3>5 DEF RecentOf
    <3>7. matched'[i][m].newest = newest /\ matched'[i][m].time = event.time
      BY <3>1, <3>3, <3>4, <3>5
    <3>8. /\ Cardinality(RecentOf(matched'[next], Group(Rule, event.kind), newest, w(i)))
               > Rules[i].count => [rule |-> i, no |-> m] \in Range(alerts')
          /\ [rule |-> i, no |-> m] \in Range(alerts') =>
             Cardinality(RecentOf(matched'[next], Group(Rule, event.kind), event.time, w(i) + Lag))
               > Rules[i].count
      BY <1>1, <3>1, <3>4, NewBurst DEF Rule
    <3> QED
      BY <3>6, <3>7, <3>8 DEF Recent, Alerted, Range
  <2> QED
    BY <2>2, <2>3
<1>2. CASE Single
  BY <1>1, <1>2 DEF Single, ThresholdRules, Rule
<1>3. CASE handleThreshold
  BY <1>1, <1>3 DEF handleThreshold
<1>4. CASE UNCHANGED <<matched, alerts>>
  BY <1>4 DEF NoMissedBurst, NoFalseBurst, Recent, Alerted, Range
<1>5. ASSUME NEW k \in Kinds, NEW t \in 0..MaxTime, Receive(k, t) PROVE UNCHANGED <<matched, alerts>>
  BY <1>5 DEF Receive
<1> QED
  BY <1>2, <1>3, <1>4, <1>5, EngineMoves

\* All that the promises rest on.
BurstInv == TypeInv /\ TimesInv /\ WindowsInv /\ NoMissedBurst /\ NoFalseBurst

\* Before the first event there is nothing to count.
LEMMA BurstInit == Init => BurstInv
<1> SUFFICES ASSUME Init PROVE BurstInv
  OBVIOUS
<1>1. TypeInv
  BY TypeInit
<1>2. /\ \A i \in DOMAIN Rules : matched[i] = <<>>
      /\ \A i \in ThresholdRules : i \in DOMAIN Rules
      /\ event = NoEvent /\ thresholds = <<>>
  BY DEF Init, ThresholdRules
<1>3. TimesInv /\ NoMissedBurst /\ NoFalseBurst
  BY <1>2 DEF TimesInv, NoMissedBurst, NoFalseBurst
<1>4. WindowsInv
  <2> SUFFICES ASSUME NEW i \in ThresholdRules, NEW k \in Kinds
               PROVE  Represents(<<>>, <<>>, Group(Rules[i], k), ParseDuration(Rules[i].window), newest)
    BY <1>2 DEF WindowsInv, Timestamps
  <2> DEFINE e == <<>>
  <2>1. DOMAIN e = {} /\ e \in [DOMAIN e -> DOMAIN e]
    OBVIOUS
  <2> HIDE DEF e
  <2>2. StandsFor(e, e, e, Group(Rules[i], k), ParseDuration(Rules[i].window), newest)
    BY <2>1 DEF StandsFor
  <2>3. Represents(e, e, Group(Rules[i], k), ParseDuration(Rules[i].window), newest)
    BY <2>1, <2>2 DEF Represents
  <2> QED
    BY <2>3 DEF e
<1> QED
  BY <1>1, <1>3, <1>4 DEF BurstInv

\* The promises and what they rest on are kept by every step together.
LEMMA BurstInductive ==
    ASSUME KeysTellGroups
    PROVE  BurstInv /\ [Next]_vars => BurstInv'
  BY TypeStep, TimesStep, WindowsStep, BurstStep DEF BurstInv

\* A burst is never missed (handleThreshold), for any rules whose keys tell the
\* groups apart, any events and any Lag: if more than Count matches of a group
\* lie in the window before the newest event, the last one raises an alert.
THEOREM BurstsAreSeen ==
    ASSUME KeysTellGroups
    PROVE  Spec => []NoMissedBurst
<1>1. BurstInv => NoMissedBurst
  BY DEF BurstInv
<1>2. BurstInv /\ [Next]_vars => BurstInv'
  BY BurstInductive
<1> QED
  BY <1>1, <1>2, BurstInit, PTL DEF Spec

\* An alert is never far-fetched (handleThreshold), under the same condition:
\* it stands for more than Count matches of its group in a window that the
\* disorder of the events stretches by Lag at most.
THEOREM AlertsAreFounded ==
    ASSUME KeysTellGroups
    PROVE  Spec => []NoFalseBurst
<1>1. BurstInv => NoFalseBurst
  BY DEF BurstInv
<1>2. BurstInv /\ [Next]_vars => BurstInv'
  BY BurstInductive
<1> QED
  BY <1>1, <1>2, BurstInit, PTL DEF Spec

-----------------------------------------------------------------------------
(* Events in order.                                                        *)

\* A match was recorded no more than Lag behind the newest event.
StampsInv ==
    \A i \in DOMAIN Rules : \A j \in DOMAIN matched[i] :
        matched[i][j].time <= matched[i][j].newest /\ matched[i][j].newest <= matched[i][j].time + Lag

\* Every match that is recorded has the times of its event.
LEMMA StampsStep ==
    ASSUME TypeInv, TimesInv, StampsInv, [Next]_vars
    PROVE  StampsInv'
<1>1. matched \in [DOMAIN Rules -> Seq(MatchRecord)]
  BY DEF TypeInv
<1>2. ASSUME AtRule, RecordMatch PROVE StampsInv'
  <2>1. event.time <= newest /\ newest <= event.time + Lag
    BY <1>2 DEF AtRule, TimesInv
  <2>2. /\ next \in DOMAIN Rules
        /\ matched'[next] = Append(matched[next], NewMatch) /\ NewMatch \in MatchRecord
        /\ matched[next] \in Seq(MatchRecord)
    BY <1>1, <1>2, MatchRecorded, AtRuleFacts
  <2>3. NewMatch.time = event.time /\ NewMatch.newest = newest
    BY DEF NewMatch
  <2> SUFFICES ASSUME NEW i \in DOMAIN Rules, NEW j \in DOMAIN matched'[i]
               PROVE  /\ matched'[i][j].time <= matched'[i][j].newest
                      /\ matched'[i][j].newest <= matched'[i][j].time + Lag
    BY DEF StampsInv
  <2>4. CASE i # next
    <3>1. matched'[i] = matched[i]
      BY <1>2, <2>4, MatchRecorded
    <3> QED
      BY <3>1 DEF StampsInv
  <2>5. CASE i = next
    <3> DEFINE n == Len(matched[next])
    <3>1. n \in Nat /\ DOMAIN matched[next] = 1..n
      BY ONLY <2>2
    <3>2. j \in 1..(n + 1)
      BY ONLY <2>2, <2>5, AppendFacts, j \in DOMAIN matched'[i]
    <3>3. CASE j = n + 1
      <4>1. matched'[i][j] = NewMatch
        BY ONLY <2>2, <2>5, <3>3, AppendFacts
      <4> QED
        BY ONLY <2>1, <2>3, <4>1
    <3>4. CASE j # n + 1
      <4>1. j \in 1..n
        BY ONLY <3>1, <3>2, <3>4
      <4>2. matched'[i][j] = matched[i][j] /\ j \in DOMAIN matched[i]
        BY ONLY <2>2, <2>5, <3>1, <4>1, AppendFacts
      <4> QED
        BY ONLY <4>2, StampsInv, i \in DOMAIN Rules DEF StampsInv
    <3> QED
      BY ONLY <3>3, <3>4
  <2> QED
    BY <2>4, <2>5
<1>3. CASE Single \/ handleThreshold
  BY <1>2, <1>3 DEF Single, handleThreshold
<1>4. ASSUME UNCHANGED matched PROVE StampsInv'
  BY <1>4 DEF StampsInv
<1> QED
  BY <1>3, <1>4, EngineMoves DEF Receive

\* A match raises an alert exactly if it is one of more than Count matches of
\* its group in its window.
ThresholdExact ==
    \A i \in ThresholdRules : \A m \in DOMAIN matched[i] :
        Alerted(i, m) <=>
          Cardinality(Recent(i, m, matched[i][m].time, ParseDuration(Rules[i].window))) > Rules[i].count

\* When the events come in the order of their times, the window of
\* handleThreshold misses nothing and invents nothing: the alerts are exactly
\* those that the definition of the threshold asks for.
THEOREM ThresholdsExactInOrder ==
    ASSUME KeysTellGroups, Lag = 0
    PROVE  Spec => []ThresholdExact
<1>1. Init => StampsInv
  BY DEF Init, StampsInv
<1>2. BurstInv /\ StampsInv /\ [Next]_vars => StampsInv'
  BY StampsStep DEF BurstInv
<1>3. BurstInv /\ [Next]_vars => BurstInv'
  BY BurstInductive
<1>4. BurstInv /\ StampsInv => ThresholdExact
  <2> SUFFICES ASSUME BurstInv, StampsInv, NEW i \in ThresholdRules, NEW m \in DOMAIN matched[i]
               PROVE  Alerted(i, m) <=>
                        Cardinality(Recent(i, m, matched[i][m].time, ParseDuration(Rules[i].window)))
                          > Rules[i].count
    BY DEF ThresholdExact
  <2>1. i \in DOMAIN Rules
    BY DEF ThresholdRules
  <2>2. matched[i][m].time \in Nat /\ matched[i][m].newest \in Nat
    BY <2>1 DEF BurstInv, TypeInv, TypeOK
  <2>3. matched[i][m].newest = matched[i][m].time
    <3>1. matched[i][m].time <= matched[i][m].newest /\ matched[i][m].newest <= matched[i][m].time + 0
      BY <2>1, Lag = 0 DEF StampsInv
    <3> QED
      BY ONLY <2>2, <3>1
  <2>4. ParseDuration(Rules[i].window) + Lag = ParseDuration(Rules[i].window)
    <3>1. ParseDuration(Rules[i].window) \in Int
      BY <2>1, RuleEngineAssumption DEF ParseDuration
    <3> QED
      BY ONLY <3>1, Lag = 0
  <2>5. Cardinality(Recent(i, m, matched[i][m].newest, ParseDuration(Rules[i].window))) > Rules[i].count
          => Alerted(i, m)
    BY ONLY BurstInv, i \in ThresholdRules, m \in DOMAIN matched[i] DEF BurstInv, NoMissedBurst
  <2>6. Alerted(i, m) =>
          Cardinality(Recent(i, m, matched[i][m].time, ParseDuration(Rules[i].window) + Lag)) > Rules[i].count
    BY ONLY BurstInv, i \in ThresholdRules, m \in DOMAIN matched[i] DEF BurstInv, NoFalseBurst
  <2> QED
    BY ONLY <2>3, <2>4, <2>5, <2>6
<1> QED
  BY <1>1, <1>2, <1>3, <1>4, BurstInit, PTL DEF Spec
=============================================================================
