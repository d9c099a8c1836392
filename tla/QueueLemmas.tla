----------------------------- MODULE QueueLemmas -----------------------------
(***************************************************************************)
(* Facts about sequences used as queues and as histories.  Every queue of  *)
(* the monitor is a Go channel or the kernel's ring buffer, so all of them *)
(* grow by Append at one end and shrink by Tail at the other.              *)
(***************************************************************************)
EXTENDS Channels, Functions, WellFoundedInduction, TLAPS

\* A value joins a queue.
LEMMA AppendFacts ==
    ASSUME NEW S, NEW q \in Seq(S), NEW x \in S
    PROVE  /\ Append(q, x) \in Seq(S)
           /\ Len(Append(q, x)) = Len(q) + 1
           /\ DOMAIN Append(q, x) = 1..(Len(q) + 1)
           /\ \A i \in 1..Len(q) : Append(q, x)[i] = q[i]
           /\ Append(q, x)[Len(q) + 1] = x
  OBVIOUS

\* A queue that is not empty gives up its head.
LEMMA TailFacts ==
    ASSUME NEW S, NEW q \in Seq(S), q # <<>>
    PROVE  /\ Len(q) \in Nat /\ Len(q) >= 1
           /\ Head(q) \in S /\ Head(q) = q[1]
           /\ Tail(q) \in Seq(S)
           /\ Len(Tail(q)) = Len(q) - 1
           /\ DOMAIN Tail(q) = 1..(Len(q) - 1)
           /\ \A i \in 1..(Len(q) - 1) : Tail(q)[i] = q[i + 1]
  OBVIOUS

\* What a queue holds after a value joined it.
LEMMA RangeAppend ==
    ASSUME NEW S, NEW q \in Seq(S), NEW x \in S
    PROVE  Range(Append(q, x)) = Range(q) \cup {x}
<1>1. DOMAIN q = 1..Len(q) /\ Len(q) \in Nat
  OBVIOUS
<1>2. ASSUME NEW y \in Range(Append(q, x)) PROVE y \in Range(q) \cup {x}
  BY <1>1, AppendFacts DEF Range
<1>3. ASSUME NEW y \in Range(q) PROVE y \in Range(Append(q, x))
  BY <1>1, <1>3, AppendFacts DEF Range
<1>4. x \in Range(Append(q, x))
  BY <1>1, AppendFacts DEF Range
<1> QED
  BY <1>2, <1>3, <1>4

\* What a queue holds is its head and what its tail holds.
LEMMA RangeHeadTail ==
    ASSUME NEW S, NEW q \in Seq(S), q # <<>>
    PROVE  Range(q) = {Head(q)} \cup Range(Tail(q))
<1>1. DOMAIN q = 1..Len(q) /\ Len(q) \in Nat /\ Len(q) >= 1
  BY TailFacts
<1>2. ASSUME NEW y \in Range(q) PROVE y \in {Head(q)} \cup Range(Tail(q))
  <2>1. PICK i \in 1..Len(q) : y = q[i]
    BY <1>1, <1>2 DEF Range
  <2>2. CASE i = 1
    BY <2>1, <2>2, TailFacts
  <2>3. CASE i # 1
    <3>1. i - 1 \in 1..(Len(q) - 1) /\ (i - 1) + 1 = i
      BY <1>1, <2>3
    <3>2. Tail(q)[i - 1] = y
      BY <2>1, <3>1, TailFacts
    <3> QED
      BY <3>1, <3>2, TailFacts DEF Range
  <2> QED
    BY <2>2, <2>3
<1>3. ASSUME NEW y \in Range(Tail(q)) PROVE y \in Range(q)
  <2>1. PICK i \in 1..(Len(q) - 1) : y = Tail(q)[i]
    BY <1>3, TailFacts DEF Range
  <2>2. i + 1 \in 1..Len(q) /\ q[i + 1] = y
    BY <1>1, <2>1, TailFacts
  <2> QED
    BY <1>1, <2>2 DEF Range
<1>4. Head(q) \in Range(q)
  <2>1. 1 \in 1..Len(q)
    BY <1>1
  <2> QED
    BY <1>1, <2>1, TailFacts DEF Range
<1> QED
  BY <1>2, <1>3, <1>4

\* A sequence holds members of its set only.
LEMMA RangeInSet ==
    ASSUME NEW S, NEW q \in Seq(S)
    PROVE  Range(q) \subseteq S
  BY DEF Range

\* A value that is taken from a queue goes to the end of what was taken
\* before: taken and queue together stay the same sequence.
LEMMA TakeOne ==
    ASSUME NEW S, NEW t \in Seq(S), NEW q \in Seq(S), q # <<>>
    PROVE  /\ Append(t, Head(q)) \o Tail(q) = t \o q
           /\ Len(t) < Len(t \o q)
           /\ (t \o q)[Len(t) + 1] = Head(q)
<1>1. /\ t \o q \in Seq(S)
      /\ Append(t, Head(q)) \in Seq(S)
      /\ Append(t, Head(q)) \o Tail(q) \in Seq(S)
  BY TailFacts, AppendFacts
<1>2. Len(Append(t, Head(q)) \o Tail(q)) = Len(t \o q)
  BY <1>1, TailFacts, AppendFacts
<1>3. ASSUME NEW i \in 1..Len(t \o q) PROVE (Append(t, Head(q)) \o Tail(q))[i] = (t \o q)[i]
  OBVIOUS
<1> QED
  BY <1>1, <1>2, <1>3

\* A value that joins the queue joins the whole.
LEMMA JoinOne ==
    ASSUME NEW S, NEW t \in Seq(S), NEW q \in Seq(S), NEW x \in S
    PROVE  t \o Append(q, x) = Append(t \o q, x)
  OBVIOUS

\* Two queues, one put before the other.
LEMMA RangeConcat ==
    ASSUME NEW S, NEW s \in Seq(S), NEW t \in Seq(S)
    PROVE  Range(s \o t) = Range(s) \cup Range(t)
<1>1. /\ DOMAIN s = 1..Len(s) /\ DOMAIN t = 1..Len(t)
      /\ Len(s) \in Nat /\ Len(t) \in Nat
      /\ DOMAIN (s \o t) = 1..(Len(s) + Len(t))
      /\ \A i \in 1..Len(s) : (s \o t)[i] = s[i]
      /\ \A i \in 1..Len(t) : (s \o t)[Len(s) + i] = t[i]
  OBVIOUS
<1>2. ASSUME NEW i \in DOMAIN s PROVE s[i] \in Range(s \o t)
  <2>1. i \in DOMAIN (s \o t) /\ (s \o t)[i] = s[i]
    BY <1>1
  <2> QED
    BY <2>1 DEF Range
<1>3. ASSUME NEW i \in DOMAIN t PROVE t[i] \in Range(s \o t)
  <2>1. Len(s) + i \in DOMAIN (s \o t) /\ (s \o t)[Len(s) + i] = t[i]
    BY <1>1
  <2> QED
    BY <2>1 DEF Range
<1>4. ASSUME NEW i \in DOMAIN (s \o t) PROVE (s \o t)[i] \in Range(s) \cup Range(t)
  <2>1. CASE i \in 1..Len(s)
    BY <1>1, <2>1 DEF Range
  <2>2. CASE i \notin 1..Len(s)
    <3>1. i - Len(s) \in 1..Len(t) /\ Len(s) + (i - Len(s)) = i
      BY <1>1, <2>2
    <3>2. (s \o t)[i] = t[i - Len(s)]
      BY <1>1, <3>1
    <3> QED
      BY <1>1, <3>1, <3>2 DEF Range
  <2> QED
    BY <2>1, <2>2
<1> QED
  BY <1>2, <1>3, <1>4 DEF Range

\* ... and no value twice.
LEMMA InjectiveConcat ==
    ASSUME NEW S, NEW s \in Seq(S), NEW t \in Seq(S), IsInjective(s), IsInjective(t),
           Range(s) \cap Range(t) = {}
    PROVE  IsInjective(s \o t)
<1>1. /\ DOMAIN s = 1..Len(s) /\ DOMAIN t = 1..Len(t)
      /\ Len(s) \in Nat /\ Len(t) \in Nat
      /\ DOMAIN (s \o t) = 1..(Len(s) + Len(t))
      /\ \A i \in 1..Len(s) : (s \o t)[i] = s[i]
      /\ \A i \in 1..Len(t) : (s \o t)[Len(s) + i] = t[i]
  OBVIOUS
<1>2. ASSUME NEW i \in DOMAIN (s \o t)
      PROVE  \/ i \in DOMAIN s /\ (s \o t)[i] = s[i] /\ s[i] \in Range(s)
             \/ /\ i \notin DOMAIN s /\ i - Len(s) \in DOMAIN t
                /\ (s \o t)[i] = t[i - Len(s)] /\ t[i - Len(s)] \in Range(t)
  <2>1. CASE i \in 1..Len(s)
    BY <1>1, <2>1 DEF Range
  <2>2. CASE i \notin 1..Len(s)
    <3>1. i - Len(s) \in 1..Len(t) /\ Len(s) + (i - Len(s)) = i
      BY <1>1, <2>2
    <3>2. (s \o t)[i] = t[i - Len(s)]
      BY <1>1, <3>1
    <3> QED
      BY <1>1, <2>2, <3>1, <3>2 DEF Range
  <2> QED
    BY <2>1, <2>2
<1>3. ASSUME NEW i \in DOMAIN (s \o t), NEW j \in DOMAIN (s \o t), (s \o t)[i] = (s \o t)[j]
      PROVE  i = j
  <2>1. CASE i \in DOMAIN s /\ j \in DOMAIN s
    BY <1>2, <1>3, <2>1 DEF IsInjective
  <2>2. CASE i \notin DOMAIN s /\ j \notin DOMAIN s
    <3>1. i - Len(s) = j - Len(s)
      BY <1>2, <1>3, <2>2 DEF IsInjective
    <3> QED
      BY <1>1, <3>1
  <2>3. CASE (i \in DOMAIN s) # (j \in DOMAIN s)
    BY <1>2, <1>3, <2>3
  <2> QED
    BY <2>1, <2>2, <2>3
<1> QED
  BY <1>3 DEF IsInjective

\* The head of a queue without repetitions is not in its tail.
LEMMA InjectiveTail ==
    ASSUME NEW S, NEW q \in Seq(S), q # <<>>, IsInjective(q)
    PROVE  IsInjective(Tail(q)) /\ Head(q) \notin Range(Tail(q))
<1>1. /\ Len(q) \in Nat /\ Len(q) >= 1 /\ DOMAIN q = 1..Len(q) /\ Head(q) = q[1]
      /\ DOMAIN Tail(q) = 1..(Len(q) - 1)
      /\ \A i \in 1..(Len(q) - 1) : Tail(q)[i] = q[i + 1]
  BY TailFacts
<1>2. \A i \in DOMAIN Tail(q) : i \in Nat /\ i >= 1 /\ i + 1 \in DOMAIN q /\ Tail(q)[i] = q[i + 1]
  BY <1>1
<1>3. ASSUME NEW i \in DOMAIN Tail(q), NEW j \in DOMAIN Tail(q), Tail(q)[i] = Tail(q)[j] PROVE i = j
  <2>1. i + 1 = j + 1
    BY <1>2, <1>3 DEF IsInjective
  <2> QED
    BY <1>2, <2>1
<1>4. ASSUME NEW i \in DOMAIN Tail(q) PROVE Tail(q)[i] # Head(q)
  <2>1. 1 \in DOMAIN q /\ i + 1 # 1
    BY <1>1, <1>2
  <2> QED
    BY <1>1, <1>2, <2>1 DEF IsInjective
<1> QED
  BY <1>3, <1>4 DEF IsInjective, Range

\* A value that was not there joins.
LEMMA InjectiveAppend ==
    ASSUME NEW S, NEW q \in Seq(S), NEW x \in S, IsInjective(q), x \notin Range(q)
    PROVE  IsInjective(Append(q, x))
<1>1. /\ Len(q) \in Nat /\ DOMAIN q = 1..Len(q) /\ DOMAIN Append(q, x) = 1..(Len(q) + 1)
      /\ \A i \in DOMAIN q : Append(q, x)[i] = q[i] /\ q[i] # x
      /\ Append(q, x)[Len(q) + 1] = x
  BY AppendFacts DEF Range
<1>2. \A i \in DOMAIN Append(q, x) : i \in DOMAIN q \/ i = Len(q) + 1
  BY <1>1
<1> QED
  BY <1>1, <1>2 DEF IsInjective

-----------------------------------------------------------------------------
(* Go channels.                                                            *)

\* A channel with another buffer.
LEMMA WithBuf ==
    ASSUME NEW S, NEW ch \in Chan(S), NEW q
    PROVE  [ch EXCEPT !.buf = q] = [buf |-> q, open |-> ch.open]
  BY DEF Chan

\* A send that does not wait keeps the channel within its capacity.
LEMMA SentFacts ==
    ASSUME NEW S, NEW ch \in Chan(S), NEW x \in S, NEW cap \in Nat, CanSend(ch, cap)
    PROVE  /\ Sent(ch, x) \in Chan(S)
           /\ Len(Sent(ch, x).buf) <= cap
           /\ Sent(ch, x).open = ch.open
           /\ Sent(ch, x).buf = Append(ch.buf, x)
<1>1. ch.buf \in Seq(S) /\ ch.open \in BOOLEAN
  BY DEF Chan
<1>2. Sent(ch, x) = [buf |-> Append(ch.buf, x), open |-> ch.open]
  BY WithBuf DEF Sent
<1>3. Append(ch.buf, x) \in Seq(S) /\ Len(Append(ch.buf, x)) <= cap
  BY <1>1 DEF CanSend
<1> QED
  BY <1>1, <1>2, <1>3 DEF Chan

\* A receive takes the head and leaves the tail.
LEMMA ReceivedFacts ==
    ASSUME NEW S, NEW ch \in Chan(S), NEW cap \in Nat, Len(ch.buf) <= cap, CanReceive(ch)
    PROVE  /\ Received(ch) \in Chan(S)
           /\ Len(Received(ch).buf) <= cap
           /\ Received(ch).open = ch.open
           /\ Received(ch).buf = Tail(ch.buf)
           /\ ch.buf \in Seq(S) /\ ch.buf # <<>>
           /\ Head(ch.buf) \in S
<1>1. ch.buf \in Seq(S) /\ ch.open \in BOOLEAN /\ ch.buf # <<>>
  BY DEF Chan, CanReceive
<1>2. Received(ch) = [buf |-> Tail(ch.buf), open |-> ch.open]
  BY WithBuf DEF Received
<1> QED
  BY <1>1, <1>2, TailFacts DEF Chan

\* Closing leaves what is in the channel.
LEMMA ClosedFacts ==
    ASSUME NEW S, NEW ch \in Chan(S)
    PROVE  /\ Closed(ch) \in Chan(S)
           /\ Closed(ch).buf = ch.buf
           /\ Closed(ch).open = FALSE
  BY DEF Chan, Closed

\* A new channel is empty and open.
LEMMA NewChanFacts ==
    ASSUME NEW S, NEW cap \in Nat
    PROVE  /\ NewChan \in Chan(S)
           /\ Len(NewChan.buf) <= cap
           /\ NewChan.buf = <<>>
           /\ NewChan.open = TRUE
  BY DEF NewChan, Chan

\* A set of positions that is not empty has a first one.
LEMMA FirstExists ==
    ASSUME NEW S \in SUBSET Nat, S # {}
    PROVE  \E x \in S : \A y \in S : x <= y
<1>1. PICK x \in S : \A y \in S : ~(<<y, x>> \in OpToRel(<, Nat))
  BY NatLessThanWellFounded, WFMin, Zenon
<1>2. ASSUME NEW y \in S, y < x PROVE FALSE
  <2>1. <<y, x>> \in Nat \X Nat /\ <<y, x>>[1] < <<y, x>>[2]
    BY <1>2
  <2>2. <<y, x>> \in OpToRel(<, Nat)
    BY <2>1 DEF OpToRel
  <2> QED
    BY <1>1, <2>2
<1>3. \A y \in S : x <= y
  BY <1>2
<1> QED
  BY <1>3
=============================================================================
