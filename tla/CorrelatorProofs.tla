-------------------------- MODULE CorrelatorProofs --------------------------
(***************************************************************************)
(* Proofs about Correlator, for every set of attempts, tuples and          *)
(* namespaces, every capacity, timeout and boot time.                      *)
(***************************************************************************)
EXTENDS Correlator, QueueLemmas

USE DEF Entry, Event, MuFree, KTimeToTime, Now, TimedOut, SockStates

-----------------------------------------------------------------------------
\* What a probe writes is a record.
LEMMA EventOfType ==
    ASSUME KernelTypeOK
    PROVE  /\ \A a \in Attempts : EventOf("connect", a) \in Record /\ EventOf("accept", a) \in Record
           /\ \A l \in Locals : EventOf("local", l) \in Record
  BY ProbesAssumption DEF KernelTypeOK, ProbesAssumption, EventOf, Record

\* What a probe that finds room does to the ring.
LEMMA Submitted ==
    ASSUME KernelTypeOK, HasRoom, NEW r \in Record, ring' = Append(ring, r)
    PROVE  /\ ring' \in Seq(Record)
           /\ Len(ring') = Len(ring) + 1
           /\ Len(ring') <= RingSlots
           /\ Len(ring) \in Nat
           /\ \A i \in 1..Len(ring) : ring'[i] = ring[i]
           /\ ring'[Len(ring) + 1] = r
<1>1. ring \in Seq(Record) /\ Len(ring) < RingSlots /\ RingSlots \in Nat
  BY ProbesAssumption DEF KernelTypeOK, HasRoom, ProbesAssumption
<1> QED
  BY <1>1

-----------------------------------------------------------------------------
\* The reader, Cleanup and the probes keep every variable in its type; in
\* particular no send exceeds the capacity of the ring or of c.output.
THEOREM TypeCorrect == Spec => []TypeOK
<1> USE ProbesAssumption, CorrelatorAssumption DEF ProbesAssumption, CorrelatorAssumption
<1>1. Init => TypeOK
  <2> SUFFICES ASSUME Init PROVE TypeOK
    OBVIOUS
  <2>1. KernelTypeOK
    BY DEF Init, KernelInit, KernelTypeOK
  <2>2. output \in Seq(Event) /\ Len(output) <= OutputCap
    BY DEF Init
  <2>3. pending \in [Tuples -> Entry \cup {NoEntry}]
    BY DEF Init
  <2>4. ticker \in BOOLEAN
    BY DEF Init
  <2> QED
    BY <2>1, <2>2, <2>3, <2>4 DEF Init, TypeOK
<1>2. TypeOK /\ [Next]_vars => TypeOK'
  <2> SUFFICES ASSUME TypeOK, [Next]_vars PROVE TypeOK'
    OBVIOUS
  <2> USE DEF TypeOK, KernelTypeOK
  <2>1. ASSUME NEW a \in Attempts, tcp_connect(a), UNCHANGED userVars PROVE TypeOK'
    <3>1. EventOf("connect", a) \in Record
      BY EventOfType DEF KernelTypeOK
    <3>2. ring' \in Seq(Record) /\ Len(ring') <= RingSlots
      <4>1. CASE HasRoom /\ ring' = Append(ring, EventOf("connect", a))
        BY <3>1, <4>1, Submitted
      <4>2. CASE UNCHANGED ring
        BY <4>2
      <4> QED
        BY <2>1, <4>1, <4>2 DEF tcp_connect
    <3> QED
      BY <2>1, <3>2 DEF tcp_connect, userVars
  <2>2. ASSUME NEW a \in Attempts, inet_csk_accept(a), UNCHANGED userVars PROVE TypeOK'
    <3>1. EventOf("accept", a) \in Record
      BY EventOfType DEF KernelTypeOK
    <3>2. ring' \in Seq(Record) /\ Len(ring') <= RingSlots
      <4>1. CASE HasRoom /\ ring' = Append(ring, EventOf("accept", a))
        BY <3>1, <4>1, Submitted
      <4>2. CASE UNCHANGED ring
        BY <4>2
      <4> QED
        BY <2>2, <4>1, <4>2 DEF inet_csk_accept
    <3> QED
      BY <2>2, <3>2 DEF inet_csk_accept, userVars
  <2>3. ASSUME NEW a \in Attempts, Abort(a), UNCHANGED userVars PROVE TypeOK'
    BY <2>3 DEF Abort, userVars
  <2>4. ASSUME NEW l \in Locals, LocalCall(l), UNCHANGED userVars PROVE TypeOK'
    <3>1. EventOf("local", l) \in Record
      BY EventOfType DEF KernelTypeOK
    <3>2. ring' \in Seq(Record) /\ Len(ring') <= RingSlots
      <4>1. CASE HasRoom /\ ring' = Append(ring, EventOf("local", l))
        BY <3>1, <4>1, Submitted
      <4>2. CASE UNCHANGED ring
        BY <4>2
      <4> QED
        BY <2>4, <4>1, <4>2 DEF LocalCall
    <3> QED
      BY <2>4, <3>2 DEF LocalCall, userVars
  <2>5. CASE Second
    BY <2>5 DEF Second
  <2>6. CASE Cleanup
    BY <2>6 DEF Cleanup, kernelVars
  <2>7. CASE Read
    <3>1. rec' \in Record /\ ring' \in Seq(Record) /\ Len(ring') <= RingSlots
      BY <2>7, TailFacts DEF Read
    <3> QED
      BY <2>7, <3>1 DEF Read
  <2>8. CASE ForwardLocal
    BY <2>8 DEF ForwardLocal, kernelVars
  <2>9. CASE HandleConnect
    BY <2>9 DEF HandleConnect, kernelVars, Record
  <2>10. CASE HandleAccept
    <3>1. sending' \in Event \cup {NoEvent} /\ rec' \in Record \cup {NoRecord}
      BY <2>10 DEF HandleAccept, Record, Entry, Event
    <3>2. missed' \in SUBSET [att : Attempts, at : Nat]
      BY <2>10 DEF HandleAccept, Record
    <3> QED
      BY <2>10, <3>1, <3>2 DEF HandleAccept, kernelVars
  <2>11. CASE SendEvent
    BY <2>11 DEF SendEvent, kernelVars
  <2>12. CASE FanIn
    <3>1. output' \in Seq(Event) /\ Len(output') <= OutputCap
      BY <2>12, TailFacts DEF FanIn
    <3> QED
      BY <2>12, <3>1 DEF FanIn, kernelVars
  <2>13. CASE UNCHANGED vars
    BY <2>13 DEF vars, kernelVars, userVars
  <2> QED
    BY <2>1, <2>2, <2>3, <2>4, <2>5, <2>6, <2>7, <2>8, <2>9, <2>10, <2>11, <2>12, <2>13
       DEF Next, KernelStep, Reader
<1> QED
  BY <1>1, <1>2, PTL DEF Spec
-----------------------------------------------------------------------------
\* The fields of a record.
LEMMA RecordFields ==
    ASSUME NEW r \in Record
    PROVE  /\ r.type \in {"connect", "accept", "local"}
           /\ r.type # "local" => r.att \in Attempts
           /\ r.ts \in Nat
  BY DEF Record

\* The records the state holds.
LEMMA RecordsTyped ==
    ASSUME TypeOK
    PROVE  /\ Len(ring) \in Nat /\ DOMAIN ring = 1..Len(ring)
           /\ \A i \in DOMAIN ring : ring[i] \in Record
           /\ rec # NoRecord => rec \in Record
  BY DEF TypeOK, KernelTypeOK

\* What Read does to the ring and to the record being handled.
LEMMA ReadFacts ==
    ASSUME TypeOK, Read
    PROVE  /\ Len(ring) >= 1 /\ Len(ring') = Len(ring) - 1
           /\ DOMAIN ring' = 1..(Len(ring) - 1)
           /\ \A i \in 1..(Len(ring) - 1) : ring'[i] = ring[i + 1]
           /\ rec' = ring[1] /\ rec' \in Record /\ rec' # NoRecord
           /\ UNCHANGED <<clock, sock, connTime, unrecorded, bootTime, pending, sending, reports, missed>>
<1>1. ring \in Seq(Record) /\ ring # <<>>
  BY DEF TypeOK, KernelTypeOK, Read
<1>2. rec' = Head(ring) /\ ring' = Tail(ring)
  BY DEF Read
<1>3. NoRecord \notin Record
  BY CorrelatorAssumption DEF CorrelatorAssumption
<1>4. UNCHANGED <<clock, sock, connTime, unrecorded, bootTime, pending, sending, reports, missed>>
  BY DEF Read
<1> QED
  BY <1>1, <1>2, <1>3, <1>4, TailFacts

\* A record that is true stays true whatever the traced processes do.
LEMMA RecordTrueStable ==
    ASSUME TypeOK, KernelStep, NEW r \in Record, RecordTrue(r)
    PROVE  RecordTrue(r)'
<1> USE RecordFields DEF RecordTrue, TypeOK, KernelTypeOK
<1>1. ASSUME NEW a \in Attempts, tcp_connect(a) PROVE RecordTrue(r)'
  BY <1>1 DEF tcp_connect
<1>2. ASSUME NEW a \in Attempts, inet_csk_accept(a) PROVE RecordTrue(r)'
  BY <1>2 DEF inet_csk_accept
<1>3. ASSUME NEW a \in Attempts, Abort(a) PROVE RecordTrue(r)'
  BY <1>3 DEF Abort
<1>4. ASSUME NEW l \in Locals, LocalCall(l) PROVE RecordTrue(r)'
  BY <1>4 DEF LocalCall
<1> QED
  BY <1>1, <1>2, <1>3, <1>4 DEF KernelStep

\* A probe submits at most one record, and a true one.
LEMMA KernelRing ==
    ASSUME TypeOK, RecordsTrue, KernelStep
    PROVE  \/ UNCHANGED ring
           \/ \E r \in Record : HasRoom /\ ring' = Append(ring, r) /\ RecordTrue(r)'
<1> DEFINE Goal == \/ UNCHANGED ring
                   \/ \E r \in Record : HasRoom /\ ring' = Append(ring, r) /\ RecordTrue(r)'
<1>0. KernelTypeOK
  BY DEF TypeOK
<1>1. ASSUME NEW a \in Attempts, tcp_connect(a) PROVE Goal
  <2>1. CASE HasRoom /\ ring' = Append(ring, EventOf("connect", a)) /\ UNCHANGED unrecorded
    <3>1. PICK r \in Record : r = EventOf("connect", a)
      BY <1>0, EventOfType
    <3>2. RecordTrue(r)'
      BY <1>1, <2>1, <3>1 DEF RecordTrue, EventOf, tcp_connect, TypeOK, KernelTypeOK, RecordsTrue
    <3> QED
      BY <2>1, <3>1, <3>2
  <2>2. CASE UNCHANGED ring
    BY <2>2
  <2> QED
    BY <1>1, <2>1, <2>2 DEF tcp_connect
<1>2. ASSUME NEW a \in Attempts, inet_csk_accept(a) PROVE Goal
  <2>1. CASE HasRoom /\ ring' = Append(ring, EventOf("accept", a))
    <3>1. PICK r \in Record : r = EventOf("accept", a)
      BY <1>0, EventOfType
    <3>2. RecordTrue(r)'
      BY <1>2, <2>1, <3>1 DEF RecordTrue, EventOf, inet_csk_accept, TypeOK, KernelTypeOK
    <3> QED
      BY <2>1, <3>1, <3>2
  <2>2. CASE UNCHANGED ring
    BY <2>2
  <2> QED
    BY <1>2, <2>1, <2>2 DEF inet_csk_accept
<1>3. ASSUME NEW a \in Attempts, Abort(a) PROVE Goal
  BY <1>3 DEF Abort
<1>4. ASSUME NEW l \in Locals, LocalCall(l) PROVE Goal
  <2>1. CASE HasRoom /\ ring' = Append(ring, EventOf("local", l))
    <3>1. PICK r \in Record : r = EventOf("local", l)
      BY <1>0, EventOfType
    <3>2. RecordTrue(r)'
      BY <3>1 DEF RecordTrue, EventOf
    <3> QED
      BY <2>1, <3>1, <3>2
  <2>2. CASE UNCHANGED ring
    BY <2>2
  <2> QED
    BY <1>4, <2>1, <2>2 DEF LocalCall
<1> QED
  BY <1>1, <1>2, <1>3, <1>4 DEF KernelStep

\* What the traced processes do keeps the records, and what was noted of
\* sockets, true.
LEMMA KernelKeepsRecords ==
    ASSUME TypeOK, RecordsTrue, KernelStep, UNCHANGED userVars
    PROVE  RecordsTrue'
<1>1. \A i \in DOMAIN ring' : RecordTrue(ring[i])'
  <2>1. CASE UNCHANGED ring
    BY <2>1, RecordTrueStable, RecordsTyped DEF RecordsTrue
  <2>2. ASSUME NEW r \in Record, HasRoom, ring' = Append(ring, r), RecordTrue(r)'
        PROVE  \A i \in DOMAIN ring' : RecordTrue(ring[i])'
    <3>1. KernelTypeOK
      BY DEF TypeOK
    <3>2. ASSUME NEW i \in 1..Len(ring) PROVE ring'[i] \in Record /\ RecordTrue(ring[i])'
      <4>1. ring'[i] = ring[i] /\ ring[i] \in Record /\ RecordTrue(ring[i])
        BY <2>2, <3>1, Submitted, RecordsTyped DEF RecordsTrue
      <4>2. \A x \in Record : RecordTrue(x) => RecordTrue(x)'
        BY RecordTrueStable
      <4> QED
        BY <4>1, <4>2 DEF RecordTrue
    <3>3. DOMAIN ring' = 1..(Len(ring) + 1) /\ ring'[Len(ring) + 1] = r /\ Len(ring) \in Nat
      BY <2>2, <3>1, Submitted
    <3> QED
      BY <2>2, <3>2, <3>3 DEF RecordTrue
  <2> QED
    BY <2>1, <2>2, KernelRing
<1>2. rec' # NoRecord => RecordTrue(rec)'
  <2>1. \A x \in Record : RecordTrue(x) => RecordTrue(x)'
    BY RecordTrueStable
  <2> QED
    BY <2>1, RecordsTyped DEF RecordsTrue, userVars, RecordTrue
<1>3. \A a \in Attempts : sock[a] # "idle" => sock'[a] # "idle"
  BY DEF KernelStep, tcp_connect, inet_csk_accept, Abort, LocalCall, TypeOK, KernelTypeOK
<1>4. \A a \in Attempts : sock[a] = "accepted" => sock'[a] = "accepted"
  BY DEF KernelStep, tcp_connect, inet_csk_accept, Abort, LocalCall, TypeOK, KernelTypeOK
<1>5. \A a \in unrecorded' : sock'[a] # "idle"
  BY <1>3 DEF KernelStep, tcp_connect, inet_csk_accept, Abort, LocalCall, TypeOK, KernelTypeOK, RecordsTrue
<1>6. \A m \in missed' : sock'[m.att] = "accepted"
  BY <1>4 DEF userVars, TypeOK, RecordsTrue
<1>7. \A k \in Tuples : pending'[k] # NoEntry =>
          TupleOf[pending'[k].att] = k /\ sock'[pending'[k].att] # "idle"
  <2>1. \A k \in Tuples : pending[k] # NoEntry => pending[k].att \in Attempts
    BY DEF TypeOK
  <2> QED
    BY <1>3, <2>1 DEF userVars, RecordsTrue
<1> QED
  BY <1>1, <1>2, <1>5, <1>6, <1>7 DEF RecordsTrue

\* A step that touches neither sockets nor records keeps a record true.
LEMMA RecordTrueUnchanged ==
    ASSUME UNCHANGED <<sock, connTime, unrecorded>>, NEW r
    PROVE  RecordTrue(r)' = RecordTrue(r)
  BY DEF RecordTrue

\* RecordsTrue is inductive.
LEMMA RecordsStep ==
    ASSUME TypeOK, RecordsTrue, [Next]_vars
    PROVE  RecordsTrue'
<1> USE DEF RecordsTrue
<1>1. CASE KernelStep /\ UNCHANGED userVars
  BY <1>1, KernelKeepsRecords
<1>2. CASE Second
  BY <1>2, RecordTrueUnchanged DEF Second, RecordTrue
<1>3. CASE Cleanup
  <2>1. UNCHANGED <<sock, connTime, unrecorded, ring, rec, missed>>
    BY <1>3 DEF Cleanup, kernelVars
  <2>2. \A k \in Tuples : pending'[k] # NoEntry => pending'[k] = pending[k]
    BY <1>3 DEF Cleanup
  <2> QED
    BY <2>1, <2>2 DEF RecordTrue
<1>4. CASE Read
  <2>1. \A i \in DOMAIN ring' : RecordTrue(ring[i])'
    BY <1>4, ReadFacts, RecordsTyped DEF RecordTrue
  <2>2. RecordTrue(rec)'
    BY <1>4, ReadFacts, RecordsTyped DEF RecordTrue
  <2> QED
    BY <1>4, <2>1, <2>2, ReadFacts
<1>5. CASE ForwardLocal
  BY <1>5 DEF ForwardLocal, kernelVars, RecordTrue
<1>6. CASE HandleConnect
  <2>1. UNCHANGED <<sock, connTime, unrecorded, ring, missed>> /\ rec' = NoRecord
    BY <1>6 DEF HandleConnect, kernelVars
  <2>2. rec.att \in Attempts /\ sock[rec.att] # "idle" /\ TupleOf[rec.att] \in Tuples
    BY <1>6, RecordsTyped, RecordFields, ProbesAssumption
       DEF HandleConnect, RecordTrue, ProbesAssumption
  <2>3. \A k \in Tuples : k # TupleOf[rec.att] => pending'[k] = pending[k]
    BY <1>6 DEF HandleConnect, TypeOK
  <2>4. pending'[TupleOf[rec.att]] = [att |-> rec.att, ts |-> KTimeToTime(rec.ts)]
    BY <1>6, <2>2 DEF HandleConnect, TypeOK
  <2>5. \A k \in Tuples : pending'[k] # NoEntry =>
            TupleOf[pending'[k].att] = k /\ sock'[pending'[k].att] # "idle"
    BY <2>1, <2>2, <2>3, <2>4
  <2> QED
    BY <2>1, <2>5 DEF RecordTrue
<1>7. CASE HandleAccept
  <2>1. UNCHANGED <<sock, connTime, unrecorded, ring, pending>>
    BY <1>7 DEF HandleAccept, kernelVars
  <2>2. rec' = rec \/ rec' = NoRecord
    BY <1>7 DEF HandleAccept
  <2>3. sock[rec.att] = "accepted"
    BY <1>7 DEF HandleAccept, RecordTrue
  <2>4. \A m \in missed' : sock'[m.att] = "accepted"
    BY <1>7, <2>1, <2>3 DEF HandleAccept
  <2> QED
    BY <2>1, <2>2, <2>4 DEF RecordTrue
<1>8. CASE SendEvent
  <2>1. UNCHANGED <<sock, connTime, unrecorded, ring, missed>> /\ rec' = NoRecord
    BY <1>8 DEF SendEvent, kernelVars
  <2>2. \A k \in Tuples : pending'[k] # NoEntry => pending'[k] = pending[k]
    BY <1>8 DEF SendEvent, TypeOK
  <2> QED
    BY <2>1, <2>2 DEF RecordTrue
<1>9. CASE FanIn
  BY <1>9 DEF FanIn, kernelVars, RecordTrue
<1>10. CASE UNCHANGED vars
  BY <1>10 DEF vars, kernelVars, userVars, RecordTrue
<1> QED
  BY <1>1, <1>2, <1>3, <1>4, <1>5, <1>6, <1>7, <1>8, <1>9, <1>10 DEF Next, Reader

\* What the ring, the reader, pending and missed say of sockets is true: the
\* probes write a record in the step that changes the socket.
THEOREM RecordsAreTrue == Spec => []RecordsTrue
<1>1. Init => RecordsTrue
  BY DEF Init, KernelInit, RecordsTrue
<1> QED
  BY <1>1, RecordsStep, TypeCorrect, PTL DEF Spec

-----------------------------------------------------------------------------
\* SendCoherent is inductive: whatever runs while HandleAccept sends leaves
\* pending and rec alone.
LEMMA SendStep ==
    ASSUME TypeOK, SendCoherent, [Next]_vars
    PROVE  SendCoherent'
<1> USE DEF SendCoherent
<1>1. CASE KernelStep /\ UNCHANGED userVars
  BY <1>1 DEF userVars
<1>2. CASE Second
  BY <1>2 DEF Second
<1>3. CASE Cleanup
  BY <1>3 DEF Cleanup
<1>4. CASE Read
  BY <1>4 DEF Read
<1>5. CASE ForwardLocal
  BY <1>5 DEF ForwardLocal
<1>6. CASE HandleConnect
  BY <1>6 DEF HandleConnect
<1>7. CASE HandleAccept
  BY <1>7 DEF HandleAccept
<1>8. CASE SendEvent
  BY <1>8 DEF SendEvent
<1>9. CASE FanIn
  BY <1>9 DEF FanIn
<1>10. CASE UNCHANGED vars
  BY <1>10 DEF vars, userVars
<1> QED
  BY <1>1, <1>2, <1>3, <1>4, <1>5, <1>6, <1>7, <1>8, <1>9, <1>10 DEF Next, Reader

\* The event HandleAccept sends belongs to the record it handles and to the
\* entry it found.
THEOREM SendsCohere == Spec => []SendCoherent
<1>1. Init => SendCoherent
  BY DEF Init, SendCoherent
<1> QED
  BY <1>1, SendStep, TypeCorrect, PTL DEF Spec

\* The entry HandleAccept read is still in pending when its send ends, however
\* long the full channel makes it wait.
THEOREM EntryHeld == Spec => []EntryHeldDuringSend
<1>1. SendCoherent => EntryHeldDuringSend
  BY DEF SendCoherent, EntryHeldDuringSend
<1> QED
  BY <1>1, SendsCohere, PTL

-----------------------------------------------------------------------------
\* A probe's step keeps every connect in one place: the one it may add is of
\* an attempt that was idle, and nothing yet speaks of an idle attempt.
LEMMA KernelKeepsUnique ==
    ASSUME TypeOK, RecordsTrue, ConnectUnique, KernelStep, UNCHANGED userVars
    PROVE  ConnectUnique'
<1>0. KernelTypeOK
  BY DEF TypeOK
<1>1. UNCHANGED <<rec, pending, reports>>
  BY DEF userVars
<1>2. \A e \in reports : sock'[e.src] # "idle"
  <2>1. \A e \in reports : e.src \in Attempts /\ sock[e.src] # "idle"
    BY DEF ConnectUnique, TypeOK
  <2>2. \A a \in Attempts : sock[a] # "idle" => sock'[a] # "idle"
    BY DEF KernelStep, tcp_connect, inet_csk_accept, Abort, LocalCall, TypeOK, KernelTypeOK
  <2> QED
    BY <2>1, <2>2
<1>3. CASE UNCHANGED ring
  BY <1>1, <1>2, <1>3 DEF ConnectUnique, IsConnect
<1>4. ASSUME NEW r \in Record, HasRoom, ring' = Append(ring, r), r.type # "connect"
      PROVE  ConnectUnique'
  <2>1. /\ DOMAIN ring' = 1..(Len(ring) + 1) /\ Len(ring) \in Nat
        /\ ring'[Len(ring) + 1] = r
        /\ \A i \in 1..Len(ring) : ring'[i] = ring[i]
    BY <1>0, <1>4, Submitted
  <2> QED
    BY <1>1, <1>2, <1>4, <2>1, RecordsTyped DEF ConnectUnique, IsConnect
<1>5. ASSUME NEW a \in Attempts, sock[a] = "idle", HasRoom,
             NEW r \in Record, r.type = "connect", r.att = a, ring' = Append(ring, r)
      PROVE  ConnectUnique'
  <2>1. /\ DOMAIN ring' = 1..(Len(ring) + 1) /\ Len(ring) \in Nat
        /\ ring'[Len(ring) + 1] = r
        /\ \A i \in 1..Len(ring) : ring'[i] = ring[i]
    BY <1>0, <1>5, Submitted
  <2>2. \A i \in 1..Len(ring) : ~IsConnect(ring[i], a)
    BY <1>5, RecordsTyped DEF RecordsTrue, RecordTrue, IsConnect
  <2>3. rec # NoRecord => ~IsConnect(rec, a)
    BY <1>5 DEF RecordsTrue, RecordTrue, IsConnect
  <2>4. \A k \in Tuples : pending[k] # NoEntry => pending[k].att # a
    BY <1>5 DEF RecordsTrue
  <2>5. \A e \in reports : e.src # a
    BY <1>5 DEF ConnectUnique
  <2> QED
    BY <1>1, <1>2, <1>5, <2>1, <2>2, <2>3, <2>4, <2>5, RecordsTyped DEF ConnectUnique, IsConnect
<1>6. ASSUME NEW a \in Attempts, tcp_connect(a) PROVE ConnectUnique'
  <2>1. PICK r \in Record : r = EventOf("connect", a)
    BY <1>0, EventOfType
  <2>2. r.type = "connect" /\ r.att = a
    BY <2>1 DEF EventOf
  <2> QED
    BY <1>3, <1>5, <1>6, <2>1, <2>2 DEF tcp_connect
<1>7. ASSUME NEW a \in Attempts, inet_csk_accept(a) PROVE ConnectUnique'
  <2>1. PICK r \in Record : r = EventOf("accept", a)
    BY <1>0, EventOfType
  <2>2. r.type # "connect"
    BY <2>1 DEF EventOf
  <2> QED
    BY <1>3, <1>4, <1>7, <2>1, <2>2 DEF inet_csk_accept
<1>8. ASSUME NEW a \in Attempts, Abort(a) PROVE ConnectUnique'
  BY <1>3, <1>8 DEF Abort
<1>9. ASSUME NEW l \in Locals, LocalCall(l) PROVE ConnectUnique'
  <2>1. PICK r \in Record : r = EventOf("local", l)
    BY <1>0, EventOfType
  <2>2. r.type # "connect"
    BY <2>1 DEF EventOf
  <2> QED
    BY <1>3, <1>4, <1>9, <2>1, <2>2 DEF LocalCall
<1> QED
  BY <1>6, <1>7, <1>8, <1>9 DEF KernelStep

\* ConnectUnique is inductive: a connect moves from the ring to the reader, to
\* pending, and to reports, and leaves each place as it enters the next.
LEMMA UniqueStep ==
    ASSUME TypeOK, RecordsTrue, SendCoherent, ConnectUnique, [Next]_vars
    PROVE  ConnectUnique'
<1> USE DEF ConnectUnique, IsConnect
<1>1. CASE KernelStep /\ UNCHANGED userVars
  BY <1>1, KernelKeepsUnique
<1>2. CASE Second
  BY <1>2 DEF Second
<1>3. CASE Cleanup
  <2>1. UNCHANGED <<sock, ring, rec, reports>>
    BY <1>3 DEF Cleanup, kernelVars
  <2>2. \A k \in Tuples : pending'[k] # NoEntry => pending'[k] = pending[k]
    BY <1>3 DEF Cleanup
  <2> QED
    BY <2>1, <2>2
<1>4. CASE Read
  <2>1. /\ Len(ring) \in Nat /\ Len(ring) >= 1 /\ DOMAIN ring = 1..Len(ring)
        /\ DOMAIN ring' = 1..(Len(ring) - 1)
        /\ \A i \in 1..(Len(ring) - 1) : ring'[i] = ring[i + 1]
        /\ rec' = ring[1] /\ rec' # NoRecord
        /\ UNCHANGED <<sock, pending, reports>>
    BY <1>4, ReadFacts, RecordsTyped
  <2>2. \A i, j \in DOMAIN ring' :
            ring'[i].type = "connect" /\ IsConnect(ring'[j], ring'[i].att) => i = j
    <3> SUFFICES ASSUME NEW i \in DOMAIN ring', NEW j \in DOMAIN ring',
                        ring'[i].type = "connect", IsConnect(ring'[j], ring'[i].att)
                 PROVE  i = j
      OBVIOUS
    <3>1. i + 1 \in DOMAIN ring /\ j + 1 \in DOMAIN ring /\ i \in Nat /\ j \in Nat
      BY <2>1
    <3>2. i + 1 = j + 1
      BY <2>1, <3>1
    <3> QED
      BY <3>1, <3>2
  <2>3. \A i \in DOMAIN ring' : ring'[i].type = "connect" =>
            /\ ~IsConnect(rec', ring'[i].att)
            /\ \A k \in Tuples : pending[k] # NoEntry => pending[k].att # ring'[i].att
            /\ \A e \in reports : e.src # ring'[i].att
    <3> SUFFICES ASSUME NEW i \in DOMAIN ring', ring'[i].type = "connect"
                 PROVE  /\ ~IsConnect(rec', ring'[i].att)
                        /\ \A k \in Tuples : pending[k] # NoEntry => pending[k].att # ring'[i].att
                        /\ \A e \in reports : e.src # ring'[i].att
      OBVIOUS
    <3>1. i + 1 \in DOMAIN ring /\ 1 \in DOMAIN ring /\ i + 1 # 1 /\ ring'[i] = ring[i + 1]
      BY <2>1
    <3> QED
      BY <2>1, <3>1
  <2> QED
    BY <2>1, <2>2, <2>3
<1>5. CASE ForwardLocal
  BY <1>5 DEF ForwardLocal, kernelVars
<1>6. CASE HandleConnect
  <2>1. UNCHANGED <<sock, ring, reports>> /\ rec' = NoRecord
    BY <1>6 DEF HandleConnect, kernelVars
  <2>2. \A k \in Tuples : \/ pending'[k] = pending[k]
                          \/ pending'[k].att = rec.att
    BY <1>6 DEF HandleConnect, TypeOK
  <2>3. rec # NoRecord /\ rec.type = "connect"
    BY <1>6 DEF HandleConnect
  <2> QED
    BY <2>1, <2>2, <2>3
<1>7. CASE HandleAccept
  BY <1>7 DEF HandleAccept, kernelVars
<1>8. CASE SendEvent
  <2>1. UNCHANGED <<sock, ring>> /\ rec' = NoRecord /\ reports' = reports \cup {sending}
    BY <1>8 DEF SendEvent, kernelVars
  <2>2. sending \in Event /\ TupleOf[sending.dst] \in Tuples
    BY <1>8, ProbesAssumption DEF SendEvent, TypeOK, ProbesAssumption
  <2>3. /\ \A k \in Tuples : pending'[k] # NoEntry => pending'[k] = pending[k]
        /\ pending'[TupleOf[sending.dst]] = NoEntry
    BY <1>8, <2>2 DEF SendEvent, TypeOK
  <2>4. /\ pending[TupleOf[sending.dst]] # NoEntry
        /\ pending[TupleOf[sending.dst]].att = sending.src
    BY <1>8 DEF SendEvent, SendCoherent
  <2>5. \A k \in Tuples : pending[k] # NoEntry /\ pending[k].att = sending.src
                             => k = TupleOf[sending.dst]
    BY <2>2, <2>4 DEF RecordsTrue
  <2>6. sock[sending.src] # "idle"
    BY <2>2, <2>4 DEF RecordsTrue
  <2> QED
    BY <2>1, <2>2, <2>3, <2>4, <2>5, <2>6
<1>9. CASE FanIn
  BY <1>9 DEF FanIn, kernelVars
<1>10. CASE UNCHANGED vars
  BY <1>10 DEF vars, kernelVars, userVars
<1> QED
  BY <1>1, <1>2, <1>3, <1>4, <1>5, <1>6, <1>7, <1>8, <1>9, <1>10 DEF Next, Reader

\* A connect is in one place at a time on its way from tcp_connect to c.output.
THEOREM ConnectsAreUnique == Spec => []ConnectUnique
<1>1. Init => ConnectUnique
  BY DEF Init, KernelInit, ConnectUnique
<1> QED
  BY <1>1, UniqueStep, TypeCorrect, RecordsAreTrue, SendsCohere, PTL DEF Spec

\* No connect is reported twice: SendEvent takes the entry out of pending, and
\* nothing puts a connect back.
THEOREM NoDoubleReport == Spec => []ReportedOnce
<1>1. Init => ReportedOnce
  BY DEF Init, ReportedOnce
<1>2. ASSUME TypeOK, SendCoherent, ConnectUnique, ReportedOnce, [Next]_vars
      PROVE  ReportedOnce'
  <2>1. CASE SendEvent
    <3>1. reports' = reports \cup {sending} /\ sending \in Event
      BY <1>2, <2>1 DEF SendEvent, TypeOK
    <3>2. TupleOf[sending.dst] \in Tuples
      BY <3>1, ProbesAssumption DEF ProbesAssumption
    <3>3. \A e \in reports : e.src # sending.src
      BY <1>2, <2>1, <3>2 DEF SendEvent, SendCoherent, ConnectUnique
    <3> QED
      BY <1>2, <3>1, <3>3 DEF ReportedOnce
  <2>2. CASE UNCHANGED reports
    BY <1>2, <2>2 DEF ReportedOnce
  <2> QED
    BY <1>2, <2>1, <2>2
       DEF Next, Reader, KernelStep, Second, Cleanup, Read, ForwardLocal, HandleConnect,
           HandleAccept, FanIn, vars, userVars
<1> QED
  BY <1>1, <1>2, TypeCorrect, SendsCohere, ConnectsAreUnique, PTL DEF Spec

-----------------------------------------------------------------------------
(* The correlator pairs the right client with the right server, and loses  *)
(* no prompt accept, for every number of connections, every interleaving   *)
(* and every boot time, as long as no two namespaces share a tuple.        *)

HIDE DEF Entry, Event, SockStates

\* What the discipline says of one recorded attempt.
Disciplined(b) ==
    /\ sock[b] = "connecting" => Standing(b, Len(ring))
    /\ \A j \in DOMAIN ring :
          ring[j].type = "accept" /\ ring[j].att = b => Standing(b, j - 1)
    /\ rec # NoRecord /\ rec.type = "accept" /\ rec.att = b => Held(b)

\* No two open attempts share a tuple.
Exclusive ==
    \A b, c \in Attempts :
        sock[b] = "connecting" /\ sock[c] = "connecting" /\ b # c => TupleOf[b] # TupleOf[c]

\* TupleDiscipline, taken apart into what its proof handles one by one.
LEMMA DisciplineParts ==
    TupleDiscipline <=> Exclusive /\ \A b \in Attempts \ unrecorded : Disciplined(b)
  BY DEF TupleDiscipline, Exclusive, Disciplined

-----------------------------------------------------------------------------
\* A step that leaves the first n records and rec alone and keeps Held keeps
\* Standing.
LEMMA StandingKept ==
    ASSUME NEW b, NEW n \in Nat, Standing(b, n),
           \A i \in 1..n : ring'[i] = ring[i],
           UNCHANGED rec, Held(b) => Held(b)'
    PROVE  Standing(b, n)'
  BY DEF Standing, IsConnect, OnTuple

\* A record of another tuple at the end changes nothing.
LEMMA StandingExtended ==
    ASSUME NEW b, NEW n \in Nat, Standing(b, n),
           \A i \in 1..n : ring'[i] = ring[i],
           ~OnTuple(ring'[n + 1], TupleOf[b]),
           UNCHANGED rec, Held(b) => Held(b)'
    PROVE  Standing(b, n + 1)'
<1> DEFINE k == TupleOf[b]
<1>1. CASE \E i \in 1..n : IsConnect(ring[i], b) /\ \A j \in 1..n : j > i => ~OnTuple(ring[j], k)
  <2>1. PICK i \in 1..n : IsConnect(ring[i], b) /\ \A j \in 1..n : j > i => ~OnTuple(ring[j], k)
    BY <1>1
  <2>2. i \in 1..(n + 1) /\ IsConnect(ring'[i], b)
    BY <2>1
  <2>3. \A j \in 1..(n + 1) : j > i => ~OnTuple(ring'[j], k)
    <3> SUFFICES ASSUME NEW j \in 1..(n + 1), j > i PROVE ~OnTuple(ring'[j], k)
      OBVIOUS
    <3>1. CASE j = n + 1
      BY <3>1
    <3>2. CASE j \in 1..n
      BY <2>1, <3>2
    <3> QED
      BY <3>1, <3>2
  <2> QED
    BY <2>2, <2>3 DEF Standing, IsConnect, OnTuple
<1>2. CASE /\ \A j \in 1..n : ~OnTuple(ring[j], k)
           /\ \/ rec # NoRecord /\ IsConnect(rec, b)
              \/ Held(b) /\ (rec # NoRecord => ~OnTuple(rec, k))
  <2>1. \A j \in 1..(n + 1) : ~OnTuple(ring'[j], k)
    <3> SUFFICES ASSUME NEW j \in 1..(n + 1) PROVE ~OnTuple(ring'[j], k)
      OBVIOUS
    <3>1. CASE j = n + 1
      BY <3>1
    <3>2. CASE j \in 1..n
      BY <1>2, <3>2
    <3> QED
      BY <3>1, <3>2
  <2> QED
    BY <1>2, <2>1 DEF Standing, IsConnect, OnTuple
<1> QED
  BY <1>1, <1>2 DEF Standing

\* Reading a record moves the tuple's last record one place nearer.
LEMMA StandingRead ==
    ASSUME TypeOK, Read, NEW b, NEW n \in 1..Len(ring), Standing(b, n)
    PROVE  Standing(b, n - 1)'
<1> DEFINE k == TupleOf[b]
<1>1. /\ Len(ring) \in Nat /\ rec = NoRecord /\ rec' = ring[1] /\ rec' # NoRecord
      /\ \A i \in 1..(Len(ring) - 1) : ring'[i] = ring[i + 1]
      /\ UNCHANGED <<clock, connTime, bootTime, pending>>
  BY ReadFacts, RecordsTyped DEF Read
<1>2. \A i \in 1..(n - 1) : i + 1 \in 1..n /\ ring'[i] = ring[i + 1]
  BY <1>1
<1>3. CASE \E i \in 1..n : IsConnect(ring[i], b) /\ \A j \in 1..n : j > i => ~OnTuple(ring[j], k)
  <2>1. PICK i \in 1..n : IsConnect(ring[i], b) /\ \A j \in 1..n : j > i => ~OnTuple(ring[j], k)
    BY <1>3
  <2>2. CASE i = 1
    <3>1. \A j \in 1..(n - 1) : ~OnTuple(ring'[j], k)
      BY <1>1, <1>2, <2>1, <2>2
    <3> QED
      BY <1>1, <2>1, <2>2, <3>1 DEF Standing, IsConnect, OnTuple
  <2>3. CASE i # 1
    <3>1. i - 1 \in 1..(n - 1) /\ IsConnect(ring'[i - 1], b)
      BY <1>1, <1>2, <2>1, <2>3
    <3>2. \A j \in 1..(n - 1) : j > i - 1 => ~OnTuple(ring'[j], k)
      BY <1>1, <1>2, <2>1
    <3> QED
      BY <3>1, <3>2 DEF Standing, IsConnect, OnTuple
  <2> QED
    BY <2>2, <2>3
<1>4. CASE (\A j \in 1..n : ~OnTuple(ring[j], k)) /\ Held(b)
  <2>1. \A j \in 1..(n - 1) : ~OnTuple(ring'[j], k)
    BY <1>1, <1>2, <1>4
  <2>2. 1 \in 1..n
    BY <1>1
  <2>3. Held(b)'
    BY <1>1, <1>4 DEF Held, ApparentAge
  <2>4. ~OnTuple(rec', k)
    BY <1>1, <1>4, <2>2
  <2> QED
    BY <1>1, <2>1, <2>3, <2>4 DEF Standing, OnTuple
<1> QED
  BY <1>1, <1>3, <1>4 DEF Standing

-----------------------------------------------------------------------------
\* A step that touches neither records nor sockets and keeps Held keeps the
\* discipline.
LEMMA DisciplineKept ==
    ASSUME TypeOK, TupleDiscipline, UNCHANGED <<ring, rec, sock, unrecorded>>,
           \A b \in Attempts : Held(b) => Held(b)'
    PROVE  TupleDiscipline'
<1>1. Exclusive /\ \A b \in Attempts \ unrecorded : Disciplined(b)
  BY DisciplineParts
<1>2. Exclusive'
  BY <1>1 DEF Exclusive
<1>3. ASSUME NEW b \in Attempts \ unrecorded PROVE Disciplined(b)'
  <2>1. Len(ring) \in Nat /\ DOMAIN ring = 1..Len(ring)
    BY RecordsTyped
  <2>2. \A n \in Nat : Standing(b, n) => Standing(b, n)'
    BY StandingKept
  <2> QED
    BY <1>1, <2>1, <2>2 DEF Disciplined
<1> QED
  BY <1>2, <1>3, DisciplineParts DEF TupleDiscipline, Exclusive, Disciplined

\* A handler that is through with rec keeps the discipline if it leaves the
\* connect it handled in pending and the entries of other tuples alone.
LEMMA DisciplineHandled ==
    ASSUME TypeOK, TupleDiscipline, UNCHANGED <<ring, sock, unrecorded>>,
           rec # NoRecord, rec' = NoRecord,
           \A b \in Attempts : IsConnect(rec, b) => Held(b)',
           \A b \in Attempts : Held(b) /\ ~OnTuple(rec, TupleOf[b]) => Held(b)'
    PROVE  TupleDiscipline'
<1>1. Exclusive /\ \A b \in Attempts \ unrecorded : Disciplined(b)
  BY DisciplineParts
<1>2. Exclusive'
  BY <1>1 DEF Exclusive
<1>3. ASSUME NEW b \in Attempts \ unrecorded PROVE Disciplined(b)'
  <2>1. Len(ring) \in Nat /\ DOMAIN ring = 1..Len(ring)
    BY RecordsTyped
  <2>2. \A n \in Nat : Standing(b, n) => Standing(b, n)'
    BY DEF Standing, IsConnect, OnTuple
  <2> QED
    BY <1>1, <2>1, <2>2 DEF Disciplined
<1> QED
  BY <1>2, <1>3 DEF TupleDiscipline, Exclusive, Disciplined

\* Reading keeps the discipline.
LEMMA DisciplineRead ==
    ASSUME TypeOK, TupleDiscipline, Read
    PROVE  TupleDiscipline'
<1>1. Exclusive /\ \A b \in Attempts \ unrecorded : Disciplined(b)
  BY DisciplineParts
<1>2. /\ Len(ring) \in Nat /\ Len(ring) >= 1 /\ Len(ring') = Len(ring) - 1
      /\ DOMAIN ring = 1..Len(ring) /\ DOMAIN ring' = 1..(Len(ring) - 1)
      /\ \A i \in 1..(Len(ring) - 1) : ring'[i] = ring[i + 1]
      /\ rec = NoRecord /\ rec' = ring[1]
      /\ UNCHANGED <<clock, sock, connTime, unrecorded, bootTime, pending>>
  BY ReadFacts, RecordsTyped DEF Read
<1>3. Exclusive'
  BY <1>1, <1>2 DEF Exclusive
<1>4. ASSUME NEW b \in Attempts \ unrecorded PROVE Disciplined(b)'
  <2>1. \A n \in 1..Len(ring) : Standing(b, n) => Standing(b, n - 1)'
    BY StandingRead
  <2>2. sock'[b] = "connecting" => Standing(b, Len(ring))'
    <3>1. PICK n \in 1..Len(ring) : n = Len(ring)
      BY <1>2
    <3>2. PICK m \in Nat : m = n - 1
      BY <1>2
    <3>3. sock[b] = "connecting" => Standing(b, m)'
      BY <1>1, <2>1, <3>1, <3>2 DEF Disciplined
    <3>4. m = Len(ring')
      BY <1>2, <3>1, <3>2
    <3> QED
      BY <1>2, <3>3, <3>4 DEF Standing
  <2>3. \A j \in DOMAIN ring' :
            ring'[j].type = "accept" /\ ring'[j].att = b => Standing(b, j - 1)'
    <3> SUFFICES ASSUME NEW j \in DOMAIN ring', ring'[j].type = "accept", ring'[j].att = b
                 PROVE  Standing(b, j - 1)'
      OBVIOUS
    <3>1. j \in 1..Len(ring) /\ j + 1 \in DOMAIN ring /\ ring'[j] = ring[j + 1] /\ (j + 1) - 1 = j
      BY <1>2
    <3>2. Standing(b, j)
      BY <1>1, <3>1 DEF Disciplined
    <3> QED
      BY <2>1, <3>1, <3>2
  <2>4. rec'.type = "accept" /\ rec'.att = b => Held(b)'
    <3> SUFFICES ASSUME rec'.type = "accept", rec'.att = b PROVE Held(b)'
      OBVIOUS
    <3>1. 1 \in DOMAIN ring /\ ring[1].type = "accept" /\ ring[1].att = b
      BY <1>2
    <3>2. Standing(b, 0)
      BY <1>1, <3>1 DEF Disciplined
    <3>3. Held(b)
      BY <1>2, <3>2 DEF Standing
    <3> QED
      BY <1>2, <3>3 DEF Held, ApparentAge
  <2> QED
    BY <2>2, <2>3, <2>4 DEF Disciplined
<1> QED
  BY <1>2, <1>3, <1>4 DEF TupleDiscipline, Exclusive, Disciplined

-----------------------------------------------------------------------------
\* Held speaks of the connect time of b, of pending and of the clocks only.
LEMMA HeldUnchanged ==
    ASSUME NEW b, connTime'[b] = connTime[b], UNCHANGED <<clock, bootTime, pending>>, Held(b)
    PROVE  Held(b)'
  BY DEF Held, ApparentAge

\* The submission of a record keeps b disciplined when the record is on
\* another tuple, or is b's own accept that follows its open connect.
LEMMA DisciplineSubmit ==
    ASSUME TypeOK, NEW b \in Attempts, Disciplined(b), NEW r \in Record,
           HasRoom, ring' = Append(ring, r), UNCHANGED rec, Held(b) => Held(b)',
           sock'[b] = "connecting" => sock[b] = "connecting" /\ ~OnTuple(r, TupleOf[b]),
           r.type = "accept" /\ r.att = b => sock[b] = "connecting"
    PROVE  Disciplined(b)'
<1>1. KernelTypeOK
  BY DEF TypeOK
<1>2. /\ Len(ring) \in Nat /\ Len(ring') = Len(ring) + 1
      /\ DOMAIN ring = 1..Len(ring) /\ DOMAIN ring' = 1..(Len(ring) + 1)
      /\ \A i \in 1..Len(ring) : ring'[i] = ring[i]
      /\ ring'[Len(ring) + 1] = r
  BY <1>1, Submitted, RecordsTyped
<1>3. PICK n \in Nat : n = Len(ring)
  BY <1>2
<1>4. \A m \in 0..n : Standing(b, m) => Standing(b, m)'
  <2> SUFFICES ASSUME NEW m \in 0..n, Standing(b, m) PROVE Standing(b, m)'
    OBVIOUS
  <2>1. m \in Nat /\ \A i \in 1..m : ring'[i] = ring[i]
    BY <1>2, <1>3
  <2> QED
    BY <2>1, StandingKept
<1>5. sock'[b] = "connecting" => Standing(b, Len(ring))'
  <2> SUFFICES ASSUME sock'[b] = "connecting" PROVE Standing(b, Len(ring))'
    OBVIOUS
  <2>1. Standing(b, n) /\ ~OnTuple(ring'[n + 1], TupleOf[b])
    BY <1>2, <1>3 DEF Disciplined
  <2>2. Standing(b, n + 1)'
    BY <1>2, <1>3, <2>1, StandingExtended
  <2> QED
    BY <1>2, <1>3, <2>2 DEF Standing
<1>6. \A j \in DOMAIN ring' :
          ring'[j].type = "accept" /\ ring'[j].att = b => Standing(b, j - 1)'
  <2> SUFFICES ASSUME NEW j \in DOMAIN ring', ring'[j].type = "accept", ring'[j].att = b
               PROVE  Standing(b, j - 1)'
    OBVIOUS
  <2>1. j \in 1..(n + 1) /\ j - 1 \in 0..n
    BY <1>2, <1>3
  <2>2. Standing(b, j - 1)
    <3>1. CASE j = n + 1
      BY <1>2, <1>3, <3>1 DEF Disciplined
    <3>2. CASE j \in 1..n
      BY <1>2, <1>3, <3>2 DEF Disciplined
    <3> QED
      BY <2>1, <3>1, <3>2
  <2> QED
    BY <1>4, <2>1, <2>2
<1> QED
  BY <1>5, <1>6 DEF Disciplined

\* A step that submits nothing and opens no attempt keeps b disciplined.
LEMMA DisciplineQuiet ==
    ASSUME TypeOK, NEW b \in Attempts, Disciplined(b), UNCHANGED <<ring, rec>>,
           Held(b) => Held(b)', sock'[b] = "connecting" => sock[b] = "connecting"
    PROVE  Disciplined(b)'
<1>1. Len(ring) \in Nat /\ DOMAIN ring = 1..Len(ring)
  BY RecordsTyped
<1>2. \A n \in Nat : Standing(b, n) => Standing(b, n)'
  BY StandingKept
<1> QED
  BY <1>1, <1>2 DEF Disciplined

\* The probes keep the discipline: the kernel does not give out a tuple that
\* an open attempt holds, in any namespace.
LEMMA DisciplineKernel ==
    ASSUME TypeOK, RecordsTrue, TupleDiscipline, TuplesUnambiguous,
           KernelStep, UNCHANGED userVars
    PROVE  TupleDiscipline'
<1>0. KernelTypeOK
  BY DEF TypeOK
<1>1. Exclusive /\ \A b \in Attempts \ unrecorded : Disciplined(b)
  BY DisciplineParts
<1>2. UNCHANGED <<clock, bootTime, pending, rec>>
  BY DEF KernelStep, tcp_connect, inet_csk_accept, Abort, LocalCall, userVars
<1>3. ASSUME NEW a \in Attempts, tcp_connect(a) PROVE TupleDiscipline'
  <2>1. \A b \in Attempts : b # a => sock'[b] = sock[b] /\ connTime'[b] = connTime[b]
    BY <1>3 DEF tcp_connect, TypeOK, KernelTypeOK
  <2>2. sock[a] = "idle" /\ sock'[a] = "connecting"
    BY <1>3 DEF tcp_connect, TypeOK, KernelTypeOK
  <2>3. \A b \in Attempts : b # a /\ sock[b] = "connecting" => TupleOf[b] # TupleOf[a]
    BY <1>3 DEF tcp_connect, TupleFree, TuplesUnambiguous
  <2>4. Exclusive'
    BY <1>1, <2>1, <2>3 DEF Exclusive
  <2>5. PICK r \in Record : r = EventOf("connect", a)
    BY <1>0, EventOfType
  <2>6. r.type = "connect" /\ r.att = a
    BY <2>5 DEF EventOf
  <2>7. \/ HasRoom /\ ring' = Append(ring, r) /\ UNCHANGED unrecorded
        \/ UNCHANGED ring /\ unrecorded' = unrecorded \cup {a}
    BY <1>3, <2>5 DEF tcp_connect
  <2>8. ASSUME NEW b \in Attempts \ unrecorded', b # a PROVE Disciplined(b)'
    <3>1. Disciplined(b) /\ (Held(b) => Held(b)')
      BY <1>1, <1>2, <2>1, <2>7, <2>8, HeldUnchanged
    <3>2. sock'[b] = "connecting" => sock[b] = "connecting" /\ ~OnTuple(r, TupleOf[b])
      BY <2>1, <2>3, <2>6, <2>8 DEF OnTuple
    <3>3. CASE HasRoom /\ ring' = Append(ring, r)
      BY <1>2, <2>6, <3>1, <3>2, <3>3, DisciplineSubmit
    <3>4. CASE UNCHANGED ring
      BY <1>2, <3>1, <3>2, <3>4, DisciplineQuiet
    <3> QED
      BY <2>7, <3>3, <3>4
  <2>9. ASSUME a \notin unrecorded' PROVE Disciplined(a)'
    <3>1. /\ HasRoom /\ ring' = Append(ring, r)
      BY <2>7, <2>9
    <3>2. /\ Len(ring) \in Nat /\ Len(ring') = Len(ring) + 1
          /\ DOMAIN ring = 1..Len(ring) /\ DOMAIN ring' = 1..(Len(ring) + 1)
          /\ \A i \in 1..Len(ring) : ring'[i] = ring[i]
          /\ ring'[Len(ring) + 1] = r
      BY <1>0, <3>1, Submitted, RecordsTyped
    <3>3. Standing(a, Len(ring))'
      <4>1. PICK n \in Nat : n = Len(ring)
        BY <3>2
      <4>2. n + 1 \in 1..Len(ring') /\ IsConnect(ring'[n + 1], a)
        BY <2>6, <3>2, <4>1 DEF IsConnect
      <4>3. \A j \in 1..Len(ring') : ~(j > n + 1)
        BY <3>2, <4>1
      <4> QED
        BY <4>2, <4>3 DEF Standing, IsConnect
    <3>4. \A j \in DOMAIN ring' : ~(ring'[j].type = "accept" /\ ring'[j].att = a)
      <4>1. \A j \in 1..Len(ring) : ~(ring[j].type = "accept" /\ ring[j].att = a)
        BY <2>2, <3>2 DEF RecordsTrue, RecordTrue
      <4> QED
        BY <2>6, <3>2, <4>1
    <3>5. ~(rec' # NoRecord /\ rec'.type = "accept" /\ rec'.att = a)
      BY <1>2, <2>2 DEF RecordsTrue, RecordTrue
    <3> QED
      BY <3>3, <3>4, <3>5 DEF Disciplined
  <2> QED
    BY <2>4, <2>8, <2>9 DEF TupleDiscipline, Exclusive, Disciplined
<1>4. ASSUME NEW a \in Attempts, inet_csk_accept(a) PROVE TupleDiscipline'
  <2>1. /\ UNCHANGED <<connTime, unrecorded>>
        /\ sock[a] = "connecting" /\ sock'[a] = "accepted"
        /\ \A b \in Attempts : b # a => sock'[b] = sock[b]
    BY <1>4 DEF inet_csk_accept, Returnable, TuplesUnambiguous, TypeOK, KernelTypeOK
  <2>2. Exclusive'
    BY <1>1, <2>1 DEF Exclusive
  <2>3. PICK r \in Record : r = EventOf("accept", a)
    BY <1>0, EventOfType
  <2>4. r.type = "accept" /\ r.att = a
    BY <2>3 DEF EventOf
  <2>5. (HasRoom /\ ring' = Append(ring, r)) \/ UNCHANGED ring
    BY <1>4, <2>3 DEF inet_csk_accept
  <2>6. ASSUME NEW b \in Attempts \ unrecorded' PROVE Disciplined(b)'
    <3>1. Disciplined(b) /\ (Held(b) => Held(b)')
      BY <1>1, <1>2, <2>1, <2>6, HeldUnchanged
    <3>2. sock'[b] = "connecting" => sock[b] = "connecting" /\ ~OnTuple(r, TupleOf[b])
      BY <1>1, <2>1, <2>4 DEF Exclusive, OnTuple
    <3>3. CASE HasRoom /\ ring' = Append(ring, r)
      BY <1>2, <2>1, <2>4, <3>1, <3>2, <3>3, DisciplineSubmit
    <3>4. CASE UNCHANGED ring
      BY <1>2, <3>1, <3>2, <3>4, DisciplineQuiet
    <3> QED
      BY <2>5, <3>3, <3>4
  <2> QED
    BY <2>2, <2>6 DEF TupleDiscipline, Exclusive, Disciplined
<1>5. ASSUME NEW a \in Attempts, Abort(a) PROVE TupleDiscipline'
  <2>1. /\ UNCHANGED <<connTime, unrecorded, ring>> /\ sock'[a] = "aborted"
        /\ \A b \in Attempts : b # a => sock'[b] = sock[b]
    BY <1>5 DEF Abort, TypeOK, KernelTypeOK
  <2>2. Exclusive'
    BY <1>1, <2>1 DEF Exclusive
  <2>3. ASSUME NEW b \in Attempts \ unrecorded' PROVE Disciplined(b)'
    <3>1. Disciplined(b) /\ (Held(b) => Held(b)')
      BY <1>1, <1>2, <2>1, <2>3, HeldUnchanged
    <3>2. sock'[b] = "connecting" => sock[b] = "connecting"
      BY <2>1
    <3> QED
      BY <1>2, <2>1, <3>1, <3>2, DisciplineQuiet
  <2> QED
    BY <2>2, <2>3 DEF TupleDiscipline, Exclusive, Disciplined
<1>6. ASSUME NEW l \in Locals, LocalCall(l) PROVE TupleDiscipline'
  <2>1. UNCHANGED <<sock, connTime, unrecorded>>
    BY <1>6 DEF LocalCall
  <2>2. Exclusive'
    BY <1>1, <2>1 DEF Exclusive
  <2>3. PICK r \in Record : r = EventOf("local", l)
    BY <1>0, EventOfType
  <2>4. r.type = "local"
    BY <2>3 DEF EventOf
  <2>5. (HasRoom /\ ring' = Append(ring, r)) \/ UNCHANGED ring
    BY <1>6, <2>3 DEF LocalCall
  <2>6. ASSUME NEW b \in Attempts \ unrecorded' PROVE Disciplined(b)'
    <3>1. Disciplined(b) /\ (Held(b) => Held(b)')
      BY <1>1, <1>2, <2>1, <2>6, HeldUnchanged
    <3>2. sock'[b] = "connecting" => sock[b] = "connecting" /\ ~OnTuple(r, TupleOf[b])
      BY <2>1, <2>4 DEF OnTuple
    <3>3. CASE HasRoom /\ ring' = Append(ring, r)
      BY <1>2, <2>4, <3>1, <3>2, <3>3, DisciplineSubmit
    <3>4. CASE UNCHANGED ring
      BY <1>2, <3>1, <3>2, <3>4, DisciplineQuiet
    <3> QED
      BY <2>5, <3>3, <3>4
  <2> QED
    BY <2>2, <2>6 DEF TupleDiscipline, Exclusive, Disciplined
<1> QED
  BY <1>3, <1>4, <1>5, <1>6 DEF KernelStep

-----------------------------------------------------------------------------
\* TupleDiscipline is inductive.
LEMMA DisciplineStep ==
    ASSUME TypeOK, RecordsTrue, SendCoherent, TupleDiscipline, TuplesUnambiguous, [Next]_vars
    PROVE  TupleDiscipline'
<1>0. \A b \in Attempts : /\ TupleOf[b] \in Tuples /\ connTime[b] \in Nat
                          /\ (\E k \in Tuples : k = TupleOf[b])
  BY ProbesAssumption DEF ProbesAssumption, TypeOK, KernelTypeOK
<1>a. bootTime \in Int /\ clock \in Int /\ WallAtBoot \in Int /\ Timeout \in Int
  BY CorrelatorAssumption DEF CorrelatorAssumption, TypeOK, KernelTypeOK
<1>1. CASE KernelStep /\ UNCHANGED userVars
  BY <1>1, DisciplineKernel
<1>2. CASE Second
  <2>1. clock' \in Int /\ clock' >= clock /\ UNCHANGED <<connTime, bootTime, pending>>
    BY <1>2, <1>a DEF Second
  <2>2. \A b \in Attempts : Held(b) => Held(b)'
    BY <1>0, <1>a, <2>1 DEF Held, ApparentAge
  <2> QED
    BY <1>2, <2>2, DisciplineKept DEF Second
<1>3. CASE Cleanup
  <2>1. UNCHANGED <<clock, sock, connTime, unrecorded, ring, bootTime, rec>>
    BY <1>3 DEF Cleanup, kernelVars
  <2>2. ASSUME NEW b \in Attempts, Held(b) PROVE Held(b)'
    <3>1. \/ pending'[TupleOf[b]] = pending[TupleOf[b]]
          \/ /\ pending'[TupleOf[b]] = NoEntry
             /\ pending[TupleOf[b]] # NoEntry /\ TimedOut(pending[TupleOf[b]].ts)
      BY <1>0, <1>3 DEF Cleanup
    <3> QED
      BY <2>1, <2>2, <3>1 DEF Held, ApparentAge
  <2> QED
    BY <2>1, <2>2, DisciplineKept
<1>4. CASE Read
  BY <1>4, DisciplineRead
<1>5. CASE ForwardLocal
  <2>1. UNCHANGED <<clock, sock, connTime, unrecorded, ring, bootTime, pending>>
    BY <1>5 DEF ForwardLocal, kernelVars
  <2>2. rec # NoRecord /\ rec' = NoRecord /\ rec.type = "local"
    BY <1>5 DEF ForwardLocal
  <2>3. \A b \in Attempts : Held(b) => Held(b)'
    BY <2>1, HeldUnchanged
  <2>4. \A b \in Attempts : ~IsConnect(rec, b)
    BY <2>2 DEF IsConnect
  <2> QED
    BY <2>1, <2>2, <2>3, <2>4, DisciplineHandled
<1>6. CASE HandleConnect
  <2>1. UNCHANGED <<clock, sock, connTime, unrecorded, ring, bootTime>>
    BY <1>6 DEF HandleConnect, kernelVars
  <2>2. rec # NoRecord /\ rec' = NoRecord /\ rec.type = "connect"
    BY <1>6 DEF HandleConnect
  <2>3. rec.att \in Attempts /\ rec.ts = connTime[rec.att]
    BY <2>2, RecordsTyped, RecordFields DEF RecordsTrue, RecordTrue
  <2>4. /\ pending'[TupleOf[rec.att]] = [att |-> rec.att, ts |-> KTimeToTime(rec.ts)]
        /\ \A k \in Tuples : k # TupleOf[rec.att] => pending'[k] = pending[k]
    BY <1>0, <1>6, <2>3 DEF HandleConnect, TypeOK
  <2>5. \A b \in Attempts : IsConnect(rec, b) => Held(b)'
    BY <2>1, <2>3, <2>4 DEF IsConnect, Held
  <2>6. \A b \in Attempts : Held(b) /\ ~OnTuple(rec, TupleOf[b]) => Held(b)'
    BY <1>0, <2>1, <2>2, <2>4 DEF OnTuple, Held, ApparentAge
  <2> QED
    BY <2>1, <2>2, <2>5, <2>6, DisciplineHandled
<1>7. CASE HandleAccept
  <2>1. UNCHANGED <<clock, sock, connTime, unrecorded, ring, bootTime, pending>>
    BY <1>7 DEF HandleAccept, kernelVars
  <2>2. rec # NoRecord /\ rec.type = "accept" /\ (rec' = NoRecord \/ rec' = rec)
    BY <1>7 DEF HandleAccept
  <2>3. \A b \in Attempts : Held(b) => Held(b)'
    BY <2>1, HeldUnchanged
  <2>4. \A b \in Attempts : ~IsConnect(rec, b)
    BY <2>2 DEF IsConnect
  <2>5. CASE rec' = rec
    BY <2>1, <2>3, <2>5, DisciplineKept
  <2>6. CASE rec' = NoRecord
    BY <2>1, <2>2, <2>3, <2>4, <2>6, DisciplineHandled
  <2> QED
    BY <2>2, <2>5, <2>6
<1>8. CASE SendEvent
  <2>1. UNCHANGED <<clock, sock, connTime, unrecorded, ring, bootTime>>
    BY <1>8 DEF SendEvent, kernelVars
  <2>2. rec # NoRecord /\ rec' = NoRecord /\ rec.type = "accept" /\ rec.att = sending.dst
    BY <1>8 DEF SendEvent, SendCoherent
  <2>3. \A k \in Tuples : k # TupleOf[rec.att] => pending'[k] = pending[k]
    BY <1>8, <2>2 DEF SendEvent, TypeOK
  <2>4. \A b \in Attempts : ~IsConnect(rec, b)
    BY <2>2 DEF IsConnect
  <2>5. \A b \in Attempts : Held(b) /\ ~OnTuple(rec, TupleOf[b]) => Held(b)'
    BY <1>0, <2>1, <2>2, <2>3 DEF OnTuple, Held, ApparentAge
  <2> QED
    BY <2>1, <2>2, <2>4, <2>5, DisciplineHandled
<1>9. CASE FanIn
  <2>1. UNCHANGED <<clock, sock, connTime, unrecorded, ring, bootTime, pending, rec>>
    BY <1>9 DEF FanIn, kernelVars
  <2> QED
    BY <2>1, HeldUnchanged, DisciplineKept
<1>10. CASE UNCHANGED vars
  <2>1. UNCHANGED <<clock, sock, connTime, unrecorded, ring, bootTime, pending, rec>>
    BY <1>10 DEF vars, kernelVars, userVars
  <2> QED
    BY <2>1, HeldUnchanged, DisciplineKept
<1> QED
  BY <1>1, <1>2, <1>3, <1>4, <1>5, <1>6, <1>7, <1>8, <1>9, <1>10 DEF Next, Reader

\* The kernel, the ring, the reader and pending always agree on the holder of
\* a tuple.
THEOREM TuplesDisciplined ==
    ASSUME TuplesUnambiguous
    PROVE  Spec => []TupleDiscipline
<1>1. Init => TupleDiscipline
  BY DEF Init, KernelInit, TupleDiscipline
<1>2. TypeOK /\ RecordsTrue /\ SendCoherent /\ TupleDiscipline /\ [Next]_vars => TupleDiscipline'
  BY DisciplineStep
<1> QED
  BY <1>1, <1>2, TypeCorrect, RecordsAreTrue, SendsCohere, PTL DEF Spec

-----------------------------------------------------------------------------
\* unrecorded never shrinks, and the connect time of an attempt that is not
\* idle never changes.
LEMMA HistoryStable ==
    ASSUME TypeOK, [Next]_vars
    PROVE  /\ unrecorded \subseteq unrecorded'
           /\ bootTime' = bootTime
           /\ \A a \in Attempts : sock[a] # "idle" => connTime'[a] = connTime[a]
  BY DEF Next, KernelStep, tcp_connect, inet_csk_accept, Abort, LocalCall, Second, Cleanup, Reader,
         Read, ForwardLocal, HandleConnect, HandleAccept, SendEvent, FanIn, TypeOK, KernelTypeOK,
         vars, userVars, kernelVars

\* A reported connection pairs the connect and the accept of one connection,
\* unless the kernel side lost the connect: HandleAccept never credits a
\* client with another client's connection.
THEOREM AttributionIsSound ==
    ASSUME TuplesUnambiguous
    PROVE  Spec => []AttributionSound
<1>1. Init => AttributionSound
  BY DEF Init, AttributionSound
<1>2. ASSUME TypeOK, SendCoherent, TupleDiscipline, AttributionSound, [Next]_vars
      PROVE  AttributionSound'
  <2>1. CASE SendEvent
    <3>1. /\ sending \in Event /\ reports' = reports \cup {sending}
          /\ UNCHANGED unrecorded
      BY <1>2, <2>1 DEF SendEvent, TypeOK, kernelVars
    <3>2. /\ rec # NoRecord /\ rec.type = "accept" /\ rec.att = sending.dst
          /\ pending[TupleOf[sending.dst]] # NoEntry
          /\ pending[TupleOf[sending.dst]].att = sending.src
      BY <1>2, <2>1 DEF SendEvent, SendCoherent
    <3>3. sending.dst \in Attempts
      BY <3>1 DEF Event
    <3>4. sending.dst \notin unrecorded => Held(sending.dst)
      BY <1>2, <3>2, <3>3 DEF TupleDiscipline
    <3>5. sending.dst \notin unrecorded => sending.src = sending.dst
      BY <3>2, <3>4 DEF Held
    <3> QED
      BY <1>2, <3>1, <3>5 DEF AttributionSound
  <2>2. CASE UNCHANGED reports
    BY <1>2, <2>2, HistoryStable DEF AttributionSound
  <2> QED
    BY <1>2, <2>1, <2>2
       DEF Next, Reader, KernelStep, Second, Cleanup, Read, ForwardLocal, HandleConnect,
           HandleAccept, FanIn, vars, userVars
<1> QED
  BY <1>1, <1>2, TypeCorrect, SendsCohere, TuplesDisciplined, PTL DEF Spec

\* An accept that finds no entry is of a connect that left no record or had,
\* by Cleanup's clock, timed out.
THEOREM MissesExplained ==
    ASSUME TuplesUnambiguous
    PROVE  Spec => []MissExplained
<1>1. Init => MissExplained
  BY DEF Init, MissExplained
<1>2. ASSUME TypeOK, RecordsTrue, TupleDiscipline, MissExplained, [Next]_vars
      PROVE  MissExplained'
  <2>1. \A m \in missed : /\ m.att \in Attempts /\ sock[m.att] # "idle"
                          /\ (m.att \in unrecorded \/ ApparentAge(m.att, m.at) > Timeout)
    BY <1>2 DEF TypeOK, RecordsTrue, MissExplained
  <2>2. \A m \in missed : m.att \in unrecorded' \/ ApparentAge(m.att, m.at)' > Timeout
    BY <1>2, <2>1, HistoryStable DEF ApparentAge
  <2>3. CASE HandleAccept
    <3>1. UNCHANGED <<clock, connTime, unrecorded, bootTime>>
      BY <2>3 DEF HandleAccept, kernelVars
    <3>2. CASE UNCHANGED missed
      BY <2>2, <3>2 DEF MissExplained, ApparentAge
    <3>3. CASE /\ pending[TupleOf[rec.att]] = NoEntry
               /\ missed' = missed \cup {[att |-> rec.att, at |-> clock]}
      <4>1. rec # NoRecord /\ rec.type = "accept" /\ rec.att \in Attempts
        BY <1>2, <2>3, RecordsTyped, RecordFields DEF HandleAccept
      <4>2. rec.att \notin unrecorded => Held(rec.att)
        BY <1>2, <4>1 DEF TupleDiscipline
      <4>3. rec.att \notin unrecorded => ApparentAge(rec.att, clock) > Timeout
        <5>1. NoEntry # [att |-> rec.att, ts |-> KTimeToTime(connTime[rec.att])]
          BY <1>2, <4>1, CorrelatorAssumption
             DEF CorrelatorAssumption, TypeOK, KernelTypeOK
        <5> QED
          BY <3>3, <4>2, <5>1 DEF Held
      <4> QED
        BY <2>2, <3>1, <3>3, <4>3 DEF MissExplained, ApparentAge
    <3> QED
      BY <2>3, <3>2, <3>3 DEF HandleAccept
  <2>4. CASE UNCHANGED missed
    BY <2>2, <2>4 DEF MissExplained, ApparentAge
  <2> QED
    BY <1>2, <2>3, <2>4
       DEF Next, Reader, KernelStep, Second, Cleanup, Read, ForwardLocal, HandleConnect,
           SendEvent, FanIn, vars, userVars
<1> QED
  BY <1>1, <1>2, TypeCorrect, RecordsAreTrue, TuplesDisciplined, PTL DEF Spec

-----------------------------------------------------------------------------
(* When Cleanup removes an entry.                                          *)

\* An entry carries the time of its connect, as the monitor reads it.
EntryDated ==
    \A k \in Tuples : pending[k] # NoEntry =>
        /\ pending[k].att \in Attempts
        /\ pending[k].ts = bootTime + connTime[pending[k].att]

\* A connect that is not idle is not dated again, and a connect record has its date.
LEMMA EntriesDatedStep ==
    ASSUME TypeOK, RecordsTrue, EntryDated, [Next]_vars
    PROVE  EntryDated'
<1>1. ASSUME NEW k \in Tuples, pending[k] # NoEntry
      PROVE  /\ pending[k].att \in Attempts
             /\ pending[k].ts = bootTime' + connTime'[pending[k].att]
  BY <1>1, HistoryStable DEF EntryDated, RecordsTrue
<1>2. CASE HandleConnect
  <2>1. /\ rec \in Record /\ rec.type = "connect" /\ rec.att \in Attempts /\ rec.ts = connTime[rec.att]
        /\ UNCHANGED <<bootTime, connTime>> /\ TupleOf[rec.att] \in Tuples
    BY <1>2, RecordsTyped, RecordFields, ProbesAssumption
       DEF HandleConnect, RecordsTrue, RecordTrue, kernelVars, ProbesAssumption
  <2>2. /\ \A k \in Tuples : k # TupleOf[rec.att] => pending'[k] = pending[k]
        /\ pending'[TupleOf[rec.att]] = [att |-> rec.att, ts |-> bootTime + rec.ts]
    BY <1>2, <2>1 DEF HandleConnect, TypeOK
  <2> QED
    BY <1>1, <2>1, <2>2 DEF EntryDated
<1>3. CASE ~HandleConnect
  <2>1. \A k \in Tuples : pending'[k] # NoEntry => pending'[k] = pending[k]
    BY <1>3 DEF Next, Reader, KernelStep, Second, Cleanup, Read, ForwardLocal, HandleAccept, SendEvent,
                FanIn, TypeOK, vars, userVars
  <2> QED
    BY <1>1, <2>1 DEF EntryDated
<1> QED
  BY <1>2, <1>3

\* HandleConnect dates every entry with the time of the connect it stands for,
\* however late the record is read and whatever connects again meanwhile.
THEOREM EntriesAreDated == Spec => []EntryDated
<1>1. Init => EntryDated
  BY DEF Init, EntryDated
<1> QED
  BY <1>1, EntriesDatedStep, TypeCorrect, RecordsAreTrue, PTL DEF Spec

\* By how much bootTime is before the wall time at which the machine started.
Skew == WallAtBoot - bootTime

\* An entry that disappears without being reported is of a connect that is
\* more than Timeout old, but for the error of bootTime.
RemovedInTime ==
    [][\A k \in Tuples :
          pending[k] # NoEntry /\ pending'[k] = NoEntry /\ sending' = sending
              => clock - connTime[pending[k].att] > Timeout - Skew]_vars

\* Only Cleanup makes an entry disappear in silence.
LEMMA RemovalStep ==
    ASSUME TypeOK, EntryDated, [Next]_vars, NEW k \in Tuples,
           pending[k] # NoEntry, pending'[k] = NoEntry, sending' = sending
    PROVE  clock - connTime[pending[k].att] > Timeout - Skew
<1>1. ~SendEvent
  BY DEF SendEvent
<1>2. ~HandleConnect
  <2> SUFFICES ASSUME HandleConnect PROVE FALSE
    OBVIOUS
  <2>1. rec \in Record /\ rec.att \in Attempts /\ rec.ts \in Nat /\ bootTime \in Int
    BY RecordsTyped, RecordFields, CorrelatorAssumption DEF HandleConnect, TypeOK, CorrelatorAssumption
  <2>2. [att |-> rec.att, ts |-> bootTime + rec.ts] # NoEntry
    BY <2>1, CorrelatorAssumption DEF CorrelatorAssumption
  <2> QED
    BY <2>2 DEF HandleConnect, TypeOK
<1>3. Cleanup
  BY <1>1, <1>2 DEF Next, Reader, KernelStep, Second, Read, ForwardLocal, HandleAccept, FanIn, vars, userVars
<1>4. (WallAtBoot + clock) - pending[k].ts > Timeout
  BY <1>3 DEF Cleanup
<1>5. /\ pending[k].ts = bootTime + connTime[pending[k].att]
      /\ connTime[pending[k].att] \in Int /\ clock \in Int /\ bootTime \in Int
      /\ WallAtBoot \in Int /\ Timeout \in Int
  BY CorrelatorAssumption DEF EntryDated, TypeOK, KernelTypeOK, CorrelatorAssumption
<1> QED
  BY <1>4, <1>5 DEF Skew

\* Cleanup removes no entry before its timeout, up to the error of bootTime
\* and by no more than it.
THEOREM RemovalIsInTime == Spec => RemovedInTime
<1>1. TypeOK /\ EntryDated /\ [Next]_vars =>
        [\A k \in Tuples : pending[k] # NoEntry /\ pending'[k] = NoEntry /\ sending' = sending
            => clock - connTime[pending[k].att] > Timeout - Skew]_vars
  BY RemovalStep
<1> QED
  BY <1>1, TypeCorrect, EntriesAreDated, PTL DEF Spec, RemovedInTime

\* What the comment of Cleanup says is true of a bootTime that is not too
\* early: "removes timed out connections" and no others.
THEOREM LateBootRemovesOnlyTimedOut ==
    ASSUME \A b \in BootTimes : b >= WallAtBoot
    PROVE  Spec => OnlyTimedOutRemoved
<1>1. ASSUME TypeOK, EntryDated, [Next]_vars, NEW k \in Tuples,
             pending[k] # NoEntry, pending'[k] = NoEntry, sending' = sending
      PROVE  clock - connTime[pending[k].att] > Timeout
  <2>1. clock - connTime[pending[k].att] > Timeout - Skew
    BY <1>1, RemovalStep
  <2>2. /\ bootTime \in Int /\ WallAtBoot \in Int /\ Timeout \in Int /\ bootTime >= WallAtBoot
        /\ clock \in Int /\ connTime[pending[k].att] \in Int
    BY <1>1, CorrelatorAssumption DEF EntryDated, TypeOK, KernelTypeOK, CorrelatorAssumption
  <2> QED
    BY <2>1, <2>2 DEF Skew
<1>2. TypeOK /\ EntryDated /\ [Next]_vars =>
        [\A k \in Tuples : pending[k] # NoEntry /\ pending'[k] = NoEntry /\ sending' = sending
            => clock - connTime[pending[k].att] > Timeout]_vars
  BY <1>1
<1> QED
  BY <1>2, TypeCorrect, EntriesAreDated, PTL DEF Spec, OnlyTimedOutRemoved
=============================================================================
