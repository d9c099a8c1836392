----------------------------- MODULE Correlator -----------------------------
(***************************************************************************)
(* internal/correlator/correlator.go, driven by the reader loop of         *)
(* cmd/main.go: pairs the connect record of a TCP connection with its      *)
(* accept record and sends one "connection" event per pair.                *)
(*                                                                         *)
(* Two goroutines share pending under c.mu: the reader, which runs the     *)
(* handlers, and Cleanup.  Every critical section but one is free of       *)
(* blocking calls and is one step.  The exception is HandleAccept, which   *)
(* sends to the bounded output channel while it HOLDS the mutex: it is two *)
(* steps, and the mutex is held exactly between them (sending # NoEvent).  *)
(***************************************************************************)
EXTENDS Probes

CONSTANTS
    Timeout,      \* seconds an unaccepted connect is kept: 5 in the code
    OutputCap,    \* capacity of the output channel: 1024 in the code
    WallAtBoot,   \* the wall clock when the kernel clock was 0
    BootTimes,    \* the values helpers.init may give bootTime
    NoEntry, NoRecord, NoEvent

ASSUME CorrelatorAssumption ==
    /\ Timeout \in Nat
    /\ OutputCap \in Nat \ {0}
    /\ WallAtBoot \in Int
    /\ BootTimes \subseteq Int
    /\ NoEntry \notin [att : Attempts, ts : Int]
    /\ NoRecord \notin Record
    /\ NoEvent \notin [src : Attempts, dst : Attempts]

VARIABLES
    bootTime,     \* helpers.bootTime, read once from /proc/stat
    pending,      \* c.pending: the open connect of a tuple, or NoEntry
    ticker,       \* a tick waits in ticker.C (capacity 1)
    rec,          \* the record the reader is handling
    sending,      \* the event HandleAccept is sending, c.mu held
    output,       \* c.output
    reports,      \* history: the events sent so far
    missed        \* history: accepts without entry, and when

userVars == <<bootTime, pending, ticker, rec, sending, output, reports, missed>>
vars == <<kernelVars, userVars>>

Entry == [att : Attempts, ts : Int]     \* PendingConnectionEntry
Event == [src : Attempts, dst : Attempts]

\* Mutant of MuFree: the critical sections take no lock.
NoLock == TRUE

\* c.mu is free.
MuFree == sending = NoEvent

\* helpers.KTimeToTime and time.Now.
KTimeToTime(ktime) == bootTime + ktime
Now == WallAtBoot + clock

\* Mutants of TimedOut: the boundary case removed too; operands swapped.
TimedOutEarly(ts) == Now - ts >= Timeout
TimedOutSwapped(ts) == ts - Now > Timeout

TimedOut(ts) == Now - ts > Timeout

-----------------------------------------------------------------------------
Init ==
    /\ KernelInit
    /\ bootTime \in BootTimes
    /\ pending = [k \in Tuples |-> NoEntry]
    /\ ticker = FALSE
    /\ rec = NoRecord
    /\ sending = NoEvent
    /\ output = <<>>
    /\ reports = {}
    /\ missed = {}

\* A second passes; time.Ticker drops the tick when one is already waiting.
\* The ticker goes on at the bound MaxClock, where the clock stands still.
Second ==
    /\ clock' = IF clock < MaxClock THEN clock + 1 ELSE clock
    /\ ticker' = TRUE
    /\ UNCHANGED <<sock, connTime, unrecorded, called, ring>>
    /\ UNCHANGED <<bootTime, pending, rec, sending, output, reports, missed>>

\* One iteration of Cleanup: drop every entry older than the timeout.
Cleanup ==
    /\ ticker
    /\ MuFree
    /\ ticker' = FALSE
    /\ pending' = [k \in Tuples |->
                      IF pending[k] # NoEntry /\ TimedOut(pending[k].ts)
                      THEN NoEntry ELSE pending[k]]
    /\ UNCHANGED <<kernelVars, bootTime, rec, sending, output, reports, missed>>

\* rd.Read of the reader loop.
Read ==
    /\ rec = NoRecord
    /\ ring # <<>>
    /\ rec' = Head(ring)
    /\ ring' = Tail(ring)
    /\ UNCHANGED <<clock, sock, connTime, unrecorded, called>>
    /\ UNCHANGED <<bootTime, pending, ticker, sending, output, reports, missed>>

\* A file or exec event goes straight to eventsCh, around the correlator.
ForwardLocal ==
    /\ rec # NoRecord /\ rec.type = "local"
    /\ rec' = NoRecord
    /\ UNCHANGED <<kernelVars, bootTime, pending, ticker, sending, output, reports, missed>>

\* Mutant of HandleConnect: an older entry of the tuple stays.
HandleConnectKeepsOld ==
    /\ rec # NoRecord /\ rec.type = "connect"
    /\ MuFree
    /\ pending' = [pending EXCEPT ![TupleOf[rec.att]] =
                      IF @ = NoEntry THEN [att |-> rec.att, ts |-> KTimeToTime(rec.ts)] ELSE @]
    /\ rec' = NoRecord
    /\ UNCHANGED <<kernelVars, bootTime, ticker, sending, output, reports, missed>>

\* Saves the connect, over an older one of the same tuple.
HandleConnect ==
    /\ rec # NoRecord /\ rec.type = "connect"
    /\ MuFree
    /\ pending' = [pending EXCEPT ![TupleOf[rec.att]] =
                      [att |-> rec.att, ts |-> KTimeToTime(rec.ts)]]
    /\ rec' = NoRecord
    /\ UNCHANGED <<kernelVars, bootTime, ticker, sending, output, reports, missed>>

\* HandleAccept up to the send: lock, look the entry up, return without one.
HandleAccept ==
    /\ rec # NoRecord /\ rec.type = "accept"
    /\ MuFree
    /\ LET entry == pending[TupleOf[rec.att]] IN
         \/ /\ entry = NoEntry
            /\ rec' = NoRecord
            /\ missed' = missed \cup {[att |-> rec.att, at |-> clock]}
            /\ UNCHANGED sending
         \/ /\ entry # NoEntry
            /\ sending' = [src |-> entry.att, dst |-> rec.att]
            /\ UNCHANGED <<rec, missed>>
    /\ UNCHANGED <<kernelVars, bootTime, pending, ticker, output, reports>>

\* Mutant of SendEvent: the entry is not deleted.
SendEventKeepsEntry ==
    /\ sending # NoEvent
    /\ Len(output) < OutputCap
    /\ output' = Append(output, sending)
    /\ reports' = reports \cup {sending}
    /\ sending' = NoEvent
    /\ rec' = NoRecord
    /\ UNCHANGED <<kernelVars, bootTime, pending, ticker, missed>>

\* The rest of HandleAccept: the send blocks while output is full; then the
\* entry is deleted and the mutex released.
SendEvent ==
    /\ sending # NoEvent
    /\ Len(output) < OutputCap
    /\ output' = Append(output, sending)
    /\ reports' = reports \cup {sending}
    /\ pending' = [pending EXCEPT ![TupleOf[sending.dst]] = NoEntry]
    /\ sending' = NoEvent
    /\ rec' = NoRecord
    /\ UNCHANGED <<kernelVars, bootTime, ticker, missed>>

\* Mutant of FanIn: receiving takes the mutex the sender holds.
FanInUnderLock ==
    /\ MuFree
    /\ output # <<>>
    /\ output' = Tail(output)
    /\ UNCHANGED <<kernelVars, bootTime, pending, ticker, rec, sending, reports, missed>>

\* The fan-in goroutine of cmd/main.go receives from Output().  What it and the
\* reader send to eventsCh, and may have to wait for, is in Pipeline.
FanIn ==
    /\ output # <<>>
    /\ output' = Tail(output)
    /\ UNCHANGED <<kernelVars, bootTime, pending, ticker, rec, sending, reports, missed>>

Reader == Read \/ ForwardLocal \/ HandleConnect \/ HandleAccept \/ SendEvent

Next ==
    \/ KernelStep /\ UNCHANGED userVars
    \/ Second
    \/ Cleanup
    \/ Reader
    \/ FanIn

Spec == Init /\ [][Next]_vars

(***************************************************************************)
(* Fairness: the Go scheduler runs every runnable goroutine and time goes  *)
(* on.  Cleanup waits for a mutex the reader takes again and again; the    *)
(* starvation mode of sync.Mutex hands it over, hence strong fairness.     *)
(* Nothing is assumed of the processes the probes trace.                   *)
(***************************************************************************)
Fairness ==
    /\ WF_vars(Second)
    /\ WF_vars(Reader)
    /\ WF_vars(FanIn)
    /\ SF_vars(Cleanup)

FairSpec == Spec /\ Fairness

-----------------------------------------------------------------------------
\* A tuple stands for one open attempt: two attempts with one tuple are in one
\* namespace (it fails for the loopback addresses, which every container has),
\* and no attempt is returned by its listener after it gave the tuple up.
TuplesUnambiguous ==
    /\ \A a, b \in Attempts : TupleOf[a] = TupleOf[b] => NetnsOf[a] = NetnsOf[b]
    /\ ResetQueued = {}

\* The correlator's variables have their types; the channel and the ring
\* never hold more than they can.
TypeOK ==
    /\ KernelTypeOK
    /\ bootTime \in BootTimes
    /\ pending \in [Tuples -> Entry \cup {NoEntry}]
    /\ ticker \in BOOLEAN
    /\ rec \in Record \cup {NoRecord}
    /\ sending \in Event \cup {NoEvent}
    /\ output \in Seq(Event)
    /\ Len(output) <= OutputCap
    /\ reports \in SUBSET Event
    /\ missed \in SUBSET [att : Attempts, at : Nat]

\* IncompleteConnection "is used to identify (index) started, but not
\* accepted connections" (correlator.go:13): a reported connection pairs the
\* connect and the accept of one and the same connection.  The only excuse is
\* an accept whose own connect the kernel side never recorded.
AttributionSound ==
    \A e \in reports : e.src = e.dst \/ e.dst \in unrecorded

\* A connect is reported at most once: HandleAccept deletes the entry it
\* used, so no later accept of the same tuple is given the same client.
ReportedOnce ==
    \A e, f \in reports : e.src = f.src => e = f

\* The time since the connect of a, the way Cleanup measures it at time t.
ApparentAge(a, t) == (WallAtBoot + t) - KTimeToTime(connTime[a])

\* HandleAccept finds no entry only if the connect left no record or was, by
\* the clock Cleanup reads, older than the timeout: a prompt accept of a
\* recorded connect is never lost to Cleanup or to another connection.
MissExplained ==
    \A m \in missed : m.att \in unrecorded \/ ApparentAge(m.att, m.at) > Timeout

\* While HandleAccept waits for the channel the entry it read stays in
\* pending: neither Cleanup nor another handler changes it under the mutex.
EntryHeldDuringSend ==
    sending # NoEvent =>
        /\ pending[TupleOf[sending.dst]] # NoEntry
        /\ pending[TupleOf[sending.dst]].att = sending.src

\* Cleanup "removes timed out connections" (correlator.go:57): an entry that
\* disappears without being reported is of a connect that really is more
\* than Timeout seconds old.
OnlyTimedOutRemoved ==
    [][\A k \in Tuples :
          pending[k] # NoEntry /\ pending'[k] = NoEntry /\ sending' = sending
              => clock - connTime[pending[k].att] > Timeout]_vars

\* No entry outlives its connect by more than the timeout and one period of
\* the ticker for ever: pending does not leak connections nobody accepts.
PendingExpires ==
    \A a \in Attempts :
        (/\ pending[TupleOf[a]] # NoEntry
         /\ pending[TupleOf[a]].att = a
         /\ ApparentAge(a, MaxClock) > Timeout)
            ~> (pending[TupleOf[a]] = NoEntry \/ pending[TupleOf[a]].att # a)

\* HandleAccept releases the mutex: the send it makes under the mutex ends.
SendCompletes == sending # NoEvent ~> sending = NoEvent
-----------------------------------------------------------------------------
(***************************************************************************)
(* The inductive invariant behind the safety properties.  Its idea: from   *)
(* the moment the connect record of b is submitted until the accept record *)
(* of b is handled, no other record of the tuple of b comes in between, in *)
(* the ring, in the reader or in pending.                                  *)
(***************************************************************************)
IsConnect(r, a) == r.type = "connect" /\ r.att = a
OnTuple(r, k) == r.type # "local" /\ TupleOf[r.att] = k

\* pending says what it should of b: its own entry, or none and b is too old.
Held(b) ==
    \/ pending[TupleOf[b]] = [att |-> b, ts |-> KTimeToTime(connTime[b])]
    \/ pending[TupleOf[b]] = NoEntry /\ ApparentAge(b, clock) > Timeout

\* Once the reader is through with rec and the first n records of the ring,
\* Held(b) will hold: the last record on the tuple of b is its connect.
Standing(b, n) ==
    \/ \E i \in 1..n :
          /\ IsConnect(ring[i], b)
          /\ \A j \in 1..n : j > i => ~OnTuple(ring[j], TupleOf[b])
    \/ /\ \A j \in 1..n : ~OnTuple(ring[j], TupleOf[b])
       /\ \/ rec # NoRecord /\ IsConnect(rec, b)
          \/ Held(b) /\ (rec # NoRecord => ~OnTuple(rec, TupleOf[b]))

\* A record in flight says what happened to its socket.
RecordTrue(r) ==
    /\ r.type = "connect" =>
          /\ r.att \notin unrecorded
          /\ sock[r.att] # "idle"
          /\ r.ts = connTime[r.att]
    /\ r.type = "accept" => sock[r.att] = "accepted"

RecordsTrue ==
    /\ \A i \in DOMAIN ring : RecordTrue(ring[i])
    /\ rec # NoRecord => RecordTrue(rec)
    /\ \A a \in unrecorded : sock[a] # "idle"
    /\ \A m \in missed : sock[m.att] = "accepted"
    /\ \A k \in Tuples : pending[k] # NoEntry =>
          TupleOf[pending[k].att] = k /\ sock[pending[k].att] # "idle"

\* What HandleAccept holds while it sends.
SendCoherent ==
    sending # NoEvent =>
        /\ rec # NoRecord /\ rec.type = "accept" /\ rec.att = sending.dst
        /\ pending[TupleOf[sending.dst]] # NoEntry
        /\ pending[TupleOf[sending.dst]].att = sending.src

\* An open, recorded connect stands last on its tuple until its accept record
\* is handled: the kernel, the ring, the reader and pending agree on who holds
\* the tuple.
TupleDiscipline ==
    /\ \A b, c \in Attempts :
          sock[b] = "connecting" /\ sock[c] = "connecting" /\ b # c
              => TupleOf[b] # TupleOf[c]
    /\ \A b \in Attempts \ unrecorded :
          /\ sock[b] = "connecting" => Standing(b, Len(ring))
          /\ \A j \in DOMAIN ring :
                ring[j].type = "accept" /\ ring[j].att = b => Standing(b, j - 1)
          /\ rec # NoRecord /\ rec.type = "accept" /\ rec.att = b => Held(b)

\* A connect is in one place only: the ring, the reader, pending or reports.
ConnectUnique ==
    /\ \A i, j \in DOMAIN ring :
          ring[i].type = "connect" /\ IsConnect(ring[j], ring[i].att) => i = j
    /\ \A i \in DOMAIN ring : ring[i].type = "connect" =>
          /\ rec # NoRecord => ~IsConnect(rec, ring[i].att)
          /\ \A k \in Tuples : pending[k] # NoEntry => pending[k].att # ring[i].att
          /\ \A e \in reports : e.src # ring[i].att
    /\ rec # NoRecord /\ rec.type = "connect" =>
          /\ \A k \in Tuples : pending[k] # NoEntry => pending[k].att # rec.att
          /\ \A e \in reports : e.src # rec.att
    /\ \A e \in reports :
          /\ sock[e.src] # "idle"
          /\ \A k \in Tuples : pending[k] # NoEntry => pending[k].att # e.src
=============================================================================
