----------------------------- MODULE EventWire -----------------------------
(***************************************************************************)
(* A record on its way from the probes to the reader, byte by byte: struct *)
(* event as the C compiler lays it out (bpf/monitor.c), the memory of the  *)
(* ring buffer, which is used again without being cleared, and MonitorEvent *)
(* as encoding/binary reads it (internal/ebpf/types.go).                   *)
(*                                                                         *)
(* A byte is Nul, or <<c, f, k>>: byte k of field f as call c has it.      *)
(***************************************************************************)
EXTENDS Naturals, Sequences, FiniteSetsExt

CONSTANTS
    Calls,          \* the traced calls
    TypeOf,         \* the event type of a call
    TextLen,        \* the lengths of the texts of a call
    Slots,          \* records the ring has room for
    None

Texts == {"comm", "filepath", "parent_comm"}

ASSUME WireAssumption ==
    /\ TypeOf \in [Calls -> {"connect", "accept", "open", "exec"}]
    /\ TextLen \in [Calls -> [Texts -> Nat]]
    /\ Slots \in Nat \ {0}
    /\ None \notin Calls

VARIABLES
    mem,            \* the bytes of every slot
    ring,           \* the calls whose records wait, oldest first
    submitted,      \* the calls recorded so far
    event           \* the event made from the last record read, and its call

vars == <<mem, ring, submitted, event>>

Nul == <<>>
Nil == <<>>

-----------------------------------------------------------------------------
\* struct event: name, size and alignment of its members.
CFields == << <<"pid", 4, 4>>, <<"cgroup_id", 8, 8>>, <<"timestamp", 8, 8>>,
              <<"event_type", 1, 1>>, <<"src_addr", 4, 4>>, <<"src_port", 2, 2>>,
              <<"dst_addr", 4, 4>>, <<"dst_port", 2, 2>>, <<"comm", 16, 1>>,
              <<"filepath", 256, 1>>, <<"ppid", 4, 4>>, <<"parent_comm", 16, 1>>,
              <<"flags", 4, 4>> >>

AlignUp(n, a) == ((n + a - 1) \div a) * a

COffset[i \in 1 .. Len(CFields) + 1] ==
    IF i = 1 THEN 0
    ELSE AlignUp(COffset[i - 1] + CFields[i - 1][2],
                 IF i > Len(CFields) THEN 8 ELSE CFields[i][3])

CSize == COffset[Len(CFields) + 1]
Bytes == 0 .. CSize - 1

\* The member a byte of the struct belongs to, and which byte of it it is.
CByte == [o \in Bytes |->
    LET at == {i \in DOMAIN CFields : o \in COffset[i] .. COffset[i] + CFields[i][2] - 1}
    IN  IF at = {} THEN <<"padding", 0>>
        ELSE <<CFields[Max(at)][1], o - COffset[Max(at)]>>]

\* MonitorEvent: its fields, which binary.Read takes one after the other.
GoFields == << <<"pid", 4>>, <<"Pad1", 4>>, <<"cgroup_id", 8>>, <<"timestamp", 8>>,
               <<"event_type", 1>>, <<"Pad2", 3>>, <<"src_addr", 4>>, <<"src_port", 2>>,
               <<"Pad3", 2>>, <<"dst_addr", 4>>, <<"dst_port", 2>>, <<"comm", 16>>,
               <<"filepath", 256>>, <<"Pad4", 2>>, <<"ppid", 4>>, <<"parent_comm", 16>>,
               <<"flags", 4>> >>

GoOffset[i \in 1 .. Len(GoFields) + 1] ==
    IF i = 1 THEN 0 ELSE GoOffset[i - 1] + GoFields[i - 1][2]

GoSize == GoOffset[Len(GoFields) + 1]

-----------------------------------------------------------------------------
\* The members each probe fills; the others keep what was in the slot.
Filled(type) ==
    {"event_type", "pid", "cgroup_id", "timestamp", "comm"} \cup
    CASE type \in {"connect", "accept"} -> {"src_addr", "src_port", "dst_addr", "dst_port"}
      [] type = "open" -> {"filepath", "flags"}
      [] type = "exec" -> {"filepath", "ppid", "parent_comm"}

\* The room for a text, and the part of it that fits there with its terminator.
Room(f) == IF f = "filepath" THEN 256 ELSE 16
Fits(c, f) == Min({TextLen[c][f], Room(f) - 1})

\* A probe_read_str copies up to the terminator and not beyond it; when the
\* page is not there (fault) it clears the buffer.  The helper that reads comm
\* clears what is left of it.
ByteOf(c, f, k, old, fault) ==
    IF f \notin Filled(TypeOf[c]) THEN old
    ELSE IF f \notin Texts THEN <<c, f, k>>
    ELSE IF f = "filepath" /\ fault THEN Nul
    ELSE IF k < Fits(c, f) THEN <<c, f, k>>
    ELSE IF k = Fits(c, f) \/ f = "comm" THEN Nul
    ELSE old

\* Records take turns on slots of one size.  (256 KB is no multiple of it, so in
\* the code the bytes of an old record may lie at other offsets of a new one.)
SlotOf(n) == n % Slots

Init ==
    /\ mem = [s \in 0 .. Slots - 1 |-> [o \in Bytes |-> Nul]]
    /\ ring = <<>>
    /\ submitted = <<>>
    /\ event = [call |-> None]

\* A probe reserves the next slot, fills it and submits it.
Probe(c, fault) ==
    /\ \A i \in DOMAIN submitted : submitted[i] # c
    /\ fault => TypeOf[c] \in {"open", "exec"}
    /\ Len(ring) < Slots
    /\ mem' = [mem EXCEPT ![SlotOf(Len(submitted))] = [o \in Bytes |->
                 ByteOf(c, CByte[o][1], CByte[o][2], @[o], fault)]]
    /\ ring' = Append(ring, c)
    /\ submitted' = Append(submitted, c)
    /\ UNCHANGED event

-----------------------------------------------------------------------------
\* ParseEvent: the fields of a sample, or nil if it is too short.
ParseEvent(sample) ==
    IF CSize < GoSize THEN Nil
    ELSE [f \in {GoFields[i][1] : i \in DOMAIN GoFields} |->
            LET i == CHOOSE j \in DOMAIN GoFields : GoFields[j][1] = f
            IN  [k \in 1..GoFields[i][2] |-> sample[GoOffset[i] + k - 1]]]

\* Mutant of NullTermStr: trims zeros from the end.
NullTermStrTrim(b) ==
    LET used == {i \in DOMAIN b : b[i] # Nul}
    IN  IF used = {} THEN <<>> ELSE SubSeq(b, 1, Max(used))

NullTermStr(b) ==
    LET nul == {i \in DOMAIN b : b[i] = Nul}
    IN  IF nul = {} THEN b ELSE SubSeq(b, 1, Min(nul) - 1)

\* The fields the reader takes over into the event, by type.
Used(type) ==
    {"pid", "cgroup_id", "comm"} \cup
    CASE type = "connect" -> {"timestamp", "src_addr", "src_port", "dst_addr", "dst_port"}
      [] type = "accept" -> {"src_addr", "src_port", "dst_addr", "dst_port"}
      [] type = "open" -> {"timestamp", "filepath", "flags"}
      [] type = "exec" -> {"timestamp", "filepath", "ppid", "parent_comm"}

\* The byte of the type, if it is one.
TypeIn(b) == IF b # Nul /\ b[2] = "event_type" THEN TypeOf[b[1]] ELSE "other"

\* The reader: Read, ParseEvent, and the switch on the type; nil and other
\* types lead to no event.
Read ==
    /\ ring # <<>>
    /\ ring' = Tail(ring)
    /\ LET rec == ParseEvent(mem[SlotOf(Len(submitted) - Len(ring))])
           type == IF rec = Nil THEN "other" ELSE TypeIn(rec.event_type[1])
       IN  event' = [call |-> Head(ring), type |-> type, fields |->
                       IF type = "other" THEN Nil
                       ELSE [f \in Used(type) |->
                               IF f \in Texts THEN NullTermStr(rec[f]) ELSE rec[f]]]
    /\ UNCHANGED <<mem, submitted>>

Next ==
    \/ \E c \in Calls, fault \in BOOLEAN : Probe(c, fault)
    \/ Read

Spec == Init /\ [][Next]_vars

-----------------------------------------------------------------------------
\* Byte k of field f of call c, n of them.
Own(c, f, n) == [k \in 1..n |-> <<c, f, k - 1>>]

\* Every event the reader makes is that of its own call (main.go:199): each
\* field has the bytes the probe wrote for it, a text ends where the text of
\* the call ends or where it was cut to fit, and nothing of an earlier record
\* in the same memory shows through, whichever types and lengths met there.
EventFaithful ==
    event.call # None =>
      LET c == event.call IN
      /\ event.type = TypeOf[c]
      /\ \A f \in DOMAIN event.fields :
           \/ event.fields[f] = Own(c, f,
                CASE f \in Texts -> Fits(c, f)
                  [] f \in {"cgroup_id", "timestamp"} -> 8
                  [] f \in {"src_port", "dst_port"} -> 2
                  [] OTHER -> 4)
           \/ f = "filepath" /\ event.fields[f] = <<>>
=============================================================================
