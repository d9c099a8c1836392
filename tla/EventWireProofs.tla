-------------------------- MODULE EventWireProofs --------------------------
(***************************************************************************)
(* Proofs about EventWire, for any calls, lengths of texts and number of   *)
(* slots: every event is that of its own call.                             *)
(***************************************************************************)
EXTENDS EventWire, QueueLemmas

-----------------------------------------------------------------------------
(* The layout of the record.                                               *)

\* Where the members of struct event are, and where its end is.
CTable == <<0, 8, 16, 24, 28, 32, 36, 40, 42, 58, 316, 320, 336, 344>>

\* The offsets that a C compiler gives to the members of struct event.
LEMMA COffsets == Len(CFields) = 13 /\ \A i \in 1..14 : COffset[i] = CTable[i]
<1> DEFINE R(f) == [i \in 1 .. Len(CFields) + 1 |->
                      IF i = 1 THEN 0
                      ELSE AlignUp(f[i - 1] + CFields[i - 1][2],
                                   IF i > Len(CFields) THEN 8 ELSE CFields[i][3])]
           t == [i \in 1..14 |-> CTable[i]]
<1>1. Len(CFields) = 13
  BY DEF CFields
<1>2. R(t) = t
  <2> SUFFICES ASSUME NEW i \in 1..14 PROVE R(t)[i] = t[i]
    BY <1>1
  <2> QED
    BY <1>1 DEF CTable, CFields, AlignUp
<1>3. COffset = CHOOSE f : f = R(f)
  BY DEF COffset
<1>4. COffset = R(COffset)
  BY <1>2, <1>3
<1>5. \A i \in 1..14 : COffset[i] =
        IF i = 1 THEN 0
        ELSE AlignUp(COffset[i - 1] + CFields[i - 1][2], IF i > 13 THEN 8 ELSE CFields[i][3])
  BY <1>1, <1>4
<1>6. COffset[1] = 0 /\ COffset[2] = 8 /\ COffset[3] = 16 /\ COffset[4] = 24 /\ COffset[5] = 28
  BY <1>5 DEF AlignUp, CFields
<1>7. COffset[6] = 32 /\ COffset[7] = 36 /\ COffset[8] = 40 /\ COffset[9] = 42 /\ COffset[10] = 58
  BY <1>5, <1>6 DEF AlignUp, CFields
<1>8. COffset[11] = 316 /\ COffset[12] = 320 /\ COffset[13] = 336 /\ COffset[14] = 344
  BY <1>5, <1>7 DEF AlignUp, CFields
<1> QED
  BY <1>1, <1>6, <1>7, <1>8 DEF CTable

\* Where encoding/binary finds the fields of MonitorEvent, and where it ends.
GoTable == <<0, 4, 8, 16, 24, 25, 28, 32, 34, 36, 40, 42, 58, 314, 316, 320, 336, 340>>

\* The offsets at which binary.Read takes the fields.
LEMMA GoOffsets == Len(GoFields) = 17 /\ \A i \in 1..18 : GoOffset[i] = GoTable[i]
<1> DEFINE R(f) == [i \in 1 .. Len(GoFields) + 1 |-> IF i = 1 THEN 0 ELSE f[i - 1] + GoFields[i - 1][2]]
           t == [i \in 1..18 |-> GoTable[i]]
<1>1. Len(GoFields) = 17
  BY DEF GoFields
<1>2. R(t) = t
  <2> SUFFICES ASSUME NEW i \in 1..18 PROVE R(t)[i] = t[i]
    BY <1>1
  <2> QED
    BY <1>1 DEF GoTable, GoFields
<1>3. GoOffset = CHOOSE f : f = R(f)
  BY DEF GoOffset
<1>4. GoOffset = R(GoOffset)
  BY <1>2, <1>3
<1>5. \A i \in 1..18 : GoOffset[i] = IF i = 1 THEN 0 ELSE GoOffset[i - 1] + GoFields[i - 1][2]
  BY <1>1, <1>4
<1>6. /\ GoOffset[1] = 0 /\ GoOffset[2] = 4 /\ GoOffset[3] = 8 /\ GoOffset[4] = 16 /\ GoOffset[5] = 24
      /\ GoOffset[6] = 25
  BY <1>5 DEF GoFields
<1>7. /\ GoOffset[7] = 28 /\ GoOffset[8] = 32 /\ GoOffset[9] = 34 /\ GoOffset[10] = 36
      /\ GoOffset[11] = 40 /\ GoOffset[12] = 42
  BY <1>5, <1>6 DEF GoFields
<1>8. /\ GoOffset[13] = 58 /\ GoOffset[14] = 314 /\ GoOffset[15] = 316 /\ GoOffset[16] = 320
      /\ GoOffset[17] = 336 /\ GoOffset[18] = 340
  BY <1>5, <1>7 DEF GoFields
<1> QED
  BY <1>1, <1>6, <1>7, <1>8 DEF GoTable

\* The byte of the member at hand, of member i.
LEMMA CLayout ==
    ASSUME NEW i \in 1..13, NEW k \in 0 .. CFields[i][2] - 1
    PROVE  CTable[i] + k \in Bytes /\ CByte[CTable[i] + k] = <<CFields[i][1], k>>
<1> DEFINE o == CTable[i] + k
           at == {j \in DOMAIN CFields : o \in COffset[j] .. COffset[j] + CFields[j][2] - 1}
<1>1. DOMAIN CFields = 1..13 /\ \A j \in 1..13 : CFields[j][2] \in Nat /\ CTable[j] \in Nat
  BY DEF CFields, CTable
<1>2. \A j, l \in 1..13 : j < l => CTable[j] + CFields[j][2] <= CTable[l]
  BY DEF CFields, CTable
<1>3. CTable[i] + CFields[i][2] <= 340
  BY DEF CFields, CTable
<1>4. CSize = 344
  BY COffsets DEF CSize, CTable
<1>5. o \in Bytes
  <2>1. CTable[i] \in Nat /\ CFields[i][2] \in Nat /\ k \in Nat /\ k < CFields[i][2]
    BY <1>1
  <2> HIDE DEF CTable, CFields
  <2>2. o \in Nat /\ o <= 343
    BY ONLY <2>1, <1>3
  <2> QED
    BY ONLY <1>4, <2>2 DEF Bytes
<1>6. at = {i}
  <2>1. ASSUME NEW j \in 1..13, o \in COffset[j] .. COffset[j] + CFields[j][2] - 1 PROVE j = i
    <3>1. COffset[j] = CTable[j]
      BY ONLY COffsets, j \in 1..13
    <3>2. /\ CTable[j] \in Nat /\ CFields[j][2] \in Nat /\ CTable[j] <= o /\ o < CTable[j] + CFields[j][2]
          /\ CTable[i] \in Nat /\ CFields[i][2] \in Nat /\ CTable[i] <= o /\ o < CTable[i] + CFields[i][2]
      <4>1. CTable[i] \in Nat /\ CFields[i][2] \in Nat /\ CTable[j] \in Nat /\ CFields[j][2] \in Nat
        BY ONLY <1>1, i \in 1..13, j \in 1..13
      <4> QED
        BY ONLY <2>1, <3>1, <4>1, k \in 0 .. CFields[i][2] - 1
    <3>3. ~(j < i) /\ ~(i < j)
      <4> HIDE DEF o
      <4>1. o \in Int
        BY ONLY <1>5, <1>4 DEF Bytes
      <4> QED
        BY ONLY <1>2, <3>2, <4>1, i \in 1..13, j \in 1..13
    <3> QED
      BY ONLY <3>3, i \in 1..13, j \in 1..13
  <2>2. i \in at
    BY <1>1, COffsets
  <2> QED
    BY <1>1, <2>1, <2>2
<1>7. Max({i}) = i
  BY DEF Max
<1>8. CByte[o] = IF at = {} THEN <<"padding", 0>> ELSE <<CFields[Max(at)][1], o - COffset[Max(at)]>>
  BY <1>5 DEF CByte
<1>9. o - COffset[i] = k
  BY <1>1, COffsets
<1> QED
  BY <1>5, <1>6, <1>7, <1>8, <1>9

-----------------------------------------------------------------------------
(* The invariant.                                                          *)

\* Call c can have left these bytes in a slot: what its probe writes there is
\* there already.
Written(sample, c, fault) ==
    \A o \in Bytes : sample[o] = ByteOf(c, CByte[o][1], CByte[o][2], sample[o], fault)

\* The slot of the i-th record that waits.
SlotAt(i) == SlotOf(Len(submitted) - Len(ring) + i - 1)

WireInv ==
    /\ ring \in Seq(Calls) /\ submitted \in Seq(Calls)
    /\ Len(ring) <= Len(submitted) /\ Len(ring) <= Slots
    /\ DOMAIN mem = 0 .. Slots - 1
    /\ \A i \in 1..Len(ring) : \E fault \in BOOLEAN : Written(mem[SlotAt(i)], ring[i], fault)
    /\ EventFaithful

-----------------------------------------------------------------------------
(* What binary.Read finds.                                                 *)

\* The field of MonitorEvent for each member of struct event.
GoIndex == <<1, 3, 4, 5, 7, 8, 10, 11, 12, 13, 15, 16, 17>>

\* Both sides agree on name, size and place of every member.
LEMMA SameLayout ==
    ASSUME NEW i \in 1..13
    PROVE  /\ GoIndex[i] \in 1..17
           /\ GoFields[GoIndex[i]][1] = CFields[i][1]
           /\ GoFields[GoIndex[i]][2] = CFields[i][2]
           /\ GoTable[GoIndex[i]] = CTable[i]
  BY DEF GoIndex, GoFields, CFields, GoTable, CTable

\* No two fields of MonitorEvent have the same name.
LEMMA GoNames == \A j, l \in 1..17 : GoFields[j][1] = GoFields[l][1] => j = l
  BY DEF GoFields

\* The members of struct event and their sizes.
LEMMA CSizes == \A i \in 1..13 : CTable[i] \in Nat /\ CFields[i][2] \in Nat
  BY DEF CFields, CTable

\* ParseEvent reads, for every member of struct event, its bytes.
LEMMA Parsed ==
    ASSUME NEW sample, NEW i \in 1..13
    PROVE  /\ ParseEvent(sample) # Nil
           /\ ParseEvent(sample)[CFields[i][1]] =
                [k \in 1..CFields[i][2] |-> sample[CTable[i] + (k - 1)]]
<1> DEFINE names == {GoFields[j][1] : j \in DOMAIN GoFields}
           at(f) == CHOOSE j \in DOMAIN GoFields : GoFields[j][1] = f
           parse == [f \in names |-> [k \in 1..GoFields[at(f)][2] |-> sample[GoOffset[at(f)] + k - 1]]]
           f == CFields[i][1]
<1>1. CSize = 344 /\ GoSize = 340
  BY COffsets, GoOffsets DEF CSize, GoSize, CTable, GoTable
<1>2. ParseEvent(sample) = parse
  BY <1>1 DEF ParseEvent
<1>3. DOMAIN GoFields = 1..17
  BY DEF GoFields
<1>4. f \in names
  <2>1. GoIndex[i] \in DOMAIN GoFields /\ GoFields[GoIndex[i]][1] = f
    BY ONLY <1>3, SameLayout
  <2> QED
    BY ONLY <2>1, Zenon
<1>5. at(f) = GoIndex[i]
  BY ONLY <1>3, SameLayout, GoNames
<1>6. GoOffset[GoIndex[i]] = CTable[i]
  BY ONLY GoOffsets, SameLayout
<1> HIDE DEF at
<1>7. parse[f] = [k \in 1..GoFields[at(f)][2] |-> sample[GoOffset[at(f)] + k - 1]]
  BY ONLY <1>4
<1> HIDE DEF parse
<1>8. parse[f] = [k \in 1..CFields[i][2] |-> sample[CTable[i] + k - 1]]
  <2>1. GoFields[at(f)][2] = CFields[i][2] /\ GoOffset[at(f)] = CTable[i]
    BY ONLY <1>5, <1>6, SameLayout
  <2> QED
    BY ONLY <1>7, <2>1
<1>9. parse # Nil
  <2>1. f \in DOMAIN parse
    BY ONLY <1>4 DEF parse
  <2>2. DOMAIN Nil = {}
    BY DEF Nil
  <2> QED
    BY ONLY <2>1, <2>2
<1> QED
  BY ONLY <1>2, <1>8, <1>9

\* The bytes of a member, as the probe of call c left them.
LEMMA Member ==
    ASSUME NEW sample, NEW c, NEW fault, Written(sample, c, fault),
           NEW i \in 1..13, NEW k \in 1..CFields[i][2]
    PROVE  LET b == sample[CTable[i] + (k - 1)]
           IN  b = ByteOf(c, CFields[i][1], k - 1, b, fault)
<1> DEFINE o == CTable[i] + (k - 1)
<1>1. k - 1 \in 0 .. CFields[i][2] - 1
  <2>1. CFields[i][2] \in Nat
    BY ONLY CSizes, i \in 1..13
  <2> QED
    BY ONLY <2>1, k \in 1..CFields[i][2]
<1>2. o \in Bytes /\ CByte[o] = <<CFields[i][1], k - 1>>
  BY ONLY <1>1, CLayout, i \in 1..13
<1>3. sample[o] = ByteOf(c, CByte[o][1], CByte[o][2], sample[o], fault)
  BY ONLY <1>2, Written(sample, c, fault) DEF Written
<1>4. CByte[o][1] = CFields[i][1] /\ CByte[o][2] = k - 1
  BY ONLY <1>2
<1> QED
  BY ONLY <1>3, <1>4

-----------------------------------------------------------------------------
(* What the reader makes of a member.                                      *)

\* A text and its terminator fit.
LEMMA FitsRoom ==
    ASSUME NEW c \in Calls, NEW f \in Texts
    PROVE  Fits(c, f) \in Nat /\ Fits(c, f) < Room(f) /\ Room(f) \in Nat
<1> DEFINE m == TextLen[c][f]
           r == Room(f) - 1
<1>1. m \in Nat /\ r \in Nat /\ Room(f) \in Nat /\ r < Room(f)
  BY WireAssumption DEF Room
<1>2. Fits(c, f) = CHOOSE x \in {m, r} : \A y \in {m, r} : x <= y
  BY DEF Fits, Min
<1> HIDE DEF m, r
<1>3. \E x \in {m, r} : \A y \in {m, r} : x <= y
  BY <1>1
<1>4. Fits(c, f) \in {m, r} /\ \A y \in {m, r} : Fits(c, f) <= y
  BY ONLY <1>2, <1>3, Zenon
<1>5. Fits(c, f) \in Nat /\ Fits(c, f) <= r
  BY ONLY <1>1, <1>4
<1> QED
  BY ONLY <1>1, <1>5

\* NullTermStr gives the bytes before the first zero.
LEMMA Terminated ==
    ASSUME NEW m \in Nat, NEW b, DOMAIN b = 1..m, b = [k \in 1..m |-> b[k]],
           NEW n \in 0 .. m - 1, \A k \in 1..n : b[k] # Nul, b[n + 1] = Nul
    PROVE  NullTermStr(b) = [k \in 1..n |-> b[k]]
<1> DEFINE nul == {i \in DOMAIN b : b[i] = Nul}
           S == {b[k] : k \in 1..m}
<1>1. n + 1 \in nul /\ \A i \in nul : i \in Nat /\ n + 1 <= i
  <2>1. n + 1 \in 1..m
    OBVIOUS
  <2>2. n + 1 \in nul
    BY <2>1
  <2>3. ASSUME NEW i \in nul PROVE i \in Nat /\ n + 1 <= i
    <3>1. i \in 1..m /\ b[i] = Nul
      OBVIOUS
    <3>2. i \notin 1..n
      BY ONLY <3>1, \A k \in 1..n : b[k] # Nul, Zenon
    <3> QED
      BY ONLY <3>1, <3>2, n \in 0 .. m - 1, m \in Nat
  <2> QED
    BY <2>2, <2>3
<1>2. Min(nul) = n + 1
  <2>1. \A x \in nul : (\A y \in nul : x <= y) => x = n + 1
    BY <1>1
  <2> HIDE DEF nul
  <2>2. \E x \in nul : \A y \in nul : x <= y
    BY ONLY <1>1
  <2>3. Min(nul) \in nul /\ \A y \in nul : Min(nul) <= y
    BY ONLY <2>2, Zenon DEF Min
  <2> QED
    BY ONLY <2>1, <2>3
<1>3. b \in Seq(S) /\ Len(b) = m
  OBVIOUS
<1>4. NullTermStr(b) = SubSeq(b, 1, Min(nul) - 1)
  BY <1>1 DEF NullTermStr
<1>5. Min(nul) - 1 = n
  BY <1>2
<1>6. SubSeq(b, 1, n) = [k \in 1..n |-> b[k]]
  <2> HIDE DEF S
  <2> QED
    BY ONLY <1>3, n \in 0 .. m - 1, m \in Nat
<1> QED
  BY ONLY <1>4, <1>5, <1>6

\* A byte that a call wrote is not a zero.
LEMMA OwnByte == \A c, f, k : <<c, f, k>> # Nul
  BY DEF Nul

\* The members that the reader uses are members of struct event that the probe
\* of that type fills.
LEMMA UsedFilled ==
    ASSUME NEW type \in {"connect", "accept", "open", "exec"}, NEW f \in Used(type)
    PROVE  /\ f \in Filled(type)
           /\ \E i \in 1..13 : /\ CFields[i][1] = f
                               /\ CFields[i][2] = CASE f \in Texts -> Room(f)
                                                    [] f \in {"cgroup_id", "timestamp"} -> 8
                                                    [] f \in {"src_port", "dst_port"} -> 2
                                                    [] OTHER -> 4
<1>1. f \in Filled(type)
  BY DEF Used, Filled
<1>2. f \in {"pid", "cgroup_id", "timestamp", "comm", "src_addr", "src_port", "dst_addr", "dst_port",
             "filepath", "flags", "ppid", "parent_comm"}
  BY DEF Used
<1> DEFINE is(i) == /\ CFields[i][1] = f
                    /\ CFields[i][2] = CASE f \in Texts -> Room(f)
                                         [] f \in {"cgroup_id", "timestamp"} -> 8
                                         [] f \in {"src_port", "dst_port"} -> 2
                                         [] OTHER -> 4
<1>3. /\ f = "pid" => is(1)
      /\ f = "cgroup_id" => is(2)
      /\ f = "timestamp" => is(3)
      /\ f = "src_addr" => is(5)
      /\ f = "src_port" => is(6)
      /\ f = "dst_addr" => is(7)
  BY DEF CFields, Texts, Room
<1>4. /\ f = "dst_port" => is(8)
      /\ f = "comm" => is(9)
      /\ f = "filepath" => is(10)
      /\ f = "ppid" => is(11)
      /\ f = "parent_comm" => is(12)
      /\ f = "flags" => is(13)
  BY DEF CFields, Texts, Room
<1> HIDE DEF is
<1>5. \E i \in 1..13 : is(i)
  BY <1>2, <1>3, <1>4
<1> QED
  BY <1>1, <1>5 DEF is

\* The reader takes over, for each member it uses, what the call had there.
LEMMA FieldRead ==
    ASSUME NEW sample, NEW c \in Calls, NEW fault, Written(sample, c, fault),
           NEW f \in Used(TypeOf[c])
    PROVE  LET b == ParseEvent(sample)[f]
               v == IF f \in Texts THEN NullTermStr(b) ELSE b
           IN  \/ v = Own(c, f, CASE f \in Texts -> Fits(c, f)
                                  [] f \in {"cgroup_id", "timestamp"} -> 8
                                  [] f \in {"src_port", "dst_port"} -> 2
                                  [] OTHER -> 4)
               \/ f = "filepath" /\ v = <<>>
<1> DEFINE w == CASE f \in Texts -> Room(f)
                  [] f \in {"cgroup_id", "timestamp"} -> 8
                  [] f \in {"src_port", "dst_port"} -> 2
                  [] OTHER -> 4
           b == ParseEvent(sample)[f]
<1>1. TypeOf[c] \in {"connect", "accept", "open", "exec"}
  BY WireAssumption
<1>2. f \in Filled(TypeOf[c])
  BY ONLY <1>1, UsedFilled, f \in Used(TypeOf[c])
<1>3. PICK i \in 1..13 : CFields[i][1] = f /\ CFields[i][2] = w
  BY ONLY <1>1, UsedFilled, f \in Used(TypeOf[c])
<1>4. b = [k \in 1..w |-> sample[CTable[i] + (k - 1)]]
  <2> HIDE DEF w
  <2> QED
    BY ONLY <1>3, Parsed
<1>5. w \in Nat
  BY DEF Room
<1> HIDE DEF w, b
<1>6. ASSUME NEW k \in 1..w PROVE b[k] = ByteOf(c, f, k - 1, b[k], fault)
  <2>1. LET y == sample[CTable[i] + (k - 1)] IN y = ByteOf(c, CFields[i][1], k - 1, y, fault)
    BY ONLY <1>3, Member, k \in 1..w, Written(sample, c, fault)
  <2>2. b[k] = sample[CTable[i] + (k - 1)]
    BY ONLY <1>4, k \in 1..w
  <2> QED
    BY ONLY <1>3, <2>1, <2>2
<1>7. CASE f \notin Texts
  <2>1. \A k \in 1..w : b[k] = <<c, f, k - 1>>
    BY ONLY <1>2, <1>6, <1>7, Zenon DEF ByteOf
  <2>2. b = Own(c, f, w)
    BY ONLY <1>4, <2>1 DEF Own
  <2> QED
    BY ONLY <1>7, <2>2 DEF b, w
<1>8. CASE f \in Texts
  <2> DEFINE n == Fits(c, f)
  <2>1. w = Room(f)
    BY ONLY <1>8 DEF w, Texts
  <2>2. n \in Nat /\ n < w
    BY ONLY <1>8, <2>1, FitsRoom, c \in Calls
  <2> HIDE DEF n
  <2>3. DOMAIN b = 1..w /\ b = [k \in 1..w |-> b[k]]
    BY ONLY <1>4
  <2>4. CASE f = "filepath" /\ fault
    <3>1. \A k \in 1..w : b[k] = Nul
      BY ONLY <1>2, <1>6, <1>8, <2>4, Zenon DEF ByteOf
    <3>2. 0 \in 0 .. w - 1 /\ b[0 + 1] = Nul /\ \A k \in 1..0 : b[k] # Nul
      BY ONLY <1>5, <2>2, <3>1
    <3>3. NullTermStr(b) = [k \in 1..0 |-> b[k]]
      BY ONLY <1>5, <2>3, <3>2, Terminated
    <3>4. NullTermStr(b) = <<>>
      BY ONLY <3>3
    <3> QED
      BY ONLY <1>8, <2>4, <3>4 DEF b
  <2>5. CASE ~(f = "filepath" /\ fault)
    <3>1. ASSUME NEW k \in 1..n PROVE b[k] = <<c, f, k - 1>>
      <4>1. k \in 1..w /\ k - 1 < n
        BY ONLY <1>5, <2>2, k \in 1..n
      <4> QED
        BY ONLY <1>2, <1>6, <1>8, <2>5, <4>1 DEF ByteOf, n
    <3>2. b[n + 1] = Nul
      <4>1. n + 1 \in 1..w /\ ~((n + 1) - 1 < n) /\ (n + 1) - 1 = n
        BY ONLY <1>5, <2>2
      <4>2. b[n + 1] = ByteOf(c, f, (n + 1) - 1, b[n + 1], fault)
        BY ONLY <1>6, <4>1
      <4> QED
        BY ONLY <1>2, <1>8, <2>5, <4>1, <4>2 DEF ByteOf, n
    <3>3. n \in 0 .. w - 1 /\ \A k \in 1..n : b[k] # Nul
      BY ONLY <1>5, <2>2, <3>1, OwnByte
    <3>4. NullTermStr(b) = [k \in 1..n |-> b[k]]
      BY ONLY <1>5, <2>3, <3>2, <3>3, Terminated
    <3>5. NullTermStr(b) = Own(c, f, n)
      BY ONLY <3>1, <3>4 DEF Own
    <3> QED
      BY ONLY <1>8, <3>5 DEF b, n, Texts
  <2> QED
    BY <2>4, <2>5
<1> QED
  BY <1>7, <1>8

\* The byte of the type tells the type of the call.
LEMMA TypeRead ==
    ASSUME NEW sample, NEW c \in Calls, NEW fault, Written(sample, c, fault)
    PROVE  TypeIn(ParseEvent(sample).event_type[1]) = TypeOf[c]
<1>1. CFields[4][1] = "event_type" /\ CFields[4][2] = 1 /\ 4 \in 1..13
  BY DEF CFields
<1> DEFINE y == sample[CTable[4] + (1 - 1)]
<1>2. y = ByteOf(c, "event_type", 1 - 1, y, fault)
  BY ONLY <1>1, Member, Written(sample, c, fault)
<1>3. ParseEvent(sample).event_type[1] = y
  <2>1. ParseEvent(sample).event_type = [k \in 1..1 |-> sample[CTable[4] + (k - 1)]]
    <3>1. ParseEvent(sample)[CFields[4][1]] = [k \in 1..CFields[4][2] |-> sample[CTable[4] + (k - 1)]]
      BY ONLY <1>1, Parsed
    <3> QED
      BY ONLY <1>1, <3>1
  <2> QED
    BY ONLY <2>1
<1> HIDE DEF y
<1>4. y = <<c, "event_type", 1 - 1>>
  BY ONLY <1>2 DEF ByteOf, Filled, Texts
<1>5. y # Nul /\ y[1] = c /\ y[2] = "event_type"
  BY ONLY <1>4, OwnByte
<1> QED
  BY ONLY <1>3, <1>5 DEF TypeIn

-----------------------------------------------------------------------------
(* The steps.                                                              *)

\* Two records that are less than a round apart have different slots.
LEMMA SlotsDiffer ==
    ASSUME NEW a \in Nat, NEW b \in Nat, a < b, b < a + Slots
    PROVE  SlotOf(a) # SlotOf(b)
<1>1. Slots \in Nat /\ Slots > 0
  BY WireAssumption
<1> DEFINE q == a \div Slots
           p == b \div Slots
           r == b % Slots
<1>2. p \in Int /\ q \in Int /\ r \in Int /\ b = Slots * p + r /\ a = Slots * q + (a % Slots)
  BY ONLY <1>1, a \in Nat, b \in Nat
<1> HIDE DEF p, q, r
<1>3. SUFFICES ASSUME a % Slots = r PROVE FALSE
  BY DEF SlotOf, r
<1>4. a = Slots * q + r
  BY ONLY <1>2, <1>3
<1>5. CASE p <= q
  <2>1. Slots * p <= Slots * q
    BY ONLY <1>1, <1>2, <1>5
  <2>2. Slots * p \in Int /\ Slots * q \in Int
    BY ONLY <1>1, <1>2
  <2> HIDE DEF p, q
  <2> QED
    BY ONLY <1>2, <1>4, <2>1, <2>2, a < b
<1>6. CASE p >= q + 1
  <2>1. Slots * p >= Slots * (q + 1)
    BY ONLY <1>1, <1>2, <1>6
  <2>2. Slots * (q + 1) = Slots * q + Slots
    BY ONLY <1>1, <1>2
  <2>3. Slots * p \in Int /\ Slots * q \in Int
    BY ONLY <1>1, <1>2
  <2> QED
    BY ONLY <1>1, <1>2, <1>4, <2>1, <2>2, <2>3, b < a + Slots
<1> QED
  BY ONLY <1>2, <1>5, <1>6

\* A slot of the ring.
LEMMA SlotIn == ASSUME NEW n \in Nat PROVE SlotOf(n) \in 0 .. Slots - 1
  BY WireAssumption DEF SlotOf

\* To write the bytes of a call again changes nothing.
LEMMA WrittenNow ==
    ASSUME NEW sample, NEW c, NEW fault
    PROVE  Written([o \in Bytes |-> ByteOf(c, CByte[o][1], CByte[o][2], sample[o], fault)], c, fault)
<1>1. \A f, k, old : ByteOf(c, f, k, ByteOf(c, f, k, old, fault), fault) = ByteOf(c, f, k, old, fault)
  BY ONLY DEF ByteOf
<1> QED
  BY ONLY <1>1 DEF Written

\* A probe leaves the records that wait alone, and its own is complete.
LEMMA ProbeStep ==
    ASSUME WireInv, NEW c \in Calls, NEW fault \in BOOLEAN, Probe(c, fault)
    PROVE  WireInv'
<1> DEFINE n == Len(submitted)
           m == Len(ring)
<1>1. n \in Nat /\ m \in Nat /\ m <= n /\ m < Slots /\ Slots \in Nat
  BY WireAssumption DEF WireInv, Probe
<1>2. /\ ring' \in Seq(Calls) /\ Len(ring') = m + 1
      /\ ring'[m + 1] = c /\ \A i \in 1..m : ring'[i] = ring[i]
      /\ submitted' \in Seq(Calls) /\ Len(submitted') = n + 1
  BY AppendFacts DEF WireInv, Probe
<1>3. mem' = [mem EXCEPT ![SlotOf(n)] =
                [o \in Bytes |-> ByteOf(c, CByte[o][1], CByte[o][2], mem[SlotOf(n)][o], fault)]]
  BY DEF Probe
<1>4. SlotOf(n) \in DOMAIN mem /\ DOMAIN mem' = 0 .. Slots - 1
  BY <1>1, <1>3, SlotIn DEF WireInv
<1> HIDE DEF n, m
<1>5. ASSUME NEW i \in 1 .. m + 1
      PROVE  \E g \in BOOLEAN : Written(mem'[SlotAt(i)'], ring'[i], g)
  <2>1. SlotAt(i)' = SlotOf((n - m) + (i - 1))
    <3>1. SlotAt(i)' = SlotOf((Len(submitted') - Len(ring')) + (i - 1))
      BY DEF SlotAt, SlotOf
    <3>2. Len(submitted') - Len(ring') = n - m
      BY <1>1, <1>2
    <3> QED
      BY <3>1, <3>2
  <2>2. CASE i \in 1..m
    <3>1. SlotAt(i) = SlotOf((n - m) + (i - 1))
      BY DEF SlotAt, n, m
    <3>2. /\ (n - m) + (i - 1) \in Nat
          /\ (n - m) + (i - 1) < n
          /\ n < ((n - m) + (i - 1)) + Slots
      BY ONLY <1>1, <2>2
    <3>3. SlotAt(i) # SlotOf(n)
      BY ONLY <1>1, <3>1, <3>2, SlotsDiffer
    <3>4. SlotAt(i) \in DOMAIN mem
      BY ONLY <3>1, <3>2, SlotIn, WireInv DEF WireInv
    <3>5. mem'[SlotAt(i)] = mem[SlotAt(i)]
      BY ONLY <1>3, <3>3, <3>4
    <3>6. \E g \in BOOLEAN : Written(mem[SlotAt(i)], ring[i], g)
      BY ONLY <2>2, WireInv DEF WireInv, m
    <3> QED
      BY ONLY <1>2, <2>1, <2>2, <3>1, <3>5, <3>6
  <2>3. CASE i = m + 1
    <3>1. (n - m) + (i - 1) = n
      BY ONLY <1>1, <2>3
    <3>2. Written(mem'[SlotOf(n)], c, fault)
      BY ONLY <1>3, <1>4, WrittenNow
    <3> QED
      BY ONLY <1>2, <2>1, <2>3, <3>1, <3>2, fault \in BOOLEAN
  <2> QED
    BY <1>1, <2>2, <2>3
<1>6. EventFaithful'
  BY DEF WireInv, Probe, EventFaithful
<1>7. Len(ring') <= Len(submitted') /\ Len(ring') <= Slots
  BY <1>1, <1>2
<1>8. \A i \in 1..Len(ring') : \E g \in BOOLEAN : Written(mem'[SlotAt(i)'], ring'[i], g)
  BY <1>2, <1>5
<1> QED
  BY ONLY <1>2, <1>4, <1>6, <1>7, <1>8 DEF WireInv, Written

\* The event that the reader makes is that of the record it took.
LEMMA ReadStep == ASSUME WireInv, Read PROVE WireInv'
<1> DEFINE n == Len(submitted)
           m == Len(ring)
           c == Head(ring)
           sample == mem[SlotOf(n - m)]
           rec == ParseEvent(sample)
<1>1. n \in Nat /\ m \in Nat /\ m >= 1 /\ m <= n /\ m <= Slots /\ Slots \in Nat
  BY WireAssumption, TailFacts DEF WireInv, Read
<1>2. /\ c \in Calls /\ c = ring[1]
      /\ ring' \in Seq(Calls) /\ Len(ring') = m - 1
      /\ \A i \in 1 .. m - 1 : ring'[i] = ring[i + 1]
  BY TailFacts DEF WireInv, Read
<1>3. mem' = mem /\ submitted' = submitted
  BY DEF Read
<1>4. PICK fault \in BOOLEAN : Written(sample, c, fault)
  <2>1. SlotAt(1) = SlotOf(n - m)
    <3>1. (n - m) + (1 - 1) = n - m
      BY ONLY <1>1
    <3> QED
      BY ONLY <3>1 DEF SlotAt
  <2>2. \E g \in BOOLEAN : Written(mem[SlotAt(1)], ring[1], g)
    BY ONLY <1>1, WireInv DEF WireInv
  <2> QED
    BY ONLY <1>2, <2>1, <2>2
<1>5. EventFaithful'
  <2>1. rec # Nil
    BY ONLY Parsed, 1 \in 1..13
  <2>2. TypeIn(rec.event_type[1]) = TypeOf[c]
    BY ONLY <1>2, <1>4, TypeRead
  <2>3. TypeOf[c] \in {"connect", "accept", "open", "exec"}
    BY ONLY <1>2, WireAssumption
  <2>4. event' = [call |-> c, type |-> TypeOf[c], fields |->
                    [f \in Used(TypeOf[c]) |-> IF f \in Texts THEN NullTermStr(rec[f]) ELSE rec[f]]]
    <3> DEFINE t == IF rec = Nil THEN "other" ELSE TypeIn(rec.event_type[1])
    <3>1. t = TypeOf[c] /\ t # "other"
      BY ONLY <2>1, <2>2, <2>3
    <3>2. event' = [call |-> c, type |-> t, fields |->
                      IF t = "other" THEN Nil
                      ELSE [f \in Used(t) |-> IF f \in Texts THEN NullTermStr(rec[f]) ELSE rec[f]]]
      BY ONLY Read DEF Read
    <3> HIDE DEF t
    <3> QED
      BY ONLY <3>1, <3>2
  <2>5. event'.call = c /\ event'.type = TypeOf[c] /\ DOMAIN event'.fields = Used(TypeOf[c])
    BY ONLY <2>4
  <2>6. ASSUME NEW f \in Used(TypeOf[c])
        PROVE  \/ event'.fields[f] = Own(c, f, CASE f \in Texts -> Fits(c, f)
                                                 [] f \in {"cgroup_id", "timestamp"} -> 8
                                                 [] f \in {"src_port", "dst_port"} -> 2
                                                 [] OTHER -> 4)
               \/ f = "filepath" /\ event'.fields[f] = <<>>
    <3> DEFINE v == IF f \in Texts THEN NullTermStr(rec[f]) ELSE rec[f]
    <3>1. event'.fields[f] = v
      BY ONLY <2>4, f \in Used(TypeOf[c])
    <3>2. \/ v = Own(c, f, CASE f \in Texts -> Fits(c, f)
                             [] f \in {"cgroup_id", "timestamp"} -> 8
                             [] f \in {"src_port", "dst_port"} -> 2
                             [] OTHER -> 4)
          \/ f = "filepath" /\ v = <<>>
      BY ONLY <1>2, <1>4, FieldRead, f \in Used(TypeOf[c])
    <3> HIDE DEF v
    <3> QED
      BY ONLY <3>1, <3>2
  <2> QED
    BY ONLY <2>5, <2>6 DEF EventFaithful
<1>6. Len(ring') <= Len(submitted') /\ Len(ring') <= Slots
  BY <1>1, <1>2, <1>3
<1> HIDE DEF n, m
<1>7. ASSUME NEW i \in 1..Len(ring')
      PROVE  \E g \in BOOLEAN : Written(mem'[SlotAt(i)'], ring'[i], g)
  <2>1. i \in 1 .. m - 1 /\ i + 1 \in 1..m /\ i \in Int
    BY ONLY <1>1, <1>2, i \in 1..Len(ring')
  <2>2. SlotAt(i)' = SlotAt(i + 1)
    <3>1. SlotAt(i)' = SlotOf((Len(submitted') - Len(ring')) + (i - 1))
      BY DEF SlotAt, SlotOf
    <3>2. (Len(submitted') - Len(ring')) + (i - 1) = (n - m) + ((i + 1) - 1)
      <4>1. Len(submitted') = n
        BY <1>3 DEF n
      <4> QED
        BY ONLY <1>1, <1>2, <2>1, <4>1
    <3> QED
      BY ONLY <3>1, <3>2 DEF SlotAt, n, m
  <2>3. \E g \in BOOLEAN : Written(mem[SlotAt(i + 1)], ring[i + 1], g)
    BY ONLY <2>1, WireInv DEF WireInv, m
  <2> QED
    BY ONLY <1>2, <1>3, <2>1, <2>2, <2>3
<1>8. DOMAIN mem' = 0 .. Slots - 1 /\ submitted' \in Seq(Calls)
  BY <1>3 DEF WireInv
<1> QED
  BY ONLY <1>2, <1>5, <1>6, <1>7, <1>8 DEF WireInv, Written

\* Every event that the reader makes is that of its own call, however many
\* calls there are, whatever their types and the lengths of their texts, and
\* however many records the ring has room for.
THEOREM EventsAreFaithful == Spec => []EventFaithful
<1>1. Init => WireInv
  <2> SUFFICES ASSUME Init PROVE WireInv
    OBVIOUS
  <2>1. EventFaithful
    BY DEF Init, EventFaithful
  <2>2. ring \in Seq(Calls) /\ submitted \in Seq(Calls) /\ Len(ring) = 0 /\ Len(submitted) = 0
    BY DEF Init
  <2>3. DOMAIN mem = 0 .. Slots - 1
    BY DEF Init
  <2> QED
    BY <2>1, <2>2, <2>3, WireAssumption DEF WireInv
<1>2. WireInv /\ [Next]_vars => WireInv'
  <2> SUFFICES ASSUME WireInv, [Next]_vars PROVE WireInv'
    OBVIOUS
  <2>1. CASE \E c \in Calls, fault \in BOOLEAN : Probe(c, fault)
    BY <2>1, ProbeStep
  <2>2. CASE Read
    BY <2>2, ReadStep
  <2>3. CASE UNCHANGED vars
    BY ONLY <2>3, WireInv DEF vars, WireInv, Written, SlotAt, SlotOf, EventFaithful
  <2> QED
    BY <2>1, <2>2, <2>3 DEF Next
<1>3. WireInv => EventFaithful
  BY DEF WireInv
<1> QED
  BY <1>1, <1>2, <1>3, PTL DEF Spec
=============================================================================
