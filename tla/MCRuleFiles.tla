---------------------------- MODULE MCRuleFiles ----------------------------
(***************************************************************************)
(* Instance of RuleFiles for TLC: a directory in a directory, a rule file  *)
(* in each and a note.  Either r1 has any port expression of two parts or  *)
(* two items, in its match or in a step of its sequence, and any entry may *)
(* be broken, or r1 is any rule of one or two blocks, negated up to twice, *)
(* nothing is broken, and an event comes.                                  *)
(***************************************************************************)
EXTENDS LoadedRules

CONSTANTS top, sub, r1, r2, note, web, db

MCKind == [e \in Entries |->
    IF e \in {top, sub} THEN "dir" ELSE IF e = note THEN "other" ELSE "rule"]
MCChildren == [e \in Entries |->
    IF e = top THEN <<r1, sub>> ELSE IF e = sub THEN <<note, r2>> ELSE <<>>]

\* Port expressions, with numbers that are no port (MaxPort + 1).
Number == 0 .. MaxPort + 1
Part == {<<>>} \cup {<<n>> : n \in Number} \cup {<<a, b>> : a, b \in Number}
Wild == [wild |-> TRUE, neg |-> FALSE, parts |-> <<>>]
MCText(n) == {Wild} \cup [wild : {FALSE}, neg : BOOLEAN, parts : UNION {[1..k -> Part] : k \in 1..n}]
MCNode ==
    [kind : {"scalar"}, text : MCText(2)]
      \cup [kind : {"list"}, items : UNION {[1..k -> MCText(1)] : k \in 0..2}]
      \cup [kind : {"mapping"}]

Block(type, dst, port) == [f \in EventFields |->
    IF f = "event_type" THEN type
    ELSE IF f = "dst_container" THEN dst
    ELSE IF f = "dst_port" THEN port ELSE Unset]

One(block) == [match |-> block, any |-> <<>>, all |-> <<>>, steps |-> <<>>]
Steps(s) == [match |-> Unset, any |-> <<>>, all |-> <<>>, steps |-> s]
Plain == One(<<Block("connection", Unset, Unset)>>)

Patterns == {Unset, {db}, {web, db}}
Ports == {Unset} \cup {[kind |-> "scalar", text |-> [wild |-> FALSE, neg |-> n, parts |-> << <<1>> >>]] :
                         n \in BOOLEAN}
Blocks(types) == {Block(t, d, p) : t \in types, d \in Patterns, p \in Ports}
Alone == [1..1 -> Blocks({Unset, "connection"})]

Shapes ==
    {One(b) : b \in Alone \cup [1..2 -> Blocks({Unset, "connection"})] \cup [1..3 -> Blocks({Unset})]}
      \cup [match : {Unset}, any : [1..2 -> Alone], all : {<<>>}, steps : {<<>>}]
      \cup [match : {Unset}, any : {<<>>}, all : {<<>>} \cup [1..2 -> Alone], steps : {<<>>}]

Files(rule) == [e \in {r1, r2} |-> IF e = r1 THEN rule ELSE Plain]
PortFiles ==
    {Files(One(<<Block("connection", Unset, n)>>)) : n \in MCNode}
      \cup {Files(Steps(<< <<Block("exec", Unset, Unset)>>, <<Block("connection", Unset, n)>> >>)) :
              n \in {m \in MCNode : m.kind # "list"}}
ShapeFiles == {Files(rule) : rule \in Shapes}
MCContents == PortFiles \cup ShapeFiles

Event(type, dst, port) == [f \in EventFields |->
    IF f = "event_type" THEN type
    ELSE IF f = "src_container" THEN web
    ELSE IF f = "dst_container" THEN dst
    ELSE IF f = "dst_port" THEN port
    ELSE IF f = "src_port" THEN 2 ELSE Unset]

MCEvents == {Event(t, d, p) : t \in {"connection", "exec"}, d \in {web, db}, p \in 0..2}

MCInit ==
    /\ EventInit
    /\ \/ content \in PortFiles /\ event = Event("connection", db, 1)
       \/ content \in ShapeFiles /\ broken = {}

MCSpec == MCInit /\ [][EventNext]_<<vars, event>>
=============================================================================
