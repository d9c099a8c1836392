---------------------------- MODULE MCRuleEngine ----------------------------
(***************************************************************************)
(* Instances of RuleEngine for TLC.  brute counts connections to port 1    *)
(* per pair of containers, scan connections to any port, with a window     *)
(* that does not parse and a group field that is unknown; touch is a rule  *)
(* without a threshold and with a negated block, drop a sequence.          *)
(***************************************************************************)
EXTENDS RuleEngine

CONSTANTS brute, scan, touch, drop, web, db, passwd, tmp

Any == [f \in TextFields \cup ContainerFields \cup {"event_type"} |-> Unset]
Block(fields, port) ==
    [f \in DOMAIN Any \cup PortFields |->
        IF f \in DOMAIN fields THEN fields[f]
        ELSE IF f = "dst_port" THEN port
        ELSE IF f = "src_port" THEN Zero ELSE Any[f]]

Scalar(parts, neg) == [kind |-> "scalar", text |-> [wild |-> FALSE, neg |-> neg, parts |-> parts]]
List(items) == [kind |-> "list", items |-> items]
Connection == [event_type |-> "connection"]

RuleBase == [name |-> <<>>, match |-> Unset, any |-> <<>>, all |-> <<>>, steps |-> Unset,
             mode |-> "single", count |-> 0, window |-> Unset, group_by |-> <<>>]

Brute == [RuleBase EXCEPT
            !.name = <<brute>>,
            !.match = <<Block(Connection, UnmarshalYAML(Scalar(<< <<1>> >>, FALSE)))>>,
            !.mode = "threshold", !.count = 1, !.window = 1,
            !.group_by = <<"src_container", "dst_container">>]

Scan == [RuleBase EXCEPT
            !.name = <<scan>>,
            !.all = << <<Block(Connection, Zero)>>, <<Block([src_container |-> {web}], Zero)>> >>,
            !.mode = "threshold", !.count = 2,
            !.group_by = <<"src_container", "colour", "dst_container">>]

Touch == [RuleBase EXCEPT
            !.name = <<touch>>,
            !.any = << <<Block([file_path |-> {passwd}], Zero)>>,
                       <<Block([event_type |-> "file_open"], Zero), Block([file_path |-> {tmp}], Zero)>> >>]

Drop == [RuleBase EXCEPT
            !.name = <<drop>>,
            !.steps = << <<Block([event_type |-> "exec"], Zero)>>,
                         <<Block([event_type |-> "file_open", file_op |-> {"write"}], Zero)>> >>]

NoFields == [f \in TextFields \cup GroupFields |-> IF f \in PortFields THEN 0 ELSE NoContainer]
Event(type, fields) == [f \in DOMAIN NoFields \cup {"event_type"} |->
    IF f = "event_type" THEN type ELSE IF f \in DOMAIN fields THEN fields[f] ELSE NoFields[f]]

Ssh == Event("connection", [src_container |-> web, dst_container |-> db, src_port |-> 2, dst_port |-> 1])
Out == Event("connection", [src_container |-> web, src_port |-> 2, dst_port |-> 1])
Http == Event("connection", [src_container |-> web, dst_container |-> db, src_port |-> 2, dst_port |-> 2])
Open == Event("file_open", [src_container |-> web, file_path |-> tmp, file_op |-> "read"])
Exec == Event("exec", [src_container |-> db, exec_path |-> tmp])

MCKinds == {Ssh, Out, Http, Open, Exec}
MCRules == <<Brute, Touch, Drop, Scan>>

ASSUME MCKeysAssumption == KeysTellGroups
=============================================================================
