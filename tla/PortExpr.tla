------------------------------ MODULE PortExpr ------------------------------
(***************************************************************************)
(* Port expressions of rule files: portexpr.go.                            *)
(*                                                                         *)
(* A text is kept as what the parser tells apart: "*" or blank (wild), a   *)
(* leading "!" (neg), and the parts between the commas.  A part is the     *)
(* tuple of its numbers: <<>> is a blank part, <<n>> a port, <<a, b>> a    *)
(* range.  A number above MaxPort stands for everything that ParseUint     *)
(* refuses.  A YAML node is a scalar, a list of texts, or something else.  *)
(***************************************************************************)
EXTENDS Naturals, Sequences, Functions

CONSTANT MaxPort        \* 65535 in the code: uint16

ASSUME PortAssumption == MaxPort \in Nat

Port == 0..MaxPort

\* What may stand in a rule file.
Text == [wild : BOOLEAN, neg : BOOLEAN, parts : Seq({p \in Seq(Nat) : Len(p) <= 2})]
Node == [kind : {"scalar"}, text : Text] \cup [kind : {"list"}, items : Seq(Text)]
          \cup [kind : {"mapping"}]

PortExpr == [Ports : SUBSET Port, Ranges : SUBSET (Port \X Port),
             Negate : BOOLEAN, Wildcard : BOOLEAN]

Zero == [Ports |-> {}, Ranges |-> {}, Negate |-> FALSE, Wildcard |-> FALSE]

\* What a parser returns with an error: the rule is not loaded.
Refused == [error |-> TRUE]

-----------------------------------------------------------------------------
\* strconv.ParseUint(_, 10, 16) takes every number of the part.
ParseUint(part) == \A i \in DOMAIN part : part[i] \in Port

ParsePortExpr(text) ==
    LET parts == Range(text.parts) IN
    IF text.wild THEN [Zero EXCEPT !.Wildcard = TRUE]
    ELSE IF \E p \in parts : ~ParseUint(p) THEN Refused
    ELSE [Zero EXCEPT !.Ports  = {p[1] : p \in {q \in parts : Len(q) = 1}},
                      !.Ranges = {p \in parts : Len(p) = 2},
                      !.Negate = text.neg]

\* A list collects the ports and ranges of its items and nothing else of them.
UnmarshalYAML(node) ==
    CASE node.kind = "scalar" -> ParsePortExpr(node.text)
      [] node.kind = "list" ->
           LET parsed == {ParsePortExpr(t) : t \in Range(node.items)} IN
           IF Refused \in parsed THEN Refused
           ELSE [Zero EXCEPT !.Ports  = UNION {x.Ports : x \in parsed},
                             !.Ranges = UNION {x.Ranges : x \in parsed}]
      [] OTHER -> Refused

\* Mutant of Match: the end of a range does not belong to it.
MatchOpenRange(expr, port) ==
    LET matched == \/ port \in expr.Ports
                   \/ \E r \in expr.Ranges : port >= r[1] /\ port < r[2]
    IN  matched # expr.Negate

Match(expr, port) ==
    LET matched == \/ port \in expr.Ports
                   \/ \E r \in expr.Ranges : port >= r[1] /\ port <= r[2]
    IN  matched # expr.Negate

IsZero(expr) == expr = Zero

\* How MatchBlock.MatchEvent applies the expression to a port of an event; 0
\* is the port of an event that has none.
PortPasses(expr, port) == IsZero(expr) \/ port = 0 \/ Match(expr, port)

-----------------------------------------------------------------------------
TextsOf(n) == IF n.kind = "scalar" THEN {n.text} ELSE IF n.kind = "list" THEN Range(n.items) ELSE {}

\* Every number of the node that the parser looks at is a port number.
WellFormed(n) ==
    /\ n.kind # "mapping"
    /\ \A t \in TextsOf(n) : t.wild \/ \A part \in Range(t.parts) : \A i \in DOMAIN part : part[i] <= MaxPort

\* A part of the text is the port p, or a range with p in it.
Named(text, p) ==
    /\ ~text.wild
    /\ \E part \in Range(text.parts) :
          part = <<p>> \/ (Len(part) = 2 /\ p \in part[1] .. part[2])

\* No part of the text names anything.
BlankText(text) == text.wild \/ \A part \in Range(text.parts) : part = <<>>

(***************************************************************************)
(* The ports a node lets through, by the forms of portexpr.go:98-101: a    *)
(* text those it names, with "!" the others; a list those that one of its  *)
(* items names, and "!" and "*" of an item count for nothing; a node that  *)
(* names nothing lets all of them through.  The exception is "*" alone:    *)
(* "If true, match all ports" (portexpr.go:16), but Match does not look at *)
(* Wildcard, and "*" lets no port through.                                 *)
(***************************************************************************)
LetsThrough(n, p) ==
    /\ ~(n.kind = "scalar" /\ n.text.wild)
    /\ \/ \A t \in TextsOf(n) : BlankText(t)
       \/ n.kind = "scalar" /\ n.text.neg # Named(n.text, p)
       \/ n.kind = "list" /\ \E t \in Range(n.items) : Named(t, p)

\* The expression is what the node says.
AsWritten(node, expr) ==
    /\ WellFormed(node)
    /\ \A p \in 1..MaxPort : PortPasses(expr, p) <=> LetsThrough(node, p)
=============================================================================
