-------------------------- MODULE RuleFilesProofs --------------------------
(***************************************************************************)
(* Proofs about the loading of the rules, for every directory tree, every  *)
(* set of broken entries and everything that may be written in the files:  *)
(* which ports a port expression lets through, and no rule file is skipped. *)
(***************************************************************************)
EXTENDS LoadedRules, QueueLemmas

-----------------------------------------------------------------------------
(* Port expressions.                                                       *)

\* What the parser makes of one text.
LEMMA ParsedText ==
    ASSUME NEW t \in Text
    PROVE  LET nums == \A part \in Range(t.parts) : \A i \in DOMAIN part : part[i] <= MaxPort
               x == ParsePortExpr(t)
           IN  /\ x = Refused <=> ~(t.wild \/ nums)
               /\ t.wild =>
                    x = [Ports |-> {}, Ranges |-> {}, Negate |-> FALSE, Wildcard |-> TRUE]
               /\ ~t.wild /\ nums =>
                    x = [Ports |-> {p[1] : p \in {q \in Range(t.parts) : Len(q) = 1}},
                         Ranges |-> {p \in Range(t.parts) : Len(p) = 2},
                         Negate |-> t.neg, Wildcard |-> FALSE]
<1> USE PortAssumption
<1> DEFINE nums == \A part \in Range(t.parts) : \A i \in DOMAIN part : part[i] <= MaxPort
           x == ParsePortExpr(t)
           good == [Ports |-> {p[1] : p \in {q \in Range(t.parts) : Len(q) = 1}},
                    Ranges |-> {p \in Range(t.parts) : Len(p) = 2},
                    Negate |-> t.neg, Wildcard |-> FALSE]
<1>1. /\ t.wild \in BOOLEAN /\ t.neg \in BOOLEAN
      /\ t.parts \in Seq({p \in Seq(Nat) : Len(p) <= 2})
  BY DEF Text
<1>2. \A part \in Range(t.parts) : part \in Seq(Nat)
  BY <1>1 DEF Range
<1>3. nums <=> \A part \in Range(t.parts) : ParseUint(part)
  BY <1>2 DEF ParseUint, Port
<1>4. CASE t.wild
  <2>1. x = [Ports |-> {}, Ranges |-> {}, Negate |-> FALSE, Wildcard |-> TRUE]
    BY <1>4 DEF ParsePortExpr, Zero
  <2>2. x # Refused
    BY <2>1 DEF Refused
  <2> QED
    BY <1>4, <2>1, <2>2
<1>5. CASE ~t.wild /\ ~nums
  BY <1>3, <1>5 DEF ParsePortExpr
<1>6. CASE ~t.wild /\ nums
  <2>1. x = good
    BY <1>3, <1>6 DEF ParsePortExpr, Zero
  <2>2. good # Refused
    BY DEF Refused
  <2> QED
    BY <1>6, <2>1, <2>2
<1> QED
  BY <1>4, <1>5, <1>6

\* A part that is not blank is a port or a range.
LEMMA PartLength ==
    ASSUME NEW t \in Text, NEW part \in Range(t.parts), part # <<>>
    PROVE  Len(part) = 1 \/ Len(part) = 2
<1>1. part \in Seq(Nat) /\ Len(part) <= 2
  BY DEF Text, Range
<1>2. Len(part) \in Nat /\ Len(part) >= 1
  BY <1>1, TailFacts
<1>3. \A n \in Nat : n >= 1 /\ n <= 2 => n = 1 \/ n = 2
  OBVIOUS
<1> QED
  BY <1>1, <1>2, <1>3, Zenon

\* Hit(x, p): p is one of the ports of x, or in one of its ranges.
Hit(x, p) == p \in x.Ports \/ \E r \in x.Ranges : p >= r[1] /\ p <= r[2]

\* The ports and ranges collected from a text are those its parts name.
LEMMA Collected ==
    ASSUME NEW t \in Text, ParsePortExpr(t) # Refused
    PROVE  LET x == ParsePortExpr(t)
           IN  /\ \A p \in Nat : Hit(x, p) <=> Named(t, p)
               /\ x.Ports = {} /\ x.Ranges = {} <=> BlankText(t)
               /\ t.wild => x.Negate = FALSE
               /\ ~t.wild => x.Negate = t.neg
               /\ x = [Ports |-> x.Ports, Ranges |-> x.Ranges,
                       Negate |-> x.Negate, Wildcard |-> t.wild]
<1> DEFINE x == ParsePortExpr(t)
           P == {q[1] : q \in {r \in Range(t.parts) : Len(r) = 1}}
           R == {q \in Range(t.parts) : Len(q) = 2}
<1>0. t.wild \in BOOLEAN /\ t.neg \in BOOLEAN /\ \A part \in Range(t.parts) : part \in Seq(Nat)
  BY DEF Text, Range
<1>1. CASE t.wild
  <2>1. x = [Ports |-> {}, Ranges |-> {}, Negate |-> FALSE, Wildcard |-> TRUE]
    BY <1>1, ParsedText
  <2> HIDE DEF x
  <2>2. x.Ports = {} /\ x.Ranges = {} /\ x.Negate = FALSE
    BY <2>1
  <2>3. \A p \in Nat : ~Hit(x, p) /\ ~Named(t, p)
    BY <1>1, <2>2 DEF Hit, Named
  <2>4. BlankText(t)
    BY <1>1 DEF BlankText
  <2>5. x = [Ports |-> x.Ports, Ranges |-> x.Ranges, Negate |-> x.Negate, Wildcard |-> t.wild]
    BY <1>0, <1>1, <2>1
  <2> QED
    BY <1>1, <2>2, <2>3, <2>4, <2>5 DEF x
<1>2. CASE ~t.wild
  <2>1. x = [Ports |-> P, Ranges |-> R, Negate |-> t.neg, Wildcard |-> FALSE]
    BY <1>2, ParsedText
  <2> HIDE DEF x
  <2>2. x.Ports = P /\ x.Ranges = R /\ x.Negate = t.neg
    BY <2>1
  <2>3. ASSUME NEW p \in Nat PROVE Hit(x, p) <=> Named(t, p)
    <3>1. \A part \in Range(t.parts) : part = <<p>> <=> Len(part) = 1 /\ part[1] = p
      BY <1>0
    <3>2. \A part \in Range(t.parts) :
            Len(part) = 2 => (p \in part[1] .. part[2] <=> p >= part[1] /\ p <= part[2])
      BY <1>0
    <3> QED
      BY <1>2, <2>2, <3>1, <3>2 DEF Hit, Named
  <2>4. P = {} /\ R = {} <=> BlankText(t)
    <3>1. ASSUME NEW part \in Range(t.parts), part # <<>> PROVE P # {} \/ R # {}
      <4>1. Len(part) = 1 \/ Len(part) = 2
        BY <3>1, PartLength
      <4> QED
        BY <4>1
    <3>2. ASSUME \A part \in Range(t.parts) : part = <<>> PROVE P = {} /\ R = {}
      <4>1. \A part \in Range(t.parts) : Len(part) = 0
        BY <3>2
      <4> QED
        BY <4>1
    <3> QED
      BY <1>2, <3>1, <3>2 DEF BlankText
  <2>5. x = [Ports |-> x.Ports, Ranges |-> x.Ranges, Negate |-> x.Negate, Wildcard |-> t.wild]
    BY <1>0, <1>2, <2>1
  <2> HIDE DEF P, R
  <2> QED
    BY <1>2, <2>2, <2>3, <2>4, <2>5 DEF x
<1> QED
  BY <1>1, <1>2

\* An expression that is not zero, applied to an event with a port.
LEMMA MatchMeans ==
    ASSUME NEW x, x # Zero, NEW p, p # 0, x.Negate \in BOOLEAN
    PROVE  PortPasses(x, p) <=> (Hit(x, p) <=> ~x.Negate)
<1>1. PortPasses(x, p) <=> (Hit(x, p) # x.Negate)
  BY DEF PortPasses, IsZero, Match, Hit
<1>2. Hit(x, p) \in BOOLEAN
  BY DEF Hit
<1>3. (Hit(x, p) # x.Negate) <=> (Hit(x, p) <=> ~x.Negate)
  BY <1>2
<1> QED
  BY <1>1, <1>3

\* What a YAML node becomes (portexpr.go), for every node, lists and wildcards
\* included: it is refused for a number that is no port and for nothing else,
\* and if it is not, it lets through exactly the ports that LetsThrough gives it.
THEOREM PortsMeanWhatIsWritten ==
    ASSUME NEW node \in Node
    PROVE  /\ UnmarshalYAML(node) = Refused <=> ~WellFormed(node)
           /\ UnmarshalYAML(node) # Refused => AsWritten(node, UnmarshalYAML(node))
<1> USE PortAssumption
<1> DEFINE x == UnmarshalYAML(node)
           Nums(t) == \A part \in Range(t.parts) : \A i \in DOMAIN part : part[i] <= MaxPort
<1>1. CASE node \in [kind : {"scalar"}, text : Text]
  <2> DEFINE t == node.text
  <2>1. node.kind = "scalar" /\ t \in Text /\ TextsOf(node) = {t}
    BY <1>1 DEF TextsOf
  <2>2. x = ParsePortExpr(t)
    BY <2>1 DEF UnmarshalYAML
  <2>3. WellFormed(node) <=> t.wild \/ Nums(t)
    BY <2>1 DEF WellFormed
  <2>4. x = Refused <=> ~WellFormed(node)
    BY <2>1, <2>2, <2>3, ParsedText
  <2>5. ASSUME x # Refused, NEW p \in 1..MaxPort PROVE PortPasses(x, p) <=> LetsThrough(node, p)
    <3>1. /\ Hit(x, p) <=> Named(t, p)
          /\ x.Ports = {} /\ x.Ranges = {} <=> BlankText(t)
          /\ t.wild => x.Negate = FALSE
          /\ ~t.wild => x.Negate = t.neg
          /\ x = [Ports |-> x.Ports, Ranges |-> x.Ranges, Negate |-> x.Negate, Wildcard |-> t.wild]
      <4>1. p \in Nat
        OBVIOUS
      <4> HIDE DEF x, t
      <4> QED
        BY <2>1, <2>2, <2>5, <4>1, Collected
    <3>2. t.wild \in BOOLEAN /\ t.neg \in BOOLEAN /\ x.Negate \in BOOLEAN /\ p # 0
      <4>1. t.wild \in BOOLEAN /\ t.neg \in BOOLEAN
        BY <2>1 DEF Text
      <4>2. p # 0
        OBVIOUS
      <4> HIDE DEF x
      <4> QED
        BY <3>1, <4>1, <4>2
    <3>3. LetsThrough(node, p) <=> ~t.wild /\ (BlankText(t) \/ t.neg # Named(t, p))
      BY <2>1 DEF LetsThrough
    <3>4. Named(t, p) \in BOOLEAN /\ (Named(t, p) => ~BlankText(t))
      <4>1. Named(t, p) \in BOOLEAN
        BY DEF Named
      <4>2. ASSUME Named(t, p), BlankText(t) PROVE FALSE
        <5>1. PICK part \in Range(t.parts) : part = <<p>> \/ Len(part) = 2
          BY <4>2 DEF Named
        <5>2. part = <<>>
          BY <4>2 DEF Named, BlankText
        <5> QED
          BY <5>1, <5>2
      <4> QED
        BY <4>1, <4>2
    <3> HIDE DEF x, t
    <3>5. CASE x = Zero
      <4>1. x.Ports = {} /\ x.Ranges = {} /\ x.Wildcard = FALSE
        BY <3>5 DEF Zero
      <4>2. x.Wildcard = t.wild
        BY <3>1
      <4> QED
        BY <3>1, <3>3, <3>5, <4>1, <4>2 DEF PortPasses, IsZero
    <3>6. CASE x # Zero
      <4>1. PortPasses(x, p) <=> (Named(t, p) <=> ~x.Negate)
        BY <3>1, <3>2, <3>6, MatchMeans
      <4>2. CASE t.wild
        <5>1. ~Named(t, p)
          BY <4>2 DEF Named
        <5> QED
          BY <3>1, <3>3, <4>1, <4>2, <5>1
      <4>3. CASE ~t.wild
        <5>1. BlankText(t) => t.neg
          <6>1. ASSUME BlankText(t), ~t.neg PROVE FALSE
            <7>1. x.Ports = {} /\ x.Ranges = {} /\ x.Negate = FALSE
              BY <3>1, <3>2, <4>3, <6>1
            <7>2. t.wild = FALSE
              BY <3>2, <4>3
            <7> QED
              BY <3>1, <3>6, <7>1, <7>2 DEF Zero
          <6> QED
            BY <6>1
        <5>2. PortPasses(x, p) <=> (Named(t, p) <=> ~t.neg)
          BY <3>1, <4>1, <4>3
        <5>3. LetsThrough(node, p) <=> BlankText(t) \/ (Named(t, p) <=> ~t.neg)
          BY <3>2, <3>3, <3>4, <4>3
        <5> QED
          BY <3>4, <5>1, <5>2, <5>3
      <4> QED
        BY <4>2, <4>3
    <3> QED
      BY <3>5, <3>6
  <2> QED
    BY <2>4, <2>5 DEF AsWritten
<1>2. CASE node \in [kind : {"list"}, items : Seq(Text)]
  <2> DEFINE items == Range(node.items)
             parsed == {ParsePortExpr(t) : t \in items}
  <2>1. /\ node.kind = "list" /\ TextsOf(node) = items
        /\ \A t \in items : t \in Text
    BY <1>2 DEF TextsOf, Range
  <2>2. x = IF Refused \in parsed THEN Refused
            ELSE [Zero EXCEPT !.Ports = UNION {y.Ports : y \in parsed},
                              !.Ranges = UNION {y.Ranges : y \in parsed}]
    BY <2>1 DEF UnmarshalYAML
  <2>3. WellFormed(node) <=> \A t \in items : t.wild \/ Nums(t)
    BY <2>1 DEF WellFormed
  <2>4. Refused \in parsed <=> ~WellFormed(node)
    BY <2>1, <2>3, ParsedText
  <2>5. ASSUME Refused \notin parsed
        PROVE  /\ x = [Ports |-> UNION {y.Ports : y \in parsed},
                       Ranges |-> UNION {y.Ranges : y \in parsed},
                       Negate |-> FALSE, Wildcard |-> FALSE]
               /\ x # Refused
    BY <2>2, <2>5 DEF Zero, Refused
  <2>6. x = Refused <=> ~WellFormed(node)
    BY <2>2, <2>4, <2>5
  <2>7. ASSUME x # Refused, NEW p \in 1..MaxPort PROVE PortPasses(x, p) <=> LetsThrough(node, p)
    <3>1. x = [Ports |-> UNION {y.Ports : y \in parsed}, Ranges |-> UNION {y.Ranges : y \in parsed},
               Negate |-> FALSE, Wildcard |-> FALSE]
      BY <2>4, <2>5, <2>6, <2>7
    <3>2. /\ x.Ports = UNION {y.Ports : y \in parsed} /\ x.Ranges = UNION {y.Ranges : y \in parsed}
          /\ x.Negate = FALSE
      BY <3>1
    <3>3. \A t \in items : /\ Hit(ParsePortExpr(t), p) <=> Named(t, p)
                           /\ ParsePortExpr(t).Ports = {} /\ ParsePortExpr(t).Ranges = {} <=> BlankText(t)
      <4>1. \A t \in items : ParsePortExpr(t) # Refused
        BY <2>4, <2>6, <2>7
      <4>2. p \in Nat
        OBVIOUS
      <4> QED
        BY <2>1, <4>1, <4>2, Collected
    <3> HIDE DEF x
    <3>4. Hit(x, p) <=> \E t \in items : Named(t, p)
      <4>1. Hit(x, p) <=> \E t \in items : Hit(ParsePortExpr(t), p)
        BY <3>2 DEF Hit
      <4> QED
        BY <3>3, <4>1
    <3>5. x = Zero <=> \A t \in items : BlankText(t)
      <4>1. x.Ports = {} /\ x.Ranges = {}
              <=> \A t \in items : ParsePortExpr(t).Ports = {} /\ ParsePortExpr(t).Ranges = {}
        BY <3>2
      <4>2. x = Zero <=> x.Ports = {} /\ x.Ranges = {}
        BY <3>1 DEF Zero
      <4> QED
        BY <3>3, <4>1, <4>2
    <3>6. LetsThrough(node, p) <=> x = Zero \/ Hit(x, p)
      BY <2>1, <3>4, <3>5 DEF LetsThrough
    <3>7. CASE x = Zero
      BY <3>6, <3>7 DEF PortPasses, IsZero
    <3>8. CASE x # Zero
      <4>1. p # 0
        OBVIOUS
      <4>2. x.Negate \in BOOLEAN
        BY <3>2
      <4> QED
        BY <3>2, <3>6, <3>8, <4>1, <4>2, MatchMeans
    <3> QED
      BY <3>7, <3>8
  <2> QED
    BY <2>6, <2>7 DEF AsWritten
<1>3. CASE node \in [kind : {"mapping"}]
  <2>1. node.kind = "mapping"
    BY <1>3
  <2> QED
    BY <2>1 DEF UnmarshalYAML, WellFormed
<1> QED
  BY <1>1, <1>2, <1>3 DEF Node

-----------------------------------------------------------------------------
(* What is loaded.                                                         *)

\* What may be written in one file.
FileRules == UNION {{c[e] : e \in DOMAIN c} : c \in Contents}

\* The blocks of the rule that is read are those of the file, read.
LEMMA BlocksRead ==
    ASSUME NEW r \in FileRules
    PROVE  BlocksOf(Unmarshal(r)) = {UnmarshalBlock(b) : b \in BlocksOf(r)}
<1> DEFINE u == Unmarshal(r)
<1>1. /\ u.match = IF r.match = Unset THEN Unset ELSE UnmarshalBlock(r.match)
      /\ u.any = [i \in DOMAIN r.any |-> UnmarshalBlock(r.any[i])]
      /\ u.all = [i \in DOMAIN r.all |-> UnmarshalBlock(r.all[i])]
      /\ u.steps = [i \in DOMAIN r.steps |-> UnmarshalBlock(r.steps[i])]
  BY DEF Unmarshal
<1>2. r.match # Unset => UnmarshalBlock(r.match) # Unset
  BY RuleFilesAssumption DEF FileRules
<1> HIDE DEF u
<1>3. /\ Range(u.any) = {UnmarshalBlock(b) : b \in Range(r.any)}
      /\ Range(u.all) = {UnmarshalBlock(b) : b \in Range(r.all)}
      /\ Range(u.steps) = {UnmarshalBlock(b) : b \in Range(r.steps)}
  BY <1>1 DEF Range
<1>4. (IF u.match = Unset THEN {} ELSE {u.match})
        = {UnmarshalBlock(b) : b \in IF r.match = Unset THEN {} ELSE {r.match}}
  BY <1>1, <1>2
<1> QED
  BY <1>3, <1>4 DEF BlocksOf, MatchBlocks, u

\* The ports of a block of a file.
LEMMA PortsRead ==
    ASSUME NEW r \in FileRules, NEW b \in BlocksOf(r), NEW i \in DOMAIN b, NEW f \in PortFields
    PROVE  /\ b[i][f] \in Node \cup {Unset}
           /\ i \in DOMAIN UnmarshalBlock(b)
           /\ UnmarshalBlock(b)[i][f] = IF b[i][f] = Unset THEN Zero ELSE UnmarshalYAML(b[i][f])
<1>1. f \in DOMAIN b[i] /\ b[i][f] \in Node \cup {Unset}
  BY RuleFilesAssumption DEF FileRules
<1> QED
  BY <1>1 DEF UnmarshalBlock

\* A block in which no port was refused is as it was written.
LEMMA BlockRead ==
    ASSUME NEW r \in FileRules, ~Malformed(Unmarshal(r)), NEW b \in BlocksOf(r)
    PROVE  BlockAsWritten(b, UnmarshalBlock(b))
<1> SUFFICES ASSUME NEW i \in DOMAIN b, NEW f \in PortFields
             PROVE  IF b[i][f] = Unset THEN \A p \in Port : PortPasses(UnmarshalBlock(b)[i][f], p)
                    ELSE AsWritten(b[i][f], UnmarshalBlock(b)[i][f])
  BY DEF BlockAsWritten
<1>1. UnmarshalBlock(b) \in BlocksOf(Unmarshal(r))
  BY BlocksRead
<1>2. UnmarshalBlock(b)[i][f] # Refused
  BY <1>1, PortsRead DEF Malformed
<1>3. CASE b[i][f] = Unset
  BY <1>3, PortsRead DEF PortPasses, IsZero
<1>4. CASE b[i][f] # Unset
  <2>1. b[i][f] \in Node /\ UnmarshalBlock(b)[i][f] = UnmarshalYAML(b[i][f])
    BY <1>4, PortsRead
  <2> QED
    BY <1>2, <1>4, <2>1, PortsMeanWhatIsWritten
<1> QED
  BY <1>3, <1>4

\* A rule in which no port was refused is as it was written.
LEMMA RuleRead ==
    ASSUME NEW r \in FileRules, ~Malformed(Unmarshal(r))
    PROVE  RuleAsWritten(r, Unmarshal(r))
<1>1. r.match # Unset => r.match \in BlocksOf(r) /\ Unmarshal(r).match = UnmarshalBlock(r.match)
  BY DEF BlocksOf, MatchBlocks, Unmarshal
<1>2. \A i \in DOMAIN r.any : r.any[i] \in BlocksOf(r) /\ Unmarshal(r).any[i] = UnmarshalBlock(r.any[i])
  BY DEF BlocksOf, MatchBlocks, Unmarshal, Range
<1>3. \A i \in DOMAIN r.all : r.all[i] \in BlocksOf(r) /\ Unmarshal(r).all[i] = UnmarshalBlock(r.all[i])
  BY DEF BlocksOf, MatchBlocks, Unmarshal, Range
<1>4. \A i \in DOMAIN r.steps : r.steps[i] \in BlocksOf(r) /\ Unmarshal(r).steps[i] = UnmarshalBlock(r.steps[i])
  BY DEF BlocksOf, MatchBlocks, Unmarshal, Range
<1> QED
  BY <1>1, <1>2, <1>3, <1>4, BlockRead DEF RuleAsWritten

\* A rule is refused for a port expression that is not well formed.
LEMMA RuleRefused ==
    ASSUME NEW r \in FileRules, Malformed(Unmarshal(r))
    PROVE  HasBadPort(r)
<1>1. PICK u \in BlocksOf(Unmarshal(r)) : \E i \in DOMAIN u : \E f \in PortFields : u[i][f] = Refused
  BY DEF Malformed
<1>2. PICK b \in BlocksOf(r) : u = UnmarshalBlock(b)
  BY <1>1, BlocksRead
<1>3. PICK i \in DOMAIN u, f \in PortFields : u[i][f] = Refused
  BY <1>1
<1>4. i \in DOMAIN b
  BY <1>2, <1>3 DEF UnmarshalBlock
<1>5. Zero # Refused
  BY DEF Zero, Refused
<1>6. b[i][f] # Unset /\ b[i][f] \in Node /\ UnmarshalYAML(b[i][f]) = Refused
  BY <1>2, <1>3, <1>4, <1>5, PortsRead
<1>7. ~WellFormed(b[i][f])
  BY <1>6, PortsMeanWhatIsWritten
<1> QED
  BY <1>4, <1>6, <1>7 DEF HasBadPort

\* The variables have their types; every rule is that of its file, and no port
\* of it was refused; the process exits at a file that fails.
LoadedInv ==
    /\ content \in Contents
    /\ todo \in Seq(Entries)
    /\ from \in Seq(RuleEntries)
    /\ rules = [k \in DOMAIN from |-> Unmarshal(content[from[k]])]
    /\ \A k \in DOMAIN from : ~Malformed(Unmarshal(content[from[k]]))
    /\ proc = "exited" => todo # <<>> /\ Head(todo) \in RuleEntries /\ Fails(Head(todo))

\* Listing a directory, whole or in part, gives some of its entries, once each.
LEMMA PartsFacts ==
    ASSUME NEW S, NEW s \in Seq(S), IsInjective(s), NEW t \in Parts(s)
    PROVE  t \in Seq(S) /\ IsInjective(t) /\ Range(t) \subseteq Range(s)
<1>0. PICK n \in 0..Len(s) :
        t \in {[i \in 1..n |-> s[at[i]]] :
                 at \in {f \in [1..n -> DOMAIN s] : \A i, j \in 1..n : i < j => f[i] < f[j]}}
  BY DEF Parts
<1>1. PICK at \in [1..n -> DOMAIN s] :
        /\ \A i, j \in 1..n : i < j => at[i] < at[j]
        /\ t = [i \in 1..n |-> s[at[i]]]
  BY <1>0
<1>2. DOMAIN s = 1..Len(s) /\ Len(s) \in Nat /\ n \in Nat
  OBVIOUS
<1>3. t \in [1..n -> S]
  BY <1>1
<1>4. t \in Seq(S)
  BY <1>2, <1>3
<1>5. Range(t) \subseteq Range(s)
  BY <1>1 DEF Range
<1>6. ASSUME NEW i \in DOMAIN t, NEW j \in DOMAIN t, t[i] = t[j], i # j PROVE FALSE
  <2>1. i \in 1..n /\ j \in 1..n /\ s[at[i]] = s[at[j]]
    BY <1>1, <1>6
  <2>2. at[i] = at[j]
    BY <1>1, <2>1 DEF IsInjective
  <2>3. i < j \/ j < i
    BY <1>6, <2>1
  <2>4. at[i] \in Nat /\ at[j] \in Nat
    BY <1>1, <1>2, <2>1
  <2> QED
    BY <1>1, <2>1, <2>2, <2>3, <2>4
<1> QED
  BY <1>4, <1>5, <1>6 DEF IsInjective

\* Whatever is written in a file is one of FileRules.
LEMMA FileRule ==
    ASSUME content \in Contents, NEW e \in RuleEntries
    PROVE  content[e] \in FileRules
<1>1. e \in DOMAIN content
  BY RuleFilesAssumption DEF RuleEntries
<1>2. content[e] \in {content[x] : x \in DOMAIN content}
  BY <1>1
<1> QED
  BY <1>2, Zenon DEF FileRules

\* A directory at the head of the list is replaced by entries of it.
LEMMA DirListed ==
    ASSUME LoadedInv, VisitDir \/ VisitDirFails
    PROVE  \E listed \in Seq(Entries) :
             /\ todo # <<>> /\ Head(todo) \in Entries /\ Kind[Head(todo)] = "dir"
             /\ todo' = listed \o Tail(todo)
             /\ IsInjective(listed)
             /\ Range(listed) \subseteq Range(Children[Head(todo)])
             /\ Head(todo) \notin broken => Range(listed) = Range(Children[Head(todo)])
             /\ UNCHANGED <<disk, rules, from, proc>>
             /\ proc = "loading"
<1> USE RuleFilesAssumption
<1>1. /\ todo \in Seq(Entries) /\ todo # <<>> /\ Kind[Head(todo)] = "dir" /\ proc = "loading"
      /\ UNCHANGED <<disk, rules, from, proc>>
  BY DEF LoadedInv, VisitDir, VisitDirFails, Visiting
<1>2. Head(todo) \in Entries
  BY <1>1, TailFacts
<1>3. Children[Head(todo)] \in Seq(Entries) /\ IsInjective(Children[Head(todo)])
  BY <1>2
<1>4. CASE VisitDir
  BY <1>1, <1>2, <1>3, <1>4 DEF VisitDir
<1>5. CASE VisitDirFails
  <2>1. PICK listed \in Parts(Children[Head(todo)]) : todo' = listed \o Tail(todo)
    BY <1>5 DEF VisitDirFails
  <2>2. /\ listed \in Seq(Entries) /\ IsInjective(listed)
        /\ Range(listed) \subseteq Range(Children[Head(todo)])
    BY <1>3, PartsFacts
  <2>3. Head(todo) \in broken
    BY <1>5 DEF VisitDirFails
  <2> QED
    BY <1>1, <1>2, <2>1, <2>2, <2>3
<1> QED
  BY <1>4, <1>5

\* Before the walk no rule is loaded.
LEMMA LoadedInit == Init => LoadedInv
<1> SUFFICES ASSUME Init PROVE LoadedInv
  OBVIOUS
<1>1. content \in Contents /\ todo \in Seq(Entries) /\ from \in Seq(RuleEntries)
  BY RuleFilesAssumption DEF Init
<1>2. DOMAIN from = {} /\ rules = [k \in DOMAIN from |-> Unmarshal(content[from[k]])]
  BY DEF Init
<1> QED
  BY <1>1, <1>2 DEF Init, LoadedInv

\* Each step of the walk loads a rule as Unmarshal reads it, or none.
LEMMA LoadedStep == LoadedInv /\ [Next]_vars => LoadedInv'
<1> SUFFICES ASSUME LoadedInv, [Next]_vars PROVE LoadedInv'
  OBVIOUS
<1> USE RuleFilesAssumption
<1>1. CASE RootMissing \/ Loaded \/ UNCHANGED vars
  BY <1>1 DEF RootMissing, Loaded, vars, disk, LoadedInv, Fails
<1>2. CASE VisitDir \/ VisitDirFails
  <2>1. PICK listed \in Seq(Entries) :
             /\ todo # <<>> /\ todo' = listed \o Tail(todo)
             /\ UNCHANGED <<disk, rules, from, proc>> /\ proc = "loading"
    BY <1>2, DirListed
  <2>2. todo' \in Seq(Entries)
    BY <2>1 DEF LoadedInv
  <2> QED
    BY <2>1, <2>2 DEF LoadedInv, disk
<1>3. CASE VisitRule
  <2> DEFINE f == Head(todo)
  <2>1. /\ todo \in Seq(Entries) /\ todo # <<>> /\ Kind[f] = "rule" /\ proc = "loading"
        /\ ~Fails(f) /\ content' = content /\ proc' = proc /\ todo' = Tail(todo)
        /\ from' = Append(from, f) /\ rules' = Append(rules, Unmarshal(content[f]))
    BY <1>3 DEF VisitRule, Visiting, disk, LoadedInv
  <2>2. f \in RuleEntries /\ todo' \in Seq(Entries)
    BY <2>1, TailFacts DEF RuleEntries
  <2>3. from' \in Seq(RuleEntries) /\ ~Malformed(Unmarshal(content[f]))
    BY <2>1, <2>2, AppendFacts DEF LoadedInv, Fails
  <2> HIDE DEF f
  <2> DEFINE n == Len(from)
  <2>4. /\ n \in Nat /\ DOMAIN from = 1..n /\ DOMAIN from' = 1..(n + 1)
        /\ \A k \in 1..n : from'[k] = from[k]
        /\ from'[n + 1] = f
    BY <2>1, <2>2, AppendFacts DEF LoadedInv
  <2>5. rules' = [k \in DOMAIN from' |-> Unmarshal(content'[from'[k]])]
    <3>1. rules = [k \in 1..n |-> Unmarshal(content[from[k]])]
      BY <2>4 DEF LoadedInv
    <3> DEFINE read == {Unmarshal(content[e]) : e \in RuleEntries}
    <3>2. rules \in [1..n -> read]
      BY <2>4, <3>1 DEF LoadedInv
    <3>3. n \in Nat /\ Unmarshal(content[f]) \in read
      BY <2>2, <2>4
    <3> HIDE DEF read, n
    <3>4. rules \in Seq(read) /\ Len(rules) = n
      BY ONLY <3>2, <3>3
    <3>5. /\ rules' \in Seq(read) /\ DOMAIN rules' = 1..(n + 1)
          /\ \A k \in 1..n : rules'[k] = rules[k]
          /\ rules'[n + 1] = Unmarshal(content[f])
      BY <2>1, <2>4, <3>3, <3>4, AppendFacts
    <3>6. ASSUME NEW k \in 1..(n + 1) PROVE rules'[k] = Unmarshal(content[from'[k]])
      <4>1. CASE k \in 1..n
        BY <2>4, <3>1, <3>5, <4>1
      <4>2. CASE k \notin 1..n
        <5>1. k = n + 1
          BY <2>4, <4>2
        <5> QED
          BY <2>4, <3>5, <5>1
      <4> QED
        BY <4>1, <4>2
    <3>7. rules' = [k \in 1..(n + 1) |-> rules'[k]]
      BY <3>5
    <3> QED
      BY <2>1, <2>4, <3>6, <3>7
  <2>6. ASSUME NEW k \in DOMAIN from' PROVE ~Malformed(Unmarshal(content'[from'[k]]))
    <3>1. CASE k \in 1..n
      BY <2>1, <2>4, <3>1 DEF LoadedInv
    <3>2. CASE k \notin 1..n
      <4>1. k = n + 1
        BY <2>4, <3>2
      <4> QED
        BY <2>1, <2>3, <2>4, <4>1
    <3> QED
      BY <3>1, <3>2
  <2> QED
    BY <2>1, <2>2, <2>3, <2>5, <2>6 DEF LoadedInv
<1>4. CASE VisitRuleFails
  <2>1. /\ todo \in Seq(Entries) /\ todo # <<>> /\ Kind[Head(todo)] = "rule" /\ Fails(Head(todo))
        /\ UNCHANGED <<disk, todo, rules, from>>
    BY <1>4 DEF VisitRuleFails, Visiting, LoadedInv
  <2>2. Head(todo) \in RuleEntries
    BY <2>1, TailFacts DEF RuleEntries
  <2> QED
    BY <2>1, <2>2 DEF LoadedInv, disk, Fails
<1>5. CASE VisitOther
  <2>1. /\ todo \in Seq(Entries) /\ todo # <<>> /\ todo' = Tail(todo) /\ proc = "loading"
        /\ UNCHANGED <<disk, rules, from, proc>>
    BY <1>5 DEF VisitOther, Visiting, LoadedInv
  <2>2. todo' \in Seq(Entries)
    BY <2>1, TailFacts
  <2> QED
    BY <2>1, <2>2 DEF LoadedInv, disk
<1> QED
  BY <1>1, <1>2, <1>3, <1>4, <1>5 DEF Next

\* A rule that is loaded lets exactly the ports through that LetsThrough gives
\* the nodes of its file, in every block and every step of it: those the file
\* names, but none for a lone "*".  The monitor refuses to start only for a
\* file that cannot be read or names what is no port (LoadRules, UnmarshalYAML).
THEOREM LoadedRulesMeanWhatIsWritten == Spec => []PortMeaning
<1>1. LoadedInv => PortMeaning
  <2> SUFFICES ASSUME LoadedInv PROVE PortMeaning
    OBVIOUS
  <2>1. ASSUME NEW k \in DOMAIN rules PROVE RuleAsWritten(content[from[k]], rules[k])
    <3>1. k \in DOMAIN from /\ rules[k] = Unmarshal(content[from[k]])
      BY DEF LoadedInv
    <3>2. content[from[k]] \in FileRules
      <4>1. from[k] \in RuleEntries
        BY <3>1 DEF LoadedInv
      <4> QED
        BY <4>1, FileRule DEF LoadedInv
    <3>3. ~Malformed(Unmarshal(content[from[k]]))
      BY <3>1 DEF LoadedInv
    <3> QED
      BY <3>1, <3>2, <3>3, RuleRead
  <2>2. ASSUME proc = "exited" PROVE Head(todo) \in broken \/ HasBadPort(content[Head(todo)])
    <3>1. content[Head(todo)] \in FileRules
      BY <2>2, FileRule DEF LoadedInv
    <3> QED
      BY <2>2, <3>1, RuleRefused DEF LoadedInv, Fails
  <2> QED
    BY <2>1, <2>2 DEF PortMeaning
<1> QED
  BY <1>1, LoadedInit, LoadedStep, PTL DEF Spec

-----------------------------------------------------------------------------
(* The walk.                                                               *)

\* V are the entries the walk has come upon: those it still has to visit, and
\* those it has visited.  It came upon each, but the root, in a directory it
\* visited, and has each once.
Walked(V, Q, F, B) ==
    /\ Root \in V
    /\ Range(Q) \subseteq V
    /\ IsInjective(Q)
    /\ \A d \in V \ Range(Q) :
          /\ Kind[d] = "dir" /\ d \notin B => Range(Children[d]) \subseteq V
          /\ Kind[d] = "rule" => d \in Range(F)
    /\ \A c \in V : c = Root \/ \E d \in V \ Range(Q) : c \in Range(Children[d])
    /\ Range(F) \subseteq V \ Range(Q)
    /\ IsInjective(F)

WalkInv == \E V \in SUBSET Entries : Walked(V, todo, from, broken)

\* A directory is visited.
LEMMA WalkedDir ==
    ASSUME NEW V \in SUBSET Entries, NEW Q \in Seq(Entries), Q # <<>>, NEW F, NEW B,
           Walked(V, Q, F, B), Kind[Head(Q)] = "dir",
           NEW listed \in Seq(Entries), IsInjective(listed),
           Range(listed) \subseteq Range(Children[Head(Q)]),
           Head(Q) \notin B => Range(listed) = Range(Children[Head(Q)])
    PROVE  Walked(V \cup Range(listed), listed \o Tail(Q), F, B)
<1> USE RuleFilesAssumption
<1> DEFINE h == Head(Q)
           T == Tail(Q)
           W == V \cup Range(listed)
<1>1. /\ h \in Entries /\ T \in Seq(Entries) /\ Range(Q) = {h} \cup Range(T)
      /\ IsInjective(T) /\ h \notin Range(T)
  BY TailFacts, RangeHeadTail, InjectiveTail DEF Walked
<1>2. Range(listed) \cap V = {}
  <2> SUFFICES ASSUME NEW c \in Range(listed), c \in V PROVE FALSE
    OBVIOUS
  <2>1. c \in Range(Children[h]) /\ c # Root
    BY <1>1
  <2>2. PICK d \in V \ Range(Q) : c \in Range(Children[d])
    BY <2>1 DEF Walked
  <2>3. d # h /\ d \in Entries
    BY <1>1, <2>2
  <2> QED
    BY <1>1, <2>1, <2>2, <2>3
<1> HIDE DEF h, T
<1>3. Range(listed \o T) = Range(listed) \cup Range(T)
  BY <1>1, RangeConcat
<1>4. IsInjective(listed \o T)
  <2>1. Range(listed) \cap Range(T) = {}
    BY <1>1, <1>2 DEF Walked
  <2> QED
    BY <1>1, <2>1, InjectiveConcat
<1>5. W \ Range(listed \o T) = (V \ Range(Q)) \cup {h}
  BY <1>1, <1>2, <1>3 DEF Walked
<1>6. Kind[h] = "dir" /\ (h \notin B => Range(listed) = Range(Children[h]))
      /\ Range(listed) \subseteq Range(Children[h])
  BY DEF h
<1>7. Root \in W /\ Range(listed \o T) \subseteq W
  BY <1>1, <1>3 DEF Walked
<1>8. ASSUME NEW d \in W \ Range(listed \o T)
      PROVE  /\ Kind[d] = "dir" /\ d \notin B => Range(Children[d]) \subseteq W
             /\ Kind[d] = "rule" => d \in Range(F)
  BY <1>5, <1>6, <1>8 DEF Walked
<1>9. ASSUME NEW c \in W PROVE c = Root \/ \E d \in W \ Range(listed \o T) : c \in Range(Children[d])
  <2>1. CASE c \in V
    BY <1>5, <2>1 DEF Walked
  <2>2. CASE c \in Range(listed)
    BY <1>5, <1>6, <2>2
  <2> QED
    BY <2>1, <2>2
<1>10. Range(F) \subseteq W \ Range(listed \o T) /\ IsInjective(F)
  BY <1>5 DEF Walked
<1> QED
  BY <1>4, <1>7, <1>8, <1>9, <1>10 DEF Walked, T

\* A file is visited; a rule file is loaded.
LEMMA WalkedFile ==
    ASSUME NEW V \in SUBSET Entries, NEW Q \in Seq(Entries), Q # <<>>, NEW F \in Seq(Entries), NEW B,
           Walked(V, Q, F, B), Kind[Head(Q)] # "dir",
           NEW G \in {F, Append(F, Head(Q))}, Kind[Head(Q)] = "rule" => G = Append(F, Head(Q))
    PROVE  Walked(V, Tail(Q), G, B)
<1> DEFINE h == Head(Q)
           T == Tail(Q)
<1>1. /\ h \in Entries /\ T \in Seq(Entries) /\ Range(Q) = {h} \cup Range(T)
      /\ IsInjective(T) /\ h \notin Range(T)
  BY TailFacts, RangeHeadTail, InjectiveTail DEF Walked
<1>2. V \ Range(T) = (V \ Range(Q)) \cup {h}
  BY <1>1 DEF Walked
<1>3. h \notin Range(F)
  BY <1>1 DEF Walked
<1>4. Range(F) \subseteq Range(G) /\ Range(G) \subseteq Range(F) \cup {h} /\ IsInjective(G)
  <2>1. Range(Append(F, h)) = Range(F) \cup {h} /\ IsInjective(Append(F, h))
    BY <1>1, <1>3, RangeAppend, InjectiveAppend DEF Walked
  <2> QED
    BY <2>1 DEF Walked
<1>5. Kind[h] = "rule" => h \in Range(G)
  <2>1. Range(Append(F, h)) = Range(F) \cup {h}
    BY <1>1, RangeAppend
  <2> QED
    BY <2>1
<1>6. Kind[h] # "dir"
  OBVIOUS
<1> HIDE DEF h, T
<1>7. Root \in V /\ Range(T) \subseteq V
  BY <1>1 DEF Walked
<1>8. ASSUME NEW d \in V \ Range(T)
      PROVE  /\ Kind[d] = "dir" /\ d \notin B => Range(Children[d]) \subseteq V
             /\ Kind[d] = "rule" => d \in Range(G)
  BY <1>2, <1>4, <1>5, <1>6, <1>8 DEF Walked
<1>9. ASSUME NEW c \in V PROVE c = Root \/ \E d \in V \ Range(T) : c \in Range(Children[d])
  BY <1>2 DEF Walked
<1>10. Range(G) \subseteq V \ Range(T)
  BY <1>2, <1>4 DEF Walked
<1> QED
  BY <1>1, <1>4, <1>7, <1>8, <1>9, <1>10 DEF Walked, T

\* At first only the root is known, and it is still to be visited.
LEMMA WalkInit == Init => WalkInv
<1> SUFFICES ASSUME Init PROVE WalkInv
  OBVIOUS
<1>1. todo = <<Root>> /\ from = <<>> /\ {Root} \in SUBSET Entries
  BY RuleFilesAssumption DEF Init
<1>2. Range(todo) = {Root} /\ Range(from) = {} /\ IsInjective(todo) /\ IsInjective(from)
  BY <1>1 DEF Range, IsInjective
<1>3. Walked({Root}, todo, from, broken)
  BY <1>2 DEF Walked
<1> QED
  BY <1>1, <1>3 DEF WalkInv

\* Each visit moves one entry out of todo and puts what it holds in.
LEMMA WalkStep == LoadedInv /\ WalkInv /\ [Next]_vars => WalkInv'
<1> SUFFICES ASSUME LoadedInv, WalkInv, [Next]_vars PROVE WalkInv'
  OBVIOUS
<1>1. PICK V \in SUBSET Entries : Walked(V, todo, from, broken)
  BY DEF WalkInv
<1>2. todo \in Seq(Entries) /\ from \in Seq(Entries)
  BY DEF LoadedInv, RuleEntries
<1>3. CASE RootMissing \/ Loaded \/ VisitRuleFails \/ UNCHANGED vars
  <2>1. UNCHANGED <<todo, from, broken>>
    BY <1>3 DEF RootMissing, Loaded, VisitRuleFails, Visiting, vars, disk
  <2> QED
    BY <2>1 DEF WalkInv
<1>4. CASE VisitDir \/ VisitDirFails
  <2>1. PICK listed \in Seq(Entries) :
             /\ todo # <<>> /\ Kind[Head(todo)] = "dir"
             /\ todo' = listed \o Tail(todo)
             /\ IsInjective(listed)
             /\ Range(listed) \subseteq Range(Children[Head(todo)])
             /\ Head(todo) \notin broken => Range(listed) = Range(Children[Head(todo)])
             /\ from' = from /\ broken' = broken
    BY <1>4, DirListed DEF disk
  <2>2. Walked(V \cup Range(listed), todo', from', broken')
    BY <1>1, <1>2, <2>1, WalkedDir
  <2>3. V \cup Range(listed) \in SUBSET Entries
    BY RangeInSet
  <2> QED
    BY <2>2, <2>3 DEF WalkInv
<1>5. CASE VisitRule
  <2>1. /\ todo # <<>> /\ Kind[Head(todo)] = "rule" /\ todo' = Tail(todo)
        /\ from' = Append(from, Head(todo)) /\ broken' = broken
    BY <1>5 DEF VisitRule, Visiting, disk
  <2>2. Walked(V, todo', from', broken')
    BY <1>1, <1>2, <2>1, WalkedFile
  <2> QED
    BY <2>2 DEF WalkInv
<1>6. CASE VisitOther
  <2>1. /\ todo # <<>> /\ Kind[Head(todo)] = "other" /\ todo' = Tail(todo)
        /\ from' = from /\ broken' = broken
    BY <1>6 DEF VisitOther, Visiting, disk
  <2>2. Walked(V, todo', from', broken')
    BY <1>1, <1>2, <2>1, WalkedFile
  <2> QED
    BY <2>2 DEF WalkInv
<1> QED
  BY <1>3, <1>4, <1>5, <1>6 DEF Next

\* The monitor runs when there is nothing left to visit.
RunsAtEnd == proc = "running" => todo = <<>>

\* Nothing is put into todo once the monitor runs.
LEMMA RunsStep == RunsAtEnd /\ [Next]_vars => RunsAtEnd'
  BY DEF RunsAtEnd, Next, RootMissing, VisitDir, VisitDirFails, VisitRule, VisitRuleFails, VisitOther,
         Loaded, Visiting, vars

\* The monitor does not start with a part of its rules because a rule file is
\* broken (LoadRules), whatever the depth of the directories: every rule file
\* that no broken directory hides is loaded, once, or there is no monitor.
THEOREM NoRuleIsSkipped == Spec => []NoRuleLeftOut
<1>1. WalkInv /\ RunsAtEnd => NoRuleLeftOut
  <2> SUFFICES ASSUME WalkInv, RunsAtEnd, proc = "running" PROVE NoRuleLeftOut
    BY DEF NoRuleLeftOut
  <2>1. PICK V \in SUBSET Entries : Walked(V, todo, from, broken)
    BY DEF WalkInv
  <2>2. Range(todo) = {}
    BY DEF RunsAtEnd, Range
  <2>3. /\ Root \in V
        /\ \A d \in V : Kind[d] = "dir" /\ d \notin broken => Range(Children[d]) \subseteq V
    BY <2>1, <2>2 DEF Walked
  <2>4. Shown \subseteq V
    BY <2>3 DEF Shown
  <2>5. RuleEntries \cap Shown \subseteq Range(from)
    BY <2>1, <2>2, <2>4 DEF Walked, RuleEntries
  <2> QED
    BY <2>1, <2>5 DEF NoRuleLeftOut, Walked, IsInjective
<1>2. Init => RunsAtEnd
  BY DEF Init, RunsAtEnd
<1> QED
  BY <1>1, <1>2, LoadedInit, LoadedStep, WalkInit, WalkStep, RunsStep, PTL DEF Spec

-----------------------------------------------------------------------------
(* Events.                                                                 *)

\* What a block and its negations come to, when the negations cancel out: the
\* answer of the innermost block.
LEMMA BlockMeaning ==
    ASSUME NEW block, NEW e, Len(block) \in Nat \ {0}, Len(block) % 2 = 1
    PROVE  BlockMatches(block, e) <=> MatchFields(block[Len(block)], e)
<1> DEFINE n == Len(block)
           m == MatchFields(block[n], e)
           R(f) == [i \in 1..n |-> IF i = n THEN MatchFields(block[i], e) ELSE ~f[i + 1]]
           g == [i \in 1..n |-> IF (n - i) % 2 = 0 THEN m ELSE ~m]
           From == CHOOSE f : f = R(f)
<1>0. n \in Nat /\ n >= 1 /\ n % 2 = 1
  OBVIOUS
<1> HIDE DEF n, m
<1>1. ASSUME NEW i \in 1..n, i # n
      PROVE  i + 1 \in 1..n /\ ((n - (i + 1)) % 2 = 0 <=> ~((n - i) % 2 = 0))
  BY ONLY <1>0, <1>1
<1>2. g[n] = m
  <2>1. n \in 1..n /\ (n - n) % 2 = 0
    BY ONLY <1>0
  <2> QED
    BY ONLY <2>1
<1>3. ASSUME NEW i \in 1..n, i # n PROVE g[i] = ~g[i + 1]
  <2>1. g[i] = IF (n - i) % 2 = 0 THEN m ELSE ~m
    BY ONLY i \in 1..n
  <2>2. g[i + 1] = IF (n - (i + 1)) % 2 = 0 THEN m ELSE ~m
    BY ONLY <1>1, <1>3
  <2>3. m \in BOOLEAN
    BY ONLY DEF m, MatchFields
  <2>4. (n - (i + 1)) % 2 = 0 <=> ~((n - i) % 2 = 0)
    BY ONLY <1>1, <1>3
  <2> QED
    BY ONLY <2>1, <2>2, <2>3, <2>4, Zenon
<1>4. g = R(g)
  <2>1. ASSUME NEW i \in 1..n PROVE g[i] = IF i = n THEN MatchFields(block[i], e) ELSE ~g[i + 1]
    <3>1. CASE i = n
      BY ONLY <3>1, <1>2 DEF m
    <3>2. CASE i # n
      BY ONLY <3>2, <1>3
    <3> QED
      BY ONLY <3>1, <3>2
  <2>2. g = [i \in 1..n |-> g[i]]
    OBVIOUS
  <2> HIDE DEF g
  <2> QED
    BY ONLY <2>1, <2>2
<1>5. From = R(From)
  <2> HIDE DEF R, g
  <2> QED
    BY ONLY <1>4, Zenon
<1> HIDE DEF From, g
<1>6. ASSUME NEW i \in 1..n PROVE From[i] = IF i = n THEN MatchFields(block[i], e) ELSE ~From[i + 1]
  BY ONLY <1>5, i \in 1..n
<1>7. \A i \in 1..n : From[i] = g[i]
  <2> DEFINE bad == {k \in 0 .. n - 1 : From[n - k] # g[n - k]}
  <2>1. SUFFICES ASSUME bad # {} PROVE FALSE
    <3> SUFFICES ASSUME NEW i \in 1..n, From[i] # g[i] PROVE FALSE
      OBVIOUS
    <3>1. n - i \in 0 .. n - 1 /\ n - (n - i) = i
      BY ONLY <1>0, i \in 1..n
    <3>2. n - i \in bad
      BY ONLY <3>1, From[i] # g[i]
    <3> QED
      BY <3>2
  <2>2. bad \in SUBSET Nat
    BY ONLY <1>0
  <2>3. PICK k \in bad : \A l \in bad : k <= l
    <3> HIDE DEF bad
    <3> QED
      BY <2>1, <2>2, FirstExists, Zenon
  <2>4. k \in 0 .. n - 1 /\ From[n - k] # g[n - k]
    BY ONLY <2>3
  <2>5. CASE k = 0
    <3>1. n - k = n /\ n \in 1..n
      BY ONLY <1>0, <2>5
    <3>2. From[n] = m
      BY ONLY <1>6, <3>1 DEF m
    <3> QED
      BY ONLY <1>2, <2>4, <3>1, <3>2
  <2>6. CASE k # 0
    <3>1. /\ k - 1 \in 0 .. n - 1 /\ ~(k <= k - 1)
          /\ n - k \in 1..n /\ n - k # n /\ n - (k - 1) = (n - k) + 1
      BY ONLY <1>0, <2>4, <2>6
    <3>2. k - 1 \notin bad
      BY ONLY <2>3, <3>1
    <3>3. From[n - (k - 1)] = g[n - (k - 1)]
      BY ONLY <3>1, <3>2
    <3>4. From[n - k] = ~From[(n - k) + 1] /\ g[n - k] = ~g[(n - k) + 1]
      BY ONLY <1>3, <1>6, <3>1
    <3> QED
      BY ONLY <2>4, <3>1, <3>3, <3>4
  <2> QED
    BY ONLY <2>5, <2>6
<1>8. g[1] = m
  <2>1. 1 \in 1..n /\ (n - 1) % 2 = 0
    BY ONLY <1>0
  <2> QED
    BY ONLY <2>1 DEF g
<1>9. BlockMatches(block, e) = From[1]
  BY ONLY DEF BlockMatches, From, n
<1>10. 1 \in 1..n
  BY ONLY <1>0
<1> QED
  BY ONLY <1>7, <1>8, <1>9, <1>10 DEF m, n

\* To know less of a container can only let more events through a block.
LEMMA FieldsSurvive ==
    ASSUME NEW b, NEW e, DOMAIN e = EventFields, MatchFields(b, e)
    PROVE  MatchFields(b, [e EXCEPT !.dst_container = NoContainer])
<1> DEFINE d == [e EXCEPT !.dst_container = NoContainer]
<1>1. d.dst_container = NoContainer /\ \A f \in EventFields : f # "dst_container" => d[f] = e[f]
  BY DEF EventFields, ContainerFields
<1> HIDE DEF d
<1>2. d.event_type = e.event_type
  BY ONLY <1>1 DEF EventFields
<1>3. \A f \in TextFields : d[f] = e[f]
  BY ONLY <1>1 DEF EventFields, TextFields
<1>4. \A f \in PortFields : d[f] = e[f]
  BY ONLY <1>1 DEF EventFields, PortFields
<1>5. \A f \in ContainerFields : d[f] # NoContainer => d[f] = e[f]
  BY ONLY <1>1 DEF EventFields, ContainerFields
<1>6. MatchFields(b, d)
  BY ONLY <1>2, <1>3, <1>4, <1>5, MatchFields(b, e) DEF MatchFields
<1> QED
  BY ONLY <1>6 DEF d

\* The blocks of a rule are sequences.
Shaped(rule) == \A b \in BlocksOf(rule) : Len(b) \in Nat \ {0}

\* Nor does a rule without negation lose an event.
LEMMA RuleSurvives ==
    ASSUME NEW rule, Shaped(rule), Positive(rule), NEW e, DOMAIN e = EventFields, RuleMatches(rule, e)
    PROVE  RuleMatches(rule, [e EXCEPT !.dst_container = NoContainer])
<1> DEFINE d == [e EXCEPT !.dst_container = NoContainer]
<1>1. ASSUME NEW b \in MatchBlocks(rule), BlockMatches(b, e) PROVE BlockMatches(b, d)
  <2>1. Len(b) \in Nat \ {0} /\ Len(b) % 2 = 1
    BY ONLY Shaped(rule), Positive(rule), b \in MatchBlocks(rule) DEF Shaped, Positive, BlocksOf
  <2>2. MatchFields(b[Len(b)], e)
    BY ONLY <1>1, <2>1, BlockMeaning
  <2>3. MatchFields(b[Len(b)], d)
    BY ONLY <2>2, FieldsSurvive, DOMAIN e = EventFields
  <2> QED
    BY ONLY <2>1, <2>3, BlockMeaning
<1> HIDE DEF d
<1>2. rule.match # Unset => rule.match \in MatchBlocks(rule)
  BY ONLY DEF MatchBlocks
<1>3. /\ \A i \in DOMAIN rule.any : rule.any[i] \in MatchBlocks(rule)
      /\ \A i \in DOMAIN rule.all : rule.all[i] \in MatchBlocks(rule)
  BY ONLY DEF MatchBlocks, Range
<1>4. RuleMatches(rule, d)
  BY ONLY <1>1, <1>2, <1>3, RuleMatches(rule, e) DEF RuleMatches
<1> QED
  BY ONLY <1>4 DEF d

\* What is loaded is a sequence as it was in the file.
LEMMA LoadedShape == ASSUME LoadedInv, NEW k \in DOMAIN rules PROVE Shaped(rules[k])
<1>1. k \in DOMAIN from /\ rules[k] = Unmarshal(content[from[k]])
  BY DEF LoadedInv
<1>2. from[k] \in RuleEntries /\ content \in Contents
  BY <1>1 DEF LoadedInv
<1> DEFINE r == content[from[k]]
<1>3. r \in FileRules /\ from[k] \in DOMAIN content
  BY <1>2, FileRule, RuleFilesAssumption DEF RuleEntries
<1>4. \A b \in BlocksOf(r) : Len(b) \in Nat \ {0} /\ DOMAIN b = 1..Len(b)
  BY ONLY <1>2, <1>3, LoadedAssumption
<1> HIDE DEF r
<1>5. ASSUME NEW u \in BlocksOf(Unmarshal(r)) PROVE Len(u) \in Nat \ {0}
  <2>1. PICK b \in BlocksOf(r) : u = UnmarshalBlock(b)
    BY ONLY <1>3, <1>5, BlocksRead
  <2> DEFINE n == Len(b)
  <2>2. n \in Nat \ {0} /\ DOMAIN b = 1..n
    BY ONLY <1>4, <2>1
  <2> HIDE DEF n
  <2>3. DOMAIN u = 1..n
    BY ONLY <2>1, <2>2 DEF UnmarshalBlock
  <2>4. u = [i \in 1..n |-> u[i]]
    BY ONLY <2>1, <2>2 DEF UnmarshalBlock
  <2>5. Len(u) = n
    BY ONLY <2>2, <2>3, <2>4
  <2> QED
    BY ONLY <2>2, <2>5
<1> QED
  BY ONLY <1>1, <1>5 DEF Shaped, r

\* An event that comes does not disturb what was loaded.
LEMMA EventSpecLoads == EventSpec => Spec
<1>1. EventInit => Init
  BY DEF EventInit
<1>2. [EventNext]_<<vars, event>> => [Next]_vars
  BY DEF EventNext, Unknown
<1> QED
  BY <1>1, <1>2, PTL DEF EventSpec, Spec

\* A rule without negation that matches an event matches it as well when its
\* destination is not known, for every set of rules that can be loaded, however
\* often their blocks are negated, and for every event (MatchBlock.MatchEvent).
THEOREM IgnoranceLosesNoMatch == EventSpec => MatchSurvivesIgnorance
<1> DEFINE Inv == LoadedInv /\ DOMAIN event = EventFields
<1>1. EventInit => Inv
  BY LoadedInit, LoadedAssumption DEF EventInit
<1>2. Inv /\ [EventNext]_<<vars, event>> => Inv'
  <2> SUFFICES ASSUME Inv, [EventNext]_<<vars, event>> PROVE Inv'
    OBVIOUS
  <2>1. [Next]_vars
    BY DEF EventNext, Unknown
  <2>2. LoadedInv'
    BY <2>1, LoadedStep
  <2>3. DOMAIN event' = EventFields
    BY DEF EventNext, Unknown
  <2> QED
    BY <2>2, <2>3
<1>3. Inv /\ [EventNext]_<<vars, event>> =>
        [\A k \in DOMAIN rules : Positive(rules[k]) /\ RuleMatches(rules[k], event)
                                   => RuleMatches(rules[k], event')]_<<vars, event>>
  <2> SUFFICES ASSUME Inv, EventNext, NEW k \in DOMAIN rules,
                      Positive(rules[k]), RuleMatches(rules[k], event)
               PROVE  RuleMatches(rules[k], event')
    OBVIOUS
  <2>1. CASE UNCHANGED event
    BY ONLY <2>1, RuleMatches(rules[k], event)
  <2>2. CASE Unknown
    <3>1. event' = [event EXCEPT !.dst_container = NoContainer]
      BY ONLY <2>2 DEF Unknown
    <3>2. Shaped(rules[k])
      BY LoadedShape
    <3> QED
      BY ONLY <3>1, <3>2, RuleSurvives, Inv, Positive(rules[k]), RuleMatches(rules[k], event)
  <2> QED
    BY <2>1, <2>2 DEF EventNext
<1> QED
  BY <1>1, <1>2, <1>3, PTL DEF EventSpec, MatchSurvivesIgnorance
=============================================================================
