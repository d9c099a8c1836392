------------------------------ MODULE RuleMatch ------------------------------
(***************************************************************************)
(* Which events a rule matches: rule.go.                                   *)
(*                                                                         *)
(* A glob pattern is the set of the values it matches; a pattern that      *)
(* path.Match cannot parse matches nothing and is the empty set.  Unset is *)
(* the empty string of a rule file, a constraint that is not made.         *)
(*                                                                         *)
(* A block may be the Not of another one, which may have a Not again: a    *)
(* block is the sequence of the blocks on this way down, each the Not of   *)
(* the one before it.                                                      *)
(***************************************************************************)
EXTENDS PortExpr

CONSTANTS
    Unset,
    NoContainer     \* nil: the event has no such container, or it is not known

TextFields == {"src_process", "dst_process", "exec_path", "parent_process",
               "file_path", "file_op"}
ContainerFields == {"src_container", "dst_container"}
PortFields == {"src_port", "dst_port"}

matchPattern(pattern, value) == value \in pattern

\* Mutant of MatchFields: an unknown container has no name that could match.
MatchFieldsStrict(b, e) ==
    /\ b.event_type \in {Unset, e.event_type}
    /\ \A f \in TextFields \cup ContainerFields : b[f] # Unset => matchPattern(b[f], e[f])
    /\ \A f \in PortFields : PortPasses(b[f], e[f])

\* A constraint on a container or a port is not applied to an event without one.
MatchFields(b, e) ==
    /\ b.event_type \in {Unset, e.event_type}
    /\ \A f \in TextFields : b[f] # Unset => matchPattern(b[f], e[f])
    /\ \A f \in ContainerFields :
          b[f] # Unset /\ e[f] # NoContainer => matchPattern(b[f], e[f])
    /\ \A f \in PortFields : PortPasses(b[f], e[f])

\* MatchBlock.MatchEvent: of a block with a Not, only the Not is looked at.
BlockMatches(block, e) ==
    LET From[i \in 1..Len(block)] ==
          IF i = Len(block) THEN MatchFields(block[i], e) ELSE ~From[i + 1]
    IN  From[1]

\* Rule.MatchEvent: match goes before any, any before all.
RuleMatches(rule, e) ==
    IF rule.match # Unset THEN BlockMatches(rule.match, e)
    ELSE IF rule.any # <<>> THEN \E i \in DOMAIN rule.any : BlockMatches(rule.any[i], e)
    ELSE rule.all # <<>> /\ \A i \in DOMAIN rule.all : BlockMatches(rule.all[i], e)
=============================================================================
