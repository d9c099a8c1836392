----------------------------- MODULE RuleFiles -----------------------------
(***************************************************************************)
(* Loading of the rules when the monitor starts: LoadRules in engine.go,   *)
(* which walks a directory with filepath.WalkDir, and what New and main    *)
(* make of its error.  A rule file is a rule as RuleMatch has it, but for  *)
(* the ports, which are YAML nodes, or Unset where the file has none, and  *)
(* with the steps of its sequence, if it has one.                          *)
(***************************************************************************)
EXTENDS RuleMatch

CONSTANTS
    Entries,        \* directories and files
    Root,           \* the directory given with -rules
    Kind,           \* "dir", "rule" (*.yml, *.yaml) or "other"
    Children,       \* the entries of a directory in lexical order
    Contents        \* what may be written in the rule files

\* yaml.Unmarshal of a block and of what it negates: a port that is not
\* written stays zero.
UnmarshalBlock(block) ==
    [i \in DOMAIN block |-> [f \in DOMAIN block[i] |->
        IF f \notin PortFields THEN block[i][f]
        ELSE IF block[i][f] = Unset THEN Zero ELSE UnmarshalYAML(block[i][f])]]

\* The blocks of a rule: those that Rule.MatchEvent looks at, and the steps.
MatchBlocks(rule) ==
    (IF rule.match = Unset THEN {} ELSE {rule.match}) \cup Range(rule.any) \cup Range(rule.all)
BlocksOf(rule) == MatchBlocks(rule) \cup Range(rule.steps)

ASSUME RuleFilesAssumption ==
    /\ Root \in Entries
    /\ Kind \in [Entries -> {"dir", "rule", "other"}]
    /\ Children \in [Entries -> Seq(Entries)]
    \* WalkDir follows no links: an entry is in one directory, and once.
    /\ \A d \in Entries : IsInjective(Children[d]) /\ Root \notin Range(Children[d])
    /\ \A c, d \in Entries : c # d => Range(Children[c]) \cap Range(Children[d]) = {}
    /\ \A c \in Contents : DOMAIN c = {e \in Entries : Kind[e] = "rule"}
    /\ \A c \in Contents : \A e \in DOMAIN c : \A block \in BlocksOf(c[e]) :
          \A i \in DOMAIN block : \A f \in PortFields :
             f \in DOMAIN block[i] /\ block[i][f] \in Node \cup {Unset}
    /\ Unset \notin Node
    /\ \A c \in Contents : \A e \in DOMAIN c :
          c[e].match # Unset => UnmarshalBlock(c[e].match) # Unset

VARIABLES
    missing,        \* the path given with -rules does not exist
    broken,         \* entries that cannot be read, or are no YAML
    content,        \* rule file -> what is written in it
    todo,           \* entries WalkDir still has to visit, in order
    rules,          \* engine.rules
    from,           \* history: the files they come from
    proc            \* the process

disk == <<missing, broken, content>>
vars == <<disk, todo, rules, from, proc>>

Init ==
    /\ missing \in BOOLEAN
    /\ broken \in SUBSET Entries
    /\ content \in Contents
    /\ todo = <<Root>>
    /\ rules = <<>>
    /\ from = <<>>
    /\ proc = "loading"

-----------------------------------------------------------------------------
Unmarshal(rule) ==
    [match |-> IF rule.match = Unset THEN Unset ELSE UnmarshalBlock(rule.match),
     any |-> [i \in DOMAIN rule.any |-> UnmarshalBlock(rule.any[i])],
     all |-> [i \in DOMAIN rule.all |-> UnmarshalBlock(rule.all[i])],
     steps |-> [i \in DOMAIN rule.steps |-> UnmarshalBlock(rule.steps[i])]]

\* A port expression of the rule was refused.
Malformed(rule) ==
    \E block \in BlocksOf(rule) : \E i \in DOMAIN block : \E f \in PortFields : block[i][f] = Refused

\* os.ReadFile or yaml.Unmarshal returns an error.
Fails(file) == file \in broken \/ Malformed(Unmarshal(content[file]))

-----------------------------------------------------------------------------
\* WalkDir hands out a nil entry with the error, and d.IsDir() panics.
RootMissing ==
    /\ proc = "loading"
    /\ missing
    /\ proc' = "panicked"
    /\ UNCHANGED <<disk, todo, rules, from>>

Visiting(kind) ==
    /\ proc = "loading"
    /\ ~missing
    /\ todo # <<>> /\ Kind[Head(todo)] = kind
    /\ UNCHANGED disk

VisitDir ==
    /\ Visiting("dir")
    /\ Head(todo) \notin broken
    /\ todo' = Children[Head(todo)] \o Tail(todo)
    /\ UNCHANGED <<rules, from, proc>>

\* Some of the members of s, in their order.
Parts(s) ==
    UNION {{[i \in 1..n |-> s[at[i]]] :
              at \in {f \in [1..n -> DOMAIN s] : \A i, j \in 1..n : i < j => f[i] < f[j]}} :
           n \in 0..Len(s)}

\* The callback gets the error of a directory it cannot list and returns nil:
\* the walk goes on with the entries that were listed, if any.
VisitDirFails ==
    /\ Visiting("dir")
    /\ Head(todo) \in broken
    /\ \E listed \in Parts(Children[Head(todo)]) : todo' = listed \o Tail(todo)
    /\ UNCHANGED <<rules, from, proc>>

VisitRule ==
    /\ Visiting("rule")
    /\ ~Fails(Head(todo))
    /\ rules' = Append(rules, Unmarshal(content[Head(todo)]))
    /\ from' = Append(from, Head(todo))
    /\ todo' = Tail(todo)
    /\ UNCHANGED proc

\* Mutant of VisitRuleFails: leaves the file out.
VisitRuleSkips ==
    /\ Visiting("rule")
    /\ Fails(Head(todo))
    /\ todo' = Tail(todo)
    /\ UNCHANGED <<rules, from, proc>>

\* An error ends the walk, New returns nil and main exits.
VisitRuleFails ==
    /\ Visiting("rule")
    /\ Fails(Head(todo))
    /\ proc' = "exited"
    /\ UNCHANGED <<todo, rules, from>>

VisitOther ==
    /\ Visiting("other")
    /\ todo' = Tail(todo)
    /\ UNCHANGED <<rules, from, proc>>

\* LoadRules returns nil and the monitor starts.
Loaded ==
    /\ proc = "loading"
    /\ ~missing
    /\ todo = <<>>
    /\ proc' = "running"
    /\ UNCHANGED <<disk, todo, rules, from>>

Next ==
    \/ RootMissing
    \/ VisitDir \/ VisitDirFails
    \/ VisitRule \/ VisitRuleFails
    \/ VisitOther
    \/ Loaded

Spec == Init /\ [][Next]_vars

-----------------------------------------------------------------------------
RuleEntries == {e \in Entries : Kind[e] = "rule"}

\* The entries that no broken directory hides: the least set with the root in
\* it and, with a directory that can be listed, what is in the directory.
Shown ==
    {e \in Entries : \A V \in SUBSET Entries :
        Root \in V /\ (\A d \in V : Kind[d] = "dir" /\ d \notin broken => Range(Children[d]) \subseteq V)
          => e \in V}

\* The monitor does not start with a part of its rules because a rule file is
\* broken (LoadRules): every rule file that no broken directory hides is
\* loaded, once, or there is no monitor.
NoRuleLeftOut ==
    proc = "running" =>
        /\ RuleEntries \cap Shown \subseteq Range(from)
        /\ \A i, j \in DOMAIN from : from[i] = from[j] => i = j

BlockAsWritten(written, read) ==
    \A i \in DOMAIN written : \A f \in PortFields :
        IF written[i][f] = Unset THEN \A p \in Port : PortPasses(read[i][f], p)
        ELSE AsWritten(written[i][f], read[i][f])

RuleAsWritten(written, read) ==
    /\ written.match # Unset => BlockAsWritten(written.match, read.match)
    /\ \A i \in DOMAIN written.any : BlockAsWritten(written.any[i], read.any[i])
    /\ \A i \in DOMAIN written.all : BlockAsWritten(written.all[i], read.all[i])
    /\ \A i \in DOMAIN written.steps : BlockAsWritten(written.steps[i], read.steps[i])

\* Some port expression of the rule has a number that is no port, or is no
\* expression at all.
HasBadPort(rule) ==
    \E block \in BlocksOf(rule) : \E i \in DOMAIN block : \E f \in PortFields :
        block[i][f] # Unset /\ ~WellFormed(block[i][f])

\* The port expressions of a rule that is loaded, steps included, let through
\* the ports that LetsThrough gives their nodes: what the file says, but for a
\* lone "*", which lets none through (PortExpr.Match does not know it).  A file
\* is refused only for a number that is no port, and such a number is never
\* loaded, wrapped round or left out.
PortMeaning ==
    /\ \A k \in DOMAIN rules : RuleAsWritten(content[from[k]], rules[k])
    /\ proc = "exited" => Head(todo) \in broken \/ HasBadPort(content[Head(todo)])
=============================================================================
