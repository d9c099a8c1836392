---------------------------- MODULE LoadedRules ----------------------------
(***************************************************************************)
(* The rules that were loaded, and an event that comes to them: what the   *)
(* engine makes of it depends on what the resolver knows of its containers. *)
(***************************************************************************)
EXTENDS RuleFiles

CONSTANT Events         \* the events that may come

EventFields == TextFields \cup ContainerFields \cup PortFields \cup {"event_type"}

ASSUME LoadedAssumption ==
    /\ \A e \in Events : DOMAIN e = EventFields
    \* A block and what it negates are a sequence.
    /\ \A c \in Contents : \A r \in DOMAIN c : \A block \in BlocksOf(c[r]) :
          Len(block) \in Nat \ {0} /\ DOMAIN block = 1..Len(block)

VARIABLE event          \* the event that comes to the engine

EventInit == Init /\ event \in Events

\* The same event, had the resolver not known its destination.
Unknown ==
    /\ proc = "running"
    /\ event' = [event EXCEPT !.dst_container = NoContainer]
    /\ UNCHANGED vars

EventNext == (Next /\ UNCHANGED event) \/ Unknown

EventSpec == EventInit /\ [][EventNext]_<<vars, event>>

-----------------------------------------------------------------------------
\* No block that Rule.MatchEvent looks at is negated, or is so an even number of times.
Positive(r) == \A b \in MatchBlocks(r) : Len(b) % 2 = 1

\* What the resolver does not know can only add alerts (MatchBlock.MatchEvent):
\* a rule without negation that matches an event matches it as well when the
\* destination container is not in the cache.
MatchSurvivesIgnorance ==
    [][\A k \in DOMAIN rules :
         Positive(rules[k]) /\ RuleMatches(rules[k], event) => RuleMatches(rules[k], event')]_<<vars, event>>
=============================================================================
