----------------------------- MODULE Enrichment -----------------------------
(***************************************************************************)
(* The resolver and the fan-out goroutine of main.go together: events wait *)
(* in eventsCh while containers come and go and the cache follows them.    *)
(* Fan-out looks the source up, skips the event if it is not known, and    *)
(* then looks the destination up.                                          *)
(*                                                                         *)
(* A cgroup is the instance of a container, as in Resolver; 0 stands for a *)
(* cgroup of the host and for no destination.  The sends to the consumers  *)
(* and the filter are in Pipeline.                                         *)
(***************************************************************************)
EXTENDS Resolver

CONSTANT MaxTraced      \* bound: events of the traced processes

ASSUME EnrichmentAssumption == MaxTraced \in Nat

VARIABLES
    eventsCh,       \* events that wait: source, destination, and (history) the
                    \* ones that were known when they were traced
    fanOut,         \* the event whose source fan-out has found, and its name
    enriched        \* history: the events fan-out is done with, with the names
                    \* it found; one without a source name was skipped

enrichVars == <<eventsCh, fanOut, enriched>>
allVars == <<vars, enrichVars>>

Idle == [srcName |-> NoOne]

EnrichInit ==
    /\ Init
    /\ eventsCh = <<>>
    /\ fanOut = Idle
    /\ enriched = <<>>

-----------------------------------------------------------------------------
\* A process of a running container or of the host is traced, and the event
\* reaches eventsCh.
Trace(src, dst) ==
    /\ Len(eventsCh) + Len(enriched) + (IF fanOut = Idle THEN 0 ELSE 1) < MaxTraced
    /\ \A i \in {src, dst} : i = 0 \/ Alive(i)
    /\ eventsCh' = Append(eventsCh, [src |-> src, dst |-> dst, known |-> {src, dst} \cap DOMAIN cache])
    /\ UNCHANGED <<vars, fanOut, enriched>>

\* Mutant of Resolve: does not name a container that is down.
ResolveAlive(id) == IF id \in DOMAIN cache /\ Alive(id) THEN cache[id] ELSE NoOne

\* nil for a cgroup that is not in the cache.
Resolve(id) == IF id \in DOMAIN cache THEN cache[id] ELSE NoOne

With(e, srcName, dstName) ==
    [src |-> e.src, dst |-> e.dst, known |-> e.known, srcName |-> srcName, dstName |-> dstName]

ResolveSrc ==
    /\ fanOut = Idle
    /\ eventsCh # <<>>
    /\ LET found == With(Head(eventsCh), Resolve(Head(eventsCh).src), NoOne) IN
         \/ /\ found.srcName = NoOne
            /\ enriched' = Append(enriched, found)
            /\ UNCHANGED fanOut
         \/ /\ found.srcName # NoOne
            /\ fanOut' = found
            /\ UNCHANGED enriched
    /\ eventsCh' = Tail(eventsCh)
    /\ UNCHANGED vars

\* Mutant of ResolveDst: looks the source up again.
ResolveDstOfSrc ==
    /\ fanOut # Idle
    /\ enriched' = Append(enriched, [fanOut EXCEPT !.dstName =
                     IF fanOut.dst # 0 THEN Resolve(fanOut.src) ELSE NoOne])
    /\ fanOut' = Idle
    /\ UNCHANGED <<vars, eventsCh>>

ResolveDst ==
    /\ fanOut # Idle
    /\ enriched' = Append(enriched, [fanOut EXCEPT !.dstName =
                     IF fanOut.dst # 0 THEN Resolve(fanOut.dst) ELSE NoOne])
    /\ fanOut' = Idle
    /\ UNCHANGED <<vars, eventsCh>>

EnrichNext ==
    \/ Next /\ UNCHANGED enrichVars
    \/ \E src, dst \in 0..MaxStarts : Trace(src, dst)
    \/ ResolveSrc
    \/ ResolveDst

EnrichSpec == EnrichInit /\ [][EnrichNext]_allVars

\* The resolver is fair; nothing is assumed of fan-out.
FairEnrichSpec == EnrichSpec /\ Fairness

-----------------------------------------------------------------------------
\* An event is told under the names of its own containers or under none
\* (main.go:133-156), whatever stopped, started or was listed half-way while
\* it waited.
NamesRight ==
    \A k \in DOMAIN enriched :
        LET e == enriched[k] IN
        /\ e.srcName # NoOne => e.src # 0 /\ e.srcName = owner[e.src]
        /\ e.dstName # NoOne => e.dst # 0 /\ e.dstName = owner[e.dst]

\* An event whose source was known when it was traced is not skipped, and one
\* whose destination was known names it, even if the containers have died
\* since (resolver.go:134).
KnownEventsKept ==
    \A k \in DOMAIN enriched :
        LET e == enriched[k] IN
        /\ e.src \in e.known => e.srcName # NoOne
        /\ e.srcName # NoOne /\ e.dst \in e.known => e.dstName # NoOne
=============================================================================
