--------------------------- MODULE ResolverProofs ---------------------------
(***************************************************************************)
(* Proofs about Resolver and Enrichment, for any set of containers, any    *)
(* number of starts and of failing calls, and any number of events: the    *)
(* cache names every cgroup after its own container and keeps what it has, *)
(* a running container it does not have was missed for a stated reason,    *)
(* and the events get the names of their own containers.                   *)
(***************************************************************************)
EXTENDS Enrichment, QueueLemmas

USE ResolverAssumption DEF ResolverAssumption

-----------------------------------------------------------------------------
\* What the daemon sends joins the stream.
Message == [action : {"start", "die", "error"}]

\* A message of the daemon that joins the stream keeps its type.
LEMMA MessageJoins ==
    ASSUME NEW q \in Seq(Message), NEW a \in {"start", "die", "error"}
    PROVE  Append(q, [action |-> a]) \in Seq(Message)
<1>1. [action |-> a] \in Message
  BY DEF Message
<1> HIDE DEF Message
<1> QED
  BY <1>1, AppendFacts

\* While a pid waits for the read of its /proc file its container is at hand.
TypeInv == TypeOK /\ (at = "read" => cur \in Containers)

\* The type of the resolver and what its steps of updateInfo rely on.
LEMMA TypeInvariant == Spec => []TypeInv
<1>1. Init => TypeInv
  <2> SUFFICES ASSUME Init PROVE TypeInv
    OBVIOUS
  <2>1. DOMAIN cache = {} /\ Range(cache) = {}
    BY DEF Init, Range
  <2>2. owner \in Seq(Containers) /\ Len(owner) = 0 /\ stream \in Seq([action : {"start", "die", "error"}])
    BY DEF Init
  <2>3. up \in [Containers -> 0..MaxStarts] /\ errors \in 0..MaxErrors /\ pid \in 0..MaxStarts
    BY DEF Init
  <2>4. subscribed \in BOOLEAN /\ started \in BOOLEAN /\ at = "list"
    BY DEF Init
  <2>5. todo = {} /\ cur = NoOne /\ unannounced = {} /\ cutOff = {}
    BY DEF Init
  <2> QED
    BY <2>1, <2>2, <2>3, <2>4, <2>5 DEF TypeInv, TypeOK
<1>2. TypeInv /\ [Next]_vars => TypeInv'
  <2> SUFFICES ASSUME TypeInv, [Next]_vars PROVE TypeInv'
    OBVIOUS
  <2> USE DEF TypeInv, TypeOK
  <2>0. UpOf(Running) \subseteq Instances /\ UpOf(todo) \subseteq Instances /\ Running \subseteq Containers
    BY DEF UpOf, Running, Instances
  <2>00. stream \in Seq(Message)
    BY DEF Message
  <2>1. ASSUME NEW c \in Containers, Start(c) PROVE TypeInv'
    <3>1. Len(owner) \in Nat /\ Len(owner) + 1 \in Instances /\ owner' \in Seq(Containers) /\ Len(owner') <= MaxStarts
      BY <2>1 DEF Start, Instances
    <3>2. stream' \in Seq(Message)
      BY <2>00, <2>1, MessageJoins DEF Start, Announce
    <3>3. up' \in [Containers -> 0..MaxStarts]
      BY <2>1, <3>1 DEF Start, Instances
    <3>4. unannounced' \in SUBSET Instances
      BY <2>1, <3>1 DEF Start
    <3> QED
      BY <2>1, <3>1, <3>2, <3>3, <3>4 DEF Start, scan, Message
  <2>2. ASSUME NEW c \in Containers, Die(c) PROVE TypeInv'
    <3>1. stream' \in Seq(Message)
      BY <2>00, <2>2, MessageJoins DEF Die, Announce
    <3>2. up' \in [Containers -> 0..MaxStarts]
      BY <2>2 DEF Die
    <3> QED
      BY <2>2, <3>1, <3>2 DEF Die, scan, history, Message
  <2>3. CASE StreamBreaks
    <3>1. stream' \in Seq(Message)
      BY <2>00, <2>3, MessageJoins DEF StreamBreaks
    <3>2. errors' \in 0..MaxErrors
      <4>1. errors \in 0..MaxErrors /\ errors < MaxErrors /\ errors' = errors + 1
        BY <2>3 DEF StreamBreaks
      <4> QED
        BY ONLY <4>1, ResolverAssumption DEF ResolverAssumption
    <3>3. subscribed' \in BOOLEAN
      BY <2>3 DEF StreamBreaks
    <3> QED
      BY <2>3, <3>1, <3>2, <3>3 DEF StreamBreaks, docker, scan, history, Message
  <2>4. CASE ContainerList
    BY <2>0, <2>4 DEF ContainerList, docker
  <2>5. ASSUME NEW c \in Containers, ContainerInspect(c) PROVE TypeInv'
    BY <2>5 DEF ContainerInspect, docker, history
  <2>6. CASE DaemonFails
    <3>1. cutOff' \in SUBSET Instances
      BY <2>0, <2>6 DEF DaemonFails
    <3> QED
      BY <2>6, <3>1 DEF DaemonFails, Return, docker
  <2>7. CASE getCgroupID
    <3>1. CASE Alive(pid)
      <4>1. pid \in Instances /\ cur \in Containers
        <5>1. pid # 0
          BY <3>1 DEF Alive
        <5> QED
          BY <2>7, <5>1 DEF getCgroupID, Instances
      <4>2. DOMAIN cache' \subseteq Instances /\ Range(cache') \subseteq Containers
        BY <2>7, <3>1, <4>1 DEF getCgroupID, Range
      <4> QED
        BY <2>7, <3>1, <4>2 DEF getCgroupID, docker
    <3>2. CASE ~Alive(pid)
      <4>1. cutOff' \in SUBSET Instances
        BY <2>0, <2>7, <3>2 DEF getCgroupID
      <4> QED
        BY <2>7, <3>2, <4>1 DEF getCgroupID, Return, docker
    <3> QED
      BY <3>1, <3>2
  <2>8. CASE Updated
    BY <2>8 DEF Updated, Return, docker, history
  <2>9. CASE Subscribe
    BY <2>9 DEF Subscribe, docker, scan, history
  <2>10. CASE OnStart \/ OnDie \/ OnError
    <3>1. stream' \in Seq(Message)
      <4>1. stream # <<>> /\ stream' = Tail(stream)
        BY <2>10 DEF OnStart, OnDie, OnError, Receive
      <4> QED
        BY ONLY <2>00, <4>1, TailFacts
    <3> QED
      BY <2>10, <3>1 DEF OnStart, OnDie, OnError, Receive, docker, scan, history, Message
  <2>11. CASE Wake \/ Done
    BY <2>11 DEF Wake, Done, docker, scan, history
  <2>12. CASE UNCHANGED vars
    BY <2>12 DEF vars, docker, scan, history
  <2> QED
    BY <2>1, <2>2, <2>3, <2>4, <2>5, <2>6, <2>7, <2>8, <2>9, <2>10, <2>11, <2>12 DEF Next, UpdateStep, LoopStep
<1> QED
  BY <1>1, <1>2, PTL DEF Spec

\* The daemon, updateInfo and MonitorEventsLoop keep every variable in its
\* type; the ids in the cache are ids of cgroups, never the 0 of a container
\* that is down.
THEOREM ResolverTypeCorrect == Spec => []TypeOK
  BY TypeInvariant, PTL DEF TypeInv

-----------------------------------------------------------------------------
\* Instance i is one of container c.
Owned(own, c, i) == i \in DOMAIN own /\ own[i] = c

\* An instance that runs belongs to its container, and so does the pid the
\* inspection gave: the number of an instance is never given out twice.
OwnersRight ==
    /\ \A c \in Containers : up[c] # 0 => Owned(owner, c, up[c])
    /\ pid # 0 => Owned(owner, cur, pid)
    /\ \A i \in DOMAIN cache : Owned(owner, cache[i], i)

\* One more start leaves the owners of the earlier instances.
LEMMA OwnerGrows ==
    ASSUME NEW own \in Seq(Containers), NEW c \in Containers
    PROVE  /\ \A d, i : Owned(own, d, i) => Owned(Append(own, c), d, i)
           /\ Owned(Append(own, c), c, Len(own) + 1)
<1>1. /\ DOMAIN own = 1..Len(own) /\ Len(own) \in Nat
      /\ DOMAIN Append(own, c) = 1..(Len(own) + 1)
      /\ \A i \in 1..Len(own) : Append(own, c)[i] = own[i]
      /\ Append(own, c)[Len(own) + 1] = c
  BY AppendFacts
<1>2. \A d, i : Owned(own, d, i) => Owned(Append(own, c), d, i)
  BY <1>1 DEF Owned
<1>3. Len(own) + 1 \in 1..(Len(own) + 1)
  BY <1>1
<1> QED
  BY <1>1, <1>2, <1>3 DEF Owned

\* What getCgroupID puts into the cache is the truth, and was the truth before
\* if it was there.
LEMMA EntryTrue ==
    ASSUME TypeInv, OwnersRight, getCgroupID, Alive(pid)
    PROVE  /\ cache' = [i \in DOMAIN cache \cup {pid} |-> IF i = pid THEN cur ELSE cache[i]]
           /\ Owned(owner, cur, pid)
           /\ up[cur] = pid /\ pid # 0
           /\ \A i \in DOMAIN cache : cache'[i] = cache[i]
<1>1. /\ cache' = [i \in DOMAIN cache \cup {pid} |-> IF i = pid THEN cur ELSE cache[i]]
      /\ pid # 0
  BY DEF getCgroupID, Alive
<1>2. Owned(owner, cur, pid)
  BY <1>1 DEF OwnersRight
<1>3. up[cur] = pid
  BY <1>1, <1>2 DEF Alive, OwnersRight, Owned
<1>4. pid \in DOMAIN cache => cache[pid] = cur
  BY <1>2 DEF OwnersRight, Owned
<1> QED
  BY <1>1, <1>2, <1>3, <1>4

\* The pid at hand and the entries of the cache are those of their containers.
LEMMA OwnersStayRight == Spec => []OwnersRight
<1>1. Init => OwnersRight
  BY DEF Init, OwnersRight
<1>2. TypeInv /\ OwnersRight /\ [Next]_vars => OwnersRight'
  <2> SUFFICES ASSUME TypeInv, OwnersRight, [Next]_vars PROVE OwnersRight'
    OBVIOUS
  <2>1. ASSUME NEW c \in Containers, Start(c) PROVE OwnersRight'
    <3>1. /\ UNCHANGED <<cache, cur, pid>> /\ up' = [up EXCEPT ![c] = Len(owner) + 1]
          /\ owner' = Append(owner, c) /\ owner \in Seq(Containers)
          /\ up \in [Containers -> 0..MaxStarts]
      BY <2>1 DEF Start, scan, TypeInv, TypeOK
    <3>2. /\ \A d, i : Owned(owner, d, i) => Owned(owner', d, i)
          /\ Owned(owner', c, Len(owner) + 1)
      BY <3>1, OwnerGrows
    <3>3. \A d \in Containers : up'[d] # 0 => Owned(owner', d, up'[d])
      BY <3>1, <3>2 DEF OwnersRight
    <3> QED
      BY <3>1, <3>2, <3>3 DEF OwnersRight
  <2>2. ASSUME NEW c \in Containers, Die(c) PROVE OwnersRight'
    BY <2>2 DEF Die, scan, OwnersRight, TypeInv, TypeOK
  <2>3. ASSUME NEW c \in Containers, ContainerInspect(c) PROVE OwnersRight'
    BY <2>3 DEF ContainerInspect, docker, OwnersRight
  <2>4. CASE getCgroupID
    <3>1. CASE Alive(pid)
      <4>1. UNCHANGED <<up, owner, cur, pid>>
        BY <2>4, <3>1 DEF getCgroupID, docker
      <4>2. \A i \in DOMAIN cache' : Owned(owner, cache'[i], i)
        BY <2>4, <3>1, EntryTrue DEF OwnersRight
      <4> QED
        BY <4>1, <4>2 DEF OwnersRight
    <3>2. CASE ~Alive(pid)
      BY <2>4, <3>2 DEF getCgroupID, Return, docker, OwnersRight
    <3> QED
      BY <3>1, <3>2
  <2>5. CASE UNCHANGED <<up, owner, cache>> /\ (pid' = 0 \/ UNCHANGED <<cur, pid>>)
    BY <2>5 DEF OwnersRight
  <2>6. \/ \E c \in Containers : Start(c) \/ Die(c) \/ ContainerInspect(c)
        \/ getCgroupID
        \/ UNCHANGED <<up, owner, cache>> /\ (pid' = 0 \/ UNCHANGED <<cur, pid>>)
    BY DEF Next, StreamBreaks, UpdateStep, ContainerList, DaemonFails, Updated, Return, LoopStep, Subscribe,
           OnStart, Wake, OnDie, OnError, Receive, Done, vars, docker, scan
  <2> QED
    BY <2>1, <2>2, <2>3, <2>4, <2>5, <2>6
<1> QED
  BY <1>1, <1>2, TypeInvariant, PTL DEF Spec

\* The cache never names a cgroup after another container, however containers
\* stop and start again between the list, the inspection and the read.
THEOREM CacheIsTruthful == Spec => []CacheTruthful
<1>1. TypeInv /\ OwnersRight => CacheTruthful
  BY DEF TypeInv, TypeOK, OwnersRight, Owned, CacheTruthful
<1> QED
  BY <1>1, TypeInvariant, OwnersStayRight, PTL

\* A step of the resolver or of the daemon only adds to what is known and to
\* the instances there have been.
LEMMA ResolverStep ==
    ASSUME TypeInv, OwnersRight, [Next]_vars
    PROVE  /\ \A i \in DOMAIN cache : i \in DOMAIN cache' /\ cache'[i] = cache[i]
           /\ \A c, i : Owned(owner, c, i) => Owned(owner', c, i)
<1>1. (getCgroupID /\ Alive(pid)) \/ UNCHANGED cache
  BY DEF Next, Start, Die, StreamBreaks, UpdateStep, ContainerList, ContainerInspect, DaemonFails, getCgroupID,
         Updated, LoopStep, Subscribe, OnStart, Wake, OnDie, OnError, Done, vars
<1>2. \A i \in DOMAIN cache : i \in DOMAIN cache' /\ cache'[i] = cache[i]
  BY <1>1, EntryTrue
<1>3. (\E c \in Containers : owner' = Append(owner, c)) \/ UNCHANGED owner
  BY DEF Next, Start, Die, StreamBreaks, UpdateStep, ContainerList, ContainerInspect, DaemonFails, getCgroupID,
         Updated, LoopStep, Subscribe, OnStart, Wake, OnDie, OnError, Receive, Done, vars, docker
<1>4. owner \in Seq(Containers)
  BY DEF TypeInv, TypeOK
<1>5. \A c, i : Owned(owner, c, i) => Owned(owner', c, i)
  BY <1>3, <1>4, OwnerGrows
<1> QED
  BY <1>2, <1>5

\* No step takes a cgroup out of the cache or renames it: a second read of a
\* known cgroup finds the same container.
THEOREM KnownIsKept == Spec => KnownStaysKnown
<1>1. TypeInv /\ OwnersRight /\ [Next]_vars
        => [\A i \in DOMAIN cache : i \in DOMAIN cache' /\ cache'[i] = cache[i]]_vars
  BY ResolverStep
<1> QED
  BY <1>1, TypeInvariant, OwnersStayRight, PTL DEF Spec, KnownStaysKnown

-----------------------------------------------------------------------------
\* A start is on its way to the loop, or the loop is about to list.
StartPending(q) == \E j \in DOMAIN q : q[j].action = "start"

\* Why a running container need not be in the cache: the two reasons of
\* UnknownExplained, a start the loop still has to act on, or an update under
\* way that has the container before it.
Accounted(c) ==
    \/ up[c] \in DOMAIN cache \cup unannounced \cup cutOff
    \/ StartPending(stream)
    \/ at \in {"sleep", "list"}
    \/ at \in {"inspect", "read"} /\ c \in todo

AllAccounted == \A c \in Running : Accounted(c)

\* A start stays in the stream until the loop acts on it.
LEMMA StartStaysPending ==
    ASSUME NEW q \in Seq(Message)
    PROVE  /\ \A m \in Message : StartPending(q) \/ m.action = "start" => StartPending(Append(q, m))
           /\ q # <<>> /\ Head(q).action # "start" /\ StartPending(q) => StartPending(Tail(q))
<1>1. ASSUME NEW m \in Message, StartPending(q) \/ m.action = "start"
      PROVE  StartPending(Append(q, m))
  <2>1. /\ DOMAIN q = 1..Len(q) /\ Len(q) \in Nat
        /\ DOMAIN Append(q, m) = 1..(Len(q) + 1)
        /\ \A i \in 1..Len(q) : Append(q, m)[i] = q[i]
        /\ Append(q, m)[Len(q) + 1] = m
    BY AppendFacts
  <2>2. \A i \in 1..Len(q) : i \in 1..(Len(q) + 1)
    BY <2>1
  <2>3. Len(q) + 1 \in 1..(Len(q) + 1)
    BY <2>1
  <2>4. CASE StartPending(q)
    BY <2>1, <2>2, <2>4 DEF StartPending
  <2>5. CASE m.action = "start"
    BY <2>1, <2>3, <2>5 DEF StartPending
  <2> QED
    BY <1>1, <2>4, <2>5
<1>2. ASSUME q # <<>>, Head(q).action # "start", StartPending(q)
      PROVE  StartPending(Tail(q))
  <2>1. /\ DOMAIN q = 1..Len(q) /\ Len(q) \in Nat /\ Head(q) = q[1]
        /\ DOMAIN Tail(q) = 1..(Len(q) - 1)
        /\ \A i \in 1..(Len(q) - 1) : Tail(q)[i] = q[i + 1]
    BY <1>2, TailFacts
  <2>2. PICK j \in 1..Len(q) : q[j].action = "start"
    BY <1>2, <2>1 DEF StartPending
  <2>3. j # 1
    BY <1>2, <2>1, <2>2
  <2>4. j - 1 \in 1..(Len(q) - 1) /\ (j - 1) + 1 = j
    BY <2>1, <2>3
  <2>5. Tail(q)[j - 1].action = "start"
    BY <2>1, <2>2, <2>4
  <2> QED
    BY <2>1, <2>4, <2>5 DEF StartPending
<1> QED
  BY <1>1, <1>2

\* A running container is in the cache, or there is a reason why it is not.
LEMMA AllStayAccounted == Spec => []AllAccounted
<1>1. Init => AllAccounted
  BY DEF Init, AllAccounted, Running
<1>2. TypeInv /\ OwnersRight /\ AllAccounted /\ [Next]_vars => AllAccounted'
  <2> SUFFICES ASSUME TypeInv, OwnersRight, AllAccounted, [Next]_vars,
                      NEW c \in Containers, up'[c] # 0
               PROVE  Accounted(c)'
    BY DEF AllAccounted, Running
  <2>0. stream \in Seq(Message) /\ up \in [Containers -> 0..MaxStarts]
    BY DEF TypeInv, TypeOK, Message
  <2>1. up[c] # 0 => Accounted(c)
    BY DEF AllAccounted, Running
  <2>2. ASSUME NEW d \in Containers, Start(d) PROVE Accounted(c)'
    <3>1. /\ UNCHANGED <<cache, at, todo, cutOff>>
          /\ up' = [up EXCEPT ![d] = Len(owner) + 1]
      BY <2>2 DEF Start, scan
    <3>2. CASE subscribed
      <4>1. [action |-> "start"] \in Message /\ [action |-> "start"].action = "start"
        BY DEF Message
      <4>2. stream' = Append(stream, [action |-> "start"])
        BY <2>2, <3>2 DEF Start, Announce
      <4>3. StartPending(stream')
        BY <2>0, <4>1, <4>2, StartStaysPending
      <4> QED
        BY <4>3 DEF Accounted
    <3>3. CASE ~subscribed
      <4>1. UNCHANGED stream /\ unannounced' = unannounced \cup {Len(owner) + 1}
        BY <2>2, <3>3 DEF Start, Announce
      <4>2. CASE c = d
        BY <2>0, <3>1, <4>1, <4>2 DEF Accounted
      <4>3. CASE c # d
        <5>1. up'[c] = up[c]
          BY <2>0, <3>1, <4>3
        <5> QED
          BY <2>1, <3>1, <4>1, <5>1 DEF Accounted
      <4> QED
        BY <4>2, <4>3
    <3> QED
      BY <3>2, <3>3
  <2>3. ASSUME NEW d \in Containers, Die(d) PROVE Accounted(c)'
    <3>1. UNCHANGED <<cache, at, todo, unannounced, cutOff>>
      BY <2>3 DEF Die, scan, history
    <3>2. up'[c] = up[c]
      BY <2>0, <2>3 DEF Die
    <3>3. StartPending(stream) => StartPending(stream')
      <4>1. [action |-> "die"] \in Message
        BY DEF Message
      <4> QED
        BY <2>0, <2>3, <4>1, StartStaysPending DEF Die, Announce
    <3> QED
      BY <2>1, <3>1, <3>2, <3>3 DEF Accounted
  <2>4. CASE StreamBreaks
    <3>1. [action |-> "error"] \in Message
      BY DEF Message
    <3>2. StartPending(stream) => StartPending(stream')
      BY <2>0, <2>4, <3>1, StartStaysPending DEF StreamBreaks
    <3> QED
      BY <2>1, <2>4, <3>2 DEF StreamBreaks, docker, scan, history, Accounted
  <2>5. CASE ContainerList
    BY <2>5 DEF ContainerList, docker, Running, Accounted
  <2>6. ASSUME NEW d \in Containers, ContainerInspect(d) PROVE Accounted(c)'
    BY <2>1, <2>6 DEF ContainerInspect, docker, history, Accounted
  <2>7. CASE DaemonFails
    <3>1. /\ UNCHANGED <<up, stream, cache, unannounced>>
          /\ cutOff' = cutOff \cup UpOf(IF at = "list" THEN Running ELSE todo)
          /\ at = "list" \/ at = "inspect"
      BY <2>7 DEF DaemonFails, docker
    <3>2. at = "list" \/ c \in todo => up[c] \in cutOff'
      BY <3>1 DEF UpOf, Running
    <3> QED
      BY <2>1, <3>1, <3>2 DEF Accounted
  <2>8. CASE getCgroupID
    <3>1. at = "read" /\ UNCHANGED <<up, stream, unannounced>>
      BY <2>8 DEF getCgroupID, docker
    <3>2. CASE Alive(pid)
      <4>1. at' = "inspect" /\ todo' = todo \ {cur} /\ UNCHANGED cutOff
        BY <2>8, <3>2 DEF getCgroupID
      <4>2. DOMAIN cache' = DOMAIN cache \cup {pid} /\ up[cur] = pid
        BY <2>8, <3>2, EntryTrue
      <4> QED
        BY <2>1, <3>1, <4>1, <4>2 DEF Accounted
    <3>3. CASE ~Alive(pid)
      <4>1. cutOff' = cutOff \cup UpOf(todo) /\ UNCHANGED cache
        BY <2>8, <3>3 DEF getCgroupID
      <4>2. c \in todo => up[c] \in cutOff'
        BY <3>1, <4>1 DEF UpOf, Running
      <4> QED
        BY <2>1, <3>1, <4>1, <4>2 DEF Accounted
    <3> QED
      BY <3>2, <3>3
  <2>9. CASE Updated
    BY <2>1, <2>9 DEF Updated, docker, history, Accounted
  <2>10. CASE OnStart
    BY <2>10 DEF OnStart, Accounted
  <2>11. CASE OnDie \/ OnError
    <3>1. /\ stream # <<>> /\ stream' = Tail(stream) /\ Head(stream).action # "start" /\ at = "select"
          /\ UNCHANGED <<up, cache, unannounced, cutOff>>
      BY <2>11 DEF OnDie, OnError, Receive, docker, history
    <3>2. StartPending(stream) => StartPending(stream')
      BY <2>0, <3>1, StartStaysPending
    <3> QED
      BY <2>1, <3>1, <3>2 DEF Accounted
  <2>12. CASE Wake
    BY <2>12 DEF Wake, Accounted
  <2>13. CASE Subscribe \/ Done
    BY <2>1, <2>13 DEF Subscribe, Done, docker, scan, history, Accounted
  <2>14. CASE UNCHANGED vars
    BY <2>1, <2>14 DEF vars, docker, scan, history, Accounted
  <2> QED
    BY <2>2, <2>3, <2>4, <2>5, <2>6, <2>7, <2>8, <2>9, <2>10, <2>11, <2>12, <2>13, <2>14
       DEF Next, UpdateStep, LoopStep
<1> QED
  BY <1>1, <1>2, TypeInvariant, OwnersStayRight, PTL DEF Spec

\* A running container the resolver does not know, while the loop waits with
\* no start before it, was started without a subscription or left out by an
\* update that gave up: there is no third way to miss one.
THEOREM MissedContainersExplained == Spec => []UnknownExplained
<1>1. AllAccounted => UnknownExplained
  BY DEF AllAccounted, Accounted, StartPending, UnknownExplained
<1> QED
  BY <1>1, AllStayAccounted, PTL

-----------------------------------------------------------------------------
\* The fan-out goroutine only reads what the resolver writes: seen from the
\* resolver, Enrichment is Resolver.
THEOREM EnrichmentKeepsResolver == EnrichSpec => Spec
<1>1. EnrichInit => Init
  BY DEF EnrichInit
<1>2. [EnrichNext]_allVars => [Next]_vars
  BY DEF EnrichNext, Trace, ResolveSrc, ResolveDst, allVars
<1> QED
  BY <1>1, <1>2, PTL DEF EnrichSpec, Spec

Traced == [src : 0..MaxStarts, dst : 0..MaxStarts, known : SUBSET (0..MaxStarts)]
Named == [src : 0..MaxStarts, dst : 0..MaxStarts, known : SUBSET (0..MaxStarts),
          srcName : Containers \cup {NoOne}, dstName : Containers \cup {NoOne}]

\* A name, if there is one, is that of the instance's container.
NameOK(own, id, name) == name # NoOne => Owned(own, name, id)

\* What NamesRight and KnownEventsKept say of one event.
Told(own, e) ==
    /\ NameOK(own, e.src, e.srcName) /\ NameOK(own, e.dst, e.dstName)
    /\ e.src \in e.known => e.srcName # NoOne
    /\ e.srcName # NoOne /\ e.dst \in e.known => e.dstName # NoOne

\* An event on its way was known to involve cgroups that are in the cache
\* still, and fan-out goes on only with an event whose source it has named.
WaitingOK == eventsCh \in Seq(Traced) /\ \A e \in Range(eventsCh) : e.known \subseteq DOMAIN cache

FanOutOK ==
    fanOut # Idle =>
        /\ fanOut \in Named /\ fanOut.srcName # NoOne
        /\ fanOut.known \subseteq DOMAIN cache
        /\ NameOK(owner, fanOut.src, fanOut.srcName)

EnrichedOK == enriched \in Seq(Named) /\ \A e \in Range(enriched) : Told(owner, e)

EnrichInv == WaitingOK /\ FanOutOK /\ EnrichedOK

\* A lookup names the owner or nobody, and somebody if the cgroup is known.
LEMMA ResolveFacts ==
    ASSUME TypeInv, OwnersRight, NEW id
    PROVE  /\ Resolve(id) \in Containers \cup {NoOne}
           /\ NameOK(owner, id, Resolve(id))
           /\ id \in DOMAIN cache => Resolve(id) # NoOne
<1>1. id \in DOMAIN cache => cache[id] \in Containers /\ Owned(owner, cache[id], id)
  BY DEF TypeInv, TypeOK, Range, OwnersRight
<1> QED
  BY <1>1 DEF Resolve, NameOK

\* An event with its names.
LEMMA WithFacts ==
    ASSUME NEW e \in Traced, NEW s \in Containers \cup {NoOne}, NEW d \in Containers \cup {NoOne}
    PROVE  /\ With(e, s, d) \in Named
           /\ With(e, s, d).src = e.src /\ With(e, s, d).dst = e.dst /\ With(e, s, d).known = e.known
           /\ With(e, s, d).srcName = s /\ With(e, s, d).dstName = d
  BY DEF With, Traced, Named

\* What fan-out has looked up is true of the event it is held for.
LEMMA EnrichmentRight == EnrichSpec => []EnrichInv
<1>1. EnrichInit => EnrichInv
  <2> SUFFICES ASSUME EnrichInit PROVE EnrichInv
    OBVIOUS
  <2>1. eventsCh = <<>> /\ enriched = <<>> /\ fanOut = Idle
    BY DEF EnrichInit
  <2>2. Range(<<>>) = {}
    BY DEF Range
  <2> QED
    BY <2>1, <2>2 DEF EnrichInv, WaitingOK, FanOutOK, EnrichedOK
<1>2. TypeInv /\ OwnersRight /\ EnrichInv /\ [EnrichNext]_allVars => EnrichInv'
  <2> SUFFICES ASSUME TypeInv, OwnersRight, EnrichInv, [EnrichNext]_allVars PROVE EnrichInv'
    OBVIOUS
  <2>1. CASE Next /\ UNCHANGED enrichVars
    <3>1. DOMAIN cache \subseteq DOMAIN cache' /\ \A c, i : Owned(owner, c, i) => Owned(owner', c, i)
      BY <2>1, ResolverStep
    <3>2. UNCHANGED <<eventsCh, fanOut, enriched>>
      BY <2>1 DEF enrichVars
    <3>3. WaitingOK'
      BY <3>1, <3>2 DEF EnrichInv, WaitingOK
    <3>4. FanOutOK'
      BY <3>1, <3>2 DEF EnrichInv, FanOutOK, NameOK
    <3>5. EnrichedOK'
      BY <3>1, <3>2 DEF EnrichInv, EnrichedOK, Told, NameOK
    <3> QED
      BY <3>3, <3>4, <3>5 DEF EnrichInv
  <2>2. ASSUME NEW src \in 0..MaxStarts, NEW dst \in 0..MaxStarts, Trace(src, dst) PROVE EnrichInv'
    <3> DEFINE e == [src |-> src, dst |-> dst, known |-> {src, dst} \cap DOMAIN cache]
    <3>1. UNCHANGED <<cache, owner, fanOut, enriched>> /\ eventsCh' = Append(eventsCh, e)
      BY <2>2 DEF Trace, vars, docker
    <3>2. e \in Traced /\ e.known \subseteq DOMAIN cache
      BY DEF Traced
    <3> HIDE DEF e
    <3>3. WaitingOK'
      <4>1. Range(Append(eventsCh, e)) = Range(eventsCh) \cup {e}
        BY <3>2, RangeAppend DEF EnrichInv, WaitingOK
      <4>2. Append(eventsCh, e) \in Seq(Traced)
        BY <3>2, AppendFacts DEF EnrichInv, WaitingOK
      <4> QED
        BY <3>1, <3>2, <4>1, <4>2 DEF EnrichInv, WaitingOK
    <3> QED
      BY <3>1, <3>3 DEF EnrichInv, FanOutOK, EnrichedOK
  <2>3. CASE ResolveSrc
    <3> DEFINE e == Head(eventsCh)
               found == With(e, Resolve(e.src), NoOne)
    <3>1. UNCHANGED <<cache, owner>> /\ eventsCh # <<>> /\ eventsCh' = Tail(eventsCh)
      BY <2>3 DEF ResolveSrc, vars, docker
    <3>2. e \in Traced /\ Tail(eventsCh) \in Seq(Traced) /\ Range(eventsCh) = {e} \cup Range(Tail(eventsCh))
      BY <3>1, TailFacts, RangeHeadTail DEF EnrichInv, WaitingOK
    <3>3. WaitingOK' /\ e.known \subseteq DOMAIN cache
      BY <3>1, <3>2 DEF EnrichInv, WaitingOK
    <3>4. /\ found \in Named /\ found.src = e.src /\ found.dst = e.dst /\ found.known = e.known
          /\ found.srcName = Resolve(e.src) /\ found.dstName = NoOne
      BY <3>2, ResolveFacts, WithFacts
    <3>5. NameOK(owner, e.src, Resolve(e.src)) /\ (e.src \in e.known => Resolve(e.src) # NoOne)
      BY <3>3, ResolveFacts
    <3>6. \/ found.srcName = NoOne /\ enriched' = Append(enriched, found) /\ UNCHANGED fanOut
          \/ found.srcName # NoOne /\ fanOut' = found /\ UNCHANGED enriched
      BY <2>3 DEF ResolveSrc
    <3> HIDE DEF e, found
    <3>7. CASE found.srcName = NoOne /\ enriched' = Append(enriched, found) /\ UNCHANGED fanOut
      <4>1. Told(owner, found)
        BY <3>4, <3>5, <3>7 DEF Told, NameOK
      <4>2. Append(enriched, found) \in Seq(Named) /\ Range(Append(enriched, found)) = Range(enriched) \cup {found}
        BY <3>4, AppendFacts, RangeAppend DEF EnrichInv, EnrichedOK
      <4>3. EnrichedOK'
        BY <3>1, <3>7, <4>1, <4>2 DEF EnrichInv, EnrichedOK
      <4>4. FanOutOK'
        BY <3>1, <3>7 DEF EnrichInv, FanOutOK
      <4> QED
        BY <3>3, <4>3, <4>4 DEF EnrichInv
    <3>8. CASE found.srcName # NoOne /\ fanOut' = found /\ UNCHANGED enriched
      <4>1. FanOutOK'
        BY <3>1, <3>3, <3>4, <3>5, <3>8 DEF FanOutOK
      <4>2. EnrichedOK'
        BY <3>1, <3>8 DEF EnrichInv, EnrichedOK
      <4> QED
        BY <3>3, <4>1, <4>2 DEF EnrichInv
    <3> QED
      BY <3>6, <3>7, <3>8
  <2>4. CASE ResolveDst
    <3> DEFINE name == IF fanOut.dst # 0 THEN Resolve(fanOut.dst) ELSE NoOne
               found == [fanOut EXCEPT !.dstName = name]
    <3>1. /\ UNCHANGED <<cache, owner, eventsCh>> /\ fanOut' = Idle /\ enriched' = Append(enriched, found)
          /\ fanOut \in Named /\ fanOut.srcName # NoOne /\ fanOut.known \subseteq DOMAIN cache
          /\ NameOK(owner, fanOut.src, fanOut.srcName)
      BY <2>4 DEF ResolveDst, vars, docker, EnrichInv, FanOutOK
    <3>2. /\ name \in Containers \cup {NoOne} /\ NameOK(owner, fanOut.dst, name)
          /\ fanOut.dst # 0 /\ fanOut.dst \in DOMAIN cache => name # NoOne
      BY ResolveFacts DEF NameOK
    <3>3. 0 \notin DOMAIN cache
      BY DEF TypeInv, TypeOK, Instances
    <3> HIDE DEF name
    <3>4. /\ found \in Named /\ found.src = fanOut.src /\ found.dst = fanOut.dst /\ found.known = fanOut.known
          /\ found.srcName = fanOut.srcName /\ found.dstName = name
      BY <3>1, <3>2 DEF Named
    <3> HIDE DEF found
    <3>5. Told(owner, found)
      BY <3>1, <3>2, <3>3, <3>4 DEF Told
    <3>6. Append(enriched, found) \in Seq(Named) /\ Range(Append(enriched, found)) = Range(enriched) \cup {found}
      BY <3>4, AppendFacts, RangeAppend DEF EnrichInv, EnrichedOK
    <3>7. EnrichedOK'
      BY <3>1, <3>5, <3>6 DEF EnrichInv, EnrichedOK
    <3> QED
      BY <3>1, <3>7 DEF EnrichInv, WaitingOK, FanOutOK
  <2>5. CASE UNCHANGED allVars
    BY <2>5 DEF allVars, vars, docker, enrichVars, EnrichInv, WaitingOK, FanOutOK, EnrichedOK
  <2> QED
    BY <2>1, <2>2, <2>3, <2>4, <2>5 DEF EnrichNext
<1>3. EnrichSpec => [](TypeInv /\ OwnersRight)
  BY EnrichmentKeepsResolver, TypeInvariant, OwnersStayRight, PTL
<1> QED
  BY <1>1, <1>2, <1>3, PTL DEF EnrichSpec

\* An event is told under the names of its own containers or under none.
THEOREM NamesAreRight == EnrichSpec => []NamesRight
<1>1. TypeInv /\ EnrichInv => NamesRight
  <2> SUFFICES ASSUME TypeInv, EnrichInv, NEW k \in DOMAIN enriched
               PROVE  /\ enriched[k].srcName # NoOne => enriched[k].src # 0 /\ enriched[k].srcName = owner[enriched[k].src]
                      /\ enriched[k].dstName # NoOne => enriched[k].dst # 0 /\ enriched[k].dstName = owner[enriched[k].dst]
    BY DEF NamesRight
  <2>1. Told(owner, enriched[k])
    BY DEF EnrichInv, EnrichedOK, Range
  <2>2. 0 \notin DOMAIN owner
    BY DEF TypeInv, TypeOK
  <2> QED
    BY <2>1, <2>2 DEF Told, NameOK, Owned
<1> QED
  BY <1>1, EnrichmentRight, EnrichmentKeepsResolver, TypeInvariant, PTL

\* What was known when an event was traced is known when fan-out gets to it,
\* so no such event is skipped and no such destination is lost.
THEOREM KnownEventsAreKept == EnrichSpec => []KnownEventsKept
<1>1. EnrichInv => KnownEventsKept
  BY DEF EnrichInv, EnrichedOK, Range, Told, KnownEventsKept
<1> QED
  BY <1>1, EnrichmentRight, PTL
=============================================================================
