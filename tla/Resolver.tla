------------------------------ MODULE Resolver ------------------------------
(***************************************************************************)
(* The container resolver: resolver.go, beside a Docker daemon that starts *)
(* and stops containers while it is being asked.                           *)
(*                                                                         *)
(* Every start of a container is an instance of it, with its own init      *)
(* process and its own cgroup; the number of the instance stands for the   *)
(* pid and for the cgroup id.  (Cgroup ids are 64-bit numbers that are not *)
(* given out twice.  That no pid is given out twice between the inspection *)
(* of a container and the read of its /proc file is an assumption.)        *)
(*                                                                         *)
(* New runs updateInfo once and gives up on an error; MonitorEventsLoop    *)
(* subscribes to the daemon and then runs updateInfo for every start.      *)
(***************************************************************************)
EXTENDS Naturals, Sequences, Functions, FiniteSets

CONSTANTS
    Containers, NoOne,
    MaxStarts,      \* bound: starts of containers
    MaxErrors       \* bound: calls of the daemon that fail

ASSUME ResolverAssumption ==
    /\ NoOne \notin Containers
    /\ MaxStarts \in Nat
    /\ MaxErrors \in Nat

VARIABLES
    up,             \* container -> its running instance, 0 if it is down
    owner,          \* the containers of the instances started so far
    stream,         \* events of the daemon that the loop has not received
    subscribed,     \* the daemon sends events
    errors,         \* calls that failed so far
    cache,          \* cgroup id -> container
    started,        \* New has returned and MonitorEventsLoop runs
    at,             \* where the resolver is
    todo,           \* updateInfo: containers listed and not yet done
    cur, pid,       \* ... the one at hand, and the pid its inspection gave
    unannounced,    \* history: instances started without a subscription,
    cutOff          \* ... and those an updateInfo that gave up did not reach

docker == <<up, owner>>
scan == <<todo, cur, pid>>
history == <<unannounced, cutOff>>
vars == <<docker, stream, subscribed, errors, cache, started, at, scan, history>>

Instances == 1..MaxStarts
Running == {c \in Containers : up[c] # 0}
Alive(i) == \E c \in Containers : up[c] = i /\ i # 0
UpOf(S) == {up[c] : c \in S \cap Running}

-----------------------------------------------------------------------------
\* Whatever starts before New lists the containers was up before the monitor.
Init ==
    /\ up = [c \in Containers |-> 0]
    /\ owner = <<>>
    /\ stream = <<>>
    /\ subscribed = FALSE
    /\ errors = 0
    /\ cache = <<>>
    /\ started = FALSE
    /\ at = "list"
    /\ todo = {} /\ cur = NoOne /\ pid = 0
    /\ unannounced = {} /\ cutOff = {}

-----------------------------------------------------------------------------
\* The daemon.

Announce(action) == stream' = IF subscribed THEN Append(stream, [action |-> action]) ELSE stream

Start(c) ==
    /\ up[c] = 0
    /\ Len(owner) < MaxStarts
    /\ owner' = Append(owner, c)
    /\ up' = [up EXCEPT ![c] = Len(owner) + 1]
    /\ Announce("start")
    /\ unannounced' = IF subscribed THEN unannounced ELSE unannounced \cup {Len(owner) + 1}
    /\ UNCHANGED <<subscribed, errors, cache, started, at, scan, cutOff>>

Die(c) ==
    /\ up[c] # 0
    /\ up' = [up EXCEPT ![c] = 0]
    /\ Announce("die")
    /\ UNCHANGED <<owner, subscribed, errors, cache, started, at, scan, history>>

\* The stream of events breaks off.
StreamBreaks ==
    /\ subscribed
    /\ errors < MaxErrors
    /\ errors' = errors + 1
    /\ subscribed' = FALSE
    /\ stream' = Append(stream, [action |-> "error"])
    /\ UNCHANGED <<docker, cache, started, at, scan, history>>

-----------------------------------------------------------------------------
\* updateInfo, called by New and then by the loop.

\* It returns: New hands the resolver out or main exits, the loop goes on
\* in either case.
Return(err) ==
    /\ at' = IF started THEN "select" ELSE IF err THEN "failed" ELSE "subscribe"
    /\ todo' = {} /\ cur' = NoOne /\ pid' = 0

ContainerList ==
    /\ at = "list"
    /\ todo' = Running
    /\ at' = "inspect"
    /\ unannounced' = unannounced \ UpOf(Running)
    /\ cutOff' = cutOff \ UpOf(Running)
    /\ UNCHANGED <<docker, stream, subscribed, errors, cache, started, cur, pid>>

\* Mutant of ContainerInspect: keeps the pid of the container before.
ContainerInspectStale(c) ==
    /\ at = "inspect"
    /\ c \in todo
    /\ cur' = c
    /\ pid' = IF pid = 0 THEN up[c] ELSE pid
    /\ at' = "read"
    /\ UNCHANGED <<docker, stream, subscribed, errors, cache, started, todo, history>>

\* The pid of a container that is down is 0.
ContainerInspect(c) ==
    /\ at = "inspect"
    /\ c \in todo
    /\ cur' = c
    /\ pid' = up[c]
    /\ at' = "read"
    /\ UNCHANGED <<docker, stream, subscribed, errors, cache, started, todo, history>>

\* The daemon fails to answer ContainerList or ContainerInspect.
DaemonFails ==
    /\ at = "list" \/ (at = "inspect" /\ todo # {})
    /\ errors < MaxErrors
    /\ errors' = errors + 1
    /\ Return(TRUE)
    /\ cutOff' = cutOff \cup UpOf(IF at = "list" THEN Running ELSE todo)
    /\ UNCHANGED <<docker, stream, subscribed, cache, started, unannounced>>

\* Mutant of getCgroupID: goes on with id 0 when the process is gone.
getCgroupIDZero ==
    /\ at = "read"
    /\ LET id == IF Alive(pid) THEN pid ELSE 0 IN
         cache' = [i \in DOMAIN cache \cup {id} |-> IF i = id THEN cur ELSE cache[i]]
    /\ todo' = todo \ {cur}
    /\ at' = "inspect"
    /\ UNCHANGED <<docker, stream, subscribed, errors, started, cur, pid, history>>

\* /proc/<pid>/cgroup is there while the process lives: the cache gets an
\* entry.  Otherwise the whole update ends.
getCgroupID ==
    /\ at = "read"
    /\ \/ /\ Alive(pid)
          /\ cache' = [i \in DOMAIN cache \cup {pid} |-> IF i = pid THEN cur ELSE cache[i]]
          /\ todo' = todo \ {cur}
          /\ at' = "inspect"
          /\ UNCHANGED <<cur, pid, cutOff>>
       \/ /\ ~Alive(pid)
          /\ Return(TRUE)
          /\ cutOff' = cutOff \cup UpOf(todo)
          /\ UNCHANGED cache
    /\ UNCHANGED <<docker, stream, subscribed, errors, started, unannounced>>

\* Mutant of Updated: leaves the last container of the list out.
UpdatedOneShort ==
    /\ at = "inspect"
    /\ Cardinality(todo) <= 1
    /\ Return(FALSE)
    /\ UNCHANGED <<docker, stream, subscribed, errors, cache, started, history>>

\* Every container of the list is done.
Updated ==
    /\ at = "inspect"
    /\ todo = {}
    /\ Return(FALSE)
    /\ UNCHANGED <<docker, stream, subscribed, errors, cache, started, history>>

-----------------------------------------------------------------------------
\* MonitorEventsLoop.

Subscribe ==
    /\ at = "subscribe"
    /\ subscribed' = TRUE
    /\ started' = TRUE
    /\ at' = "select"
    /\ UNCHANGED <<docker, stream, errors, cache, scan, history>>

Receive(action) ==
    /\ at = "select"
    /\ stream # <<>> /\ Head(stream).action = action
    /\ stream' = Tail(stream)
    /\ UNCHANGED <<docker, subscribed, errors, started, scan, history>>

\* time.Sleep(500 * time.Millisecond), then updateInfo.
OnStart == Receive("start") /\ at' = "sleep" /\ UNCHANGED cache

\* Mutant of Wake: sleeps on until the next event.
WakeAtNext ==
    /\ at = "sleep"
    /\ stream # <<>>
    /\ at' = "list"
    /\ UNCHANGED <<docker, stream, subscribed, errors, cache, started, scan, history>>

Wake ==
    /\ at = "sleep"
    /\ at' = "list"
    /\ UNCHANGED <<docker, stream, subscribed, errors, cache, started, scan, history>>

\* Mutant of OnDie: the entries of containers that are down are removed.
OnDieEvicts ==
    /\ Receive("die")
    /\ cache' = Restrict(cache, {i \in DOMAIN cache : Alive(i)})
    /\ UNCHANGED at

\* "TODO: remove from cache"
OnDie == Receive("die") /\ UNCHANGED <<at, cache>>

OnError == Receive("error") /\ at' = "ended" /\ UNCHANGED cache

\* The context is cancelled when the monitor shuts down.
Done ==
    /\ at = "select"
    /\ at' = "ended"
    /\ UNCHANGED <<docker, stream, subscribed, errors, cache, started, scan, history>>

UpdateStep ==
    \/ ContainerList
    \/ \E c \in Containers : ContainerInspect(c)
    \/ DaemonFails
    \/ getCgroupID
    \/ Updated

LoopStep == Subscribe \/ OnStart \/ Wake \/ OnDie \/ OnError

Next ==
    \/ \E c \in Containers : Start(c) \/ Die(c)
    \/ StreamBreaks
    \/ UpdateStep
    \/ LoopStep
    \/ Done

Spec == Init /\ [][Next]_vars

\* The goroutine of the loop runs, and the daemon answers or fails.  Nothing
\* is assumed of the containers, the stream and the shutdown.
Fairness == WF_vars(UpdateStep) /\ WF_vars(LoopStep)

-----------------------------------------------------------------------------
\* The variables have their types; ids in the cache are ids of cgroups.
TypeOK ==
    /\ up \in [Containers -> 0..MaxStarts]
    /\ owner \in Seq(Containers) /\ Len(owner) <= MaxStarts
    /\ stream \in Seq([action : {"start", "die", "error"}])
    /\ subscribed \in BOOLEAN
    /\ errors \in 0..MaxErrors
    /\ DOMAIN cache \subseteq Instances /\ Range(cache) \subseteq Containers
    /\ started \in BOOLEAN
    /\ at \in {"list", "inspect", "read", "failed", "subscribe", "select", "sleep", "ended"}
    /\ todo \in SUBSET Containers
    /\ cur \in Containers \cup {NoOne}
    /\ pid \in 0..MaxStarts
    /\ unannounced \in SUBSET Instances
    /\ cutOff \in SUBSET Instances

\* A cgroup is named after its own container (updateInfo), however the
\* containers stop, start again and are listed half-way.
CacheTruthful == \A i \in DOMAIN cache : i <= Len(owner) /\ cache[i] = owner[i]

\* When the loop waits and no start is under way, the monitor does not know a
\* running container for one of two reasons only: it started when there was no
\* subscription, after the list of New (resolver.go:120) or after the stream
\* broke, or an updateInfo gave up before it (resolver.go:71, 78).
UnknownExplained ==
    at = "select" /\ ~(\E j \in DOMAIN stream : stream[j].action = "start") =>
        \A c \in Running : up[c] \in DOMAIN cache \cup unannounced \cup cutOff

\* A cgroup that is known stays known under the same name, so that the events
\* of a container that has died can still be told when they come out of the
\* queues (Resolver.Resolve).
KnownStaysKnown ==
    [][\A i \in DOMAIN cache : i \in DOMAIN cache' /\ cache'[i] = cache[i]]_vars

\* A container that starts after the subscription gets known, unless it dies,
\* an update gives up before it, or the stream or the monitor ends.
StartNoticed ==
    \A i \in Instances :
        (subscribed /\ Alive(i) /\ i \notin unannounced)
          ~> (i \in DOMAIN cache \cup cutOff \/ ~Alive(i) \/ at = "ended")
=============================================================================
