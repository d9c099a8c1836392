# eBPF-monitor: TLA+ models, checks and proofs

eBPF-monitor watches the containers of a host. Probes in the kernel record TCP
connects and accepts and the `openat` and `execve` calls; a Go program pairs connects
with accepts, names the containers, prints every event as JSON and raises alerts by
rules. This directory holds the models of its core, the TLC instances that check them
and the TLAPS proofs about them. `PROJECT.json` maps every definition to source lines.

## 1. Inventory

| Component | State | Operations | Hard behaviour | What makes it correct |
|---|---|---|---|---|
| Probes, `bpf/monitor.c` | ring buffer of 256 KB | `tcp_connect`, `inet_csk_accept`, `handle_openat`, `handle_execve` | the ring drops records when full; IPv6 and cgroup filters | what is recorded is true; what is lost can be told |
| Correlator, `internal/correlator` | `pending`, mutex, `output` channel, 1 s ticker | `HandleConnect`, `HandleAccept`, `Cleanup`, `Close` | two goroutines; a blocking send under the mutex; timeouts; reuse of tuples; two clocks | an event pairs the two ends of one connection, once; no accept in time is lost; entries expire |
| Pipeline, `cmd/main.go` | four channels of 1024, alerts channel of 100, process state | reader loop, fan-in, fan-out with filter, signal goroutine | two routes into one channel; two sends per event; closing channels under their senders | printer and engine see the same events in the same order; Ctrl+C ends the process; nothing panics in service |
| Output loop, `internal/output` | its two channel variables | the select branches, the exit check | ends of channels in any order | everything sent is printed |
| Rule engine, `internal/ruleengine` | threshold windows, sequence trackers | `ProcessEvent`, `handleThreshold`, `handleSequence` | events with out-of-order times, long sequences | alert exactly when the window holds more than `Count` events |
| Matching, `rule.go`, `portexpr.go` | none | `MatchEvent`, `ParsePortExpr`, `Match` | negation, lists, wildcards, absent fields | agrees with the meaning the comments give |
| Rule loading, `LoadRules` | `rules` | the walk over the rules directory | one entry of many fails | no rule is left out without notice |
| Resolver, `internal/resolver` | `cache` of cgroup id to container | `updateInfo`, `Resolve`, `MonitorEventsLoop` | containers come and go between the calls, a subscription that starts late, errors half-way | a cgroup has the name of its own container; what is unknown has a known reason |
| Decoding and helpers | `bootTime`, the memory of the ring | `ParseEvent`, `NullTermStr`, `OpenFlagsToOp`, `KTimeToTime` | struct padding, memory used again, clocks | an event is that of its own call |

Interaction: the probes write to the ring, which the reader loop reads. Connect and
accept records go to the correlator, whose events travel `corr.output` → fan-in →
`eventsCh`; file and exec events go to `eventsCh` directly. Fan-out asks the resolver
for the containers, filters, and sends each event to `outputCh` and then `engineCh`.
The engine sends alerts to `alertsCh`; the output loop prints both. `PROJECT.json`
lists the hazards, each at its line.

## 2. Modules

| Module | Models |
|---|---|
| `Probes` | the kernel side: life of a TCP attempt, the four probes, the ring |
| `Correlator` (extends `Probes`) | `correlator.go`, driven by the reader loop; properties and the parts of the inductive invariant |
| `CorrelatorProofs` | the proofs about them |
| `MCCorrelator` | the instances |
| `Channels` | Go channels: send, receive, close (external) |
| `QueueLemmas` (extends `Channels`) | lemmas about sequences, and about what a send, a receive and a close do to a channel |
| `OutputLoop`, `MCOutputLoop`, `OutputLoopProofs` | `output.go`; the MC module adds two producers |
| `Pipeline` (extends `OutputLoop`), `MCPipeline`, `PipelineProofs` | the goroutines of `main.go`, the signal, the end of the process |
| `EventDelivery` | abstract: one log of events, two consumers that follow it |
| `PortExpr` | `portexpr.go`, and the meaning its comments give to a port expression |
| `RuleMatch` (extends `PortExpr`) | `rule.go` |
| `RuleEngine` (extends `RuleMatch`), `MCRuleEngine`, `RuleEngineProofs` | `engine.go` and `sequence.go` |
| `RuleFiles` (extends `RuleMatch`) | `LoadRules` |
| `LoadedRules` (extends `RuleFiles`), `MCRuleFiles`, `RuleFilesProofs` | the rules that were loaded, and an event that comes to them |
| `Resolver` | `resolver.go` beside the Docker daemon |
| `Enrichment` (extends `Resolver`), `MCEnrichment`, `ResolverProofs` | the resolver and the fan-out goroutine together |
| `EventWire`, `MCEventWire`, `EventWireProofs` | the bytes of a record, from the probe to the event |

### Probes and Correlator

An *attempt* is one TCP connection attempt. The pid, command and cgroup the probes copy
are functions of it, so attempts stand for them, and an entry or an event is known by
the attempts it came from. `sock` is the life of an attempt: `idle`, `connecting`,
`accepted` or `aborted`. A tuple is held until the listener returns the connection or
it is given up; the kernel keeps it unique within one network namespace. An attempt in
`ResetQueued` may be returned by `accept` after it was reset and gave its tuple up.
A probe is one step, since the reader never passes a reserved record. A full ring, an
IPv6 socket or cgroup 0 means no record; a connect that left none is in `unrecorded`.

`pending`, `output` and the ticker (one waiting tick at most) are the code's. Critical
sections without a blocking call are one step. `HandleAccept` is two: up to the send,
and from the send on; between them `sending # NoEvent` and the mutex is held. `reports`
and `missed` are history. `Now` and `KTimeToTime` are the two clocks: `bootTime` comes
from `/proc/stat` and may differ from the wall time at which the kernel clock was 0:
by rounding, by sleep (the kernel clock stops while the machine sleeps, the wall clock
does not), or because `/proc/stat` could not be read and the start of the monitor
stands in. `BootTimes` is the set of values it may have.

### OutputLoop and Pipeline

Each select branch of `OutputLoop` is an action; `continue` skips `ExitCheck`, as in
the code. `Pipeline` has one action per blocking operation of each goroutine. An event
is the record that leads to it; records that lead to none take the reader back to
`Read` and are no step. Fan-out resolves source and destination in two steps, since the
cache may grow between them. The rule engine is reduced to the number of rules that
fire. The signal goroutine closes one thing per step. A send on a closed channel panics
and ends the process (`Panic`); a failed `Read` exits (`ReadFails`). Panics inside rule
evaluation belong to `RuleEngine` and are not in this module: the shipped rules have
no sequence (the one construct that panics).

### PortExpr, RuleMatch and RuleEngine

A port expression is kept as what its parser tells apart: blank or `*`, a leading `!`,
and parts of no, one or two numbers. A number above `MaxPort` is one that `ParseUint`
refuses. A glob pattern is the set of the values it matches. A block with a `not` is the
sequence of the blocks on the way down; of a block with a `not` the code looks at the
`not` only.

One step of `RuleEngine` shows one event to one rule. A group key is the name of the
rule and the values of the fields, as the sequence of the pieces between the colons.
Events have a time of their own: a connection carries the time of its connect and comes
when it is accepted, and local events take a shorter way, so an event may be older than
one that came before it. `Lag` is by how much. The code has no bound on it (channels may
be full), so the properties are stated in terms of it: `NoMissedBurst` needs no bound at
all, and `NoFalseBurst` says that disorder by `Lag` stretches the window by at most `Lag`.
With `Lag` 0 the two together say "an alert exactly when more than `Count` matches of
the group lie in the window". `KeysTellGroups` is the condition on rule files under which
every group has a window of its own: names of rules may hold colons and may be used twice.

Of `handleSequence` the model has all that can happen: no step matches, or the store into
the map of trackers, which nothing makes, panics. `advanceStep` lies behind that store.

### Resolver and Enrichment

Every start of a container is an *instance*; its number stands for its init process and
for its cgroup. `Start`, `Die` and `StreamBreaks` are the daemon's; each call of
`updateInfo` to the daemon or to `/proc` is a step, so that containers stop and start
between any two. The pid of a container that is down is 0. `unannounced` and `cutOff` are
history: instances started while there was no subscription, and instances that an update
that gave up did not come to; a later `ContainerList` takes them out again, for it has
another chance. `KnownStaysKnown` and `CacheTruthful` are also what allows `Pipeline` to
reduce the resolver to `Learn`: its cache only grows.

`Enrichment` puts events into `eventsCh` and lets fan-out look source and destination up,
in two steps, while the resolver works. Each event remembers what was known when it was
traced.

### EventWire

A byte is 0 or *byte k of field f of call c*. The slots of the ring keep their bytes; a
probe writes the members of its type, and of a text no more than the text and its
terminator. Offsets come from the sizes and alignments of `struct event` (344 bytes) and
from the fields of `MonitorEvent` (340 bytes), which are written down separately.

### RuleFiles

`broken` is the set of entries that cannot be read or are no YAML; a file fails as well
when one of its port expressions is refused. A directory that fails may still give a part
of its entries (`Parts`), as `os.ReadDir` does. The callback's `d` is nil only when the
root is missing. `Shown` is the set of entries that no broken directory hides, at any
depth. `PortMeaning` holds the loaded rules, block by block and step by step, against the
YAML nodes of their files. `LetsThrough` gives the ports a node lets through: those it names,
or with `!` the others; all of them if it names nothing; and for a lone `*` none, where the
comment of the field says "match all ports" (`portexpr.go:16`). `LoadedRules` shows the rules that were loaded an event with and without its
destination, so that loading, parsing and matching are checked together. What
`MatchSurvivesIgnorance` says of matches does not hold of alerts: a threshold rule that is
grouped by `dst_container` counts events with an unknown destination in a group of their own.

## 3. Runs

| Run | Shows | Size |
|---|---|---|
| `correlator` | `AttributionSound`, `ReportedOnce`, `MissExplained`, `EntryHeldDuringSend`, `TypeOK`; `PendingExpires`, `SendCompletes` | 289 441 states |
| `pipeline` | the fair refinement of `EventDelivery` (`DeliverySafe`, `DeliveryLive`), `PanicOnlyAfterSignal`, `EngineGetsSource`, `RouteOrder`, `FilterExact`, `TypeOK`; `EventSettled`, `InterruptEnds` | 217 737 |
| `output_loop` | `NilAfterLast`, `AllPrinted` | 6 084 |
| `rule_loading` | `NoRuleLeftOut`: a broken rule file is never skipped; `PortMeaning`: a port expression lets through the ports the file names, a lone `*` none; `MatchSurvivesIgnorance`: without negation, an unknown destination loses no match | 1 573 120 |
| `rule_thresholds` | `NoMissedBurst`, `NoFalseBurst`, `TypeOK` (no match raises two alerts) | 361 088 |
| `resolver` | `CacheTruthful`, `UnknownExplained`, `KnownStaysKnown`, `TypeOK`; `StartNoticed`; with fan-out `NamesRight`, `KnownEventsKept` | 182 409 |
| `event_wire` | `EventFaithful` | 10 949 |
| `correlator_loopback` | *violated* `AttributionSound`: two containers share a loopback tuple | |
| `correlator_suspend` | *violated* `OnlyTimedOutRemoved`: entries removed early after a suspend | |
| `output_return` | *violated* `ReturnsWhenClosed`: the exit check is skipped | |
| `pipeline_filter` | *violated* `FilterRespected`: unknown destinations pass | |
| `rule_sequence` | *violated* `TrackerFoundOrCreated`: the map of trackers is nil | |

Each violated property states what a comment in the source says; `findings` in
`PROJECT.json` quotes it. Four more places where the code and its comments differ can be
read off the models without a run: `Match` does not look at `Wildcard`, so `*` matches no
port (`LetsThrough` in `PortExpr`); `AddEvent` stops at the first timestamp within the window and keeps
older ones behind it (`RuleEngine`); a rules subdirectory that cannot be listed is left
out without an error (`VisitDirFails`); and the probes' "Filter host processes" tests for
cgroup id 0, which no cgroup has (`LocalCall`). The passing properties state what holds in
spite of them.

**Bounds.** Correlator: two attempts on one tuple are the fewest that can be confused
(the theorems of section 4 cover any number of attempts and tuples, and IPv6 sockets);
the local call takes a ring slot, so that connects get lost. A ring of 2 and a channel
of 1 are full in reachable states; a timeout of 1 s with a clock up to 3 s lets entries
expire or not. `Second` goes on at `MaxClock` with the clock standing still, so the
ticker is never starved by the bound. Pipeline: capacity 1 makes every channel full; two
connections are the fewest whose order can be wrong, and a local event takes the other
route; the alerts of two events and an alert channel of 1 make the engine wait. The ends of
the connections are such that each conjunct of the filter decides: `c3` has two known ends
without the prefix and is dropped, `c1` passes for a destination that has the prefix or is
not known yet, `c2` for its source, once that is known. The connections are read in one
order (`InOrder`), which keeps the check of liveness within minutes; `Read` has no fairness,
so no fair behaviour is cut short. Without it the invariants hold as well (1 169 195 states),
and they are theorems. In `output_loop`
three events pass through channels of one. Port expressions: 2 as the largest port gives
ranges that are reversed, single and proper, and ports below, in and above them. Rule
engine: a count of 2 needs three matches, four events leave one outside; windows of 1
and 2 with `Lag` 2 let an event be older than the whole window. Resolver: two containers
let one be at hand and the other be left when an update gives up, and two starts of one
are a restart; one failure suffices, since the next `ContainerList` starts afresh. The
event has a source and a destination, or neither. Event wire: one slot, so that every
record falls on the bytes of the one before it; paths of 5, 255 and 300 characters for a
field of 256.

**Fairness.** The Go scheduler runs every goroutine that can run: weak fairness per
goroutine. `Cleanup` competes with the reader for a `sync.Mutex`, whose starvation mode
hands it over: strong fairness. The reader and fan-in compete for room in `eventsCh`,
where Go queues senders: strong fairness. A ready select branch stays ready until it is
taken and the choice is random: weak fairness per branch. Nothing is assumed of the
traced processes, the records or the signal. Printing is assumed to end. In `Resolver` the
goroutine runs and the daemon answers or fails (its client waits without a timeout, so a
daemon that does neither would stop the updates): weak fairness of the update and of the
loop; none of the containers, the stream or the shutdown.

**Deadlock** is checked in every run of the correlator and the pipeline. It is not where
the modelled work ends: the output loop and its producers stop, the rule files are
loaded once, the resolver's loop returns, and the rule engine, the traced calls and the
containers come to the end of their bound.

## 4. Proofs

Every theorem is for every value of the constants: any number of attempts, events,
containers, rules or files, any capacity, timeout or window. What is assumed are the named
`ASSUME`s beside the constants (types, capacities of at least 1, distinct null values, a
directory tree that is a tree, blocks that are sequences), which TLC evaluates on the
instances. Other conditions are hypotheses of the theorems that need them:
`TuplesUnambiguous` and `KeysTellGroups`, a `bootTime` that is not early, destinations that
are known, events in order. Without them the code does something else (sections 3 and 5).
The bounds only stop a behaviour and can have any value.

**Correlator** (`CorrelatorProofs`)

- `TypeCorrect`: `Spec => []TypeOK`.
- `EntryHeld`: `Spec => []EntryHeldDuringSend`, from `SendCoherent`, which ties the
  event being sent to the record being handled and to the entry in `pending`.
- `NoDoubleReport`: `Spec => []ReportedOnce`. The property alone is not inductive: it
  needs `ConnectUnique` (a connect is in one place only: the ring, the reader,
  `pending` or `reports`), which needs `RecordsTrue` (a record speaks of a socket that
  is not idle, so a new connect record is new everywhere).

Under the assumption `TuplesUnambiguous` (attempts on one tuple share a namespace, and
none is returned after it gave its tuple up):

- `TuplesDisciplined`: `TupleDiscipline`, the heart of the argument. From the
  submission of the connect record of an attempt until its accept record is handled,
  no other record on its tuple comes in between. `Standing(b, n)` says so for the
  reader and the first n records of the ring: once they are handled, `Held(b)` is true,
  that is, `pending` has the entry of b, or has none and b timed out. A probe keeps it
  because the tuple is not free; `Read` shifts it; `HandleConnect` turns it into
  `Held`; `Cleanup` exchanges one disjunct of `Held` for the other.
- `AttributionIsSound`, `MissesExplained`: `AttributionSound` and `MissExplained`.

On the time at which `Cleanup` removes an entry, again for ambiguous tuples too:

- `EntriesAreDated`: an entry carries the time of its own connect (`EntryDated`), which
  needs `RecordsTrue`: a connect whose record is on its way is not dated again.
- `RemovalIsInTime`: an entry disappears without a report only if its connect is more than
  `Timeout - Skew` old, where `Skew` is the error of `bootTime`. With it
  `LateBootRemovesOnlyTimedOut`: `OnlyTimedOutRemoved`, which `correlator_suspend` shows to
  fail, holds if no value in `BootTimes` is before the start of the machine. The failure is
  thus the error of `bootTime` and nothing else.

**Pipeline** (`PipelineProofs`)

- `PipelineTypeCorrect`, with the capacities of all channels.
- `NoEarlyPanic`: `PanicOnlyAfterSignal`. Inductive with `OpenUntilSignal`: until the
  signal goroutine has woken up every channel is open.
- `SourceNeverNil`: `EngineGetsSource`. Inductive with `SourceKnown`: the event that
  fan-out holds, and not only those it has sent, has its source.
- `RouteKept` and from it `OneRouteOneOrder` (`RouteOrder`). The order of what has been
  admitted says nothing of the next event, so `RouteInv` orders all places of a route at
  once: what is admitted, the event in fan-out, `eventsCh`, the one in fan-in,
  `corr.output`, the one of the reader. Every member of a place was read before every
  member of the places behind it that takes the same route; a step moves one event from
  the end of one place to the start of the next. `ReadOnce` makes "before" a strict order.
- `ConsumersAgree`: what was printed and the buffer of `outputCh` together are the log of
  admitted events, and so are what was processed, the buffer of `engineCh` and the event
  fan-out has sent to one of the two only.
- `PipelineDelivers`: the pipeline implements the safety part of `EventDelivery`. That
  each event enters the log once comes from `RouteInv`, that each consumer takes the next
  entry from `LogsAgree`; reading, routing, filtering and shutting down stutter.
- `FilterIsExact`: `FilterExact`. What the filter decides at one moment must stay
  justified while the resolver learns, so `FilterInv` says that the cache holds what was
  known at the start, that the event in fan-out and every admitted one have the source of
  their record, and that a lost one had its destination in the cache. From the same
  invariant `FilterHoldsForKnownPeers`: `FilterRespected`, which `pipeline_filter` shows to
  fail, holds if the destination of every connection is known at the start.

**Output loop** (`OutputLoopProofs`): `OutputAccounted`, at every moment what was sent is
what is printed followed by what is buffered, and a nil channel is one that has come to its
end; from it `NilIsLast` (`NilAfterLast`).

**Resolver and Enrichment** (`ResolverProofs`)

- `ResolverTypeCorrect`, `CacheIsTruthful` and `KnownIsKept` (`KnownStaysKnown`, an action
  property). Inductive with `OwnersRight`: the pid at hand belongs to the container at hand,
  living or dead. That a second read of a known cgroup writes the name that is there
  already follows from it.
- `MissedContainersExplained` (`UnknownExplained`). `AllAccounted` extends the property to
  the moments in which the loop does not wait: a running container is known, was never
  announced, was cut off, has its start in the stream or in the loop, or has the update
  before it.
- `EnrichmentKeepsResolver`: `EnrichSpec => Spec`, so that all of this holds beside
  fan-out; `NamesAreRight` and `KnownEventsAreKept`, inductive with what is true of an
  event in `eventsCh`, between its two lookups, and after them (`EnrichInv`).

**Rule engine** (`RuleEngineProofs`)

- `EngineTypeCorrect`, with at most one alert for a match.
- `BurstsAreSeen` and `AlertsAreFounded`, if `KeysTellGroups`: `NoMissedBurst` and
  `NoFalseBurst` for any rules, windows and counts and whatever the order of the times.
  Neither is inductive: both count matches, and the code counts timestamps. `WindowsInv`
  relates the two: the timestamps of a window stand for matches of its rule and group, one
  each, in their order (`StandsFor`); a match for which there is no timestamp is older than
  the window (`Represents`). `AddEvent` cuts off timestamps from the front up to the first
  that is young enough, so what it cuts is too old now and for ever, but what it keeps may
  be older than the window; `TimesInv` bounds by how much, for a timestamp behind a young
  one is at most `Lag` older. The number of timestamps is then at least the number of
  matches in the window and at most the number in the window stretched by `Lag`.
  The invariant holds in all states of the `rule_thresholds` instance.
- `ThresholdsExactInOrder`: with `Lag` 0 the two bounds meet (`StampsInv`: the time of a
  match is then the newest), and the alerts are exactly those of the definition.

**Rule files** (`RuleFilesProofs`)

- `PortsMeanWhatIsWritten`: for every YAML node, lists and wildcards included,
  `UnmarshalYAML` refuses it exactly if a number in it is no port, and otherwise the
  expression lets through exactly the ports of `LetsThrough`: with a lone `*`, none. No node
  is left out. `LoadedRulesMeanWhatIsWritten` carries it over to the loaded rules
  (`PortMeaning`); inductive with `LoadedInv`, that the rules are the files of `from`, read.
- `NoRuleIsSkipped`: `NoRuleLeftOut` for a tree of any depth. Inductive with `WalkInv`:
  there is a set of entries the walk has come upon, closed under the directories it has
  listed, from which only `todo` is still to be visited and whose visited rule files are
  loaded once each. At the end it contains `Shown`, the least such set.
- `IgnoranceLosesNoMatch`: `MatchSurvivesIgnorance` for every set of rules that can be
  loaded and every event. `BlockMeaning` is the core: a block negated an even number of
  times answers as its innermost block does. `BlockMatches` is a recursive function; the
  proof gives the function it should be, and a first place where the two differ
  (`FirstExists`, from the well-ordering of the naturals) contradicts the recursion. By
  `EventSpecLoads` the two theorems above hold as well while events come.

**Event wire** (`EventWireProofs`): `EventsAreFaithful`, `EventFaithful` for any calls, any
lengths of texts and any number of slots. The layouts are computed first: `COffsets` and
`GoOffsets` are the tables that the two recursive functions come to, `CLayout` gives the
member of every byte, `SameLayout` and `Parsed` that `binary.Read` finds each member where
the compiler put it. `WireInv` says of every record that waits that its slot is `Written`:
to write the bytes of its call again would change nothing there. A probe keeps it since the
slots of less than one round differ (`SlotsDiffer`) and since writing is idempotent, a read
by shifting. `FieldRead` then follows each member the reader uses: it is filled by the probe
of that type (`UsedFilled`), and the first zero of a text is its own terminator
(`Terminated`), whatever an earlier record left behind it. `WireInv` was checked with TLC
for one slot and two.

`QueueLemmas` has the facts that all of these share: what `Append`, `Head`, `Tail` and `\o`
do to the members, the order and the injectivity of a sequence, and what the operations of
`Channels` do to a channel.

**Only model-checked.** Liveness under fairness, which is out of the prover's reach:
`PendingExpires`, `SendCompletes`, `AllPrinted`, `DeliveryLive`, `EventSettled`,
`InterruptEnds`, `StartNoticed`. Every invariant and every action property that a passing
run checks is a theorem.

## 5. Not modelled

- The start of `main`: sequential set-up that exits on the first error. (Loading the rules
  and the first `updateInfo` are modelled.)
- JSON, logs, descriptions, severities: no property depends on them.
- `OpenFlagsToOp` and `BytesToIPv4`: one expression each, without state or cases.
- `advanceStep` and the alert of a sequence: no execution reaches them (`rule_sequence`).
- The text of `/proc/<pid>/cgroup`: the model takes the id from it. A host with cgroup v1
  has lines without `::` and is not covered.
- Addresses that are translated on the way (published ports, DNAT): the two ends then see
  different tuples, `HandleAccept` builds another key than `HandleConnect` did, and the
  accept is missed. The models give an attempt one tuple, so `MissExplained` is about
  connections without translation.
- Back-pressure on the correlator: in `Correlator` fan-in and the local events never wait for
  `eventsCh`. `Pipeline` has these waits, and `EventSettled` shows that they end.
- Offsets in the ring: `EventWire` gives records slots of one size, though 256 KB is no
  multiple of it. What an old record leaves may thus lie elsewhere in the code; that none of
  it shows does not depend on where it lies.
- Reuse of a pid between the inspection of a container and the read of its `/proc` file,
  and containers that are renamed.
- Rules of one name, or whose names and values join to one key: they share a window, of
  the size the first of them gave it. The instances take rules with different keys.
- `vmlinux.h`: 159 009 lines of kernel types generated by `bpftool`. It holds no
  behaviour; the few types that `monitor.c` takes from it are in `Probes`. It is by far the
  largest part of the C files, so the lines the models stand for are a small share of
  them, while nearly every line of `monitor.c` is modelled.
- `loader.go`, `Makefile` and the rule files: a generator line, build commands and data.

## 6. Plan

Modelled: every component with behaviour of its own. Proved: every invariant and every
action property that a passing run checks, and for two of the violated ones the condition
under which they hold. What is left:

1. `AttributionSound` with connections that are returned after a reset: the theorem
   excludes them (`TuplesUnambiguous`), and a weaker condition may do.
2. The number of windows in `thresholds`, which only grows: a bound in terms of the groups
   that were seen.
3. The trackers of sequences, once the map of them is made and `advanceStep` is reached.
