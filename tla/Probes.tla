------------------------------- MODULE Probes -------------------------------
(***************************************************************************)
(* The kernel side of the monitor: the eBPF programs of bpf/monitor.c and  *)
(* the ring buffer they write to.                                          *)
(*                                                                         *)
(* A TCP connection attempt is one member of Attempts: the pid, comm and   *)
(* cgroup the probes copy out are functions of it, so the attempt itself   *)
(* stands for them.  Its 4-tuple and its network namespace are constants:  *)
(* the kernel keeps a tuple unique among the open sockets of ONE           *)
(* namespace only.  Both ends see one tuple: addresses that are translated *)
(* on the way are left out.  An openat or execve call is one of Locals.    *)
(*                                                                         *)
(* A probe runs from bpf_ringbuf_reserve to bpf_ringbuf_submit while the   *)
(* traced system call waits, and the consumer never passes a reserved      *)
(* record that is not submitted, so a probe is one step.                   *)
(***************************************************************************)
EXTENDS Integers, Sequences

CONSTANTS
    Attempts,     \* TCP connection attempts
    Locals,       \* openat and execve system calls
    Tuples,       \* <<source address, source port, dest. address, dest. port>>
    Netns,        \* network namespaces
    TupleOf,      \* the tuple of an attempt
    NetnsOf,      \* the namespace of an attempt
    ConnectIPv4,  \* attempts whose client socket is AF_INET
    AcceptIPv4,   \* attempts whose accepted socket is AF_INET
    ResetQueued,  \* attempts reset by the client in the accept queue, and returned
    RingSlots,    \* records the ring buffer holds: 256 KB / 352 bytes in the code
    CgroupOf,     \* the cgroup id (cgroup v2 inode number) of a local call
    MaxClock      \* bound: the last second the clock shows

ASSUME ProbesAssumption ==
    /\ TupleOf \in [Attempts -> Tuples]
    /\ NetnsOf \in [Attempts -> Netns]
    /\ ConnectIPv4 \subseteq Attempts
    /\ AcceptIPv4 \subseteq Attempts
    /\ ResetQueued \subseteq Attempts
    /\ RingSlots \in Nat \ {0}
    /\ CgroupOf \in [Locals -> Nat]
    /\ MaxClock \in Nat

VARIABLES
    clock,        \* bpf_ktime_get_ns: CLOCK_MONOTONIC, in seconds
    sock,         \* the life of every attempt
    connTime,     \* when tcp_connect ran for an attempt
    unrecorded,   \* attempts whose tcp_connect left no record
    called,       \* the local calls made so far
    ring          \* the ring buffer: records submitted and not yet read

kernelVars == <<clock, sock, connTime, unrecorded, called, ring>>

SockStates == {"idle", "connecting", "accepted", "aborted"}

\* struct event, reduced to what the user side tells apart.
Record == [type : {"connect", "accept"}, att : Attempts, ts : Nat]
            \cup [type : {"local"}, att : Locals, ts : Nat]

EventOf(type, a) == [type |-> type, att |-> a, ts |-> clock]

-----------------------------------------------------------------------------
KernelInit ==
    /\ clock = 0
    /\ sock = [a \in Attempts |-> "idle"]
    /\ connTime = [a \in Attempts |-> 0]
    /\ unrecorded = {}
    /\ called = {}
    /\ ring = <<>>

\* Mutant of HasRoom: one record too many.
HasRoomOffByOne == Len(ring) <= RingSlots

\* bpf_ringbuf_reserve returns NULL when the ring is full.
HasRoom == Len(ring) < RingSlots

\* The tuple is free in the namespace of a: an attempt holds it until its
\* connection is accepted or given up.
TupleFree(a) ==
    \A b \in Attempts \ {a} :
        sock[b] = "connecting" => <<TupleOf[b], NetnsOf[b]>> # <<TupleOf[a], NetnsOf[a]>>

\* kprobe/tcp_connect, and the call it traces: an IPv6 socket is skipped, a
\* full ring drops the record ("TODO: Handle error").
tcp_connect(a) ==
    /\ sock[a] = "idle"
    /\ TupleFree(a)
    /\ sock' = [sock EXCEPT ![a] = "connecting"]
    /\ connTime' = [connTime EXCEPT ![a] = clock]
    /\ \/ /\ a \in ConnectIPv4 /\ HasRoom
          /\ ring' = Append(ring, EventOf("connect", a))
          /\ UNCHANGED unrecorded
       \/ /\ ~(a \in ConnectIPv4 /\ HasRoom)
          /\ unrecorded' = unrecorded \cup {a}
          /\ UNCHANGED ring
    /\ UNCHANGED <<clock, called>>

\* The listener may return the connection: it is open, or it was reset after
\* the handshake and still waits in the accept queue, its tuple free again.
Returnable(a) ==
    \/ sock[a] = "connecting"
    \/ sock[a] = "aborted" /\ a \in ResetQueued

\* kretprobe/inet_csk_accept: the listener returns the connection.
inet_csk_accept(a) ==
    /\ Returnable(a)
    /\ sock' = [sock EXCEPT ![a] = "accepted"]
    /\ \/ /\ a \in AcceptIPv4 /\ HasRoom
          /\ ring' = Append(ring, EventOf("accept", a))
       \/ /\ ~(a \in AcceptIPv4 /\ HasRoom)
          /\ UNCHANGED ring
    /\ UNCHANGED <<clock, connTime, unrecorded, called>>

\* The connection is refused, reset or given up; no probe traces that.
Abort(a) ==
    /\ sock[a] = "connecting"
    /\ sock' = [sock EXCEPT ![a] = "aborted"]
    /\ UNCHANGED <<clock, connTime, unrecorded, called, ring>>

\* tracepoints sys_enter_openat and sys_enter_execve: cgroup 0 is skipped.
LocalCall(l) ==
    /\ l \notin called
    /\ called' = called \cup {l}
    /\ \/ /\ CgroupOf[l] # 0 /\ HasRoom
          /\ ring' = Append(ring, EventOf("local", l))
       \/ /\ ~(CgroupOf[l] # 0 /\ HasRoom)
          /\ UNCHANGED ring
    /\ UNCHANGED <<clock, sock, connTime, unrecorded>>

KernelStep ==
    \/ \E a \in Attempts : tcp_connect(a) \/ inet_csk_accept(a) \/ Abort(a)
    \/ \E l \in Locals : LocalCall(l)

-----------------------------------------------------------------------------
KernelTypeOK ==
    /\ clock \in 0..MaxClock
    /\ sock \in [Attempts -> SockStates]
    /\ connTime \in [Attempts -> Nat]
    /\ unrecorded \in SUBSET Attempts
    /\ called \in SUBSET Locals
    /\ ring \in Seq(Record)
    /\ Len(ring) <= RingSlots
=============================================================================
