---------------------------- MODULE ConnTracker ----------------------------
(***************************************************************************)
(* The kernel half of ko: the four raw tracepoint programs of              *)
(* pkg/tracer/c/tracer.bpf.c, the ko_sock_ctx map they share, and the      *)
(* ko_events ring buffer they write to.                                    *)
(*                                                                         *)
(* The kernel runs the handlers of ONE socket under that socket's lock, so *)
(* they never overlap; the handlers of different sockets meet only in the  *)
(* LRU map (an insert may evict anybody) and in the ring buffer.  Each     *)
(* handler is therefore one action.                                        *)
(*                                                                         *)
(* The TCP stack is the environment.  A socket address s is FREE, or holds *)
(* a socket whose state follows the kernel's transitions; the address is   *)
(* reused after the socket is destroyed.  Every connect(2) starts a        *)
(* connection with a fresh number, which stands for the identity captured  *)
(* there (pid, comm, cgroup, start_ts).  A tracepoint may fire without its *)
(* program running: before the program is attached, or because the kernel  *)
(* skips a program already active on the CPU.                              *)
(***************************************************************************)
EXTENDS Naturals, Sequences, FiniteSets

CONSTANTS
    Sock,           \* socket addresses
    MaxEntries,     \* max_entries of ko_sock_ctx
    RingCap,        \* records that fit in ko_events
    ProbeInterval,  \* KO_PROBE_MIN_INTERVAL_NS
    MaxSock,        \* bound: sockets created
    MaxConn,        \* bound: connection attempts
    MaxTime,        \* bound: clock
    MaxRetrans,     \* bound: retransmissions of one connection
    MaxSkips,       \* bound: program runs the kernel skips
    MaxRestarts     \* bound: restarts of the agent

ASSUME ConnTrackerAssumption ==
    /\ MaxEntries \in Nat \ {0}
    /\ RingCap \in Nat \ {0}
    /\ ProbeInterval \in Nat \ {0}
    /\ MaxSock \in Nat
    /\ MaxConn \in Nat
    /\ MaxTime \in Nat
    /\ MaxRetrans \in Nat
    /\ MaxSkips \in Nat
    /\ MaxRestarts \in Nat

VARIABLES
    sk,             \* the sockets: TCP state, connection, sk_err, total_retrans
    ctx,            \* ko_sock_ctx: the context of a socket address, or NoCtx
    ring,           \* ko_events: every record submitted since the maps exist
    rpos,           \* ko_events: the consumer position
    drops,          \* ko_filter_drops and ko_ringbuf_drops
    now,            \* bpf_ktime_get_ns
    attached,       \* how many programs tracer.Run has attached
    nsock,          \* sockets created so far
    nconn,          \* connections started so far
    \* The rest is history, read by the properties and never by the code.
    skips,          \* program runs skipped so far
    restarts,       \* restarts of the agent so far
    ends,           \* ends[c]: lifecycle events submitted for connection c
    due             \* captured connections that are owed a lifecycle event

tracker == <<ctx, ring, drops, ends, due>>
vars == <<sk, ctx, ring, rpos, drops, now, attached, nsock, nconn, skips, restarts, ends, due>>

Conn == 1..MaxConn

TcpState == {"FREE", "CLOSE", "SYN_SENT", "SYN_RECV", "ESTABLISHED",
             "FIN_WAIT", "CLOSE_WAIT"}

\* The transitions inet_sock_set_state reports, apart from CLOSE -> SYN_SENT
\* (connect).  SYN_SENT -> SYN_RECV is the simultaneous open.  FIN_WAIT stands
\* for FIN_WAIT1, FIN_WAIT2, CLOSING and TIME_WAIT, CLOSE_WAIT for CLOSE_WAIT
\* and LAST_ACK: the programs do not tell them apart.
TcpEdge == { <<"SYN_SENT", "ESTABLISHED">>, <<"SYN_SENT", "SYN_RECV">>,
             <<"SYN_SENT", "CLOSE">>,
             <<"SYN_RECV", "ESTABLISHED">>, <<"SYN_RECV", "FIN_WAIT">>,
             <<"SYN_RECV", "CLOSE">>,
             <<"ESTABLISHED", "FIN_WAIT">>, <<"ESTABLISHED", "CLOSE_WAIT">>,
             <<"ESTABLISHED", "CLOSE">>,
             <<"FIN_WAIT", "CLOSE">>, <<"CLOSE_WAIT", "CLOSE">> }

SockRec == [state : TcpState, conn : 0..MaxConn, err : {0, 1}, retrans : Nat]
FreeSock == [state |-> "FREE", conn |-> 0, err |-> 0, retrans |-> 0]

EndType == {"closed", "failed"}
EventType == EndType \cup {"retransmit", "probe"}

\* conn_ctx_t.  "conn" is the captured identity, 0 where the map has no entry;
\* "last" is last_probe_ns.  "missed" is history: the runs that would have
\* written or deleted this entry and did not happen (2 stands for 2 or more).
NoCtx == [conn |-> 0, last |-> 0, missed |-> 0]
Context == [conn : 0..MaxConn, last : Nat, missed : 0..2]

\* conn_event_t.  "from" is the identity in the event (the context's), "conn"
\* the connection the socket really carries: the reader sees only the former.
Event == [conn : 0..MaxConn, from : Conn, type : EventType, err : {0, 1},
          retrans : Nat, ts : Nat, missed : 0..2]

Tracked(s) == ctx[s].conn # 0

\* The programs in the order in which tracer.Run attaches them.
SockStateAttached == attached >= 1
RetransmitAttached == attached >= 2
ProbeAttached == attached >= 3
DestroyAttached == attached >= 4

TypeOK ==
    /\ sk \in [Sock -> SockRec]
    /\ ctx \in [Sock -> Context]
    /\ ring \in Seq(Event)
    /\ rpos \in Nat
    /\ drops \in [filter : Nat, ringbuf : Nat]
    /\ now \in Nat
    /\ attached \in 0..4
    /\ nsock \in Nat
    /\ nconn \in 0..MaxConn
    /\ skips \in Nat
    /\ restarts \in Nat
    /\ ends \in [Conn -> Nat]
    /\ due \in SUBSET Conn

Init ==
    /\ sk = [s \in Sock |-> FreeSock]
    /\ ctx = [s \in Sock |-> NoCtx]
    /\ ring = << >>
    /\ rpos = 0
    /\ drops = [filter |-> 0, ringbuf |-> 0]
    /\ now = ProbeInterval
    /\ attached = 0
    /\ nsock = 0
    /\ nconn = 0
    /\ skips = 0
    /\ restarts = 0
    /\ ends = [c \in Conn |-> 0]
    /\ due = {}

-----------------------------------------------------------------------------
(* The programs. *)

\* The verdict of the CEL program (module FilterWalk) is either "drop" or not.
Filtered == drops' = [drops EXCEPT !.filter = @ + 1] /\ UNCHANGED ring

\* bpf_ringbuf_reserve fails when the consumer lags by the whole buffer.
Reserved(e) ==
    \/ /\ Len(ring) - rpos < RingCap
       /\ ring' = Append(ring, e)
       /\ UNCHANGED drops
    \/ /\ Len(ring) - rpos >= RingCap
       /\ drops' = [drops EXCEPT !.ringbuf = @ + 1]
       /\ UNCHANGED ring

\* The stats come from the socket, the identity from the copied context.
submit_conn_evt(s, cctx, type) ==
    \/ Filtered
    \/ Reserved([conn |-> sk'[s].conn, from |-> cctx.conn, type |-> type,
                 err |-> sk'[s].err, retrans |-> sk'[s].retrans,
                 ts |-> now, missed |-> cctx.missed])

\* bpf_map_update_elem on the LRU hash: the kernel may evict any other entries
\* to make room, and does when the map is full.
Capture(s) ==
    \E V \in SUBSET {t \in Sock \ {s} : Tracked(t)} :
        /\ ctx' = [t \in Sock |->
                      IF t = s THEN [conn |-> nconn', last |-> 0, missed |-> 0]
                      ELSE IF t \in V THEN NoCtx ELSE ctx[t]]
        /\ Cardinality({t \in Sock : ctx'[t].conn # 0}) <= MaxEntries
        /\ due' = (due \ {ctx[t].conn : t \in V}) \cup {nconn'}
        /\ UNCHANGED <<ring, drops, ends>>

Forget(s) == ctx' = [ctx EXCEPT ![s] = NoCtx]

\* Mutations of EndConn: the entry is not deleted; the event is sent from the map
\* entry after its deletion instead of from the copy.
EndConnKeepsCtx(s, type) ==
    /\ submit_conn_evt(s, ctx[s], type)
    /\ ends' = [ends EXCEPT ![ctx[s].conn] = @ + 1]
    /\ UNCHANGED <<ctx, due>>
EndConnFromMap(s, type) ==
    /\ Forget(s)
    /\ submit_conn_evt(s, ctx'[s], type)
    /\ ends' = [ends EXCEPT ![ctx[s].conn] = @ + 1]
    /\ UNCHANGED due

\* A lifecycle event: the entry goes first, the event is sent from the copy.
EndConn(s, type) ==
    /\ Forget(s)
    /\ submit_conn_evt(s, ctx[s], type)
    /\ ends' = [ends EXCEPT ![ctx[s].conn] = @ + 1]
    /\ UNCHANGED due

\* connect(2), and not a SYN retry.
Connecting(old, new) == new = "SYN_SENT" /\ old # "SYN_SENT"

\* Mutation of ko_sock_state: a failed attempt is recognised by TCP_CLOSE alone.
SockStateCloseOnly(s, old, new) ==
    \/ Connecting(old, new) /\ Capture(s)
    \/ ~Connecting(old, new) /\ ~Tracked(s) /\ UNCHANGED tracker
    \/ ~Connecting(old, new) /\ Tracked(s) /\ old = "ESTABLISHED" /\ EndConn(s, "closed")
    \/ ~Connecting(old, new) /\ new # "CLOSE" /\ Tracked(s) /\ old # "ESTABLISHED" /\ UNCHANGED tracker
    \/ Tracked(s) /\ old \notin {"ESTABLISHED", "SYN_SENT"} /\ new = "CLOSE" /\ UNCHANGED tracker
    \/ Tracked(s) /\ old = "SYN_SENT" /\ new = "CLOSE" /\ EndConn(s, "failed")

ko_sock_state(s, old, new) ==
    \/ Connecting(old, new) /\ Capture(s)
    \/ ~Connecting(old, new) /\ ~Tracked(s) /\ UNCHANGED tracker
    \/ ~Connecting(old, new) /\ Tracked(s) /\ old = "ESTABLISHED" /\ EndConn(s, "closed")
    \/ ~Connecting(old, new) /\ Tracked(s) /\ old \notin {"ESTABLISHED", "SYN_SENT"} /\ UNCHANGED tracker
    \/ Tracked(s) /\ old = "SYN_SENT" /\ new = "ESTABLISHED" /\ UNCHANGED tracker
    \/ Tracked(s) /\ old = "SYN_SENT" /\ new # "ESTABLISHED" /\ EndConn(s, "failed")

ko_retransmit(s) ==
    \/ ~Tracked(s) /\ UNCHANGED tracker
    \/ /\ Tracked(s)
       /\ submit_conn_evt(s, ctx[s], "retransmit")
       /\ UNCHANGED <<ctx, ends, due>>

\* Mutation of ko_probe: last_probe_ns is never stored.
ProbeForgetsTime(s) ==
    \/ ~Tracked(s) /\ UNCHANGED tracker
    \/ /\ Tracked(s)
       /\ now - ctx[s].last >= ProbeInterval
       /\ submit_conn_evt(s, ctx[s], "probe")
       /\ UNCHANGED <<ctx, ends, due>>

ko_probe(s) ==
    \/ ~Tracked(s) /\ UNCHANGED tracker
    \/ Tracked(s) /\ now - ctx[s].last < ProbeInterval /\ UNCHANGED tracker
    \/ /\ Tracked(s)
       /\ now - ctx[s].last >= ProbeInterval
       /\ ctx' = [ctx EXCEPT ![s].last = now]
       /\ submit_conn_evt(s, ctx[s], "probe")
       /\ UNCHANGED <<ends, due>>

\* Mutation of ko_destroy_sock: the backstop is missing.
DestroyKeepsCtx(s) == UNCHANGED tracker

ko_destroy_sock(s) == Forget(s) /\ UNCHANGED <<ring, drops, ends, due>>

\* A run of ko_sock_state or ko_destroy_sock that would have written or deleted
\* an entry and does not happen: the miss is recorded and no event is owed any
\* longer.  (A skipped ko_retransmit or ko_probe only loses that sample.)
Missed(s) ==
    /\ ctx' = [ctx EXCEPT ![s].missed = IF Tracked(s) /\ @ < 2 THEN @ + 1 ELSE @]
    /\ due' = due \ {ctx[s].conn}
    /\ UNCHANGED <<ring, drops, ends>>

Skip == skips < MaxSkips /\ skips' = skips + 1

-----------------------------------------------------------------------------
(* The TCP stack and the tracepoints it fires. *)

\* Would ko_sock_state write or delete the entry of s on this transition?
Matters(old, new) ==
    \/ new = "SYN_SENT"
    \/ old = "ESTABLISHED"
    \/ old = "SYN_SENT" /\ new # "ESTABLISHED"

\* The inet_sock_set_state tracepoint: the program runs, is skipped, or is not
\* attached yet.
SetStateTracepoint(s, new) ==
    \/ ~SockStateAttached /\ UNCHANGED <<tracker, skips>>
    \/ SockStateAttached /\ ko_sock_state(s, sk[s].state, new) /\ UNCHANGED skips
    \/ SockStateAttached /\ Matters(sk[s].state, new) /\ Skip /\ Missed(s)

\* socket(2): a new socket at a free address.
Alloc(s) ==
    /\ sk[s].state = "FREE"
    /\ nsock < MaxSock
    /\ nsock' = nsock + 1
    /\ sk' = [sk EXCEPT ![s].state = "CLOSE"]
    /\ UNCHANGED <<tracker, rpos, now, attached, nconn, skips, restarts>>

\* A passive connection: the child socket appears in SYN_RECV (LISTEN ->
\* SYN_RECV, which ko_sock_state ignores even where it finds an entry).
Accept(s) ==
    /\ sk[s].state = "FREE"
    /\ nsock < MaxSock
    /\ nsock' = nsock + 1
    /\ sk' = [sk EXCEPT ![s].state = "SYN_RECV"]
    /\ UNCHANGED <<tracker, rpos, now, attached, nconn, skips, restarts>>

Connect(s) ==
    /\ sk[s].state = "CLOSE"
    /\ nconn < MaxConn
    /\ nconn' = nconn + 1
    /\ sk' = [sk EXCEPT ![s] = [state |-> "SYN_SENT", conn |-> nconn + 1, err |-> 0, retrans |-> 0]]
    /\ SetStateTracepoint(s, "SYN_SENT")
    /\ UNCHANGED <<rpos, now, attached, nsock, restarts>>

\* The other transitions.  sk_err is set before the state is: a reset or a
\* timeout closes with an errno, close(2) and an orderly end without one.
Transition(s) ==
    \E new \in TcpState, err \in {0, 1} :
        /\ <<sk[s].state, new>> \in TcpEdge
        /\ err = 1 => new = "CLOSE"
        /\ sk' = [sk EXCEPT ![s].state = new, ![s].err = err]
        /\ SetStateTracepoint(s, new)
        /\ UNCHANGED <<rpos, now, attached, nsock, nconn, restarts>>

Retransmit(s) ==
    /\ sk[s].state \notin {"FREE", "CLOSE"}
    /\ sk[s].retrans < MaxRetrans
    /\ sk' = [sk EXCEPT ![s].retrans = @ + 1]
    /\ \/ RetransmitAttached /\ ko_retransmit(s)
       \/ ~RetransmitAttached /\ UNCHANGED tracker
    /\ UNCHANGED <<rpos, now, attached, nsock, nconn, skips, restarts>>

\* tcp_probe fires in tcp_rcv_established.
Probe(s) ==
    /\ sk[s].state = "ESTABLISHED"
    /\ ProbeAttached
    /\ UNCHANGED sk
    /\ ko_probe(s)
    /\ UNCHANGED <<rpos, now, attached, nsock, nconn, skips, restarts>>

\* tcp_destroy_sock: the address becomes free.
Destroy(s) ==
    /\ sk[s].state = "CLOSE"
    /\ sk' = [sk EXCEPT ![s] = FreeSock]
    /\ \/ DestroyAttached /\ ko_destroy_sock(s) /\ UNCHANGED skips
       \/ DestroyAttached /\ Tracked(s) /\ Skip /\ Missed(s)
       \/ ~DestroyAttached /\ Missed(s) /\ UNCHANGED skips
    /\ UNCHANGED <<rpos, now, attached, nsock, nconn, restarts>>

-----------------------------------------------------------------------------
(* The agent. *)

\* tracer.Run attaches ko_sock_state, ko_retransmit, ko_probe, ko_destroy_sock.
Attach ==
    /\ attached < 4
    /\ attached' = attached + 1
    /\ UNCHANGED <<sk, tracker, rpos, now, nsock, nconn, skips, restarts>>

\* The read loop takes the oldest record.
Read ==
    /\ rpos < Len(ring)
    /\ rpos' = rpos + 1
    /\ UNCHANGED <<sk, tracker, now, attached, nsock, nconn, skips, restarts>>

\* The agent ends (crash or shutdown): its links and maps go with it, and the
\* next instance starts from empty maps.
Restart ==
    /\ attached > 0
    /\ restarts < MaxRestarts
    /\ restarts' = restarts + 1
    /\ attached' = 0
    /\ ctx' = [s \in Sock |-> NoCtx]
    /\ ring' = << >>
    /\ rpos' = 0
    /\ drops' = [filter |-> 0, ringbuf |-> 0]
    /\ due' = {c \in due : ends[c] > 0}
    /\ UNCHANGED <<sk, now, nsock, nconn, skips, ends>>

Tick ==
    /\ now < MaxTime
    /\ now' = now + 1
    /\ UNCHANGED <<sk, tracker, rpos, attached, nsock, nconn, skips, restarts>>

Next ==
    \/ \E s \in Sock : Alloc(s) \/ Accept(s) \/ Connect(s) \/ Transition(s)
                       \/ Retransmit(s) \/ Probe(s) \/ Destroy(s)
    \/ Attach \/ Read \/ Restart \/ Tick

Spec == Init /\ [][Next]_vars

-----------------------------------------------------------------------------
(* Properties. *)

\* An event names the connection it is about, whatever happened to the socket
\* address in between (reuse by an accepted socket, by another connect, LRU
\* eviction, restarts): a single missed run never misattributes an event, it
\* takes a missed end AND a missed destroy or connect on the same address.  In
\* particular accepted and pre-existing sockets (conn 0) are never reported.
Attribution ==
    \A i \in 1..Len(ring) : ring[i].missed < 2 => ring[i].from = ring[i].conn

\* A connection is ended at most once: conn_closed and conn_failed exclude each
\* other and neither is submitted twice, even where runs are missed.
AtMostOneEnd == \A c \in Conn : ends[c] <= 1

\* The lifecycle event of a connection is the last event the ring buffer ever
\* carries for it: no retransmit or probe of a dead connection follows.
EndIsLast ==
    \A i, j \in 1..Len(ring) :
        i < j /\ ring[i].type \in EndType => ring[j].from # ring[i].from

\* Two probe events of one connection are at least the minimum interval apart,
\* in the order in which the ring buffer carries them.
ProbeSpacing ==
    \A i, j \in 1..Len(ring) :
        i < j /\ ring[i].type = "probe" /\ ring[j].type = "probe"
              /\ ring[i].from = ring[j].from
            => ring[j].ts >= ring[i].ts + ProbeInterval

\* No silent disappearance: a connection seen connecting has its lifecycle event
\* submitted by the time its socket leaves SYN_SENT and ESTABLISHED, unless its
\* entry was evicted, the agent restarted, or a run was missed (due excludes
\* exactly those).
EndsAccounted ==
    \A c \in due :
        \/ ends[c] = 1
        \/ \E s \in Sock : /\ sk[s].conn = c
                           /\ sk[s].state \in {"SYN_SENT", "ESTABLISHED"}
                           /\ ctx[s].conn = c

\* The tracker as ConnLog sees it: which connections it tracks, and the identity
\* and the kind of the records it wrote.
Phase ==
    [c \in Conn |-> IF c > nconn THEN "new"
                   ELSE IF ends[c] > 0 THEN "ended"
                   ELSE IF \E s \in Sock : ctx[s].conn = c THEN "tracked" ELSE "lost"]
Log == [i \in 1..Len(ring) |-> [conn |-> ring[i].from, type |-> ring[i].type]]
Contract == INSTANCE ConnLog WITH phase <- Phase, log <- Log, taken <- rpos

\* The programs keep the promise of ConnLog: per connection, samples while it is
\* tracked and then at most one lifecycle event, nothing duplicated or reordered.
ImplementsConnLog == Contract!LogSpec

-----------------------------------------------------------------------------
(* The inductive invariant behind the properties. *)

\* An entry belongs to a connection that is not ended, and it is the socket's own
\* connection until two runs were missed; as long as none was missed the socket
\* is connecting or connected.
CtxOK ==
    \A s \in Sock : Tracked(s) =>
        /\ attached > 0
        /\ ctx[s].conn <= nconn
        /\ ends[ctx[s].conn] = 0
        /\ ctx[s].last <= now
        /\ ctx[s].missed < 2 => ctx[s].conn = sk[s].conn
        /\ ctx[s].missed = 0 => sk[s].state \in {"SYN_SENT", "ESTABLISHED"}

\* No two addresses hold the identity of one connection.
CtxInjective ==
    \A s, t \in Sock : Tracked(s) /\ ctx[s].conn = ctx[t].conn => s = t

\* Connections that have not started have no history.
Fresh ==
    /\ \A s \in Sock : sk[s].conn <= nconn
    /\ \A c \in Conn : c > nconn => ends[c] = 0
    /\ \A c \in due : c <= nconn
    /\ \A i \in 1..Len(ring) : ring[i].from <= nconn

\* A lifecycle event in the ring was counted, and a probe in the ring is not
\* later than the time kept in the entry of its connection.
RingOK ==
    /\ rpos <= Len(ring)
    /\ \A i \in 1..Len(ring) : ring[i].type \in EndType => ends[ring[i].from] = 1
    /\ \A i \in 1..Len(ring), s \in Sock :
          ring[i].type = "probe" /\ ring[i].from = ctx[s].conn => ring[i].ts <= ctx[s].last

\* The inductive invariant: together the parts survive every step.
IInv ==
    /\ TypeOK /\ CtxOK /\ CtxInjective /\ Fresh /\ RingOK
    /\ Attribution /\ AtMostOneEnd /\ EndIsLast /\ ProbeSpacing /\ EndsAccounted
=============================================================================
