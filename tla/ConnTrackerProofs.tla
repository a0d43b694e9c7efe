------------------------- MODULE ConnTrackerProofs -------------------------
(***************************************************************************)
(* Proofs about ConnTracker, for any number of addresses, entries, records *)
(* and for any bounds: its invariants, and, step by step, that what a      *)
(* reader of ko_events sees is what ConnLog allows.                        *)
(***************************************************************************)
EXTENDS ConnTracker, TLAPS

\* A record appended to the ring leaves the earlier ones where they are.
LEMMA AppendFacts ==
    ASSUME NEW S, NEW q \in Seq(S), NEW e \in S
    PROVE  /\ Append(q, e) \in Seq(S)
           /\ Len(Append(q, e)) = Len(q) + 1
           /\ \A i \in 1..Len(q) : Append(q, e)[i] = q[i]
           /\ Append(q, e)[Len(q) + 1] = e
  OBVIOUS

\* The fields of an entry and of a record.
LEMMA CtxFields ==
    ASSUME NEW x \in Context
    PROVE  /\ x.conn \in 0..MaxConn /\ x.conn \in Nat /\ x.last \in Nat
           /\ x.missed \in {0, 1, 2}
           /\ x.conn # 0 => x.conn \in Conn
  BY ConnTrackerAssumption DEF Context, Conn
LEMMA EventFields ==
    ASSUME NEW e \in Event
    PROVE  /\ e.from \in Conn /\ e.from \in Nat /\ e.from # 0 /\ e.type \in EventType
           /\ e.ts \in Nat /\ e.missed \in {0, 1, 2}
  BY ConnTrackerAssumption DEF Event, Conn

\* What submit_conn_evt does to the ring and the drop counters: nothing, or one
\* record with the identity of the copied context and the socket's own data.
LEMMA SubmitEffect ==
    ASSUME TypeOK, sk' \in [Sock -> SockRec], NEW s \in Sock, Tracked(s),
           NEW type \in EventType, submit_conn_evt(s, ctx[s], type)
    PROVE  /\ drops' \in [filter : Nat, ringbuf : Nat]
           /\ \E e \in Event :
                    /\ ring' = ring \/ ring' = Append(ring, e)
                    /\ e.conn = sk'[s].conn /\ e.from = ctx[s].conn /\ e.type = type
                    /\ e.ts = now /\ e.missed = ctx[s].missed
  <1> DEFINE e == [conn |-> sk'[s].conn, from |-> ctx[s].conn, type |-> type,
                   err |-> sk'[s].err, retrans |-> sk'[s].retrans,
                   ts |-> now, missed |-> ctx[s].missed]
  <1>1. e \in Event
    <2>1. sk'[s] \in SockRec /\ ctx[s] \in Context
      BY DEF TypeOK
    <2>2. /\ sk'[s].conn \in 0..MaxConn /\ sk'[s].err \in {0, 1} /\ sk'[s].retrans \in Nat
          /\ ctx[s].conn \in Conn /\ ctx[s].missed \in 0..2
      BY <2>1, ConnTrackerAssumption DEF SockRec, Context, Conn, Tracked
    <2> QED BY <2>2 DEF Event, TypeOK
  <1>2. Filtered \/ Reserved(e)
    BY DEF submit_conn_evt
  <1>3. CASE Filtered
    <2>1. ring' = ring /\ drops' \in [filter : Nat, ringbuf : Nat]
      BY <1>3 DEF Filtered, TypeOK
    <2> QED BY <1>1, <2>1
  <1>4. CASE Reserved(e)
    <2>1. drops' \in [filter : Nat, ringbuf : Nat] /\ (ring' = ring \/ ring' = Append(ring, e))
      BY <1>4 DEF Reserved, TypeOK
    <2> QED BY <1>1, <2>1
  <1> QED BY <1>2, <1>3, <1>4

\* The properties of the ring alone survive the submission of an event that is
\* well attributed, of a connection not ended yet, and not too early a probe.
LEMMA RingAppend ==
    ASSUME IInv, NEW e \in Event,
           ring' = ring \/ ring' = Append(ring, e),
           e.from <= nconn, ends[e.from] = 0,
           e.missed < 2 => e.from = e.conn,
           e.type = "probe" =>
               \A i \in 1..Len(ring) : ring[i].type = "probe" /\ ring[i].from = e.from
                                         => ring[i].ts + ProbeInterval <= e.ts
    PROVE  /\ ring' \in Seq(Event)
           /\ Len(ring) <= Len(ring')
           /\ \A i \in 1..Len(ring') : ring'[i].from <= nconn
           /\ Attribution' /\ EndIsLast' /\ ProbeSpacing'
           /\ \A i \in 1..Len(ring') :
                 \/ i \in 1..Len(ring) /\ ring'[i] = ring[i]
                 \/ ring'[i] = e
  <1>1. CASE ring' = ring
    BY <1>1 DEF IInv, TypeOK, Fresh, Attribution, EndIsLast, ProbeSpacing
  <1>2. CASE ring' = Append(ring, e)
    <2>0. ring \in Seq(Event) /\ Len(ring) \in Nat
      BY DEF IInv, TypeOK
    <2>1. /\ ring' \in Seq(Event)
          /\ Len(ring') = Len(ring) + 1
          /\ \A i \in 1..Len(ring) : ring'[i] = ring[i]
          /\ ring'[Len(ring) + 1] = e
      BY <1>2, <2>0, AppendFacts
    <2>2. \A i \in 1..Len(ring') : i \in 1..Len(ring) \/ i = Len(ring) + 1
      BY <2>0, <2>1
    <2>3. \A i \in 1..Len(ring) : ring[i].type \in EndType => ring[i].from # e.from
      BY DEF IInv, RingOK
    <2>4. \A i \in 1..Len(ring') : ring'[i].from <= nconn
      BY <2>1, <2>2 DEF IInv, Fresh
    <2>5. Attribution'
      BY <2>1, <2>2 DEF IInv, Attribution
    <2>6. EndIsLast'
      <3> SUFFICES ASSUME NEW i \in 1..Len(ring'), NEW j \in 1..Len(ring'),
                          i < j, ring'[i].type \in EndType
                   PROVE  ring'[j].from # ring'[i].from
        BY DEF EndIsLast
      <3>1. i \in 1..Len(ring) /\ ring'[i] = ring[i]
        BY <2>0, <2>1
      <3> QED BY <2>1, <2>2, <2>3, <3>1 DEF IInv, EndIsLast
    <2>7. ProbeSpacing'
      <3> SUFFICES ASSUME NEW i \in 1..Len(ring'), NEW j \in 1..Len(ring'), i < j,
                          ring'[i].type = "probe", ring'[j].type = "probe",
                          ring'[i].from = ring'[j].from
                   PROVE  ring'[j].ts >= ring'[i].ts + ProbeInterval
        BY DEF ProbeSpacing
      <3>1. i \in 1..Len(ring) /\ ring'[i] = ring[i] /\ ring[i] \in Event
        BY <2>0, <2>1
      <3>2. CASE j \in 1..Len(ring)
        BY <2>1, <3>1, <3>2 DEF IInv, ProbeSpacing
      <3>3. CASE j = Len(ring) + 1
        <4>1. ring[i].ts + ProbeInterval <= e.ts
          BY <2>1, <3>1, <3>3
        <4> QED BY <4>1, <2>1, <3>1, <3>3, ConnTrackerAssumption DEF Event
      <3> QED BY <2>2, <3>2, <3>3
    <2> QED BY <2>0, <2>1, <2>2, <2>4, <2>5, <2>6, <2>7
  <1> QED BY <1>1, <1>2

\* A sample (retransmit or probe) of a tracked connection preserves the
\* invariant: it changes neither the state nor the connection of any socket.
LEMMA SampleStep ==
    ASSUME IInv, NEW s \in Sock, Tracked(s), NEW type \in {"retransmit", "probe"},
           sk' \in [Sock -> SockRec],
           \A t \in Sock : sk'[t].conn = sk[t].conn /\ sk'[t].state = sk[t].state,
           submit_conn_evt(s, ctx[s], type),
           \/ type = "retransmit" /\ ctx' = ctx
           \/ /\ now - ctx[s].last >= ProbeInterval
              /\ ctx' = [ctx EXCEPT ![s].last = now],
           UNCHANGED <<ends, due, rpos, now, attached, nsock, nconn, skips, restarts>>
    PROVE  IInv'
  <1>0. TypeOK /\ CtxOK /\ CtxInjective /\ Fresh /\ RingOK /\ (\A t \in Sock : ctx[t] \in Context)
    BY DEF IInv, TypeOK
  <1>a. type \in EventType
    BY DEF EventType
  <1>1. PICK e \in Event :
              /\ ring' = ring \/ ring' = Append(ring, e)
              /\ e.conn = sk'[s].conn /\ e.from = ctx[s].conn /\ e.type = type
              /\ e.ts = now /\ e.missed = ctx[s].missed
    BY <1>0, <1>a, SubmitEffect
  <1>2. /\ ctx' \in [Sock -> Context]
        /\ \A t \in Sock : ctx'[t].conn = ctx[t].conn /\ ctx'[t].missed = ctx[t].missed
        /\ \A t \in Sock : ctx[t].conn # 0 => ctx[t].last <= ctx'[t].last /\ ctx'[t].last <= now
        /\ type = "probe" => ctx'[s].last = now /\ ctx[s].last + ProbeInterval <= now
    <2>1. /\ now \in Nat
          /\ \A t \in Sock : ctx[t].last \in Nat
          /\ \A t \in Sock : ctx[t].conn # 0 => ctx[t].last <= now
      BY <1>0, CtxFields DEF TypeOK, CtxOK, Tracked
    <2>2. CASE type = "retransmit" /\ ctx' = ctx
      <3>1. ctx' \in [Sock -> Context] /\ type # "probe"
        BY <1>0, <2>2 DEF TypeOK
      <3> QED BY <2>1, <2>2, <3>1
    <2>3. CASE now - ctx[s].last >= ProbeInterval /\ ctx' = [ctx EXCEPT ![s].last = now]
      <3>1. ctx' \in [Sock -> Context]
        BY <1>0, <2>1, <2>3 DEF TypeOK, Context
      <3>2. /\ \A t \in Sock : t # s => ctx'[t] = ctx[t]
            /\ ctx'[s] = [ctx[s] EXCEPT !.last = now]
        BY <2>3 DEF TypeOK, IInv
      <3>3. ctx'[s].conn = ctx[s].conn /\ ctx'[s].missed = ctx[s].missed /\ ctx'[s].last = now
        BY <1>0, <3>2 DEF Context
      <3>4. ctx[s].last + ProbeInterval <= now
        BY <2>1, <2>3, ConnTrackerAssumption
      <3>5. \A t \in Sock : ctx[t].conn # 0 => ctx[t].last <= ctx'[t].last /\ ctx'[t].last <= now
        <4> TAKE t \in Sock
        <4>1. CASE t = s
          BY <2>1, <3>3, <4>1
        <4>2. CASE t # s
          BY <2>1, <3>2, <4>2
        <4> QED BY <4>1, <4>2
      <3>6. \A t \in Sock : ctx'[t].conn = ctx[t].conn /\ ctx'[t].missed = ctx[t].missed
        BY <3>2, <3>3
      <3> QED BY <3>1, <3>3, <3>4, <3>5, <3>6
    <2> QED BY <2>2, <2>3
  <1>3. /\ ring' \in Seq(Event) /\ Len(ring) <= Len(ring')
        /\ \A i \in 1..Len(ring') : ring'[i].from <= nconn
        /\ Attribution' /\ EndIsLast' /\ ProbeSpacing'
        /\ \A i \in 1..Len(ring') : (i \in 1..Len(ring) /\ ring'[i] = ring[i]) \/ ring'[i] = e
    <2>1. e.from <= nconn /\ ends[e.from] = 0 /\ (e.missed < 2 => e.from = e.conn)
      BY <1>0, <1>1 DEF CtxOK
    <2>2. ASSUME e.type = "probe", NEW i \in 1..Len(ring),
                 ring[i].type = "probe", ring[i].from = e.from
          PROVE  ring[i].ts + ProbeInterval <= e.ts
      <3>1. ring[i].ts <= ctx[s].last /\ ring[i].ts \in Nat /\ ctx[s].last \in Nat
        <4>1. ring[i] \in Event
          BY <1>0 DEF TypeOK
        <4> QED BY <1>0, <1>1, <2>2, <4>1, EventFields, CtxFields DEF RingOK
      <3>2. ctx[s].last + ProbeInterval <= now /\ e.ts = now /\ now \in Nat
        BY <1>0, <1>1, <1>2, <2>2 DEF TypeOK
      <3> QED BY <3>1, <3>2, ConnTrackerAssumption
    <2> QED BY <1>1, <2>1, <2>2, RingAppend
  <1>4. TypeOK'
    <2>1. drops' \in [filter : Nat, ringbuf : Nat]
      BY <1>0, <1>a, SubmitEffect
    <2> QED BY <1>0, <1>2, <1>3, <2>1 DEF TypeOK
  <1>5. CtxOK' /\ CtxInjective'
    BY <1>0, <1>2 DEF CtxOK, CtxInjective, Tracked
  <1>6. Fresh'
    BY <1>0, <1>3 DEF Fresh
  <1>7. RingOK'
    <2>1. rpos' <= Len(ring')
      BY <1>0, <1>3 DEF RingOK, TypeOK
    <2>2. \A i \in 1..Len(ring') : ring'[i].type \in EndType => ends'[ring'[i].from] = 1
      BY <1>0, <1>1, <1>3 DEF RingOK, EndType
    <2>3. ASSUME NEW i \in 1..Len(ring'), NEW t \in Sock,
                 ring'[i].type = "probe", ring'[i].from = ctx'[t].conn
          PROVE  ring'[i].ts <= ctx'[t].last
      <3>1. ring'[i] \in Event /\ ctx[t] \in Context /\ ctx'[t] \in Context /\ ctx[t].conn # 0
        <4>1. ring'[i] \in Event
          BY <1>3
        <4> QED BY <1>0, <1>2, <2>3, <4>1, EventFields
      <3>2. CASE i \in 1..Len(ring) /\ ring'[i] = ring[i]
        <4>1. ring[i].ts <= ctx[t].last /\ ctx[t].last <= ctx'[t].last
          BY <1>0, <1>2, <2>3, <3>1, <3>2 DEF RingOK
        <4> QED BY <3>1, <3>2, <4>1 DEF Event, Context
      <3>3. CASE ring'[i] = e
        <4>1. t = s
          BY <1>0, <1>1, <1>2, <2>3, <3>3 DEF CtxInjective, Tracked
        <4> QED BY <1>0, <1>1, <1>2, <2>3, <3>3, <4>1 DEF TypeOK
      <3> QED BY <1>3, <3>2, <3>3
    <2> QED BY <2>1, <2>2, <2>3 DEF RingOK
  <1>8. AtMostOneEnd' /\ EndsAccounted'
    BY <1>2 DEF IInv, AtMostOneEnd, EndsAccounted
  <1> QED BY <1>3, <1>4, <1>5, <1>6, <1>7, <1>8 DEF IInv

Live == {"SYN_SENT", "ESTABLISHED"}

\* A step that leaves the map, the ring and the history alone preserves the
\* invariant if tracked sockets keep their connection and stay live if they were.
LEMMA QuietStep ==
    ASSUME IInv, TypeOK', UNCHANGED tracker,
           nconn <= nconn', now <= now', attached <= attached', rpos' <= Len(ring),
           \A t \in Sock : sk'[t].conn <= nconn',
           \A t \in Sock : Tracked(t) => /\ sk'[t].conn = sk[t].conn
                                         /\ sk[t].state \in Live => sk'[t].state \in Live
    PROVE  IInv'
  <1>0. /\ TypeOK /\ nconn \in Nat /\ nconn' \in Nat /\ now \in Nat /\ now' \in Nat
        /\ attached \in Nat /\ attached' \in Nat
        /\ \A t \in Sock : ctx[t].conn \in Nat /\ ctx[t].last \in Nat
        /\ \A c \in Conn : c \in Nat
        /\ \A i \in 1..Len(ring) : ring[i] \in Event
    <2>1. TypeOK /\ \A t \in Sock : ctx[t] \in Context
      BY DEF IInv, TypeOK
    <2>2. \A t \in Sock : ctx[t].conn \in Nat /\ ctx[t].last \in Nat
      BY <2>1, CtxFields
    <2>3. /\ nconn \in 0..MaxConn /\ nconn' \in 0..MaxConn /\ now \in Nat /\ now' \in Nat
          /\ attached \in 0..4 /\ attached' \in 0..4 /\ ring \in Seq(Event)
      BY <2>1 DEF TypeOK
    <2> QED BY <2>1, <2>2, <2>3, ConnTrackerAssumption DEF Conn
  <1>1. CtxOK'
    <2> SUFFICES ASSUME NEW t \in Sock, Tracked(t)
                 PROVE  /\ attached' > 0
                        /\ ctx[t].conn <= nconn'
                        /\ ends[ctx[t].conn] = 0
                        /\ ctx[t].last <= now'
                        /\ ctx[t].missed < 2 => ctx[t].conn = sk'[t].conn
                        /\ ctx[t].missed = 0 => sk'[t].state \in Live
      BY DEF tracker, CtxOK, Tracked, Live
    <2>1. /\ attached > 0 /\ ctx[t].conn <= nconn /\ ends[ctx[t].conn] = 0 /\ ctx[t].last <= now
          /\ ctx[t].missed < 2 => ctx[t].conn = sk[t].conn
          /\ ctx[t].missed = 0 => sk[t].state \in Live
      BY DEF IInv, CtxOK, Live
    <2> QED BY <1>0, <2>1
  <1>2. CtxInjective' /\ Attribution' /\ AtMostOneEnd' /\ EndIsLast' /\ ProbeSpacing'
    BY DEF IInv, tracker, CtxInjective, Tracked, Attribution, AtMostOneEnd, EndIsLast, ProbeSpacing
  <1>3. Fresh'
    <2>1. \A c \in Conn : c > nconn' => ends'[c] = 0
      BY <1>0 DEF IInv, Fresh, tracker
    <2>2. \A c \in due' : c <= nconn'
      <3> SUFFICES ASSUME NEW c \in due PROVE c <= nconn'
        BY DEF tracker
      <3> QED BY <1>0 DEF IInv, Fresh, TypeOK
    <2>3. \A i \in 1..Len(ring') : ring'[i].from <= nconn'
      <3> SUFFICES ASSUME NEW i \in 1..Len(ring) PROVE ring[i].from <= nconn'
        BY DEF tracker
      <3> QED BY <1>0, EventFields DEF IInv, Fresh
    <2> QED BY <2>1, <2>2, <2>3 DEF Fresh
  <1>4. RingOK'
    BY DEF IInv, tracker, RingOK
  <1>5. EndsAccounted'
    <2> SUFFICES ASSUME NEW c \in due, ends[c] # 1
                 PROVE  \E s \in Sock : sk'[s].conn = c /\ sk'[s].state \in Live /\ ctx[s].conn = c
      BY DEF EndsAccounted, tracker, Live
    <2>1. PICK s \in Sock : sk[s].conn = c /\ sk[s].state \in Live /\ ctx[s].conn = c
      BY DEF IInv, EndsAccounted, Live
    <2>2. Tracked(s)
      BY <2>1 DEF IInv, TypeOK, Conn, Tracked
    <2> QED BY <2>1, <2>2
  <1> QED BY <1>1, <1>2, <1>3, <1>4, <1>5 DEF IInv

\* A missed run on s preserves the invariant: the entry of s, if there is one,
\* now counts the miss, and its connection is owed nothing.
LEMMA MissedStep ==
    ASSUME IInv, NEW s \in Sock, Missed(s), sk' \in [Sock -> SockRec],
           \A t \in Sock \ {s} : sk'[t] = sk[t],
           Tracked(s) /\ ctx[s].missed = 0 => sk'[s].conn = sk[s].conn,
           nconn' \in 0..MaxConn, nconn <= nconn', sk'[s].conn <= nconn',
           skips' \in Nat,
           UNCHANGED <<rpos, now, attached, nsock, restarts>>
    PROVE  IInv'
  <1>0. /\ TypeOK /\ nconn \in Nat /\ nconn' \in Nat
        /\ \A t \in Sock : ctx[t] \in Context
        /\ \A c \in Conn : c \in Nat
        /\ \A i \in 1..Len(ring) : ring[i] \in Event
    BY ConnTrackerAssumption DEF IInv, TypeOK, Conn
  <1>a. /\ ring' = ring /\ drops' = drops /\ ends' = ends /\ due' = due \ {ctx[s].conn}
        /\ ctx' = [ctx EXCEPT ![s].missed = IF Tracked(s) /\ @ < 2 THEN @ + 1 ELSE @]
    BY DEF Missed
  <1>1. /\ ctx' \in [Sock -> Context]
        /\ \A t \in Sock : t # s => ctx'[t] = ctx[t]
        /\ ctx'[s].conn = ctx[s].conn /\ ctx'[s].last = ctx[s].last
        /\ Tracked(s) => /\ ctx[s].missed = 0 => ctx'[s].missed = 1
                         /\ ctx[s].missed # 0 => ctx'[s].missed = 2
    <2>1. ctx[s].missed \in {0, 1, 2}
      BY <1>0, CtxFields
    <2>2. ctx'[s] = [ctx[s] EXCEPT !.missed = IF Tracked(s) /\ @ < 2 THEN @ + 1 ELSE @]
      BY <1>0, <1>a DEF TypeOK
    <2>3. /\ ctx'[s].conn = ctx[s].conn /\ ctx'[s].last = ctx[s].last
          /\ ctx'[s].missed = IF Tracked(s) /\ ctx[s].missed < 2 THEN ctx[s].missed + 1 ELSE ctx[s].missed
      BY <1>0, <2>2 DEF Context
    <2>4. ctx'[s] \in Context
      BY <1>0, <2>1, <2>2 DEF Context
    <2> QED BY <1>0, <1>a, <2>1, <2>3, <2>4 DEF TypeOK
  <1>2. TypeOK'
    BY <1>0, <1>a, <1>1 DEF TypeOK
  <1>3. CtxOK'
    <2> SUFFICES ASSUME NEW t \in Sock, ctx'[t].conn # 0
                 PROVE  /\ attached > 0
                        /\ ctx'[t].conn <= nconn'
                        /\ ends[ctx'[t].conn] = 0
                        /\ ctx'[t].last <= now
                        /\ ctx'[t].missed < 2 => ctx'[t].conn = sk'[t].conn
                        /\ ctx'[t].missed = 0 => sk'[t].state \in {"SYN_SENT", "ESTABLISHED"}
      BY <1>a DEF CtxOK, Tracked
    <2>0. /\ ctx'[t].conn = ctx[t].conn /\ ctx'[t].last = ctx[t].last
          /\ ctx[t].conn \in Nat /\ Tracked(t)
      BY <1>0, <1>1, CtxFields DEF Tracked
    <2>1. CASE t = s
      <3>1. ctx[s].missed = 0 => ctx'[s].missed = 1 /\ sk'[s].conn = ctx[s].conn
        BY <1>0, <1>1, <2>0, <2>1 DEF IInv, CtxOK
      <3>2. ctx[s].missed # 0 => ctx'[s].missed = 2
        BY <1>1, <2>0, <2>1
      <3> QED BY <1>0, <2>0, <2>1, <3>1, <3>2 DEF IInv, CtxOK
    <2>2. CASE t # s
      BY <1>0, <1>1, <2>0, <2>2 DEF IInv, CtxOK
    <2> QED BY <2>1, <2>2
  <1>4. CtxInjective'
    BY <1>1 DEF IInv, CtxInjective, Tracked
  <1>5. Attribution' /\ AtMostOneEnd' /\ EndIsLast' /\ ProbeSpacing'
    BY <1>a DEF IInv, Attribution, AtMostOneEnd, EndIsLast, ProbeSpacing
  <1>6. Fresh'
    <2>1. \A c \in Conn : c > nconn' => ends'[c] = 0
      BY <1>0, <1>a DEF IInv, Fresh
    <2>2. \A c \in due' : c <= nconn'
      <3> SUFFICES ASSUME NEW c \in due PROVE c <= nconn'
        BY <1>a
      <3> QED BY <1>0 DEF IInv, Fresh, TypeOK
    <2>3. \A i \in 1..Len(ring') : ring'[i].from <= nconn'
      <3> SUFFICES ASSUME NEW i \in 1..Len(ring) PROVE ring[i].from <= nconn'
        BY <1>a
      <3> QED BY <1>0, EventFields DEF IInv, Fresh
    <2>4. \A t \in Sock : sk'[t].conn <= nconn'
      <3> TAKE t \in Sock
      <3>1. sk[t].conn \in Nat /\ sk[t].conn <= nconn
        BY <1>0, ConnTrackerAssumption DEF TypeOK, SockRec, IInv, Fresh
      <3> QED BY <1>0, <3>1
    <2> QED BY <2>1, <2>2, <2>3, <2>4 DEF Fresh
  <1>7. RingOK'
    BY <1>a, <1>1 DEF IInv, RingOK
  <1>8. EndsAccounted'
    <2> SUFFICES ASSUME NEW c \in due, c # ctx[s].conn, ends[c] # 1
                 PROVE  \E t \in Sock : sk'[t].conn = c /\ sk'[t].state \in Live /\ ctx'[t].conn = c
      BY <1>a DEF EndsAccounted, Live
    <2>1. PICK t \in Sock : sk[t].conn = c /\ sk[t].state \in Live /\ ctx[t].conn = c
      BY DEF IInv, EndsAccounted, Live
    <2> QED BY <1>1, <2>1
  <1> QED BY <1>2, <1>3, <1>4, <1>5, <1>6, <1>7, <1>8 DEF IInv

\* The lifecycle event of s preserves the invariant: its entry is gone, and no
\* other entry holds the connection that is now ended.
LEMMA EndStep ==
    ASSUME IInv, NEW s \in Sock, Tracked(s), NEW type \in EndType, EndConn(s, type),
           sk' \in [Sock -> SockRec],
           \A t \in Sock : sk'[t].conn = sk[t].conn,
           \A t \in Sock \ {s} : sk'[t] = sk[t],
           UNCHANGED <<rpos, now, attached, nsock, nconn, skips, restarts>>
    PROVE  IInv'
  <1> DEFINE c == ctx[s].conn
  <1>0. /\ TypeOK /\ CtxOK /\ CtxInjective /\ Fresh /\ RingOK
        /\ \A t \in Sock : ctx[t] \in Context
        /\ \A i \in 1..Len(ring) : ring[i] \in Event
    BY DEF IInv, TypeOK
  <1>a. /\ ctx' = [ctx EXCEPT ![s] = NoCtx]
        /\ submit_conn_evt(s, ctx[s], type)
        /\ ends' = [ends EXCEPT ![c] = @ + 1]
        /\ due' = due
    BY DEF EndConn, Forget
  <1>b. type \in EventType /\ type # "probe"
    BY DEF EventType, EndType
  <1>c. c \in Conn /\ ends[c] = 0 /\ c <= nconn
    BY <1>0, CtxFields DEF Tracked, CtxOK
  <1>1. PICK e \in Event :
              /\ ring' = ring \/ ring' = Append(ring, e)
              /\ e.conn = sk'[s].conn /\ e.from = c /\ e.type = type
              /\ e.ts = now /\ e.missed = ctx[s].missed
    BY <1>0, <1>a, <1>b, SubmitEffect
  <1>2. /\ ctx' \in [Sock -> Context]
        /\ ctx'[s].conn = 0
        /\ \A t \in Sock : t # s => ctx'[t] = ctx[t]
    BY <1>0, <1>a, ConnTrackerAssumption DEF TypeOK, NoCtx, Context
  <1>3. /\ ends' \in [Conn -> Nat] /\ ends'[c] = 1
        /\ \A d \in Conn : d # c => ends'[d] = ends[d]
    BY <1>0, <1>a, <1>c DEF TypeOK
  <1>4. /\ ring' \in Seq(Event) /\ Len(ring) <= Len(ring')
        /\ \A i \in 1..Len(ring') : ring'[i].from <= nconn
        /\ Attribution' /\ EndIsLast' /\ ProbeSpacing'
        /\ \A i \in 1..Len(ring') : (i \in 1..Len(ring) /\ ring'[i] = ring[i]) \/ ring'[i] = e
    <2>1. e.from <= nconn /\ ends[e.from] = 0 /\ (e.missed < 2 => e.from = e.conn)
      BY <1>0, <1>1, <1>c DEF CtxOK
    <2> QED BY <1>1, <1>b, <2>1, RingAppend
  <1>5. TypeOK'
    <2>1. drops' \in [filter : Nat, ringbuf : Nat]
      BY <1>0, <1>a, <1>b, SubmitEffect
    <2> QED BY <1>0, <1>a, <1>2, <1>3, <1>4, <2>1 DEF TypeOK
  <1>6. \A t \in Sock : t # s /\ Tracked(t) => ctx[t].conn \in Conn /\ ctx[t].conn # c
    BY <1>0, CtxFields DEF CtxInjective, Tracked
  <1>7. CtxOK'
    <2> SUFFICES ASSUME NEW t \in Sock, ctx'[t].conn # 0
                 PROVE  /\ attached > 0
                        /\ ctx'[t].conn <= nconn
                        /\ ends'[ctx'[t].conn] = 0
                        /\ ctx'[t].last <= now
                        /\ ctx'[t].missed < 2 => ctx'[t].conn = sk'[t].conn
                        /\ ctx'[t].missed = 0 => sk'[t].state \in {"SYN_SENT", "ESTABLISHED"}
      BY DEF CtxOK, Tracked
    <2>1. t # s /\ ctx'[t] = ctx[t] /\ Tracked(t) /\ sk'[t] = sk[t]
      BY <1>2 DEF Tracked
    <2>2. ends'[ctx[t].conn] = ends[ctx[t].conn]
      BY <1>3, <1>6, <2>1
    <2> QED BY <1>0, <2>1, <2>2 DEF CtxOK
  <1>8. CtxInjective'
    BY <1>0, <1>2 DEF CtxInjective, Tracked
  <1>9. Fresh'
    <2>1. \A d \in Conn : d > nconn => ends'[d] = 0
      BY <1>0, <1>3, <1>c, ConnTrackerAssumption DEF Fresh, Conn, TypeOK
    <2> QED BY <1>0, <1>a, <1>4, <2>1 DEF Fresh
  <1>10. RingOK'
    <2>1. rpos' <= Len(ring')
      BY <1>0, <1>4 DEF RingOK, TypeOK
    <2>2. ASSUME NEW i \in 1..Len(ring'), ring'[i].type \in EndType
          PROVE  ends'[ring'[i].from] = 1
      <3>1. CASE i \in 1..Len(ring) /\ ring'[i] = ring[i]
        <4>1. ends[ring[i].from] = 1 /\ ring[i].from \in Conn
          BY <1>0, <2>2, <3>1, EventFields DEF RingOK
        <4> QED BY <1>3, <1>c, <3>1, <4>1
      <3>2. CASE ring'[i] = e
        BY <1>1, <1>3, <3>2
      <3> QED BY <1>4, <3>1, <3>2
    <2>3. ASSUME NEW i \in 1..Len(ring'), NEW t \in Sock,
                 ring'[i].type = "probe", ring'[i].from = ctx'[t].conn
          PROVE  ring'[i].ts <= ctx'[t].last
      <3>1. i \in 1..Len(ring) /\ ring'[i] = ring[i]
        BY <1>1, <1>4, <1>b, <2>3
      <3>2. t # s
        BY <1>0, <1>2, <2>3, <3>1, EventFields
      <3> QED BY <1>0, <1>2, <2>3, <3>1, <3>2 DEF RingOK
    <2> QED BY <2>1, <2>2, <2>3 DEF RingOK
  <1>11. AtMostOneEnd'
    <2> SUFFICES ASSUME NEW d \in Conn PROVE ends'[d] <= 1
      BY DEF AtMostOneEnd
    <2> QED BY <1>3 DEF IInv, AtMostOneEnd
  <1>12. EndsAccounted'
    <2> SUFFICES ASSUME NEW d \in due, ends'[d] # 1
                 PROVE  \E t \in Sock : sk'[t].conn = d /\ sk'[t].state \in Live /\ ctx'[t].conn = d
      BY <1>a DEF EndsAccounted, Live
    <2>1. d \in Conn /\ d # c /\ ends[d] # 1
      BY <1>0, <1>3 DEF TypeOK
    <2>2. PICK t \in Sock : sk[t].conn = d /\ sk[t].state \in Live /\ ctx[t].conn = d
      BY <2>1 DEF IInv, EndsAccounted, Live
    <2> QED BY <1>2, <2>1, <2>2
  <1> QED BY <1>4, <1>5, <1>7, <1>8, <1>9, <1>10, <1>11, <1>12 DEF IInv

\* A seen connect preserves the invariant: the new connection is nobody else's,
\* and the evicted ones are owed nothing any longer.
LEMMA CaptureStep ==
    ASSUME IInv, NEW s \in Sock, Capture(s), attached > 0, sk[s].state = "CLOSE",
           nconn < MaxConn, nconn' = nconn + 1,
           sk' = [sk EXCEPT ![s] = [state |-> "SYN_SENT", conn |-> nconn + 1, err |-> 0, retrans |-> 0]],
           UNCHANGED <<rpos, now, attached, nsock, skips, restarts>>
    PROVE  IInv'
  <1>0. /\ TypeOK /\ CtxOK /\ CtxInjective /\ Fresh /\ RingOK
        /\ \A t \in Sock : ctx[t] \in Context
        /\ \A i \in 1..Len(ring) : ring[i] \in Event
        /\ nconn \in Nat /\ nconn' \in Nat /\ nconn' \in Conn
    BY ConnTrackerAssumption DEF IInv, TypeOK, Conn
  <1>1. PICK V \in SUBSET {t \in Sock \ {s} : Tracked(t)} :
            /\ ctx' = [t \in Sock |->
                          IF t = s THEN [conn |-> nconn', last |-> 0, missed |-> 0]
                          ELSE IF t \in V THEN NoCtx ELSE ctx[t]]
            /\ due' = (due \ {ctx[t].conn : t \in V}) \cup {nconn'}
    BY DEF Capture
  <1>2. ring' = ring /\ drops' = drops /\ ends' = ends
    BY DEF Capture
  <1>3. /\ ctx'[s] = [conn |-> nconn', last |-> 0, missed |-> 0]
        /\ \A t \in Sock : t # s /\ t \in V => ctx'[t] = NoCtx
        /\ \A t \in Sock : t # s /\ t \notin V => ctx'[t] = ctx[t]
    BY <1>1
  <1>4. /\ sk' \in [Sock -> SockRec]
        /\ sk'[s].conn = nconn' /\ sk'[s].state = "SYN_SENT"
        /\ \A t \in Sock : t # s => sk'[t] = sk[t]
    BY <1>0, ConnTrackerAssumption DEF TypeOK, SockRec, TcpState, Conn
  <1>5. TypeOK'
    <2>1. ctx' \in [Sock -> Context]
      <3>1. NoCtx \in Context /\ [conn |-> nconn', last |-> 0, missed |-> 0] \in Context
        BY <1>0, ConnTrackerAssumption DEF NoCtx, Context, Conn
      <3> QED BY <1>0, <1>1, <3>1
    <2>2. due' \in SUBSET Conn
      BY <1>0, <1>1 DEF TypeOK
    <2>3. nconn' \in 0..MaxConn
      BY <1>0 DEF Conn
    <2> QED BY <1>0, <1>2, <1>4, <2>1, <2>2, <2>3 DEF TypeOK
  <1>6. \A t \in Sock : ctx[t].conn \in Nat /\ (Tracked(t) => ctx[t].conn <= nconn /\ ctx[t].conn # nconn')
    <2> TAKE t \in Sock
    <2>1. ctx[t].conn \in Nat /\ (Tracked(t) => ctx[t].conn <= nconn)
      BY <1>0, CtxFields DEF CtxOK
    <2> QED BY <1>0, <2>1
  <1>7. CtxOK'
    <2> SUFFICES ASSUME NEW t \in Sock, ctx'[t].conn # 0
                 PROVE  /\ attached > 0
                        /\ ctx'[t].conn <= nconn'
                        /\ ends[ctx'[t].conn] = 0
                        /\ ctx'[t].last <= now
                        /\ ctx'[t].missed < 2 => ctx'[t].conn = sk'[t].conn
                        /\ ctx'[t].missed = 0 => sk'[t].state \in {"SYN_SENT", "ESTABLISHED"}
      BY <1>2 DEF CtxOK, Tracked
    <2>1. CASE t = s
      <3>1. ends[nconn'] = 0
        BY <1>0 DEF Fresh
      <3> QED BY <1>0, <1>3, <1>4, <2>1, <3>1 DEF TypeOK
    <2>2. CASE t # s
      <3>1. ctx'[t] = ctx[t] /\ Tracked(t) /\ sk'[t] = sk[t]
        BY <1>3, <1>4, <2>2 DEF NoCtx, Tracked
      <3> QED BY <1>0, <1>6, <3>1 DEF CtxOK
    <2> QED BY <2>1, <2>2
  <1>8. CtxInjective'
    <2> SUFFICES ASSUME NEW t \in Sock, NEW u \in Sock, ctx'[t].conn # 0, ctx'[t].conn = ctx'[u].conn
                 PROVE  t = u
      BY DEF CtxInjective, Tracked
    <2>1. \A x \in Sock : x # s /\ ctx'[x].conn # 0 => ctx'[x] = ctx[x] /\ Tracked(x)
      BY <1>3 DEF NoCtx, Tracked
    <2>2. CASE t # s /\ u # s
      BY <1>0, <2>1, <2>2 DEF CtxInjective
    <2>3. CASE t = s /\ u # s
      BY <1>3, <1>6, <2>1, <2>3
    <2>4. CASE t # s /\ u = s
      BY <1>3, <1>6, <2>1, <2>4
    <2> QED BY <2>2, <2>3, <2>4
  <1>9. Attribution' /\ AtMostOneEnd' /\ EndIsLast' /\ ProbeSpacing'
    BY <1>2 DEF IInv, Attribution, AtMostOneEnd, EndIsLast, ProbeSpacing
  <1>10. Fresh'
    <2>1. \A c \in Conn : c > nconn' => ends'[c] = 0
      BY <1>0, <1>2 DEF Fresh, Conn
    <2>2. ASSUME NEW c \in due' PROVE c <= nconn'
      <3>1. CASE c = nconn'
        BY <1>0, <3>1
      <3>2. CASE c \in due
        <4>1. c <= nconn /\ c \in Nat
          BY <1>0, <3>2, ConnTrackerAssumption DEF Fresh, TypeOK, Conn
        <4> QED BY <1>0, <4>1
      <3> QED BY <1>1, <3>1, <3>2
    <2>3. ASSUME NEW i \in 1..Len(ring) PROVE ring[i].from <= nconn'
      <3>1. ring[i].from <= nconn /\ ring[i].from \in Nat
        BY <1>0, EventFields DEF Fresh
      <3> QED BY <1>0, <3>1
    <2>4. ASSUME NEW t \in Sock PROVE sk'[t].conn <= nconn'
      <3>1. sk[t].conn <= nconn /\ sk[t].conn \in Nat
        BY <1>0, ConnTrackerAssumption DEF Fresh, TypeOK, SockRec
      <3> QED BY <1>0, <1>4, <3>1
    <2> QED BY <1>2, <2>1, <2>2, <2>3, <2>4 DEF Fresh
  <1>11. RingOK'
    <2>1. ASSUME NEW i \in 1..Len(ring), NEW t \in Sock,
                 ring[i].type = "probe", ring[i].from = ctx'[t].conn
          PROVE  ring[i].ts <= ctx'[t].last
      <3>1. ring[i].from # 0 /\ ring[i].from <= nconn /\ ring[i].from \in Nat
        BY <1>0, EventFields DEF Fresh
      <3>2. t # s
        BY <1>0, <1>3, <2>1, <3>1
      <3>3. ctx'[t] = ctx[t]
        BY <1>3, <2>1, <3>1, <3>2 DEF NoCtx
      <3> QED BY <1>0, <2>1, <3>3 DEF RingOK
    <2> QED BY <1>0, <1>2, <2>1 DEF RingOK
  <1>12. EndsAccounted'
    <2> SUFFICES ASSUME NEW c \in due', ends[c] # 1
                 PROVE  \E t \in Sock : sk'[t].conn = c /\ sk'[t].state \in Live /\ ctx'[t].conn = c
      BY <1>2 DEF EndsAccounted, Live
    <2>1. CASE c = nconn'
      BY <1>3, <1>4, <2>1 DEF Live
    <2>2. CASE c # nconn'
      <3>1. c \in due /\ c \notin {ctx[t].conn : t \in V}
        BY <1>1, <2>2
      <3>2. PICK t \in Sock : sk[t].conn = c /\ sk[t].state \in Live /\ ctx[t].conn = c
        BY <3>1 DEF IInv, EndsAccounted, Live
      <3>3. t \notin V
        BY <3>1, <3>2
      <3>4. t # s
        BY <3>2 DEF Live
      <3> QED BY <1>3, <1>4, <3>2, <3>3, <3>4
    <2> QED BY <2>1, <2>2
  <1> QED BY <1>5, <1>7, <1>8, <1>9, <1>10, <1>11, <1>12 DEF IInv

\* The deletion of the entry of a closed socket, and of all entries and records
\* at a restart, preserves the invariant.
LEMMA ForgetStep ==
    ASSUME IInv, NEW s \in Sock, sk[s].state = "CLOSE", ko_destroy_sock(s),
           sk' = [sk EXCEPT ![s] = FreeSock],
           UNCHANGED <<rpos, now, attached, nsock, nconn, skips, restarts>>
    PROVE  IInv'
  <1>0. /\ TypeOK /\ CtxOK /\ CtxInjective /\ Fresh /\ RingOK
        /\ \A i \in 1..Len(ring) : ring[i] \in Event
    BY DEF IInv, TypeOK
  <1>1. /\ ring' = ring /\ drops' = drops /\ ends' = ends /\ due' = due
        /\ ctx' \in [Sock -> Context] /\ ctx'[s].conn = 0
        /\ \A t \in Sock : t # s => ctx'[t] = ctx[t]
    BY <1>0, ConnTrackerAssumption DEF ko_destroy_sock, Forget, TypeOK, Context, NoCtx
  <1>2. /\ sk' \in [Sock -> SockRec] /\ sk'[s].conn = 0
        /\ \A t \in Sock : t # s => sk'[t] = sk[t]
    BY <1>0, ConnTrackerAssumption DEF TypeOK, SockRec, FreeSock, TcpState
  <1>3. TypeOK'
    BY <1>0, <1>1, <1>2 DEF TypeOK
  <1>4. CtxOK' /\ CtxInjective'
    BY <1>0, <1>1, <1>2 DEF CtxOK, CtxInjective, Tracked
  <1>5. Fresh'
    BY <1>0, <1>1, <1>2, ConnTrackerAssumption DEF Fresh, TypeOK
  <1>6. RingOK'
    BY <1>0, <1>1, EventFields DEF RingOK
  <1>7. Attribution' /\ AtMostOneEnd' /\ EndIsLast' /\ ProbeSpacing'
    BY <1>1 DEF IInv, Attribution, AtMostOneEnd, EndIsLast, ProbeSpacing
  <1>8. EndsAccounted'
    <2> SUFFICES ASSUME NEW c \in due, ends[c] # 1
                 PROVE  \E t \in Sock : sk'[t].conn = c /\ sk'[t].state \in Live /\ ctx'[t].conn = c
      BY <1>1 DEF EndsAccounted, Live
    <2>1. PICK t \in Sock : sk[t].conn = c /\ sk[t].state \in Live /\ ctx[t].conn = c
      BY DEF IInv, EndsAccounted, Live
    <2>2. t # s
      BY <2>1 DEF Live
    <2> QED BY <1>1, <1>2, <2>1, <2>2
  <1> QED BY <1>3, <1>4, <1>5, <1>6, <1>7, <1>8 DEF IInv

LEMMA RestartStep ==
    ASSUME IInv, Restart
    PROVE  IInv'
  <1>0. TypeOK /\ Fresh
    BY DEF IInv
  <1>1. /\ \A s \in Sock : ctx'[s].conn = 0
        /\ ring' = << >> /\ Len(ring') = 0 /\ rpos' = 0
        /\ sk' = sk /\ ends' = ends /\ nconn' = nconn /\ now' = now
        /\ due' = {c \in due : ends[c] > 0}
    BY DEF Restart, NoCtx
  <1>2. TypeOK'
    <2>1. ctx' \in [Sock -> Context] /\ drops' \in [filter : Nat, ringbuf : Nat] /\ ring' \in Seq(Event)
      BY ConnTrackerAssumption DEF Restart, NoCtx, Context
    <2> QED BY <1>0, <1>1, <2>1 DEF TypeOK, Restart
  <1>3. CtxOK' /\ CtxInjective'
    BY <1>1 DEF CtxOK, CtxInjective, Tracked
  <1>4. Fresh' /\ RingOK'
    BY <1>0, <1>1 DEF Fresh, RingOK
  <1>5. Attribution' /\ AtMostOneEnd' /\ EndIsLast' /\ ProbeSpacing'
    BY <1>1 DEF IInv, Attribution, AtMostOneEnd, EndIsLast, ProbeSpacing
  <1>6. EndsAccounted'
    <2> SUFFICES ASSUME NEW c \in due, ends[c] > 0 PROVE ends[c] = 1
      BY <1>1 DEF EndsAccounted
    <2>1. c \in Conn /\ ends[c] \in Nat
      BY <1>0 DEF TypeOK
    <2> QED BY <2>1 DEF IInv, AtMostOneEnd
  <1> QED BY <1>2, <1>3, <1>4, <1>5, <1>6 DEF IInv

\* What a state transition of s does to the map and the ring.
LEMMA TracepointCases ==
    ASSUME NEW s \in Sock, NEW new, SetStateTracepoint(s, new)
    PROVE  \/ /\ UNCHANGED <<tracker, skips>>
              /\ \/ ~SockStateAttached
                 \/ ~Connecting(sk[s].state, new) /\ ~Tracked(s)
                 \/ ~Connecting(sk[s].state, new) /\ sk[s].state \notin Live
                 \/ sk[s].state = "SYN_SENT" /\ new = "ESTABLISHED"
           \/ SockStateAttached /\ new = "SYN_SENT" /\ Capture(s) /\ UNCHANGED skips
           \/ /\ Tracked(s) /\ sk[s].state \in Live /\ UNCHANGED skips
              /\ EndConn(s, "closed") \/ EndConn(s, "failed")
           \/ Missed(s) /\ skips' = skips + 1
  <1>1. CASE ~SockStateAttached /\ UNCHANGED <<tracker, skips>>
    BY <1>1
  <1>2. CASE SockStateAttached /\ ko_sock_state(s, sk[s].state, new) /\ UNCHANGED skips
    BY <1>2, Zenon DEF ko_sock_state, Connecting, Live
  <1>3. CASE Skip /\ Missed(s)
    BY <1>3 DEF Skip
  <1> QED BY <1>1, <1>2, <1>3 DEF SetStateTracepoint

LEMMA ConnectStep ==
    ASSUME IInv, NEW s \in Sock, Connect(s)
    PROVE  IInv'
  <1>0. /\ TypeOK /\ CtxOK /\ Fresh /\ nconn \in Nat /\ nconn' \in 0..MaxConn
        /\ attached \in Nat
    BY ConnTrackerAssumption DEF IInv, TypeOK, Connect
  <1>1. /\ sk[s].state = "CLOSE" /\ sk[s].state \notin Live
        /\ nconn < MaxConn /\ nconn' = nconn + 1 /\ nconn <= nconn'
        /\ sk' = [sk EXCEPT ![s] = [state |-> "SYN_SENT", conn |-> nconn + 1, err |-> 0, retrans |-> 0]]
        /\ SetStateTracepoint(s, "SYN_SENT")
        /\ UNCHANGED <<rpos, now, attached, nsock, restarts>>
    BY <1>0 DEF Connect, Live
  <1>2. /\ sk' \in [Sock -> SockRec] /\ sk'[s].conn = nconn'
        /\ \A t \in Sock \ {s} : sk'[t] = sk[t]
    BY <1>0, <1>1, ConnTrackerAssumption DEF TypeOK, SockRec, TcpState
  <1>3. CASE UNCHANGED <<tracker, skips>> /\ ~SockStateAttached
    <2>1. attached = 0
      BY <1>0, <1>3 DEF SockStateAttached
    <2>2. \A t \in Sock : ~Tracked(t)
      BY <1>0, <2>1 DEF CtxOK
    <2>3. \A t \in Sock : sk'[t].conn <= nconn'
      <3> TAKE t \in Sock
      <3>1. sk[t].conn \in Nat /\ sk[t].conn <= nconn
        BY <1>0, ConnTrackerAssumption DEF TypeOK, SockRec, Fresh
      <3> QED BY <1>0, <1>1, <1>2, <3>1
    <2>4. TypeOK' /\ rpos' <= Len(ring) /\ now <= now' /\ attached <= attached'
      BY <1>0, <1>1, <1>2, <1>3 DEF TypeOK, tracker, IInv, RingOK
    <2> QED BY <1>1, <1>3, <2>2, <2>3, <2>4, QuietStep
  <1>4. CASE SockStateAttached /\ Capture(s) /\ UNCHANGED skips
    <2>1. attached > 0
      BY <1>0, <1>4 DEF SockStateAttached
    <2> QED BY <1>1, <1>4, <2>1, CaptureStep
  <1>5. CASE Missed(s) /\ skips' = skips + 1
    <2>1. Tracked(s) => ctx[s].missed # 0
      BY <1>0, <1>1 DEF CtxOK, Live
    <2>2. skips' \in Nat
      BY <1>0, <1>5 DEF TypeOK
    <2> QED BY <1>0, <1>1, <1>2, <1>5, <2>1, <2>2, MissedStep
  <1>6. Connecting(sk[s].state, "SYN_SENT")
    BY <1>1 DEF Connecting
  <1> QED BY <1>1, <1>3, <1>4, <1>5, <1>6, TracepointCases DEF Live

LEMMA TransitionStep ==
    ASSUME IInv, NEW s \in Sock, Transition(s)
    PROVE  IInv'
  <1>0. TypeOK /\ CtxOK /\ Fresh /\ attached \in Nat /\ nconn \in Nat
    BY ConnTrackerAssumption DEF IInv, TypeOK
  <1>1. PICK new \in TcpState, err \in {0, 1} :
            /\ <<sk[s].state, new>> \in TcpEdge
            /\ sk' = [sk EXCEPT ![s].state = new, ![s].err = err]
            /\ SetStateTracepoint(s, new)
            /\ UNCHANGED <<rpos, now, attached, nsock, nconn, restarts>>
    BY DEF Transition
  <1>2. new # "SYN_SENT"
    BY <1>1 DEF TcpEdge
  <1>3. /\ sk' \in [Sock -> SockRec] /\ sk'[s].state = new
        /\ \A t \in Sock : sk'[t].conn = sk[t].conn
        /\ \A t \in Sock \ {s} : sk'[t] = sk[t]
    <2>1. sk[s] \in SockRec
      BY <1>0 DEF TypeOK
    <2>2. /\ sk'[s] = [[sk[s] EXCEPT !.state = new] EXCEPT !.err = err]
          /\ \A t \in Sock \ {s} : sk'[t] = sk[t]
      BY <1>0, <1>1 DEF TypeOK
    <2>3. sk'[s] \in SockRec /\ sk'[s].state = new /\ sk'[s].conn = sk[s].conn
      BY <2>1, <2>2 DEF SockRec
    <2> QED BY <1>0, <1>1, <2>2, <2>3 DEF TypeOK
  <1>4. CASE /\ UNCHANGED <<tracker, skips>>
             /\ \/ ~SockStateAttached
                \/ ~Tracked(s)
                \/ sk[s].state \notin Live
                \/ sk[s].state = "SYN_SENT" /\ new = "ESTABLISHED"
    <2>1. \A t \in Sock : Tracked(t) => attached # 0
      BY <1>0 DEF CtxOK
    <2>2. \A t \in Sock : Tracked(t) /\ sk[t].state \in Live => sk'[t].state \in Live
      BY <1>0, <1>3, <1>4, <2>1 DEF SockStateAttached, Live
    <2>3. TypeOK' /\ rpos' <= Len(ring) /\ now <= now' /\ attached <= attached' /\ nconn <= nconn'
      BY <1>0, <1>1, <1>3, <1>4 DEF TypeOK, tracker, IInv, RingOK
    <2>4. \A t \in Sock : sk'[t].conn <= nconn'
      BY <1>0, <1>1, <1>3 DEF Fresh
    <2> QED BY <1>3, <1>4, <2>2, <2>3, <2>4, QuietStep
  <1>5. CASE Tracked(s) /\ UNCHANGED skips /\ (EndConn(s, "closed") \/ EndConn(s, "failed"))
    <2>1. "closed" \in EndType /\ "failed" \in EndType
      BY DEF EndType
    <2> QED BY <1>1, <1>3, <1>5, <2>1, EndStep
  <1>6. CASE Missed(s) /\ skips' = skips + 1
    <2>1. /\ skips' \in Nat /\ nconn' \in 0..MaxConn /\ nconn <= nconn' /\ sk'[s].conn <= nconn'
      BY <1>0, <1>1, <1>3, <1>6 DEF TypeOK, Fresh
    <2> QED BY <1>1, <1>3, <1>6, <2>1, MissedStep
  <1> QED BY <1>1, <1>2, <1>4, <1>5, <1>6, TracepointCases

LEMMA RetransmitStep ==
    ASSUME IInv, NEW s \in Sock, Retransmit(s)
    PROVE  IInv'
  <1>0. TypeOK /\ CtxOK /\ Fresh /\ attached \in Nat /\ nconn \in Nat
    BY ConnTrackerAssumption DEF IInv, TypeOK
  <1>1. /\ sk' = [sk EXCEPT ![s].retrans = @ + 1]
        /\ UNCHANGED tracker \/ ko_retransmit(s)
        /\ UNCHANGED <<rpos, now, attached, nsock, nconn, skips, restarts>>
    BY DEF Retransmit
  <1>2. /\ sk' \in [Sock -> SockRec]
        /\ \A t \in Sock : sk'[t].conn = sk[t].conn /\ sk'[t].state = sk[t].state
    <2>1. sk[s] \in SockRec
      BY <1>0 DEF TypeOK
    <2>2. /\ sk'[s] = [sk[s] EXCEPT !.retrans = @ + 1]
          /\ \A t \in Sock \ {s} : sk'[t] = sk[t]
      BY <1>0, <1>1 DEF TypeOK
    <2>3. sk'[s] \in SockRec /\ sk'[s].state = sk[s].state /\ sk'[s].conn = sk[s].conn
      BY <2>1, <2>2 DEF SockRec
    <2> QED BY <1>0, <1>1, <2>2, <2>3 DEF TypeOK
  <1>3. CASE UNCHANGED tracker
    <2>1. TypeOK' /\ rpos' <= Len(ring) /\ now <= now' /\ attached <= attached' /\ nconn <= nconn'
      BY <1>0, <1>1, <1>2, <1>3 DEF TypeOK, tracker, IInv, RingOK
    <2>2. \A t \in Sock : sk'[t].conn <= nconn'
      BY <1>0, <1>1, <1>2 DEF Fresh
    <2> QED BY <1>2, <1>3, <2>1, <2>2, QuietStep
  <1>4. CASE Tracked(s) /\ submit_conn_evt(s, ctx[s], "retransmit") /\ UNCHANGED <<ctx, ends, due>>
    BY <1>1, <1>2, <1>4, SampleStep
  <1> QED BY <1>1, <1>3, <1>4 DEF ko_retransmit

LEMMA ProbeStep ==
    ASSUME IInv, NEW s \in Sock, Probe(s)
    PROVE  IInv'
  <1>0. TypeOK /\ CtxOK /\ Fresh /\ attached \in Nat /\ nconn \in Nat
    BY ConnTrackerAssumption DEF IInv, TypeOK
  <1>1. /\ sk' = sk /\ ko_probe(s)
        /\ UNCHANGED <<rpos, now, attached, nsock, nconn, skips, restarts>>
    BY DEF Probe
  <1>2. CASE UNCHANGED tracker
    <2>1. TypeOK' /\ rpos' <= Len(ring) /\ now <= now' /\ attached <= attached' /\ nconn <= nconn'
      BY <1>0, <1>1, <1>2 DEF TypeOK, tracker, IInv, RingOK
    <2>2. \A t \in Sock : sk'[t].conn <= nconn'
      BY <1>0, <1>1 DEF Fresh
    <2> QED BY <1>1, <1>2, <2>1, <2>2, QuietStep
  <1>3. CASE /\ Tracked(s) /\ now - ctx[s].last >= ProbeInterval
             /\ ctx' = [ctx EXCEPT ![s].last = now]
             /\ submit_conn_evt(s, ctx[s], "probe") /\ UNCHANGED <<ends, due>>
    <2>1. sk' \in [Sock -> SockRec]
      BY <1>0, <1>1 DEF TypeOK
    <2> QED BY <1>1, <1>3, <2>1, SampleStep
  <1> QED BY <1>1, <1>2, <1>3 DEF ko_probe

LEMMA DestroyStep ==
    ASSUME IInv, NEW s \in Sock, Destroy(s)
    PROVE  IInv'
  <1>0. TypeOK /\ CtxOK /\ nconn \in 0..MaxConn /\ nconn \in Nat
    BY ConnTrackerAssumption DEF IInv, TypeOK
  <1>1. /\ sk[s].state = "CLOSE" /\ sk' = [sk EXCEPT ![s] = FreeSock]
        /\ UNCHANGED <<rpos, now, attached, nsock, nconn, restarts>>
        /\ \/ ko_destroy_sock(s) /\ UNCHANGED skips
           \/ Missed(s) /\ (skips' = skips + 1 \/ UNCHANGED skips)
    BY DEF Destroy, Skip
  <1>2. CASE ko_destroy_sock(s) /\ UNCHANGED skips
    BY <1>1, <1>2, ForgetStep
  <1>3. CASE Missed(s) /\ (skips' = skips + 1 \/ UNCHANGED skips)
    <2>1. /\ sk' \in [Sock -> SockRec] /\ sk'[s].conn = 0
          /\ \A t \in Sock \ {s} : sk'[t] = sk[t]
      BY <1>0, <1>1, ConnTrackerAssumption DEF TypeOK, SockRec, FreeSock, TcpState
    <2>2. Tracked(s) => ctx[s].missed # 0
      BY <1>0, <1>1 DEF CtxOK
    <2>3. skips' \in Nat /\ nconn' \in 0..MaxConn /\ nconn <= nconn' /\ sk'[s].conn <= nconn'
      BY <1>0, <1>1, <1>3, <2>1 DEF TypeOK
    <2> QED BY <1>1, <1>3, <2>1, <2>2, <2>3, MissedStep
  <1> QED BY <1>1, <1>2, <1>3

\* The steps that touch neither the map nor the ring: a new socket, a program
\* attached, a record read, time.
LEMMA OtherStep ==
    ASSUME IInv,
           \/ \E s \in Sock : Alloc(s) \/ Accept(s)
           \/ Attach \/ Read \/ Tick
    PROVE  IInv'
  <1>0. /\ TypeOK /\ CtxOK /\ Fresh /\ RingOK /\ attached \in Nat /\ nconn \in Nat /\ now \in Nat
        /\ rpos \in Nat /\ Len(ring) \in Nat
    BY ConnTrackerAssumption DEF IInv, TypeOK
  <1>1. CASE \E s \in Sock : Alloc(s) \/ Accept(s)
    <2>1. PICK s \in Sock, new \in {"CLOSE", "SYN_RECV"} :
              /\ sk[s].state = "FREE" /\ nsock' = nsock + 1
              /\ sk' = [sk EXCEPT ![s].state = new]
              /\ UNCHANGED <<tracker, rpos, now, attached, nconn, skips, restarts>>
      BY <1>1 DEF Alloc, Accept
    <2>2. sk[s] \in SockRec
      BY <1>0 DEF TypeOK
    <2>3. /\ sk'[s] = [sk[s] EXCEPT !.state = new]
          /\ \A t \in Sock \ {s} : sk'[t] = sk[t]
      BY <1>0, <2>1 DEF TypeOK
    <2>4. sk'[s] \in SockRec /\ sk'[s].conn = sk[s].conn
      BY <2>2, <2>3 DEF SockRec, TcpState
    <2>5. TypeOK'
      BY <1>0, <2>1, <2>3, <2>4 DEF TypeOK, tracker
    <2>6. rpos' <= Len(ring) /\ now <= now' /\ attached <= attached' /\ nconn <= nconn'
      BY <1>0, <2>1 DEF RingOK
    <2>7. \A t \in Sock : sk'[t].conn = sk[t].conn /\ (sk[t].state \in Live => sk'[t].state \in Live)
      BY <2>1, <2>3, <2>4 DEF Live
    <2>8. \A t \in Sock : sk'[t].conn <= nconn'
      BY <1>0, <2>1, <2>7 DEF Fresh
    <2> QED BY <2>1, <2>5, <2>6, <2>7, <2>8, QuietStep
  <1>2. CASE Attach \/ Read \/ Tick
    <2>1. /\ UNCHANGED <<sk, tracker, nsock, nconn, skips, restarts>>
          /\ attached' \in 0..4 /\ attached <= attached'
          /\ now' \in Nat /\ now <= now'
          /\ rpos' \in Nat /\ rpos' <= Len(ring)
      BY <1>0, <1>2 DEF Attach, Read, Tick, TypeOK, RingOK
    <2>2. TypeOK'
      BY <1>0, <2>1 DEF TypeOK, tracker
    <2>3. \A t \in Sock : sk'[t].conn <= nconn'
      BY <1>0, <2>1 DEF Fresh
    <2>4. nconn <= nconn' /\ \A t \in Sock : sk'[t].conn = sk[t].conn /\ sk'[t].state = sk[t].state
      BY <1>0, <2>1
    <2> QED BY <2>1, <2>2, <2>3, <2>4, QuietStep
  <1> QED BY <1>1, <1>2

LEMMA InitIInv == Init => IInv
  <1> SUFFICES ASSUME Init PROVE IInv
    OBVIOUS
  <1>0. /\ \A s \in Sock : ctx[s] = NoCtx /\ sk[s] = FreeSock
        /\ ring = << >> /\ Len(ring) = 0 /\ nconn = 0 /\ due = {} /\ rpos = 0
    BY DEF Init
  <1>1. TypeOK
    BY ConnTrackerAssumption DEF Init, TypeOK, SockRec, FreeSock, TcpState, Context, NoCtx, Conn
  <1>2. CtxOK /\ CtxInjective /\ EndsAccounted
    BY <1>0 DEF CtxOK, CtxInjective, EndsAccounted, Tracked, NoCtx
  <1>3. Fresh /\ RingOK /\ AtMostOneEnd
    BY <1>0 DEF Init, Fresh, RingOK, AtMostOneEnd, FreeSock
  <1>4. Attribution /\ EndIsLast /\ ProbeSpacing
    BY <1>0 DEF Attribution, EndIsLast, ProbeSpacing
  <1> QED BY <1>1, <1>2, <1>3, <1>4 DEF IInv

\* IInv is inductive: one case per action of the programs, the stack and the agent.
THEOREM Invariance == Spec => []IInv
  <1>1. Init => IInv
    BY InitIInv
  <1>2. IInv /\ [Next]_vars => IInv'
    <2> SUFFICES ASSUME IInv, [Next]_vars PROVE IInv'
      OBVIOUS
    <2>1. ASSUME NEW s \in Sock, Alloc(s) \/ Accept(s) PROVE IInv'
      BY <2>1, OtherStep
    <2>2. ASSUME NEW s \in Sock, Connect(s) PROVE IInv'
      BY <2>2, ConnectStep
    <2>3. ASSUME NEW s \in Sock, Transition(s) PROVE IInv'
      BY <2>3, TransitionStep
    <2>4. ASSUME NEW s \in Sock, Retransmit(s) PROVE IInv'
      BY <2>4, RetransmitStep
    <2>5. ASSUME NEW s \in Sock, Probe(s) PROVE IInv'
      BY <2>5, ProbeStep
    <2>6. ASSUME NEW s \in Sock, Destroy(s) PROVE IInv'
      BY <2>6, DestroyStep
    <2>7. CASE Attach \/ Read \/ Tick
      BY <2>7, OtherStep
    <2>8. CASE Restart
      BY <2>8, RestartStep
    <2>9. CASE UNCHANGED vars
      BY <2>9 DEF vars, IInv, TypeOK, CtxOK, CtxInjective, Fresh, RingOK, Tracked,
                  Attribution, AtMostOneEnd, EndIsLast, ProbeSpacing, EndsAccounted
    <2> QED BY <2>1, <2>2, <2>3, <2>4, <2>5, <2>6, <2>7, <2>8, <2>9 DEF Next
  <1> QED BY <1>1, <1>2, PTL DEF Spec

\* Every variable of the tracker keeps its type, so no event is ever sent with an
\* empty identity.
THEOREM TypeCorrect == Spec => []TypeOK
  <1>1. IInv => TypeOK
    BY DEF IInv
  <1> QED BY <1>1, Invariance, PTL

\* An event names the connection it is about unless two runs were missed on its
\* socket address since the connect: ko_destroy_sock backs up ko_sock_state.
THEOREM AttributionSafe == Spec => []Attribution
  <1>1. IInv => Attribution
    BY DEF IInv
  <1> QED BY <1>1, Invariance, PTL

\* A connection is ended at most once, and its lifecycle event is its last.
THEOREM OneEnd == Spec => [](AtMostOneEnd /\ EndIsLast)
  <1>1. IInv => AtMostOneEnd /\ EndIsLast
    BY DEF IInv
  <1> QED BY <1>1, Invariance, PTL

\* Probe events of a connection keep the minimum interval of ko_probe.
THEOREM ProbesSpaced == Spec => []ProbeSpacing
  <1>1. IInv => ProbeSpacing
    BY DEF IInv
  <1> QED BY <1>1, Invariance, PTL

\* Every connection seen connecting is live and tracked, or its lifecycle event was
\* submitted, or its entry was evicted, its run missed, or the agent restarted.
THEOREM EndsAreAccounted == Spec => []EndsAccounted
  <1>1. IInv => EndsAccounted
    BY DEF IInv
  <1> QED BY <1>1, Invariance, PTL

-----------------------------------------------------------------------------
(* The refinement mapping to ConnLog. *)

\* Some entry has the identity of connection c.
Owned(c) == \E s \in Sock : ctx[s].conn = c

\* Phase, connection by connection.
LEMMA PhaseOf ==
    ASSUME NEW c \in Conn
    PROVE  /\ Phase[c] = IF c > nconn THEN "new" ELSE IF ends[c] > 0 THEN "ended"
                         ELSE IF Owned(c) THEN "tracked" ELSE "lost"
           /\ Phase'[c] = IF c > nconn' THEN "new" ELSE IF ends'[c] > 0 THEN "ended"
                          ELSE IF Owned(c)' THEN "tracked" ELSE "lost"
  BY DEF Phase, Owned

\* Two functions on connections are equal when their values are.
LEMMA PhaseEqual ==
    ASSUME NEW f, f = [c \in Conn |-> f[c]], \A c \in Conn : Phase'[c] = f[c]
    PROVE  Phase' = f
  <1>1. Phase' = [c \in Conn |-> Phase'[c]]
    BY DEF Phase
  <1> QED BY <1>1

\* The connection of an entry is tracked, and no other entry has it.
LEMMA TrackedPhase ==
    ASSUME IInv, NEW s \in Sock, Tracked(s)
    PROVE  /\ ctx[s].conn \in Conn /\ ctx[s].conn <= nconn /\ ends[ctx[s].conn] = 0
           /\ Owned(ctx[s].conn) /\ Phase[ctx[s].conn] = "tracked"
           /\ \A t \in Sock \ {s} : ctx[t].conn # ctx[s].conn
  <1>1. ctx[s] \in Context /\ nconn \in Nat
    BY ConnTrackerAssumption DEF IInv, TypeOK
  <1>2. ctx[s].conn \in Conn /\ ctx[s].conn \in Nat
    BY <1>1, CtxFields DEF Tracked
  <1>3. ctx[s].conn <= nconn /\ ends[ctx[s].conn] = 0 /\ Owned(ctx[s].conn)
    BY DEF IInv, CtxOK, Owned
  <1>4. \A t \in Sock \ {s} : ctx[t].conn # ctx[s].conn
    BY DEF IInv, CtxInjective, Tracked
  <1>5. Phase[ctx[s].conn] = "tracked"
    BY <1>1, <1>2, <1>3, PhaseOf
  <1> QED BY <1>2, <1>3, <1>4, <1>5

\* The phases depend on the identities in the map only.
LEMMA SamePhase ==
    ASSUME nconn' = nconn, ends' = ends, \A c \in Conn : Owned(c)' <=> Owned(c)
    PROVE  Phase' = Phase
  BY DEF Phase, Owned

\* The log follows the ring.
LEMMA LogLen ==
    ASSUME TypeOK
    PROVE  Log \in Seq([conn : Conn, type : EventType]) /\ Len(Log) = Len(ring)
  <1>1. ring \in Seq(Event) /\ Len(ring) \in Nat
    BY DEF TypeOK
  <1>2. \A i \in 1..Len(ring) : [conn |-> ring[i].from, type |-> ring[i].type] \in [conn : Conn, type : EventType]
    BY <1>1, EventFields
  <1> QED BY <1>1, <1>2 DEF Log
\* A record in the ring is a record at the end of the log.
LEMMA LogAppend ==
    ASSUME TypeOK, NEW e \in Event, ring' = Append(ring, e)
    PROVE  Log' = Append(Log, [conn |-> e.from, type |-> e.type])
  <1>1. ring \in Seq(Event) /\ Len(ring) \in Nat /\ Len(ring') = Len(ring) + 1
        /\ \A i \in 1..Len(ring) : ring'[i] = ring[i]
        /\ ring'[Len(ring) + 1] = e
    BY AppendFacts DEF TypeOK
  <1>2. Log' = [i \in 1..(Len(ring) + 1) |-> [conn |-> ring'[i].from, type |-> ring'[i].type]]
    BY <1>1 DEF Log
  <1>3. /\ Append(Log, [conn |-> e.from, type |-> e.type]) =
           [i \in 1..(Len(ring) + 1) |-> IF i = Len(ring) + 1 THEN [conn |-> e.from, type |-> e.type]
                                         ELSE Log[i]]
    BY <1>1, LogLen
  <1>4. \A i \in 1..Len(ring) : Log[i] = [conn |-> ring[i].from, type |-> ring[i].type]
    BY DEF Log
  <1> QED BY <1>1, <1>2, <1>3, <1>4

\* What submit_conn_evt writes is what ConnLog's Write does, or nothing.
LEMMA SubmitWrites ==
    ASSUME IInv, sk' \in [Sock -> SockRec], NEW s \in Sock, Tracked(s),
           NEW type \in EventType, submit_conn_evt(s, ctx[s], type)
    PROVE  Log' = Log \/ Contract!Write(ctx[s].conn, type)
  <1> DEFINE e == [conn |-> sk'[s].conn, from |-> ctx[s].conn, type |-> type,
                   err |-> sk'[s].err, retrans |-> sk'[s].retrans,
                   ts |-> now, missed |-> ctx[s].missed]
  <1>1. TypeOK /\ e \in Event
    <2>1. sk'[s] \in SockRec /\ ctx[s] \in Context /\ TypeOK
      BY DEF IInv, TypeOK
    <2>2. /\ sk'[s].conn \in 0..MaxConn /\ sk'[s].err \in {0, 1} /\ sk'[s].retrans \in Nat
          /\ ctx[s].conn \in Conn /\ ctx[s].missed \in 0..2
      BY <2>1, ConnTrackerAssumption DEF SockRec, Context, Conn, Tracked
    <2> QED BY <2>1, <2>2 DEF Event, TypeOK
  <1>2. \/ ring' = ring
        \/ Len(ring) - rpos < RingCap /\ ring' = Append(ring, e)
    BY DEF submit_conn_evt, Filtered, Reserved
  <1>3. CASE ring' = ring
    BY <1>3 DEF Log
  <1>4. CASE Len(ring) - rpos < RingCap /\ ring' = Append(ring, e)
    <2>1. Log' = Append(Log, [conn |-> e.from, type |-> e.type]) /\ Len(Log) = Len(ring)
      BY <1>1, <1>4, LogAppend, LogLen
    <2>2. e.from = ctx[s].conn /\ e.type = type
      OBVIOUS
    <2> QED BY <1>4, <2>1, <2>2 DEF Contract!Write
  <1> QED BY <1>2, <1>3, <1>4

-----------------------------------------------------------------------------
(* One lemma for each effect on the log. *)

\* A step that changes neither an identity in the map nor the ring is invisible.
LEMMA Invisible ==
    ASSUME UNCHANGED <<ring, rpos, nconn, ends>>, \A s \in Sock : ctx'[s].conn = ctx[s].conn
    PROVE  UNCHANGED Contract!logVars
  <1>1. \A c \in Conn : Owned(c)' <=> Owned(c)
    BY DEF Owned
  <1>2. Phase' = Phase
    BY <1>1, SamePhase
  <1> QED BY <1>2 DEF Contract!logVars, Log

\* A sample of a tracked connection is an Observe, or dropped.
LEMMA SampleObserves ==
    ASSUME IInv, sk' \in [Sock -> SockRec], NEW s \in Sock, Tracked(s),
           NEW type \in {"retransmit", "probe"}, submit_conn_evt(s, ctx[s], type),
           UNCHANGED <<rpos, nconn, ends>>, \A t \in Sock : ctx'[t].conn = ctx[t].conn
    PROVE  [Contract!LogNext]_(Contract!logVars)
  <1>1. Phase' = Phase
    <2>1. \A c \in Conn : Owned(c)' <=> Owned(c)
      BY DEF Owned
    <2> QED BY <2>1, SamePhase
  <1>2. Log' = Log \/ Contract!Write(ctx[s].conn, type)
    <2>1. type \in EventType
      BY DEF EventType
    <2> QED BY <2>1, SubmitWrites
  <1>3. CASE Log' = Log
    BY <1>1, <1>3 DEF Contract!logVars
  <1>4. CASE Contract!Write(ctx[s].conn, type)
    <2>1. type \in Contract!Sample
      BY DEF Contract!Sample
    <2>2. Contract!Observe(ctx[s].conn) /\ ctx[s].conn \in Conn
      BY <1>1, <1>4, <2>1, TrackedPhase DEF Contract!Observe
    <2> QED BY <2>2 DEF Contract!LogNext
  <1> QED BY <1>2, <1>3, <1>4

\* A lifecycle event finishes its connection.
LEMMA EndFinishes ==
    ASSUME IInv, sk' \in [Sock -> SockRec], NEW s \in Sock, Tracked(s),
           NEW type \in EndType, EndConn(s, type), UNCHANGED <<rpos, nconn>>
    PROVE  Contract!LogNext
  <1> DEFINE c == ctx[s].conn
  <1>0. /\ c \in Conn /\ c <= nconn /\ nconn \in Nat /\ c \in Nat /\ ends[c] = 0
        /\ Phase[c] = "tracked" /\ \A t \in Sock \ {s} : ctx[t].conn # c
    BY TrackedPhase, ConnTrackerAssumption DEF IInv, TypeOK, Conn
  <1>1. /\ ctx' = [ctx EXCEPT ![s] = NoCtx] /\ submit_conn_evt(s, ctx[s], type)
        /\ ends' = [ends EXCEPT ![c] = @ + 1]
        /\ ctx \in [Sock -> Context] /\ ends \in [Conn -> Nat]
    BY DEF EndConn, Forget, IInv, TypeOK
  <1>2. Phase' = [Phase EXCEPT ![c] = "ended"]
    <2> DEFINE f == [Phase EXCEPT ![c] = "ended"]
    <2>1. f = [d \in Conn |-> f[d]] /\ \A d \in Conn : f[d] = IF d = c THEN "ended" ELSE Phase[d]
      BY DEF Phase
    <2>2. Phase'[c] = "ended"
      BY <1>0, <1>1, PhaseOf
    <2>3. ASSUME NEW d \in Conn, d # c
          PROVE  Phase'[d] = Phase[d]
      <3>1. ends'[d] = ends[d] /\ (Owned(d)' <=> Owned(d))
        <4>1. d # 0 /\ ctx'[s].conn = 0 /\ \A t \in Sock \ {s} : ctx'[t] = ctx[t]
          BY <1>1 DEF Conn, NoCtx
        <4> QED BY <1>1, <2>3, <4>1 DEF Owned
      <3> QED BY <3>1, PhaseOf
    <2> HIDE DEF f
    <2> QED BY <2>1, <2>2, <2>3, PhaseEqual DEF f
  <1>3. Log' = Log \/ Contract!Write(c, type)
    <2>1. type \in EventType
      BY DEF EventType
    <2> QED BY <1>1, <2>1, SubmitWrites
  <1>4. Contract!Finish(c)
    <2>1. type \in Contract!End
      BY DEF Contract!End, EndType
    <2> QED BY <1>0, <1>2, <1>3, <2>1 DEF Contract!Finish
  <1> QED BY <1>0, <1>4 DEF Contract!LogNext

\* ko_destroy_sock loses the connection of a stale entry, if there is one.
LEMMA DestroyLoses ==
    ASSUME IInv, NEW s \in Sock, Forget(s), UNCHANGED <<ring, rpos, nconn, ends>>
    PROVE  [Contract!LogNext]_(Contract!logVars)
  <1>1. /\ ctx' = [ctx EXCEPT ![s] = NoCtx] /\ ctx \in [Sock -> Context]
        /\ ctx'[s].conn = 0 /\ \A t \in Sock \ {s} : ctx'[t] = ctx[t]
    BY DEF Forget, IInv, TypeOK, NoCtx
  <1>2. CASE ~Tracked(s)
    <2>1. \A t \in Sock : ctx'[t].conn = ctx[t].conn
      BY <1>1, <1>2 DEF Tracked
    <2> QED BY <2>1, Invisible
  <1>3. CASE Tracked(s)
    <2> DEFINE c == ctx[s].conn
               f == [Phase EXCEPT ![c] = "lost"]
    <2>0. /\ c \in Conn /\ c <= nconn /\ nconn \in Nat /\ c \in Nat /\ c # 0 /\ ends[c] = 0
          /\ Phase[c] = "tracked" /\ \A t \in Sock \ {s} : ctx[t].conn # c
      BY <1>3, TrackedPhase, ConnTrackerAssumption DEF IInv, TypeOK, Conn
    <2>1. f = [d \in Conn |-> f[d]] /\ \A d \in Conn : f[d] = IF d = c THEN "lost" ELSE Phase[d]
      BY DEF Phase
    <2>2. Phase'[c] = "lost"
      <3>1. ASSUME NEW d \in Conn, d = c
            PROVE  ~Owned(d)'
        BY <1>1, <2>0, <3>1 DEF Owned
      <3> QED BY <2>0, <3>1, PhaseOf
    <2>3. ASSUME NEW d \in Conn, d # c
          PROVE  Phase'[d] = Phase[d]
      <3>1. d # 0
        BY DEF Conn
      <3>2. Owned(d)' <=> Owned(d)
        BY <1>1, <2>3, <3>1 DEF Owned
      <3> QED BY <3>2, PhaseOf
    <2>4. Phase' = [Phase EXCEPT ![c] = "lost"]
      <3> HIDE DEF f
      <3> QED BY <2>1, <2>2, <2>3, PhaseEqual DEF f
    <2>5. Contract!Lose(c)
      BY <2>0, <2>4 DEF Contract!Lose, Log
    <2> QED BY <2>0, <2>5 DEF Contract!LogNext
  <1> QED BY <1>2, <1>3

\* A connect starts its connection, seen or not; the entries it pushes out, and the
\* stale one it overwrites, are lost.
LEMMA ConnectStarts ==
    ASSUME IInv, nconn < MaxConn, nconn' = nconn + 1, UNCHANGED <<ring, rpos, ends>>,
           \A d \in Conn \ {nconn'} : Owned(d)' => Owned(d)
    PROVE  Contract!LogNext
  <1> DEFINE c == nconn + 1
             L == {d \in Conn : Phase[d] = "tracked" /\ ~Owned(d)'}
             f == [d \in Conn |-> IF d = c THEN Phase'[c] ELSE IF d \in L THEN "lost" ELSE Phase[d]]
  <1>0. /\ nconn \in Nat /\ MaxConn \in Nat /\ c \in Conn /\ ends[c] = 0
        /\ \A d \in Conn : d \in Nat
    BY ConnTrackerAssumption DEF IInv, TypeOK, Fresh, Conn
  <1>1. Phase[c] = "new" /\ Phase'[c] \in {"tracked", "lost"}
    BY <1>0, PhaseOf
  <1>2. ASSUME NEW d \in Conn, d # c
        PROVE  Phase'[d] = IF d \in L THEN "lost" ELSE Phase[d]
    <2>1. Owned(d)' => Owned(d)
      BY <1>2
    <2>2. (d > nconn' <=> d > nconn)
      BY <1>0, <1>2
    <2> QED BY <2>1, <2>2, PhaseOf
  <1>3. Phase' = f
    <2>1. f = [d \in Conn |-> f[d]] /\ \A d \in Conn : Phase'[d] = f[d]
      BY <1>2
    <2> HIDE DEF f
    <2> QED BY <2>1, PhaseEqual
  <1>4. L \in SUBSET {d \in Conn : Phase[d] = "tracked"}
    OBVIOUS
  <1>5. Contract!Start(c)
    <2> HIDE DEF L
    <2> QED BY <1>1, <1>3, <1>4 DEF Contract!Start, Log
  <1> QED BY <1>0, <1>5 DEF Contract!LogNext

-----------------------------------------------------------------------------
(* The steps of the tracker. *)

\* A connect is a Start, with what the insert evicts.
LEMMA ConnectRefines ==
    ASSUME IInv, NEW s \in Sock, Connect(s)
    PROVE  Contract!LogNext
  <1>0. /\ sk[s].state = "CLOSE" /\ nconn < MaxConn /\ nconn' = nconn + 1 /\ UNCHANGED rpos
        /\ SetStateTracepoint(s, "SYN_SENT")
    BY DEF Connect
  <1>1. CASE UNCHANGED tracker
    <2>1. \A d \in Conn \ {nconn'} : Owned(d)' => Owned(d)
      BY <1>1 DEF Owned, tracker
    <2> QED BY <1>0, <1>1, <2>1, ConnectStarts DEF tracker
  <1>2. CASE Missed(s)
    <2>1. UNCHANGED <<ring, ends>> /\ \A t \in Sock : ctx'[t].conn = ctx[t].conn
      BY <1>2 DEF Missed, IInv, TypeOK, Context
    <2>2. \A d \in Conn \ {nconn'} : Owned(d)' => Owned(d)
      BY <2>1 DEF Owned
    <2> QED BY <1>0, <2>1, <2>2, ConnectStarts
  <1>3. CASE Capture(s)
    <2>1. PICK V \in SUBSET {t \in Sock \ {s} : Tracked(t)} :
              ctx' = [t \in Sock |-> IF t = s THEN [conn |-> nconn', last |-> 0, missed |-> 0]
                                     ELSE IF t \in V THEN NoCtx ELSE ctx[t]]
      BY <1>3 DEF Capture
    <2>2. ASSUME NEW d \in Conn \ {nconn'}, Owned(d)'
          PROVE  Owned(d)
      <3>1. d # 0
        BY DEF Conn
      <3>2. PICK t \in Sock : ctx'[t].conn = d
        BY <2>2 DEF Owned
      <3>3. ctx[t].conn = d
        BY <2>1, <3>1, <3>2 DEF NoCtx
      <3> QED BY <3>3 DEF Owned
    <2>3. UNCHANGED <<ring, ends>>
      BY <1>3 DEF Capture
    <2> QED BY <1>0, <2>2, <2>3, ConnectStarts
  <1>4. sk[s].state \notin Live
    BY <1>0 DEF Live
  <1> QED BY <1>0, <1>1, <1>2, <1>3, <1>4, TracepointCases DEF tracker

\* A run that does not happen changes nothing the reader sees.
LEMMA MissedInvisible ==
    ASSUME IInv, NEW s \in Sock, Missed(s), UNCHANGED <<rpos, nconn>>
    PROVE  UNCHANGED Contract!logVars
  <1>1. UNCHANGED <<ring, ends>> /\ \A t \in Sock : ctx'[t].conn = ctx[t].conn
    BY DEF Missed, IInv, TypeOK, Context
  <1> QED BY <1>1, Invisible

\* A change of state ends the tracked connection or is invisible.
LEMMA TransitionRefines ==
    ASSUME IInv, NEW s \in Sock, Transition(s)
    PROVE  [Contract!LogNext]_(Contract!logVars)
  <1>1. PICK new \in TcpState, err \in {0, 1} :
            /\ <<sk[s].state, new>> \in TcpEdge
            /\ sk' = [sk EXCEPT ![s].state = new, ![s].err = err]
            /\ SetStateTracepoint(s, new)
            /\ UNCHANGED <<rpos, nconn>>
    BY DEF Transition
  <1>2. new # "SYN_SENT" /\ sk' \in [Sock -> SockRec]
    BY <1>1 DEF TcpEdge, IInv, TypeOK, SockRec
  <1>3. CASE UNCHANGED tracker
    BY <1>1, <1>3, Invisible DEF tracker
  <1>4. CASE Tracked(s) /\ (EndConn(s, "closed") \/ EndConn(s, "failed"))
    BY <1>1, <1>2, <1>4, EndFinishes DEF EndType
  <1>5. CASE Missed(s)
    BY <1>1, <1>5, MissedInvisible
  <1> QED BY <1>1, <1>2, <1>3, <1>4, <1>5, TracepointCases DEF tracker

\* Retransmissions and probes are observations of a tracked connection.
LEMMA SamplesRefine ==
    ASSUME IInv, NEW s \in Sock, Retransmit(s) \/ Probe(s)
    PROVE  [Contract!LogNext]_(Contract!logVars)
  <1>1. sk' \in [Sock -> SockRec] /\ UNCHANGED <<rpos, nconn>>
    <2>1. sk \in [Sock -> SockRec] /\ sk[s] \in SockRec
      BY DEF IInv, TypeOK
    <2>2. [sk[s] EXCEPT !.retrans = @ + 1] \in SockRec
      BY <2>1 DEF SockRec
    <2>3. CASE Retransmit(s)
      BY <2>1, <2>2, <2>3 DEF Retransmit
    <2>4. CASE Probe(s)
      BY <2>1, <2>4 DEF Probe
    <2> QED BY <2>3, <2>4
  <1>2. CASE UNCHANGED tracker
    BY <1>1, <1>2, Invisible DEF tracker
  <1>3. CASE Tracked(s) /\ submit_conn_evt(s, ctx[s], "retransmit") /\ UNCHANGED <<ctx, ends, due>>
    BY <1>1, <1>3, SampleObserves
  <1>4. CASE /\ Tracked(s) /\ ctx' = [ctx EXCEPT ![s].last = now]
             /\ submit_conn_evt(s, ctx[s], "probe") /\ UNCHANGED <<ends, due>>
    <2>1. \A t \in Sock : ctx'[t].conn = ctx[t].conn
      BY <1>4 DEF IInv, TypeOK, Context
    <2> QED BY <1>1, <1>4, <2>1, SampleObserves
  <1> QED BY <1>2, <1>3, <1>4 DEF Retransmit, Probe, ko_retransmit, ko_probe

\* A destroyed socket with an entry loses its connection.
LEMMA DestroyRefines ==
    ASSUME IInv, NEW s \in Sock, Destroy(s)
    PROVE  [Contract!LogNext]_(Contract!logVars)
  <1>1. UNCHANGED <<rpos, nconn>> /\ (ko_destroy_sock(s) \/ Missed(s))
    BY DEF Destroy
  <1>2. CASE ko_destroy_sock(s)
    BY <1>1, <1>2, DestroyLoses DEF ko_destroy_sock
  <1>3. CASE Missed(s)
    BY <1>1, <1>3, MissedInvisible
  <1> QED BY <1>1, <1>2, <1>3

\* The reader takes the next record of the log.
LEMMA ReadTakes ==
    ASSUME IInv, Read
    PROVE  Contract!LogNext
  <1>1. rpos < Len(Log) /\ rpos' = rpos + 1 /\ UNCHANGED <<ring, ctx, ends, nconn>>
    BY LogLen DEF Read, IInv, tracker
  <1>2. UNCHANGED <<Phase, Log>>
    BY <1>1 DEF Phase, Log
  <1>3. Contract!Take
    BY <1>1, <1>2 DEF Contract!Take
  <1> QED BY <1>3 DEF Contract!LogNext

\* A restart begins with empty maps: a Reset.
LEMMA RestartResets ==
    ASSUME IInv, Restart
    PROVE  Contract!LogNext
  <1>1. /\ ctx' = [s \in Sock |-> NoCtx] /\ ring' = << >> /\ rpos' = 0
        /\ UNCHANGED <<ends, nconn>>
    BY DEF Restart
  <1>2. Log' = << >>
    BY <1>1 DEF Log
  <1> DEFINE f == [c \in Conn |-> IF Phase[c] = "tracked" THEN "lost" ELSE Phase[c]]
  <1>3. Phase' = f
    <2>1. ASSUME NEW c \in Conn
          PROVE  Phase'[c] = f[c]
      <3>1. ~Owned(c)'
        <4>1. c # 0 /\ \A s \in Sock : ctx'[s].conn = 0
          BY <1>1 DEF Conn, NoCtx
        <4> QED BY <4>1 DEF Owned
      <3> QED BY <1>1, <3>1, PhaseOf
    <2>2. f = [c \in Conn |-> f[c]]
      OBVIOUS
    <2> HIDE DEF f
    <2> QED BY <2>1, <2>2, PhaseEqual
  <1>4. Contract!Reset
    BY <1>1, <1>2, <1>3 DEF Contract!Reset
  <1> QED BY <1>4 DEF Contract!LogNext

\* Every step of the tracker is a step of ConnLog or leaves the log alone.
LEMMA StepRefines ==
    ASSUME IInv, [Next]_vars
    PROVE  [Contract!LogNext]_(Contract!logVars)
  <1>1. ASSUME NEW s \in Sock, Alloc(s) \/ Accept(s)
        PROVE  UNCHANGED Contract!logVars
    BY <1>1, Invisible DEF Alloc, Accept, tracker
  <1>2. CASE Attach \/ Tick \/ UNCHANGED vars
    BY <1>2, Invisible DEF Attach, Tick, tracker, vars
  <1>3. ASSUME NEW s \in Sock,
               Connect(s) \/ Transition(s) \/ Retransmit(s) \/ Probe(s) \/ Destroy(s)
        PROVE  [Contract!LogNext]_(Contract!logVars)
    BY <1>3, ConnectRefines, TransitionRefines, SamplesRefine, DestroyRefines
  <1>4. CASE Read \/ Restart
    BY <1>4, ReadTakes, RestartResets
  <1> QED BY <1>1, <1>2, <1>3, <1>4 DEF Next

\* No connection has started and nothing was written.
LEMMA InitRefines ==
    ASSUME Init
    PROVE  Contract!LogInit
  <1>1. Log = << >> /\ rpos = 0
    BY DEF Init, Log
  <1>2. Phase = [c \in Conn |-> "new"]
    BY ConnTrackerAssumption DEF Init, Phase, Conn
  <1> QED BY <1>1, <1>2 DEF Contract!LogInit

\* The programs keep the promise of ConnLog to whoever reads ko_events: samples of a
\* connection while it is tracked, then at most one lifecycle event, in order,
\* nothing twice, whatever is evicted, missed, reused or restarted.
THEOREM TrackerImplementsConnLog == Spec => ImplementsConnLog
  <1>1. Init => Contract!LogInit
    BY InitRefines
  <1>2. IInv /\ [Next]_vars => [Contract!LogNext]_(Contract!logVars)
    BY StepRefines
  <1> QED BY <1>1, <1>2, Invariance, PTL DEF Spec, ImplementsConnLog, Contract!LogSpec
=============================================================================
