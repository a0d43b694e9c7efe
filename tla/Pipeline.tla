------------------------------ MODULE Pipeline ------------------------------
(***************************************************************************)
(* The user-space half of the node agent: the goroutines App.Run starts    *)
(* and the queues between them.                                            *)
(*                                                                         *)
(*   ko_events -> Tracer.Run -> events (channel) -> consumeEvents          *)
(*                            -> Push (a queue per exporter) -> exporter   *)
(*                                                                         *)
(* The tracer and the consumer both look containers up in kontext, where a *)
(* miss may take kontext's sync mutex and ask the container runtime; the   *)
(* tracer asks without a deadline, the consumer under the group's context. *)
(* The first error, or a signal, cancels that context for everybody.       *)
(*                                                                         *)
(* Records are numbered in the order of the ring buffer.  Whether a record *)
(* decodes, which filter it matches and whether a lookup hits are free     *)
(* choices.                                                                *)
(***************************************************************************)
EXTENDS Naturals, Sequences, SequencesExt

CONSTANTS
    Configs,    \* the configurations considered
    Exporter,   \* the configured exporters
    ChanCap,    \* capacity of the events channel (256)
    QueueCap,   \* queueSize of an exporter (1024)
    MaxRecords  \* bound: records the kernel produces

Config == [filters : BOOLEAN, verify : BOOLEAN, kontext : BOOLEAN, metrics : BOOLEAN]

ASSUME PipelineAssumption ==
    /\ Configs \subseteq Config
    /\ ChanCap \in Nat \ {0}
    /\ QueueCap \in Nat \ {0}
    /\ MaxRecords \in Nat

VARIABLES
    conf,       \* CEL filters, verify, a container runtime, a metrics address
    produced,   \* records submitted to ko_events
    read,       \* records taken from it
    closed,     \* the ring buffer reader is closed
    tr,         \* Tracer.Run
    chan,       \* the events channel
    co,         \* consumeEvents
    mu,         \* kontext's syncMu: its holder
    ko,         \* kontext.Run
    queue,      \* an exporter's events channel
    ex,         \* an exporter's Run
    metrics,    \* serveMetrics
    cancelled,  \* the errgroup's context
    \* History.
    accepted,   \* records that passed the filters
    out,        \* out[e]: what exporter e wrote
    full        \* full[e]: records dropped by Push on a full queue

tracerVars == <<read, tr, chan, accepted>>
rest == <<metrics, ko>>
vars == <<conf, produced, read, closed, tr, chan, co, mu, ko, queue, ex, metrics,
          cancelled, accepted, out, full>>

Record == 1..MaxRecords
Idle == 0       \* no record in hand
Lookup == {"lookup", "lock", "cri"}

\* A goroutine: where it is, the record in its hand, why the tracer looks it up.
TracerState == [pc : {"start", "read", "send", "ended"} \cup Lookup, rec : Record \cup {Idle},
                why : {"none", "verify", "resolve"}]
ConsumerState == [pc : {"select", "push", "ended"} \cup Lookup, rec : Record \cup {Idle}]
ExporterState == [pc : {"select", "write", "ended"}, rec : Record \cup {Idle}]

TypeOK ==
    /\ conf \in Config
    /\ produced \in 0..MaxRecords /\ read \in 0..produced
    /\ closed \in BOOLEAN /\ cancelled \in BOOLEAN
    /\ tr \in TracerState /\ co \in ConsumerState
    /\ chan \in Seq(Record) /\ Len(chan) <= ChanCap
    /\ mu \in {"none", "tracer", "consumer"}
    /\ ko \in {"sync", "select", "ended"}
    /\ queue \in [Exporter -> Seq(Record)]
    /\ \A e \in Exporter : Len(queue[e]) <= QueueCap
    /\ ex \in [Exporter -> ExporterState]
    /\ out \in [Exporter -> Seq(Record)]
    /\ full \in [Exporter -> SUBSET Record]
    /\ metrics \in {"listen", "serve", "ended"}
    /\ accepted \subseteq Record

\* run: without a container runtime kontext is nil and its goroutine never
\* starts; without a metrics address neither does the server.
Init ==
    /\ conf \in Configs
    /\ produced = 0 /\ read = 0
    /\ closed = FALSE /\ cancelled = FALSE
    /\ tr = [pc |-> "start", rec |-> Idle, why |-> "none"]
    /\ chan = << >>
    /\ co = [pc |-> "select", rec |-> Idle]
    /\ mu = "none"
    /\ ko = IF conf.kontext THEN "sync" ELSE "ended"
    /\ queue = [e \in Exporter |-> << >>]
    /\ ex = [e \in Exporter |-> [pc |-> "select", rec |-> Idle]]
    /\ metrics = IF conf.metrics THEN "listen" ELSE "ended"
    /\ accepted = {}
    /\ out = [e \in Exporter |-> << >>]
    /\ full = [e \in Exporter |-> {}]

-----------------------------------------------------------------------------
(* The errgroup. *)

\* A goroutine returns an error: the group cancels its context.  (Which error
\* Wait returns in the end is left out.)
Fail == cancelled' = TRUE

Signal ==
    /\ ~cancelled
    /\ cancelled' = TRUE
    /\ UNCHANGED <<conf, produced, closed, co, mu, queue, ex, out, full, rest, tracerVars>>

\* errg.Wait returns once every goroutine has.
Ended ==
    /\ tr.pc = "ended" /\ co.pc = "ended" /\ ko = "ended" /\ metrics = "ended"
    /\ \A e \in Exporter : ex[e].pc = "ended"

-----------------------------------------------------------------------------
(* Tracer.Run. *)

\* The kernel submits a record while the programs are attached.
Produce ==
    /\ produced < MaxRecords
    /\ tr.pc \notin {"start", "ended"}
    /\ produced' = produced + 1
    /\ UNCHANGED <<conf, closed, co, mu, queue, ex, cancelled, out, full, rest, tracerVars>>

\* Filters compile, programs load and attach, the reader opens; each may fail.
TrStart ==
    /\ tr.pc = "start"
    /\ \/ tr' = [tr EXCEPT !.pc = "read"] /\ UNCHANGED cancelled
       \/ tr' = [tr EXCEPT !.pc = "ended"] /\ Fail
    /\ UNCHANGED <<conf, produced, read, closed, chan, co, mu, queue, ex, accepted,
                   out, full, rest>>

\* The goroutine that waits for the context closes the reader.
CloseReader ==
    /\ cancelled /\ ~closed
    /\ tr.pc \notin {"start", "ended"}
    /\ closed' = TRUE
    /\ UNCHANGED <<conf, produced, co, mu, queue, ex, cancelled, out, full, rest, tracerVars>>

\* The next record of the loop, or the record in hand passed on.
ToRead == tr' = [pc |-> "read", rec |-> Idle, why |-> "none"] /\ UNCHANGED accepted
ToSend(r) ==
    /\ tr' = [pc |-> "send", rec |-> r, why |-> "none"]
    /\ accepted' = accepted \cup {r}
ToLookup(r, why) == tr' = [pc |-> "lookup", rec |-> r, why |-> why] /\ UNCHANGED accepted

\* One record: discarded (it does not decode, or there are no filters), decided in
\* the kernel (and checked again where verify is on), or left to resolveFilter.
TrRead ==
    /\ tr.pc = "read" /\ ~closed
    /\ read < produced
    /\ read' = read + 1
    /\ \/ ToRead
       \/ conf.filters /\ ~conf.verify /\ ToSend(read + 1)
       \/ conf.filters /\ conf.verify /\ ToLookup(read + 1, "verify")
       \/ conf.filters /\ ToLookup(read + 1, "resolve")
    /\ UNCHANGED <<conf, produced, closed, chan, co, mu, queue, ex, cancelled, out, full, rest>>

\* resolveFilter with the attributes it got: verifyBpfDecision only compares.
Resolved ==
    \/ tr.why = "verify" /\ ToSend(tr.rec)
    \/ tr.why = "resolve" /\ ToSend(tr.rec)
    \/ tr.why = "resolve" /\ ToRead

\* Attrs: nothing to ask without kontext; a hit or a recent sync ends it too.
TrLookup ==
    /\ tr.pc = "lookup"
    /\ \/ Resolved
       \/ conf.kontext /\ tr' = [tr EXCEPT !.pc = "lock"] /\ UNCHANGED accepted
    /\ UNCHANGED <<conf, produced, read, closed, chan, co, mu, queue, ex, cancelled, out, full, rest>>

\* ensureSynced: under the mutex the sync may turn out to have happened.
TrLock ==
    /\ tr.pc = "lock" /\ mu = "none"
    /\ \/ Resolved /\ UNCHANGED mu
       \/ mu' = "tracer" /\ tr' = [tr EXCEPT !.pc = "cri"] /\ UNCHANGED accepted
    /\ UNCHANGED <<conf, produced, read, closed, chan, co, queue, ex, cancelled, out, full, rest>>

\* The runtime answers.  The call was made with context.Background().
TrAnswer ==
    /\ tr.pc = "cri"
    /\ Resolved
    /\ mu' = "none"
    /\ UNCHANGED <<conf, produced, read, closed, chan, co, queue, ex, cancelled, out, full, rest>>

\* Mutation of TrSend: the channel's capacity is ignored.
TrSendUnbounded ==
    /\ tr.pc = "send"
    /\ chan' = Append(chan, tr.rec)
    /\ ToRead
    /\ UNCHANGED <<conf, produced, read, closed, co, mu, queue, ex, cancelled, out, full, rest>>

TrSend ==
    /\ tr.pc = "send" /\ Len(chan) < ChanCap
    /\ chan' = Append(chan, tr.rec)
    /\ ToRead
    /\ UNCHANGED <<conf, produced, read, closed, co, mu, queue, ex, cancelled, out, full, rest>>

\* ErrClosed, or the context is done while the channel is full: a clean return.
TrStop ==
    /\ (tr.pc = "read" /\ closed) \/ (tr.pc = "send" /\ cancelled)
    /\ tr' = [pc |-> "ended", rec |-> Idle, why |-> "none"]
    /\ UNCHANGED <<conf, produced, read, closed, chan, co, mu, queue, ex, cancelled,
                   accepted, out, full, rest>>

\* Mutation of TrReadError: the error is swallowed.
TrReadErrorSwallowed ==
    /\ tr.pc = "read" /\ ~closed
    /\ tr' = [tr EXCEPT !.pc = "ended"]
    /\ UNCHANGED <<conf, produced, read, closed, chan, co, mu, queue, ex, cancelled, accepted,
                   out, full, rest>>

\* Any other read error ends the agent.
TrReadError ==
    /\ tr.pc = "read" /\ ~closed
    /\ tr' = [tr EXCEPT !.pc = "ended"]
    /\ Fail
    /\ UNCHANGED <<conf, produced, read, closed, chan, co, mu, queue, ex, accepted,
                   out, full, rest>>

-----------------------------------------------------------------------------
(* consumeEvents and push. *)

notConsumer == <<conf, produced, closed, ex, cancelled, out, read, tr, accepted, rest>>

CoReceive ==
    /\ co.pc = "select" /\ chan # << >>
    /\ chan' = Tail(chan)
    /\ co' = [pc |-> IF conf.kontext THEN "lookup" ELSE "push", rec |-> Head(chan)]
    /\ UNCHANGED <<notConsumer, mu, queue, full>>

CoTo(pc) == co' = [co EXCEPT !.pc = pc]

\* GetContainerInfo under the group's context (a record without a cgroup, a hit
\* and a recent sync skip the rest).
CoLookup ==
    /\ co.pc = "lookup"
    /\ CoTo("push") \/ CoTo("lock")
    /\ UNCHANGED <<notConsumer, mu, queue, full, chan>>

CoLock ==
    /\ co.pc = "lock" /\ mu = "none"
    /\ \/ CoTo("push") /\ UNCHANGED mu
       \/ CoTo("cri") /\ mu' = "consumer"
    /\ UNCHANGED <<notConsumer, queue, full, chan>>

\* The runtime answers, or the context is done.
CoAnswer ==
    /\ co.pc = "cri"
    /\ CoTo("push")
    /\ mu' = "none"
    /\ UNCHANGED <<notConsumer, queue, full, chan>>

\* Mutation of CoPush: a full queue blocks the consumer.
CoPushBlocks ==
    /\ co.pc = "push"
    /\ \A e \in Exporter : Len(queue[e]) < QueueCap
    /\ queue' = [e \in Exporter |-> Append(queue[e], co.rec)]
    /\ co' = [pc |-> "select", rec |-> Idle]
    /\ UNCHANGED <<notConsumer, mu, full, chan>>
\* Mutation of CoPush: a full queue makes room by dropping its newest event,
\* uncounted.
CoPushReplaces ==
    /\ co.pc = "push"
    /\ queue' = [e \in Exporter |->
                    IF Len(queue[e]) < QueueCap THEN Append(queue[e], co.rec)
                    ELSE Append(Front(queue[e]), co.rec)]
    /\ co' = [pc |-> "select", rec |-> Idle]
    /\ UNCHANGED <<notConsumer, mu, full, chan>>

\* Mutation of CoPush: an event that finds a full queue goes back to the channel.
CoPushRetries ==
    /\ co.pc = "push"
    /\ \/ CoPushBlocks
       \/ /\ \E e \in Exporter : Len(queue[e]) = QueueCap
          /\ Len(chan) < ChanCap /\ chan' = Append(chan, co.rec)
          /\ co' = [pc |-> "select", rec |-> Idle]
          /\ UNCHANGED <<notConsumer, mu, queue, full>>

\* Push to every exporter; a full queue drops the event.
CoPush ==
    /\ co.pc = "push"
    /\ queue' = [e \in Exporter |->
                    IF Len(queue[e]) < QueueCap THEN Append(queue[e], co.rec) ELSE queue[e]]
    /\ full' = [e \in Exporter |->
                    IF Len(queue[e]) < QueueCap THEN full[e] ELSE full[e] \cup {co.rec}]
    /\ co' = [pc |-> "select", rec |-> Idle]
    /\ UNCHANGED <<notConsumer, mu, chan>>

CoStop ==
    /\ co.pc = "select" /\ cancelled
    /\ CoTo("ended")
    /\ UNCHANGED <<notConsumer, mu, queue, full, chan>>

-----------------------------------------------------------------------------
(* StdoutExporter.Run. *)

notExporter == <<conf, produced, closed, co, mu, cancelled, full, rest, tracerVars>>

\* Mutation of ExReceive: the last event waits for another one to follow it.
ExReceiveLags(e) ==
    /\ ex[e].pc = "select" /\ Len(queue[e]) > 1
    /\ ex' = [ex EXCEPT ![e] = [pc |-> "write", rec |-> Head(queue[e])]]
    /\ queue' = [queue EXCEPT ![e] = Tail(@)]
    /\ UNCHANGED <<notExporter, out>>

ExReceive(e) ==
    /\ ex[e].pc = "select" /\ queue[e] # << >>
    /\ ex' = [ex EXCEPT ![e] = [pc |-> "write", rec |-> Head(queue[e])]]
    /\ queue' = [queue EXCEPT ![e] = Tail(@)]
    /\ UNCHANGED <<notExporter, out>>

\* logEvent returns: the line is out.
ExWrite(e) ==
    /\ ex[e].pc = "write"
    /\ out' = [out EXCEPT ![e] = Append(@, ex[e].rec)]
    /\ ex' = [ex EXCEPT ![e] = [pc |-> "select", rec |-> Idle]]
    /\ UNCHANGED <<notExporter, queue>>

ExStop(e) ==
    /\ ex[e].pc = "select" /\ cancelled
    /\ ex' = [ex EXCEPT ![e].pc = "ended"]
    /\ UNCHANGED <<notExporter, queue, out>>

-----------------------------------------------------------------------------
(* kontext.Run and serveMetrics. *)

notSide == <<conf, produced, closed, co, mu, queue, ex, out, full, tracerVars>>

\* Sync(ctx) ends: an answer, an error or the context.
KoSynced == ko = "sync" /\ ko' = "select" /\ UNCHANGED <<notSide, metrics, cancelled>>
KoTick == ko = "select" /\ ko' = "sync" /\ UNCHANGED <<notSide, metrics, cancelled>>

\* Mutation of KoStop: the loop waits for its ticker only.
KoStopTicks == KoTick

KoStop == ko = "select" /\ cancelled /\ ko' = "ended" /\ UNCHANGED <<notSide, metrics, cancelled>>

MetricsListen ==
    /\ metrics = "listen"
    /\ \/ metrics' = "serve" /\ UNCHANGED cancelled
       \/ metrics' = "ended" /\ Fail
    /\ UNCHANGED <<notSide, ko>>

\* Shutdown makes Serve return ErrServerClosed, even before it is called.
MetricsStop ==
    /\ metrics = "serve" /\ cancelled
    /\ metrics' = "ended"
    /\ UNCHANGED <<notSide, ko, cancelled>>

MetricsError ==
    /\ metrics = "serve"
    /\ metrics' = "ended"
    /\ Fail
    /\ UNCHANGED <<notSide, ko>>

-----------------------------------------------------------------------------

\* Everything has ended: nothing is left to do.
Done == Ended /\ UNCHANGED vars

Tracer == TrStart \/ TrRead \/ TrLookup \/ TrLock \/ TrSend \/ TrStop
Consumer == CoReceive \/ CoLookup \/ CoLock \/ CoPush
Next ==
    \/ Signal \/ Produce \/ CloseReader \/ Tracer \/ TrAnswer \/ TrReadError
    \/ Consumer \/ CoAnswer \/ CoStop
    \/ \E e \in Exporter : ExReceive(e) \/ ExWrite(e) \/ ExStop(e)
    \/ KoSynced \/ KoTick \/ KoStop \/ MetricsListen \/ MetricsStop \/ MetricsError
    \/ Done

\* The Go scheduler runs every goroutine that can run, and select does not ignore
\* a ready channel for ever; the runtime answers.  Nothing is assumed of the
\* exporters' output.
Fairness ==
    /\ WF_vars(CloseReader) /\ WF_vars(Tracer) /\ WF_vars(TrAnswer)
    /\ WF_vars(Consumer) /\ WF_vars(CoAnswer) /\ SF_vars(CoStop)
    /\ \A e \in Exporter : WF_vars(ExReceive(e)) /\ SF_vars(ExStop(e))
    /\ WF_vars(KoSynced) /\ SF_vars(KoStop)
    /\ WF_vars(MetricsListen) /\ WF_vars(MetricsStop)

Spec == Init /\ [][Next]_vars /\ Fairness

\* ... and the output takes every line.
WriteSpec == Spec /\ \A e \in Exporter : WF_vars(ExWrite(e))

-----------------------------------------------------------------------------
(* Properties. *)

Hand(p) == IF p.rec = Idle THEN << >> ELSE << p.rec >>

\* Everything between the ring buffer and the output of e, oldest first.
Line(e) == out[e] \o Hand(ex[e]) \o queue[e] \o Hand(co) \o chan \o Hand(tr)

\* Strictly increasing, and not above n.
Sorted(s, n) ==
    /\ \A i, j \in 1..Len(s) : i < j => s[i] < s[j]
    /\ \A i \in 1..Len(s) : s[i] <= n

\* What an exporter writes is in the order of the ring buffer and without
\* duplicates: the stages hold disjoint, ordered parts of the stream.
InOrder == \A e \in Exporter : Sorted(Line(e), read)

\* Until the agent stops, a record that passed the filters is somewhere between
\* the tracer and the output, unless that exporter's queue was full: no other
\* stage loses events.
NothingLost ==
    ~cancelled => \A e \in Exporter : accepted \subseteq ToSet(Line(e)) \cup full[e]

\* No goroutine ends on its own: when one has, the whole agent is stopping.
\* (kontext and the metrics server may not have been started.)
NoSilentStop ==
    tr.pc = "ended" \/ co.pc = "ended" \/ (\E e \in Exporter : ex[e].pc = "ended") => cancelled

\* "delivery must never stall the tracer": the tracer catches up with the ring
\* buffer whenever the kernel pauses, even when no exporter gets a line out.
NeverStalls == []<>(read = produced \/ cancelled)

\* A record that passed the filters is written by every exporter, unless its
\* queue was full or the agent stops.
Delivered ==
    \A n \in Record, e \in Exporter :
        n \in accepted ~> n \in ToSet(out[e]) \cup full[e] \/ cancelled

\* A signal or an error ends every goroutine, so that App.Run returns.
Stops == cancelled ~> Ended

-----------------------------------------------------------------------------
(* The inductive invariant behind the safety properties. *)

\* Who holds a record: a goroutine between receiving it and passing it on.
HandsOK ==
    /\ tr.rec = Idle <=> tr.pc \in {"start", "read", "ended"}
    /\ co.rec = Idle <=> co.pc \in {"select", "ended"}
    /\ \A e \in Exporter : ex[e].rec = Idle <=> ex[e].pc # "write"

\* Records are accepted after they were read, and once: the one being looked up
\* is not accepted yet.
AcceptOK ==
    /\ tr.rec <= read
    /\ accepted \subseteq 1..read
    /\ tr.pc \in Lookup => tr.rec \notin accepted

\* Only a cancelled context closes the reader.
CloseOK == closed => cancelled

\* Whoever is at the runtime for a miss holds syncMu, and nobody else does.
MutexOK ==
    /\ mu = "tracer" <=> tr.pc = "cri"
    /\ mu = "consumer" <=> co.pc = "cri"

PInv ==
    /\ TypeOK /\ HandsOK /\ AcceptOK /\ CloseOK /\ MutexOK
    /\ InOrder /\ NothingLost /\ NoSilentStop
=============================================================================
