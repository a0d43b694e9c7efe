--------------------------- MODULE PipelineProofs ---------------------------
(***************************************************************************)
(* Delivery is in order and loses nothing but what a full queue drops, for *)
(* any number of exporters and records and any capacities.                 *)
(***************************************************************************)
EXTENDS Pipeline, TLAPS, SequenceTheorems

-----------------------------------------------------------------------------
(* Sequences of records. *)

\* Joining with the empty sequence, a record moving from the head of a queue into
\* the hand before it, and from the hand into the tail of the queue before it.
LEMMA JoinEmpty ==
    ASSUME NEW S, NEW s \in Seq(S)
    PROVE  s \o << >> = s
  BY ConcatEmptySeq

\* The head of a sequence, or a hand before it that took it, is the same whole.
LEMMA HeadMoves ==
    ASSUME NEW S, NEW s \in Seq(S), NEW q \in Seq(S), q # << >>
    PROVE  (s \o << Head(q) >>) \o Tail(q) = (s \o << >>) \o q
  <1>1. Head(q) \in S /\ Tail(q) \in Seq(S) /\ << Head(q) >> \in Seq(S)
    BY HeadTailProperties
  <1>2. << Head(q) >> \o Tail(q) = q
    BY <1>1
  <1> QED BY <1>1, <1>2, ConcatAssociative, ConcatEmptySeq

\* A record in the hand behind a sequence, or at its end, is the same whole.
LEMMA TailMoves ==
    ASSUME NEW S, NEW s \in Seq(S), NEW q \in Seq(S), NEW r \in S
    PROVE  (s \o Append(q, r)) \o << >> = (s \o q) \o << r >>
  <1>1. Append(q, r) = q \o << r >> /\ << r >> \in Seq(S) /\ Append(q, r) \in Seq(S)
    BY AppendIsConcat
  <1> QED BY <1>1, ConcatAssociative, ConcatEmptySeq, ConcatProperties

\* The parts of a join are sorted and one is below the other.
LEMMA SortedJoin ==
    ASSUME NEW s \in Seq(Nat), NEW t \in Seq(Nat), NEW n \in Nat
    PROVE  Sorted(s \o t, n) <=>
               /\ Sorted(s, n) /\ Sorted(t, n)
               /\ \A i \in 1..Len(s), j \in 1..Len(t) : s[i] < t[j]
  <1>1. /\ Len(s) \in Nat /\ Len(t) \in Nat /\ Len(s \o t) = Len(s) + Len(t)
        /\ \A i \in 1..Len(s) : (s \o t)[i] = s[i]
        /\ \A i \in 1..Len(t) : (s \o t)[Len(s) + i] = t[i]
    OBVIOUS
  <1>2. ASSUME Sorted(s \o t, n)
        PROVE  /\ Sorted(s, n) /\ Sorted(t, n)
               /\ \A i \in 1..Len(s), j \in 1..Len(t) : s[i] < t[j]
    <2>0. \A i \in 1..Len(s) : i \in 1..Len(s \o t)
      BY <1>1
    <2>1. Sorted(s, n)
      BY <1>1, <1>2, <2>0 DEF Sorted
    <2>2. \A i \in 1..Len(t) : Len(s) + i \in 1..Len(s \o t)
      BY <1>1
    <2>3. Sorted(t, n)
      <3>1. ASSUME NEW i \in 1..Len(t), NEW j \in 1..Len(t), i < j
            PROVE  t[i] < t[j]
        <4>1. Len(s) + i < Len(s) + j
          BY <1>1, <3>1
        <4>2. (s \o t)[Len(s) + i] < (s \o t)[Len(s) + j]
          BY <1>2, <2>2, <4>1 DEF Sorted
        <4> QED BY <1>1, <4>2
      <3>2. \A i \in 1..Len(t) : t[i] <= n
        BY <1>1, <1>2, <2>2 DEF Sorted
      <3> QED BY <3>1, <3>2 DEF Sorted
    <2>4. ASSUME NEW i \in 1..Len(s), NEW j \in 1..Len(t)
          PROVE  s[i] < t[j]
      <3>1. i < Len(s) + j /\ i \in 1..Len(s \o t)
        BY <1>1
      <3>2. (s \o t)[i] < (s \o t)[Len(s) + j]
        BY <1>2, <2>2, <3>1 DEF Sorted
      <3> QED BY <1>1, <3>2
    <2> QED BY <2>1, <2>3, <2>4
  <1>3. ASSUME Sorted(s, n), Sorted(t, n), \A i \in 1..Len(s), j \in 1..Len(t) : s[i] < t[j]
        PROVE  Sorted(s \o t, n)
    <2>1. \A i \in 1..Len(s \o t) :
              \/ i \in 1..Len(s) /\ (s \o t)[i] = s[i]
              \/ i - Len(s) \in 1..Len(t) /\ (s \o t)[i] = t[i - Len(s)]
      BY <1>1
    <2>2. ASSUME NEW i \in 1..Len(s \o t), NEW j \in 1..Len(s \o t), i < j
          PROVE  (s \o t)[i] < (s \o t)[j]
      <3>1. CASE j \in 1..Len(s)
        <4>1. i \in 1..Len(s)
          BY <1>1, <2>2, <3>1
        <4> QED BY <1>1, <1>3, <2>2, <3>1, <4>1 DEF Sorted
      <3>2. CASE i \in 1..Len(s) /\ j \notin 1..Len(s)
        BY <1>1, <1>3, <2>1, <3>2
      <3>3. CASE i \notin 1..Len(s) /\ j \notin 1..Len(s)
        <4>1. /\ i - Len(s) \in 1..Len(t) /\ (s \o t)[i] = t[i - Len(s)]
              /\ j - Len(s) \in 1..Len(t) /\ (s \o t)[j] = t[j - Len(s)]
          BY <2>1, <3>3
        <4>2. i - Len(s) < j - Len(s)
          BY <1>1, <2>2
        <4> QED BY <1>3, <4>1, <4>2 DEF Sorted
      <3> QED BY <3>1, <3>2, <3>3
    <2>3. \A i \in 1..Len(s \o t) : (s \o t)[i] <= n
      BY <1>3, <2>1 DEF Sorted
    <2> QED BY <2>2, <2>3 DEF Sorted
  <1> QED BY <1>2, <1>3

\* The records of a join.
LEMMA ToSetJoin ==
    ASSUME NEW S, NEW s \in Seq(S), NEW t \in Seq(S)
    PROVE  ToSet(s \o t) = ToSet(s) \cup ToSet(t)
  <1>1. /\ Len(s) \in Nat /\ Len(t) \in Nat /\ Len(s \o t) = Len(s) + Len(t)
        /\ DOMAIN s = 1..Len(s) /\ DOMAIN t = 1..Len(t) /\ DOMAIN (s \o t) = 1..Len(s \o t)
        /\ \A i \in 1..Len(s) : (s \o t)[i] = s[i]
        /\ \A i \in 1..Len(t) : (s \o t)[Len(s) + i] = t[i]
    BY ConcatProperties, LenProperties
  <1>2. \A i \in 1..Len(s \o t) :
            \/ i \in 1..Len(s) /\ (s \o t)[i] = s[i]
            \/ i - Len(s) \in 1..Len(t) /\ (s \o t)[i] = t[i - Len(s)]
    BY <1>1
  <1>3. ToSet(s \o t) \subseteq ToSet(s) \cup ToSet(t)
    BY <1>1, <1>2 DEF ToSet
  <1>4. ToSet(s) \subseteq ToSet(s \o t)
    BY <1>1 DEF ToSet
  <1>5. ToSet(t) \subseteq ToSet(s \o t)
    <2>1. \A i \in 1..Len(t) : Len(s) + i \in 1..Len(s \o t)
      BY <1>1
    <2> QED BY <1>1, <2>1 DEF ToSet
  <1> QED BY <1>3, <1>4, <1>5

\* What a sequence with one more element holds.
LEMMA ToSetAppended ==
    ASSUME NEW s \in Seq(Nat), NEW r \in Nat
    PROVE  ToSet(s \o << r >>) = ToSet(s) \cup {r}
  <1> DEFINE one == << r >>
  <1>1. one \in Seq(Nat) /\ ToSet(one) = {r}
    BY DEF ToSet
  <1> HIDE DEF one
  <1>2. ToSet(s \o one) = ToSet(s) \cup ToSet(one)
    BY <1>1, ToSetJoin
  <1> QED BY <1>1, <1>2 DEF one

\* What a sequence of one element holds.
LEMMA ToSetOne ==
    ASSUME NEW r
    PROVE  ToSet(<< r >>) = {r} /\ ToSet(<< >>) = {}
  BY DEF ToSet

-----------------------------------------------------------------------------
(* The control state: everything but what the Lines hold. *)

Control == TypeOK /\ HandsOK /\ AcceptOK /\ CloseOK /\ MutexOK /\ NoSilentStop

\* The control part of the invariant (types, hands, acceptance, close, mutex),
\* initially and action by action.
LEMMA ControlInit ==
    ASSUME Init
    PROVE  Control
  <1> USE PipelineAssumption DEF Init, Idle
  <1>1. TypeOK
    <2>1. conf \in Config /\ produced \in 0..MaxRecords /\ read \in 0..produced
      OBVIOUS
    <2>2. closed \in BOOLEAN /\ cancelled \in BOOLEAN
      OBVIOUS
    <2>3. tr \in TracerState /\ co \in ConsumerState
      BY DEF TracerState, ConsumerState
    <2>5. chan \in Seq(Record) /\ Len(chan) <= ChanCap /\ mu \in {"none", "tracer", "consumer"}
      OBVIOUS
    <2>6. ko \in {"sync", "select", "ended"} /\ metrics \in {"listen", "serve", "ended"}
      OBVIOUS
    <2>7. /\ queue \in [Exporter -> Seq(Record)] /\ \A e \in Exporter : Len(queue[e]) <= QueueCap
          /\ out \in [Exporter -> Seq(Record)] 
      OBVIOUS
    <2>8. /\ full \in [Exporter -> SUBSET Record] /\ accepted \subseteq Record
      OBVIOUS
    <2>9. ex \in [Exporter -> ExporterState]
      BY DEF ExporterState
    <2> QED BY <2>1, <2>2, <2>3, <2>5, <2>6, <2>7, <2>8, <2>9 DEF TypeOK
  <1>2. HandsOK
    BY DEF HandsOK
  <1>3. AcceptOK
    BY DEF AcceptOK, Lookup
  <1>4. CloseOK
    BY DEF CloseOK
  <1>5. MutexOK
    BY DEF MutexOK
  <1>6. NoSilentStop
    BY DEF NoSilentStop
  <1> QED BY <1>1, <1>2, <1>3, <1>4, <1>5, <1>6 DEF Control

LEMMA ControlTrStart ==
    ASSUME Control, TrStart
    PROVE  Control'
  <1> USE PipelineAssumption DEF Control, TrStart, Fail, rest
  <1>1. TypeOK'
    <2>1. tr' \in TracerState
      BY DEF TypeOK, HandsOK, TracerState, Record, Lookup, Idle
    <2>2. cancelled' \in BOOLEAN
      BY DEF TypeOK
    <2> QED BY <2>1, <2>2 DEF TypeOK
  <1>2. HandsOK'
    BY DEF TypeOK, HandsOK, TracerState, ConsumerState, ExporterState, Idle, Lookup, Record
  <1>3. AcceptOK'
    BY DEF TypeOK, HandsOK, AcceptOK, TracerState, Lookup, Idle, Record
  <1>4. CloseOK' /\ MutexOK' /\ NoSilentStop'
    BY DEF TypeOK, CloseOK, MutexOK, NoSilentStop, TracerState, ConsumerState, ExporterState, Lookup
  <1> QED BY <1>1, <1>2, <1>3, <1>4

LEMMA ControlTrRead ==
    ASSUME Control, TrRead
    PROVE  Control'
  <1> USE PipelineAssumption DEF Control, TrRead, ToRead, ToSend, ToLookup, rest
  <1>1. TypeOK'
    <2>1. read' \in 0..produced' /\ read + 1 \in Record /\ produced' \in 0..MaxRecords
      BY DEF TypeOK, Record
    <2>2. tr' \in TracerState
      BY DEF TypeOK, HandsOK, TracerState, Record, Lookup, Idle
    <2>3. accepted' \subseteq Record
      BY <2>1 DEF TypeOK
    <2> QED BY <2>1, <2>2, <2>3 DEF TypeOK
  <1>2. HandsOK'
    BY DEF TypeOK, HandsOK, TracerState, ConsumerState, ExporterState, Idle, Lookup, Record
  <1>3. AcceptOK'
    <2>1. read \in Nat /\ read' = read + 1 /\ accepted \subseteq 1..read
      BY DEF TypeOK, AcceptOK
    <2>2. accepted \subseteq 1..read' /\ read' \in 1..read' /\ read' \notin accepted
      BY <2>1
    <2>3. CASE ToRead
      BY <2>1, <2>2, <2>3 DEF AcceptOK, Idle, Lookup
    <2>4. CASE ToSend(read + 1)
      BY <2>1, <2>2, <2>4 DEF AcceptOK, Idle, Lookup
    <2>5. CASE \E why \in {"verify", "resolve"} : ToLookup(read + 1, why)
      BY <2>1, <2>2, <2>5 DEF AcceptOK, Idle, Lookup
    <2> QED BY <2>3, <2>4, <2>5
  <1>4. CloseOK' /\ MutexOK' /\ NoSilentStop'
    BY DEF TypeOK, CloseOK, MutexOK, NoSilentStop, TracerState, ConsumerState, ExporterState, Lookup
  <1> QED BY <1>1, <1>2, <1>3, <1>4

LEMMA ControlTrLookup ==
    ASSUME Control, TrLookup
    PROVE  Control'
  <1> USE PipelineAssumption DEF Control, TrLookup, Resolved, ToRead, ToSend, rest
  <1>1. TypeOK'
    <2>1. tr' \in TracerState
      BY DEF TypeOK, HandsOK, TracerState, Record, Lookup, Idle
    <2>2. accepted' \subseteq Record
      BY DEF TypeOK, HandsOK, TracerState, Record, Lookup, Idle
    <2> QED BY <2>1, <2>2 DEF TypeOK
  <1>2. HandsOK'
    BY DEF TypeOK, HandsOK, TracerState, ConsumerState, ExporterState, Idle, Lookup, Record
  <1>3. AcceptOK'
    <2>1. tr.rec \in 1..read
      BY DEF TypeOK, HandsOK, AcceptOK, TracerState, Lookup, Idle, Record
    <2> QED BY <2>1 DEF AcceptOK, TypeOK, TracerState, Lookup, Idle
  <1>4. CloseOK' /\ MutexOK' /\ NoSilentStop'
    BY DEF TypeOK, CloseOK, MutexOK, NoSilentStop, TracerState, ConsumerState, ExporterState, Lookup
  <1> QED BY <1>1, <1>2, <1>3, <1>4

LEMMA ControlTrLock ==
    ASSUME Control, TrLock
    PROVE  Control'
  <1> USE PipelineAssumption DEF Control, TrLock, Resolved, ToRead, ToSend, rest
  <1>1. TypeOK'
    <2>1. tr' \in TracerState
      BY DEF TypeOK, HandsOK, TracerState, Record, Lookup, Idle
    <2>2. accepted' \subseteq Record
      BY DEF TypeOK, HandsOK, TracerState, Record, Lookup, Idle
    <2>3. mu' \in {"none", "tracer", "consumer"}
      BY DEF TypeOK
    <2> QED BY <2>1, <2>2, <2>3 DEF TypeOK
  <1>2. HandsOK'
    BY DEF TypeOK, HandsOK, TracerState, ConsumerState, ExporterState, Idle, Lookup, Record
  <1>3. AcceptOK'
    <2>1. tr.rec \in 1..read
      BY DEF TypeOK, HandsOK, AcceptOK, TracerState, Lookup, Idle, Record
    <2> QED BY <2>1 DEF AcceptOK, TypeOK, TracerState, Lookup, Idle
  <1>4. CloseOK' /\ MutexOK' /\ NoSilentStop'
    BY DEF TypeOK, CloseOK, MutexOK, NoSilentStop, TracerState, ConsumerState, ExporterState, Lookup
  <1> QED BY <1>1, <1>2, <1>3, <1>4

LEMMA ControlTrAnswer ==
    ASSUME Control, TrAnswer
    PROVE  Control'
  <1> USE PipelineAssumption DEF Control, TrAnswer, Resolved, ToRead, ToSend, rest
  <1>1. TypeOK'
    <2>1. tr' \in TracerState
      BY DEF TypeOK, HandsOK, TracerState, Record, Lookup, Idle
    <2>2. accepted' \subseteq Record
      BY DEF TypeOK, HandsOK, TracerState, Record, Lookup, Idle
    <2> QED BY <2>1, <2>2 DEF TypeOK
  <1>2. HandsOK'
    BY DEF TypeOK, HandsOK, TracerState, ConsumerState, ExporterState, Idle, Lookup, Record
  <1>3. AcceptOK'
    <2>1. tr.rec \in 1..read
      BY DEF TypeOK, HandsOK, AcceptOK, TracerState, Lookup, Idle, Record
    <2>2. CASE ToSend(tr.rec)
      BY <2>1, <2>2 DEF AcceptOK, Lookup
    <2>3. CASE ToRead
      BY <2>3 DEF AcceptOK, TypeOK, Lookup, Idle
    <2> QED BY <2>2, <2>3
  <1>4. CloseOK' /\ MutexOK' /\ NoSilentStop'
    BY DEF TypeOK, CloseOK, MutexOK, NoSilentStop, TracerState, ConsumerState, ExporterState, Lookup
  <1> QED BY <1>1, <1>2, <1>3, <1>4

LEMMA ControlTrSend ==
    ASSUME Control, TrSend
    PROVE  Control'
  <1> USE PipelineAssumption DEF Control, TrSend, ToRead, rest
  <1>1. TypeOK'
    <2>1. tr' \in TracerState
      BY DEF TypeOK, HandsOK, TracerState, Record, Lookup, Idle
    <2>2. tr.rec \in Record
      BY DEF TypeOK, HandsOK, TracerState, Record, Lookup, Idle
    <2>3. chan' \in Seq(Record) /\ Len(chan') <= ChanCap
      BY <2>2 DEF TypeOK
    <2> QED BY <2>1, <2>2, <2>3 DEF TypeOK
  <1>2. HandsOK'
    BY DEF TypeOK, HandsOK, TracerState, ConsumerState, ExporterState, Idle, Lookup, Record
  <1>3. AcceptOK'
    BY DEF TypeOK, HandsOK, AcceptOK, TracerState, Lookup, Idle, Record
  <1>4. CloseOK' /\ MutexOK' /\ NoSilentStop'
    BY DEF TypeOK, CloseOK, MutexOK, NoSilentStop, TracerState, ConsumerState, ExporterState, Lookup
  <1> QED BY <1>1, <1>2, <1>3, <1>4

LEMMA ControlTrStop ==
    ASSUME Control, TrStop \/ TrReadError
    PROVE  Control'
  <1> USE PipelineAssumption DEF Control, TrStop, TrReadError, Fail, rest
  <1>1. TypeOK'
    <2>1. tr' \in TracerState
      BY DEF TypeOK, HandsOK, TracerState, Record, Lookup, Idle
    <2>2. cancelled' \in BOOLEAN
      BY DEF TypeOK
    <2> QED BY <2>1, <2>2 DEF TypeOK
  <1>2. HandsOK'
    BY DEF TypeOK, HandsOK, TracerState, ConsumerState, ExporterState, Idle, Lookup, Record
  <1>3. AcceptOK'
    BY DEF TypeOK, HandsOK, AcceptOK, TracerState, Lookup, Idle, Record
  <1>4. CloseOK' /\ MutexOK' /\ NoSilentStop'
    BY DEF TypeOK, CloseOK, MutexOK, NoSilentStop, TracerState, ConsumerState, ExporterState, Lookup
  <1> QED BY <1>1, <1>2, <1>3, <1>4

LEMMA ControlCoReceive ==
    ASSUME Control, CoReceive
    PROVE  Control'
  <1> USE PipelineAssumption DEF Control, CoReceive, notConsumer, rest
  <1>1. TypeOK'
    <2>1. Head(chan) \in Record /\ chan' \in Seq(Record) /\ Len(chan') <= ChanCap
      BY DEF TypeOK
    <2>2. co' \in ConsumerState
      BY DEF TypeOK, HandsOK, ConsumerState, Record, Lookup, Idle
    <2> QED BY <2>1, <2>2 DEF TypeOK
  <1>2. HandsOK'
    BY DEF TypeOK, HandsOK, TracerState, ConsumerState, ExporterState, Idle, Lookup, Record
  <1>3. AcceptOK'
    BY DEF TypeOK, HandsOK, AcceptOK, TracerState, Lookup, Idle, Record
  <1>4. CloseOK' /\ MutexOK' /\ NoSilentStop'
    BY DEF TypeOK, CloseOK, MutexOK, NoSilentStop, TracerState, ConsumerState, ExporterState, Lookup
  <1> QED BY <1>1, <1>2, <1>3, <1>4

LEMMA ControlCoLookup ==
    ASSUME Control, CoLookup \/ CoLock \/ CoAnswer \/ CoStop
    PROVE  Control'
  <1> USE PipelineAssumption DEF Control, CoLookup, CoLock, CoAnswer, CoStop, CoTo, notConsumer, rest
  <1>1. TypeOK'
    <2>1. co' \in ConsumerState
      BY DEF TypeOK, HandsOK, ConsumerState, Record, Lookup, Idle
    <2>2. mu' \in {"none", "tracer", "consumer"}
      BY DEF TypeOK
    <2> QED BY <2>1, <2>2 DEF TypeOK
  <1>2. HandsOK'
    BY DEF TypeOK, HandsOK, TracerState, ConsumerState, ExporterState, Idle, Lookup, Record
  <1>3. AcceptOK'
    BY DEF TypeOK, HandsOK, AcceptOK, TracerState, Lookup, Idle, Record
  <1>4. CloseOK' /\ MutexOK' /\ NoSilentStop'
    BY DEF TypeOK, CloseOK, MutexOK, NoSilentStop, TracerState, ConsumerState, ExporterState, Lookup
  <1> QED BY <1>1, <1>2, <1>3, <1>4

LEMMA ControlCoPush ==
    ASSUME Control, CoPush
    PROVE  Control'
  <1> USE PipelineAssumption DEF Control, CoPush, notConsumer, rest
  <1>1. TypeOK'
    <2>1. co' \in ConsumerState
      BY DEF TypeOK, HandsOK, ConsumerState, Record, Lookup, Idle
    <2>2. co.rec \in Record
      BY DEF TypeOK, HandsOK, ConsumerState, Record, Lookup, Idle
    <2>3. queue' \in [Exporter -> Seq(Record)] /\ \A e \in Exporter : Len(queue'[e]) <= QueueCap
      <3>1. \A e \in Exporter : /\ Append(queue[e], co.rec) \in Seq(Record)
                                /\ Len(Append(queue[e], co.rec)) = Len(queue[e]) + 1
        BY <2>2, AppendProperties DEF TypeOK
      <3> QED BY <3>1 DEF TypeOK
    <2>4. full' \in [Exporter -> SUBSET Record]
      BY <2>2 DEF TypeOK
    <2> QED BY <2>1, <2>2, <2>3, <2>4 DEF TypeOK
  <1>2. HandsOK'
    BY DEF TypeOK, HandsOK, TracerState, ConsumerState, ExporterState, Idle, Lookup, Record
  <1>3. AcceptOK'
    BY DEF TypeOK, HandsOK, AcceptOK, TracerState, Lookup, Idle, Record
  <1>4. CloseOK' /\ MutexOK' /\ NoSilentStop'
    BY DEF TypeOK, CloseOK, MutexOK, NoSilentStop, TracerState, ConsumerState, ExporterState, Lookup
  <1> QED BY <1>1, <1>2, <1>3, <1>4

LEMMA ControlExReceive ==
    ASSUME Control, NEW e \in Exporter, ExReceive(e)
    PROVE  Control'
  <1> USE PipelineAssumption DEF Control, ExReceive, notExporter, rest, tracerVars
  <1>1. TypeOK'
    <2>1. Head(queue[e]) \in Record
      BY DEF TypeOK
    <2>2. ex' \in [Exporter -> ExporterState]
      BY DEF TypeOK, HandsOK, ExporterState, Record, Idle
    <2>3. queue' \in [Exporter -> Seq(Record)] /\ \A f \in Exporter : Len(queue'[f]) <= QueueCap
      BY DEF TypeOK
    <2> QED BY <2>1, <2>2, <2>3 DEF TypeOK
  <1>2. HandsOK'
    BY DEF TypeOK, HandsOK, TracerState, ConsumerState, ExporterState, Idle, Lookup, Record
  <1>3. AcceptOK'
    BY DEF TypeOK, HandsOK, AcceptOK, TracerState, Lookup, Idle, Record
  <1>4. CloseOK' /\ MutexOK' /\ NoSilentStop'
    BY DEF TypeOK, CloseOK, MutexOK, NoSilentStop, TracerState, ConsumerState, ExporterState, Lookup
  <1> QED BY <1>1, <1>2, <1>3, <1>4

LEMMA ControlExWrite ==
    ASSUME Control, NEW e \in Exporter, ExWrite(e)
    PROVE  Control'
  <1> USE PipelineAssumption DEF Control, ExWrite, notExporter, rest, tracerVars
  <1>1. TypeOK'
    <2>1. ex[e].rec \in Record
      BY DEF TypeOK, HandsOK, ExporterState, Record, Idle
    <2>2. ex' \in [Exporter -> ExporterState]
      BY DEF TypeOK, HandsOK, ExporterState, Record, Idle
    <2>3. out' \in [Exporter -> Seq(Record)]
      BY <2>1 DEF TypeOK
    <2> QED BY <2>1, <2>2, <2>3 DEF TypeOK
  <1>2. HandsOK'
    BY DEF TypeOK, HandsOK, TracerState, ConsumerState, ExporterState, Idle, Lookup, Record
  <1>3. AcceptOK'
    BY DEF TypeOK, HandsOK, AcceptOK, TracerState, Lookup, Idle, Record
  <1>4. CloseOK' /\ MutexOK' /\ NoSilentStop'
    BY DEF TypeOK, CloseOK, MutexOK, NoSilentStop, TracerState, ConsumerState, ExporterState, Lookup
  <1> QED BY <1>1, <1>2, <1>3, <1>4

LEMMA ControlExStop ==
    ASSUME Control, NEW e \in Exporter, ExStop(e)
    PROVE  Control'
  <1> USE PipelineAssumption DEF Control, ExStop, notExporter, rest, tracerVars
  <1>1. TypeOK'
    <2>1. ex' \in [Exporter -> ExporterState]
      BY DEF TypeOK, HandsOK, ExporterState, Record, Idle
    <2> QED BY <2>1 DEF TypeOK
  <1>2. HandsOK'
    BY DEF TypeOK, HandsOK, TracerState, ConsumerState, ExporterState, Idle, Lookup, Record
  <1>3. AcceptOK'
    BY DEF TypeOK, HandsOK, AcceptOK, TracerState, Lookup, Idle, Record
  <1>4. CloseOK' /\ MutexOK' /\ NoSilentStop'
    BY DEF TypeOK, CloseOK, MutexOK, NoSilentStop, TracerState, ConsumerState, ExporterState, Lookup
  <1> QED BY <1>1, <1>2, <1>3, <1>4

LEMMA ControlAgent ==
    ASSUME Control, Signal \/ Produce \/ CloseReader
    PROVE  Control'
  <1> USE PipelineAssumption DEF Control, Signal, Produce, CloseReader, rest, tracerVars
  <1>1. TypeOK'
    <2>1. produced' \in 0..MaxRecords /\ read' \in 0..produced'
      BY DEF TypeOK
    <2>2. closed' \in BOOLEAN /\ cancelled' \in BOOLEAN
      BY DEF TypeOK
    <2> QED BY <2>1, <2>2 DEF TypeOK
  <1>2. HandsOK'
    BY DEF TypeOK, HandsOK, TracerState, ConsumerState, ExporterState, Idle, Lookup, Record
  <1>3. AcceptOK'
    BY DEF TypeOK, HandsOK, AcceptOK, TracerState, Lookup, Idle, Record
  <1>4. CloseOK' /\ MutexOK' /\ NoSilentStop'
    BY DEF TypeOK, CloseOK, MutexOK, NoSilentStop, TracerState, ConsumerState, ExporterState, Lookup
  <1> QED BY <1>1, <1>2, <1>3, <1>4

LEMMA ControlSide ==
    ASSUME Control, KoSynced \/ KoTick \/ KoStop \/ MetricsListen \/ MetricsStop \/ MetricsError
    PROVE  Control'
  <1> USE PipelineAssumption DEF Control, KoSynced, KoTick, KoStop, MetricsListen, MetricsStop, MetricsError, Fail, notSide, tracerVars
  <1>1. TypeOK'
    BY DEF TypeOK
  <1>2. HandsOK'
    BY DEF TypeOK, HandsOK, TracerState, ConsumerState, ExporterState, Idle, Lookup, Record
  <1>3. AcceptOK'
    BY DEF TypeOK, HandsOK, AcceptOK, TracerState, Lookup, Idle, Record
  <1>4. CloseOK' /\ MutexOK' /\ NoSilentStop'
    BY DEF TypeOK, CloseOK, MutexOK, NoSilentStop, TracerState, ConsumerState, ExporterState, Lookup
  <1> QED BY <1>1, <1>2, <1>3, <1>4

-----------------------------------------------------------------------------
(* The Lines. *)

\* The stages of a Line hold sequences of records, and records are numbers.
LEMMA LineParts ==
    ASSUME TypeOK, NEW e \in Exporter
    PROVE  /\ out[e] \in Seq(Record) /\ Hand(ex[e]) \in Seq(Record)
           /\ queue[e] \in Seq(Record) /\ Hand(co) \in Seq(Record)
           /\ chan \in Seq(Record) /\ Hand(tr) \in Seq(Record)
  <1>1. out[e] \in Seq(Record) /\ queue[e] \in Seq(Record) /\ chan \in Seq(Record)
    BY DEF TypeOK
  <1>2. Hand(ex[e]) \in Seq(Record)
    BY DEF TypeOK, Hand, ExporterState
  <1>3. Hand(co) \in Seq(Record)
    BY DEF TypeOK, Hand, ConsumerState
  <1>4. Hand(tr) \in Seq(Record)
    BY DEF TypeOK, Hand, TracerState
  <1> QED BY <1>1, <1>2, <1>3, <1>4

\* Sequences of records are sequences of numbers.
LEMMA RecordsAreNat == Seq(Record) \subseteq Seq(Nat)
  BY SeqMonotonic, PipelineAssumption DEF Record

\* What the Lines hold stays sorted and complete when they stay the same.
LEMMA SameLines ==
    ASSUME PInv, TypeOK',
           \A e \in Exporter : Line(e)' = Line(e) /\ full'[e] = full[e],
           read <= read', accepted' \subseteq accepted, cancelled => cancelled'
    PROVE  InOrder' /\ NothingLost'
  <1>1. InOrder'
    <2> SUFFICES ASSUME NEW e \in Exporter
                 PROVE  Sorted(Line(e), read')
      BY DEF InOrder
    <2>1. Sorted(Line(e), read)
      BY DEF PInv, InOrder
    <2>2. read \in Nat /\ read' \in Nat /\ Line(e) \in Seq(Nat)
      <3>1. Line(e) \in Seq(Record)
        BY LineParts, ConcatProperties DEF PInv, Line
      <3> QED BY <3>1, RecordsAreNat DEF PInv, TypeOK
    <2>3. \A i \in 1..Len(Line(e)) : Line(e)[i] \in Nat
      BY <2>2
    <2> QED BY <2>1, <2>2, <2>3 DEF Sorted
  <1>2. NothingLost'
    BY DEF PInv, NothingLost
  <1> QED BY <1>1, <1>2

\* A step that moves no record.
LEMMA StillLines ==
    ASSUME PInv, TypeOK', UNCHANGED <<out, queue, chan, full, read, accepted>>,
           tr'.rec = tr.rec, co'.rec = co.rec, \A e \in Exporter : ex'[e].rec = ex[e].rec,
           cancelled => cancelled'
    PROVE  InOrder' /\ NothingLost'
  <1>1. \A e \in Exporter : Line(e)' = Line(e) /\ full'[e] = full[e]
    BY DEF Line, Hand
  <1>2. read <= read'
    BY DEF PInv, TypeOK
  <1> QED BY <1>1, <1>2, SameLines

\* The part of a Line before the tracer's hand.
Sent(e) == out[e] \o Hand(ex[e]) \o queue[e] \o Hand(co) \o chan

\* A line is what the tracer has sent, and its hand.
LEMMA SentParts ==
    ASSUME PInv, NEW e \in Exporter
    PROVE  /\ Line(e) = Sent(e) \o Hand(tr)
           /\ Sent(e) \in Seq(Record) /\ Sent(e) \in Seq(Nat)
           /\ Hand(tr) \in Seq(Record) /\ Hand(tr) \in Seq(Nat)
           /\ read \in Nat
           /\ Sorted(Sent(e), read)
           /\ ToSet(Line(e)) = ToSet(Sent(e)) \cup ToSet(Hand(tr))
  <1>1. Line(e) = Sent(e) \o Hand(tr) /\ Sent(e) \in Seq(Record) /\ Hand(tr) \in Seq(Record)
    BY LineParts, ConcatProperties DEF PInv, Line, Sent
  <1>2. Sent(e) \in Seq(Nat) /\ Hand(tr) \in Seq(Nat) /\ read \in Nat
    BY <1>1, RecordsAreNat DEF PInv, TypeOK
  <1>3. Sorted(Sent(e), read)
    BY <1>1, <1>2, SortedJoin DEF PInv, InOrder
  <1> QED BY <1>1, <1>2, <1>3, ToSetJoin

\* The tracer's hand becomes empty: it was, or what it held is not wanted.
LEMMA HandEmptied ==
    ASSUME PInv, TypeOK', UNCHANGED <<out, ex, queue, co, chan, full, accepted>>,
           tr'.rec = Idle, read <= read', cancelled => cancelled',
           cancelled' \/ tr.rec \notin accepted
    PROVE  InOrder' /\ NothingLost'
  <1> SUFFICES ASSUME NEW e \in Exporter
               PROVE  /\ Sorted(Line(e)', read')
                      /\ ~cancelled' => accepted \subseteq ToSet(Line(e)') \cup full[e]
    BY DEF InOrder, NothingLost
  <1>1. Line(e)' = Sent(e)
    <2>1. Line(e)' = Sent(e) \o << >>
      BY DEF Line, Sent, Hand
    <2> QED BY <2>1, SentParts, JoinEmpty
  <1>2. Sorted(Sent(e), read')
    <2>1. read \in Nat /\ read' \in Nat /\ \A i \in 1..Len(Sent(e)) : Sent(e)[i] \in Nat
      BY SentParts DEF TypeOK
    <2> QED BY <2>1, SentParts DEF Sorted
  <1>3. ASSUME ~cancelled'
        PROVE  accepted \subseteq ToSet(Sent(e)) \cup full[e]
    <2>1. accepted \subseteq ToSet(Line(e)) \cup full[e]
      BY <1>3 DEF PInv, NothingLost
    <2>2. ToSet(Hand(tr)) \subseteq {tr.rec}
      BY ToSetOne DEF Hand
    <2> QED BY <1>3, <2>1, <2>2, SentParts
  <1> QED BY <1>1, <1>2, <1>3

\* The tracer takes the next record of the ring buffer into its hand.
LEMMA HandFilled ==
    ASSUME PInv, TypeOK', UNCHANGED <<out, ex, queue, co, chan, full>>,
           tr.rec = Idle, tr'.rec = read', read' = read + 1, cancelled => cancelled',
           accepted' \subseteq accepted \cup {read'}
    PROVE  InOrder' /\ NothingLost'
  <1> SUFFICES ASSUME NEW e \in Exporter
               PROVE  /\ Sorted(Line(e)', read')
                      /\ ~cancelled' => accepted' \subseteq ToSet(Line(e)') \cup full[e]
    BY DEF InOrder, NothingLost
  <1>0. read \in Nat /\ read' \in Nat /\ read < read' /\ read' # Idle
    BY DEF PInv, TypeOK, Idle
  <1>1. Line(e)' = Sent(e) \o << read' >> /\ << read' >> \in Seq(Nat)
    <2>1. Hand(tr') = << read' >>
      BY <1>0 DEF Hand
    <2>2. Line(e)' = Sent(e) \o Hand(tr')
      BY DEF Line, Sent
    <2> QED BY <1>0, <2>1, <2>2
  <1>2. Sorted(Sent(e) \o << read' >>, read')
    <2>1. \A i \in 1..Len(Sent(e)) : Sent(e)[i] \in Nat /\ Sent(e)[i] <= read
      BY SentParts DEF Sorted
    <2>2. Sorted(Sent(e), read')
      BY <1>0, <2>1, SentParts DEF Sorted
    <2>3. Sorted(<< read' >>, read')
      BY <1>0 DEF Sorted
    <2>4. \A i \in 1..Len(Sent(e)), j \in 1..Len(<< read' >>) : Sent(e)[i] < << read' >>[j]
      BY <1>0, <2>1
    <2> QED BY <1>0, <1>1, <2>2, <2>3, <2>4, SentParts, SortedJoin
  <1>3. ASSUME ~cancelled'
        PROVE  accepted' \subseteq ToSet(Line(e)') \cup full[e]
    <2>1. accepted \subseteq ToSet(Line(e)) \cup full[e]
      BY <1>3 DEF PInv, NothingLost
    <2>2. ToSet(Line(e)) = ToSet(Sent(e)) \cup {}
      BY SentParts, ToSetOne DEF Hand
    <2>3. ToSet(Line(e)') = ToSet(Sent(e)) \cup {read'}
      BY <1>0, <1>1, SentParts, ToSetAppended
    <2> QED BY <2>1, <2>2, <2>3
  <1> QED BY <1>1, <1>2, <1>3

\* The record in the tracer's hand is accepted.
LEMMA HandAccepted ==
    ASSUME PInv, TypeOK', UNCHANGED <<out, ex, queue, co, chan, full, read>>,
           tr.rec # Idle, tr'.rec = tr.rec, cancelled => cancelled',
           accepted' \subseteq accepted \cup {tr.rec}
    PROVE  InOrder' /\ NothingLost'
  <1>1. \A e \in Exporter : Line(e)' = Line(e)
    BY DEF Line, Hand
  <1>2. InOrder'
    BY <1>1 DEF PInv, InOrder
  <1>3. ASSUME NEW e \in Exporter
        PROVE  tr.rec \in ToSet(Line(e))
    BY SentParts, ToSetOne DEF Hand
  <1>4. NothingLost'
    BY <1>1, <1>3 DEF PInv, NothingLost
  <1> QED BY <1>2, <1>4

\* A queue is full and the record in the consumer's hand is dropped from a Line:
\* what is left is sorted, and only that record is missing.
LEMMA MiddleDropped ==
    ASSUME NEW n \in Nat, NEW s \in Seq(Nat), NEW r \in Nat, NEW t \in Seq(Nat), NEW u \in Seq(Nat),
           Sorted(((s \o << r >>) \o t) \o u, n)
    PROVE  /\ Sorted(((s \o << >>) \o t) \o u, n)
           /\ ToSet(((s \o << r >>) \o t) \o u) \subseteq ToSet(((s \o << >>) \o t) \o u) \cup {r}
  <1> DEFINE v == t \o u
             w == s \o << r >>
  <1>1. v \in Seq(Nat) /\ w \in Seq(Nat) /\ s \o << >> = s
    BY ConcatProperties, ConcatEmptySeq
  <1>2. (w \o t) \o u = w \o v /\ (s \o t) \o u = s \o v
    <2> HIDE DEF w
    <2>1. (w \o t) \o u = w \o (t \o u)
      BY <1>1, ConcatAssociative
    <2>2. (s \o t) \o u = s \o (t \o u)
      BY ConcatAssociative
    <2> QED BY <2>1, <2>2
  <1>3. ToSet(w) = ToSet(s) \cup {r}
    BY ToSetAppended
  <1>4. /\ << r >> \in Seq(Nat)
        /\ \A i \in 1..Len(s) : i \in 1..Len(w) /\ w[i] = s[i]
    OBVIOUS
  <1>5. Sorted(w, n) => Sorted(s, n)
    BY <1>4, SortedJoin
  <1> HIDE DEF v, w
  <1>6. Sorted(w, n) /\ Sorted(v, n) /\ \A i \in 1..Len(w), j \in 1..Len(v) : w[i] < v[j]
    <2>1. Sorted(w \o v, n)
      BY <1>2 DEF w
    <2> QED BY <1>1, <2>1, SortedJoin
  <1>7. Sorted(s \o v, n)
    BY <1>1, <1>4, <1>5, <1>6, SortedJoin
  <1>8. ToSet(w \o v) = ToSet(w) \cup ToSet(v) /\ ToSet(s \o v) = ToSet(s) \cup ToSet(v)
    BY <1>1, ToSetJoin
  <1>9. ToSet((w \o t) \o u) \subseteq ToSet(((s \o << >>) \o t) \o u) \cup {r}
    BY <1>1, <1>2, <1>3, <1>8
  <1> QED BY <1>1, <1>2, <1>7, <1>9 DEF w

-----------------------------------------------------------------------------
(* The steps that move a record. *)

\* Every line through the steps of Tracer.Run: a record that passes the filters
\* joins the end, everything else leaves lines alone.
LEMMA TracerLines ==
    ASSUME PInv, Control', Tracer \/ TrAnswer \/ TrReadError
    PROVE  InOrder' /\ NothingLost'
  <1> USE DEF Control
  <1>0. Control /\ read \in Nat /\ Idle \notin accepted
    BY DEF PInv, TypeOK, AcceptOK, Idle
  <1>1. CASE TrStart
    <2>1. tr.rec = Idle /\ tr'.rec = Idle
      BY <1>0, <1>1 DEF TrStart, HandsOK, TypeOK, TracerState
    <2>2. UNCHANGED <<out, ex, queue, co, chan, full, accepted, read>> /\ (cancelled => cancelled')
      BY <1>1 DEF TrStart, Fail
    <2> QED BY <1>0, <2>1, <2>2, HandEmptied
  <1>2. CASE TrRead
    <2>1. /\ UNCHANGED <<out, ex, queue, co, chan, full, cancelled>>
          /\ read' = read + 1 /\ read <= read' /\ tr.rec = Idle
      BY <1>0, <1>2 DEF TrRead, HandsOK
    <2>2. CASE ToRead
      <3>1. tr'.rec = Idle /\ accepted' = accepted
        BY <2>2 DEF ToRead
      <3> QED BY <1>0, <2>1, <3>1, HandEmptied
    <2>3. CASE ToSend(read + 1) \/ \E why \in {"verify", "resolve"} : ToLookup(read + 1, why)
      <3>1. tr'.rec = read' /\ accepted' \subseteq accepted \cup {read'}
        BY <2>1, <2>3 DEF ToSend, ToLookup
      <3> QED BY <2>1, <3>1, HandFilled
    <2> QED BY <1>2, <2>2, <2>3 DEF TrRead
  <1>3. CASE TrLookup \/ TrLock \/ TrAnswer
    <2>1. /\ UNCHANGED <<out, ex, queue, co, chan, full, cancelled, read>>
          /\ read <= read' /\ tr.rec # Idle /\ tr.rec \notin accepted
      BY <1>0, <1>3 DEF TrLookup, TrLock, TrAnswer, HandsOK, AcceptOK, Lookup
    <2>2. CASE ToRead
      <3>1. tr'.rec = Idle /\ accepted' = accepted
        BY <2>2 DEF ToRead
      <3> QED BY <2>1, <3>1, HandEmptied
    <2>3. CASE ToSend(tr.rec)
      <3>1. tr'.rec = tr.rec /\ accepted' \subseteq accepted \cup {tr.rec}
        BY <2>3 DEF ToSend
      <3> QED BY <2>1, <3>1, HandAccepted
    <2>4. CASE \E pc \in Lookup : tr' = [tr EXCEPT !.pc = pc] /\ UNCHANGED accepted
      <3>1. tr'.rec = tr.rec /\ accepted' \subseteq accepted \cup {tr.rec}
        BY <1>0, <2>4 DEF TypeOK, TracerState
      <3> QED BY <2>1, <3>1, HandAccepted
    <2> QED BY <1>3, <2>2, <2>3, <2>4 DEF TrLookup, TrLock, TrAnswer, Resolved, Lookup
  <1>4. CASE TrSend
    <2>1. /\ UNCHANGED <<out, ex, queue, co, full, cancelled, read, accepted>>
          /\ chan' = Append(chan, tr.rec) /\ tr'.rec = Idle
          /\ tr.rec # Idle /\ tr.rec \in Record /\ read <= read'
      BY <1>0, <1>4 DEF TrSend, ToRead, HandsOK, TypeOK, TracerState
    <2>2. ASSUME NEW e \in Exporter
          PROVE  Line(e)' = Line(e)
      <3> DEFINE s == out[e] \o Hand(ex[e]) \o queue[e] \o Hand(co)
      <3>1. s \in Seq(Record) /\ chan \in Seq(Record)
        BY <1>0, LineParts, ConcatProperties
      <3>2. Line(e) = (s \o chan) \o << tr.rec >> /\ Line(e)' = (s \o Append(chan, tr.rec)) \o << >>
        BY <2>1 DEF Line, Hand
      <3> HIDE DEF s
      <3> QED BY <2>1, <3>1, <3>2, TailMoves
    <2> QED BY <2>1, <2>2, SameLines
  <1>5. CASE TrStop \/ TrReadError
    <2>1. /\ UNCHANGED <<out, ex, queue, co, chan, full, accepted, read>> /\ cancelled'
          /\ tr'.rec = Idle /\ read <= read'
      BY <1>0, <1>5 DEF TrStop, TrReadError, Fail, CloseOK, HandsOK, TypeOK, TracerState
    <2> QED BY <2>1, HandEmptied
  <1> QED BY <1>1, <1>2, <1>3, <1>4, <1>5 DEF Tracer

\* Every line through consumeEvents and push: a full queue takes a record out.
LEMMA ConsumerLines ==
    ASSUME PInv, Control', Consumer \/ CoAnswer \/ CoStop
    PROVE  InOrder' /\ NothingLost'
  <1> USE DEF Control
  <1>0. Control /\ read \in Nat
    BY DEF PInv, TypeOK
  <1>1. CASE CoReceive
    <2>1. /\ UNCHANGED <<out, ex, queue, full, tr, cancelled, read, accepted>> /\ read <= read'
          /\ chan # << >> /\ chan' = Tail(chan) /\ co'.rec = Head(chan) /\ co.rec = Idle
      BY <1>0, <1>1 DEF CoReceive, notConsumer, HandsOK
    <2>2. Head(chan) # Idle
      <3>1. Head(chan) \in Record
        BY <1>0, <2>1, HeadTailProperties DEF TypeOK
      <3> QED BY <3>1 DEF Record, Idle
    <2>3. ASSUME NEW e \in Exporter
          PROVE  Line(e)' = Line(e)
      <3> DEFINE s == out[e] \o Hand(ex[e]) \o queue[e]
      <3>1. s \in Seq(Record) /\ chan \in Seq(Record)
        BY <1>0, LineParts, ConcatProperties
      <3>2. /\ Line(e) = ((s \o << >>) \o chan) \o Hand(tr)
            /\ Line(e)' = ((s \o << Head(chan) >>) \o Tail(chan)) \o Hand(tr)
        BY <2>1, <2>2 DEF Line, Hand
      <3> HIDE DEF s
      <3>3. (s \o << Head(chan) >>) \o Tail(chan) = (s \o << >>) \o chan
        BY <2>1, <3>1, HeadMoves
      <3> QED BY <3>2, <3>3
    <2> QED BY <2>1, <2>3, SameLines
  <1>2. CASE CoLookup \/ CoLock \/ CoAnswer \/ CoStop
    <2>1. UNCHANGED <<out, ex, queue, chan, full, tr, cancelled, read, accepted>> /\ co'.rec = co.rec
      BY <1>0, <1>2 DEF CoLookup, CoLock, CoAnswer, CoStop, CoTo, notConsumer, TypeOK, ConsumerState
    <2> QED BY <2>1, StillLines
  <1>3. CASE CoPush
    <2>1. /\ UNCHANGED <<out, ex, chan, tr, cancelled, read, accepted>>
          /\ co'.rec = Idle /\ co.rec # Idle /\ co.rec \in Record
      BY <1>0, <1>3 DEF CoPush, notConsumer, HandsOK, TypeOK, ConsumerState
    <2> SUFFICES ASSUME NEW e \in Exporter
                 PROVE  /\ Sorted(Line(e)', read)
                        /\ ~cancelled => accepted \subseteq ToSet(Line(e)') \cup full'[e]
      BY <2>1 DEF InOrder, NothingLost
    <2>2. Sorted(Line(e), read) /\ (~cancelled => accepted \subseteq ToSet(Line(e)) \cup full[e])
      BY DEF PInv, InOrder, NothingLost
    <2> DEFINE s == out[e] \o Hand(ex[e])
    <2>3. s \in Seq(Record) /\ queue[e] \in Seq(Record) /\ chan \in Seq(Record) /\ Hand(tr) \in Seq(Record)
      BY <1>0, LineParts, ConcatProperties
    <2>4. /\ Line(e) = (((s \o queue[e]) \o << co.rec >>) \o chan) \o Hand(tr)
          /\ Line(e)' = (((s \o queue'[e]) \o << >>) \o chan) \o Hand(tr)
      BY <2>1 DEF Line, Hand
    <2> HIDE DEF s
    <2>5. CASE Len(queue[e]) < QueueCap
      <3>1. queue'[e] = Append(queue[e], co.rec) /\ full'[e] = full[e]
        BY <1>3, <2>5 DEF CoPush
      <3>2. (s \o Append(queue[e], co.rec)) \o << >> = (s \o queue[e]) \o << co.rec >>
        BY <2>1, <2>3, TailMoves
      <3>3. Line(e)' = Line(e)
        BY <2>4, <3>1, <3>2
      <3> QED BY <2>2, <3>1, <3>3
    <2>6. CASE ~(Len(queue[e]) < QueueCap)
      <3>1. queue'[e] = queue[e] /\ full'[e] = full[e] \cup {co.rec}
        BY <1>3, <2>6 DEF CoPush
      <3> DEFINE q == s \o queue[e]
      <3>2. q \in Seq(Nat) /\ chan \in Seq(Nat) /\ Hand(tr) \in Seq(Nat) /\ co.rec \in Nat
        <4>1. q \in Seq(Record)
          BY <2>3, ConcatProperties
        <4> HIDE DEF q
        <4> QED BY <2>1, <2>3, <4>1, RecordsAreNat, PipelineAssumption DEF Record
      <3>3. Line(e) = ((q \o << co.rec >>) \o chan) \o Hand(tr) /\ Line(e)' = ((q \o << >>) \o chan) \o Hand(tr)
        BY <2>4, <3>1
      <3> HIDE DEF q
      <3>4. Sorted(Line(e)', read) /\ ToSet(Line(e)) \subseteq ToSet(Line(e)') \cup {co.rec}
        BY <1>0, <2>2, <3>2, <3>3, MiddleDropped
      <3> QED BY <2>2, <3>1, <3>4
    <2> QED BY <2>5, <2>6
  <1> QED BY <1>1, <1>2, <1>3 DEF Consumer

\* Every line through the steps of an exporter.
LEMMA ExporterLines ==
    ASSUME PInv, Control', NEW e \in Exporter, ExReceive(e) \/ ExWrite(e) \/ ExStop(e)
    PROVE  InOrder' /\ NothingLost'
  <1> USE DEF Control
  <1>0. /\ Control /\ read \in Nat
        /\ ex \in [Exporter -> ExporterState] /\ queue \in [Exporter -> Seq(Record)]
        /\ out \in [Exporter -> Seq(Record)]
    BY DEF PInv, TypeOK
  <1>1. /\ UNCHANGED <<chan, co, tr, full, cancelled, read, accepted>> /\ read <= read'
        /\ \A f \in Exporter \ {e} : ex'[f] = ex[f] /\ queue'[f] = queue[f] /\ out'[f] = out[f]
    BY <1>0 DEF ExReceive, ExWrite, ExStop, notExporter, tracerVars
  <1>2. \A f \in Exporter \ {e} : Line(f)' = Line(f)
    BY <1>1 DEF Line, Hand
  <1>3. CASE ExReceive(e)
    <2>1. /\ queue[e] \in Seq(Record) /\ queue[e] # << >>
          /\ queue'[e] = Tail(queue[e]) /\ out'[e] = out[e]
          /\ ex'[e].rec = Head(queue[e]) /\ ex[e].rec = Idle
      BY <1>0, <1>3 DEF ExReceive, HandsOK
    <2>2. Head(queue[e]) # Idle
      <3>1. Head(queue[e]) \in Record
        BY <2>1, HeadTailProperties
      <3> QED BY <3>1 DEF Record, Idle
    <2>3. /\ Line(e) = (((out[e] \o << >>) \o queue[e]) \o Hand(co)) \o chan \o Hand(tr)
          /\ Line(e)' = (((out[e] \o << Head(queue[e]) >>) \o Tail(queue[e])) \o Hand(co)) \o chan \o Hand(tr)
      BY <1>1, <2>1, <2>2 DEF Line, Hand
    <2>4. (out[e] \o << Head(queue[e]) >>) \o Tail(queue[e]) = (out[e] \o << >>) \o queue[e]
      BY <1>0, <2>1, HeadMoves
    <2>5. Line(e)' = Line(e)
      BY <2>3, <2>4
    <2> QED BY <1>1, <1>2, <2>5, SameLines
  <1>4. CASE ExWrite(e)
    <2>1. /\ ex[e].rec # Idle /\ ex[e].rec \in Record /\ ex'[e].rec = Idle
          /\ out'[e] = Append(out[e], ex[e].rec) /\ queue'[e] = queue[e]
      BY <1>0, <1>4 DEF ExWrite, HandsOK, ExporterState
    <2>2. /\ Line(e) = ((out[e] \o << ex[e].rec >>) \o queue[e]) \o Hand(co) \o chan \o Hand(tr)
          /\ Line(e)' = ((Append(out[e], ex[e].rec) \o << >>) \o queue[e]) \o Hand(co) \o chan \o Hand(tr)
      BY <1>1, <2>1 DEF Line, Hand
    <2>3. Append(out[e], ex[e].rec) \o << >> = out[e] \o << ex[e].rec >>
      <3>1. Append(out[e], ex[e].rec) \in Seq(Record)
        BY <1>0, <2>1, AppendProperties
      <3> QED BY <1>0, <2>1, <3>1, JoinEmpty, AppendIsConcat
    <2>4. Line(e)' = Line(e)
      BY <2>2, <2>3
    <2> QED BY <1>1, <1>2, <2>4, SameLines
  <1>5. CASE ExStop(e)
    <2>1. ex'[e].rec = ex[e].rec /\ UNCHANGED <<out, queue>>
      BY <1>0, <1>5 DEF ExStop, ExporterState
    <2> QED BY <1>1, <2>1, StillLines
  <1> QED BY <1>3, <1>4, <1>5

-----------------------------------------------------------------------------
(* The theorems. *)

\* The invariant holds initially.
LEMMA PInvInit ==
    ASSUME Init
    PROVE  PInv
  <1>1. Control
    BY ControlInit
  <1>2. \A e \in Exporter : Line(e) = << >>
    BY DEF Init, Line, Hand, Idle
  <1>3. InOrder
    BY <1>2 DEF InOrder, Sorted
  <1>4. NothingLost
    BY DEF NothingLost, Init
  <1> QED BY <1>1, <1>3, <1>4 DEF PInv, Control

\* Every step of every goroutine keeps the invariant.
LEMMA PInvNext ==
    ASSUME PInv, [Next]_vars
    PROVE  PInv'
  <1>0. Control
    BY DEF PInv, Control
  <1>1. CASE Tracer \/ TrAnswer \/ TrReadError
    <2>1. Control'
      BY <1>0, <1>1, ControlTrStart, ControlTrRead, ControlTrLookup, ControlTrLock,
         ControlTrAnswer, ControlTrSend, ControlTrStop DEF Tracer
    <2> QED BY <1>1, <2>1, TracerLines DEF PInv, Control
  <1>2. CASE Consumer \/ CoAnswer \/ CoStop
    <2>1. Control'
      BY <1>0, <1>2, ControlCoReceive, ControlCoLookup, ControlCoPush DEF Consumer
    <2> QED BY <1>2, <2>1, ConsumerLines DEF PInv, Control
  <1>3. ASSUME NEW e \in Exporter, ExReceive(e) \/ ExWrite(e) \/ ExStop(e)
        PROVE  PInv'
    <2>1. Control'
      BY <1>0, <1>3, ControlExReceive, ControlExWrite, ControlExStop
    <2> QED BY <1>3, <2>1, ExporterLines DEF PInv, Control
  <1>4. CASE \/ Signal \/ Produce \/ CloseReader \/ KoSynced \/ KoTick \/ KoStop
             \/ MetricsListen \/ MetricsStop \/ MetricsError
    <2>1. Control'
      BY <1>0, <1>4, ControlAgent, ControlSide
    <2>2. /\ UNCHANGED <<out, queue, chan, full, read, accepted, tr, co, ex>>
          /\ cancelled => cancelled'
      BY <1>4 DEF Signal, Produce, CloseReader, KoSynced, KoTick, KoStop, MetricsListen,
                  MetricsStop, MetricsError, Fail, notSide, tracerVars
    <2> QED BY <2>1, <2>2, StillLines DEF PInv, Control
  <1>5. CASE Done \/ UNCHANGED vars
    <2>1. UNCHANGED vars
      BY <1>5 DEF Done
    <2> QED BY <2>1 DEF vars, PInv, TypeOK, HandsOK, AcceptOK, CloseOK, MutexOK, InOrder, Line,
                        NothingLost, NoSilentStop
  <1> QED BY <1>1, <1>2, <1>3, <1>4, <1>5 DEF Next

\* The inductive invariant of the pipeline holds of every behaviour of the
\* goroutines App.Run starts, however they are scheduled.
THEOREM PipelineInvariance == Spec => []PInv
  <1>1. Init => PInv
    BY PInvInit
  <1>2. PInv /\ [Next]_vars => PInv'
    BY PInvNext
  <1> QED BY <1>1, <1>2, PTL DEF Spec

\* Every variable keeps its type: in particular neither the events channel nor an
\* exporter's queue ever exceeds its capacity.
THEOREM PipelineTypeCorrect == Spec => []TypeOK
  <1>1. PInv => TypeOK
    BY DEF PInv
  <1> QED BY <1>1, PipelineInvariance, PTL

\* Each exporter writes in the order of the ring buffer and nothing twice, for any
\* capacities and any number of exporters and records.
THEOREM DeliveryInOrder == Spec => []InOrder
  <1>1. PInv => InOrder
    BY DEF PInv
  <1> QED BY <1>1, PipelineInvariance, PTL

\* Until the agent stops only Push on a full queue (exporter.Push) loses events
\* that passed the filters.
THEOREM OnlyFullQueuesLose == Spec => []NothingLost
  <1>1. PInv => NothingLost
    BY DEF PInv
  <1> QED BY <1>1, PipelineInvariance, PTL

\* No goroutine of the errgroup returns while the others are to go on.
THEOREM NoGoroutineStopsAlone == Spec => []NoSilentStop
  <1>1. PInv => NoSilentStop
    BY DEF PInv
  <1> QED BY <1>1, PipelineInvariance, PTL
=============================================================================
