--------------------------- MODULE VerdictsProofs ---------------------------
(***************************************************************************)
(* The verdicts in the kernel are of their own cgroup's container, for any *)
(* number of cgroups, any filters and any timing of the Syncs, the passes  *)
(* of syncOnce, the lookups and the evictions.                             *)
(***************************************************************************)
EXTENDS Verdicts, TLAPS

\* The values built from the constants have their types.
LEMMA Constants ==
    /\ Cgroup # {} /\ MaxErrors \in Nat /\ MaxRing \in Nat \ {0}
    /\ \A g \in Cgroup : AttrsOf[g] \in Attrs /\ AttrsOf[g] \in Nat
    /\ Empty \in Attrs /\ Attrs \subseteq Nat /\ Nothing \notin Attrs /\ Attrs \subseteq Info
    /\ Nothing \in Info /\ Info = Attrs \cup {Nothing}
    /\ NoInfo \in Pictures
    /\ NoEvent \in Event
  <1>1. Cgroup # {} /\ MaxErrors \in Nat /\ MaxRing \in Nat \ {0}
    BY VerdictsAssumption
  <1>2. \A g \in Cgroup : AttrsOf[g] \in Attrs /\ AttrsOf[g] \in Nat
    BY VerdictsAssumption DEF Attrs
  <1>3. Empty \in Attrs /\ Attrs \subseteq Nat
    BY <1>2 DEF Attrs, Empty
  <1>4. Nothing \notin Attrs
    BY <1>3 DEF Nothing
  <1>5. NoInfo \in Pictures
    BY DEF NoInfo, Pictures, Info
  <1>6. NoEvent \in Event
    BY <1>1 DEF NoEvent, Event
  <1> QED BY <1>1, <1>2, <1>3, <1>4, <1>5, <1>6 DEF Info

\* A picture is not the absence of one.
LEMMA PicturesArePictures ==
    ASSUME NEW f \in Pictures
    PROVE  f # NoPicture
  <1>1. DOMAIN f = Cgroup /\ DOMAIN NoPicture = {}
    BY DEF Pictures, NoPicture
  <1> QED BY <1>1, Constants

\* What the node looks like now, with or without the runtime's answer, is made of
\* what its containers own.
LEMMA PictureOwn ==
    ASSUME world \in [Cgroup -> State], NEW a \in BOOLEAN
    PROVE  /\ Picture(a) \in Pictures /\ Picture(a) # NoPicture
           /\ \A g \in Cgroup : Own(g, Picture(a)[g])
  <1>1. ASSUME NEW g \in Cgroup
        PROVE  Picture(a)[g] \in Info /\ Own(g, Picture(a)[g])
    <2>1. CASE world[g] \in {"none", "removed"}
      BY <2>1, Constants DEF Picture, Own
    <2>2. CASE world[g] = "running" /\ a
      BY <2>2, Constants DEF Picture, Own
    <2>3. CASE world[g] \notin {"none", "removed"} /\ ~(world[g] = "running" /\ a)
      BY <2>3, Constants DEF Picture, Own
    <2> QED BY <2>1, <2>2, <2>3
  <1>2. Picture(a) \in Pictures
    BY <1>1 DEF Picture, Pictures
  <1> QED BY <1>1, <1>2, PicturesArePictures

\* The fields of the records in the state have their types.
LEMMA Fields ==
    ASSUME TypeOK
    PROVE  /\ tr.ev \in Event /\ tr.ev.cg \in Cgroup /\ tr.attrs \in Info
           /\ sy.snap \in Pictures /\ sy.todo \subseteq Cgroup
           /\ \A g \in Cgroup : cache[g] \in Info /\ verdict[g] \in Info /\ sy.snap[g] \in Info
  BY DEF TypeOK, TrState, SyState, Event, Pictures

-----------------------------------------------------------------------------
(* The steps. *)

\* The invariant holds initially: nothing is known of any container.
LEMMA VInvInit ==
    ASSUME Init
    PROVE  VInv
  <1>1. TypeOK
    <2>1. world \in [Cgroup -> State] /\ errors \in 0..MaxErrors
      BY VerdictsAssumption DEF Init
    <2>2. cache \in Pictures /\ verdict \in Pictures
      BY Constants DEF Init
    <2>3. pic \in [{"loop", "miss"} -> Pictures \cup {NoPicture}] /\ pic["miss"] = NoPicture
      BY DEF Init
    <2>4. enabled \in BOOLEAN /\ verify \in BOOLEAN
      BY DEF Init
    <2>5. ring \in Seq(Event) /\ Len(ring) <= MaxRing
      BY Constants DEF Init
    <2>6. sy \in SyState
      BY Constants DEF Init, SyncIdle, SyState
    <2>7. tr \in TrState /\ tr.pc = "read"
      BY Constants DEF Init, Reading, TrState
    <2>8. mu = "none"
      BY DEF Init
    <2> QED BY <2>1, <2>2, <2>3, <2>4, <2>5, <2>6, <2>7, <2>8 DEF TypeOK
  <1>2. LockOK
    BY DEF Init, LockOK, Reading
  <1>3. PicturesOwn
    BY DEF Init, PicturesOwn, Own, NoInfo, SyncIdle, Reading
  <1>4. VerdictsOwn
    BY DEF Init, VerdictsOwn, Own, NoInfo
  <1> QED BY <1>1, <1>2, <1>3, <1>4 DEF VInv

\* What a container owned it still owns later.
LEMMA ContainerStep ==
    ASSUME VInv, NEW g \in Cgroup, ContainerChanges(g)
    PROVE  VInv'
  <1>1. PICK e \in Lifecycle : world[g] = e[1] /\ world' = [world EXCEPT ![g] = e[2]]
    BY DEF ContainerChanges
  <1>2. e[2] \in State /\ (e[1] \in {"running", "exited", "removed"} => e[2] \in {"running", "exited", "removed"})
    BY DEF Lifecycle, State
  <1>3. /\ world \in [Cgroup -> State] /\ world' \in [Cgroup -> State]
        /\ \A h \in Cgroup : world[h] \in {"running", "exited", "removed"}
                               => world'[h] \in {"running", "exited", "removed"}
    BY <1>1, <1>2 DEF VInv, TypeOK
  <1>4. UNCHANGED <<errors, cache, pic, mu, verdict, enabled, verify, ring, sy, tr>>
    BY DEF ContainerChanges, kontext
  <1>5. TypeOK' /\ LockOK'
    BY <1>3, <1>4 DEF VInv, TypeOK, LockOK
  <1>7. PicturesOwn'
    <2>1. tr.ev.cg \in Cgroup
      BY Fields DEF VInv
    <2> QED BY <1>3, <1>4, <2>1 DEF VInv, PicturesOwn, Own
  <1>8. VerdictsOwn'
    BY <1>3, <1>4 DEF VInv, VerdictsOwn, Own
  <1> QED BY <1>5, <1>7, <1>8 DEF VInv

\* A Sync takes its picture, and stores it.
LEMMA Taken ==
    ASSUME VInv, NEW p \in {"loop", "miss"}, TakePicture(p), world' = world
    PROVE  /\ errors' \in 0..MaxErrors
           /\ pic' \in [{"loop", "miss"} -> Pictures \cup {NoPicture}] /\ pic'[p] # NoPicture
           /\ \A q \in {"loop", "miss"} : q # p => pic'[q] = pic[q]
           /\ \A q \in {"loop", "miss"}, g \in Cgroup : pic'[q] # NoPicture => Own(g, pic'[q][g])
  <1>1. /\ pic \in [{"loop", "miss"} -> Pictures \cup {NoPicture}] /\ world \in [Cgroup -> State]
        /\ errors \in 0..MaxErrors
    BY DEF VInv, TypeOK
  <1>2. PICK a \in BOOLEAN : pic' = [pic EXCEPT ![p] = Picture(a)]
    BY DEF TakePicture
  <1>3. pic'[p] = Picture(a) /\ \A q \in {"loop", "miss"} : q # p => pic'[q] = pic[q]
    BY <1>1, <1>2
  <1>4. Picture(a) \in Pictures /\ Picture(a) # NoPicture /\ \A g \in Cgroup : Own(g, Picture(a)[g])
    BY <1>1, PictureOwn
  <1>5. errors' \in 0..MaxErrors
    <2>1. errors' = errors \/ (errors < MaxErrors /\ errors' = errors + 1)
      BY DEF TakePicture
    <2> QED BY <1>1, <2>1, Constants
  <1>6. \A q \in {"loop", "miss"}, g \in Cgroup : pic[q] # NoPicture => Own(g, pic[q][g])
    BY DEF VInv, PicturesOwn
  <1>7. pic' \in [{"loop", "miss"} -> Pictures \cup {NoPicture}]
    BY <1>1, <1>2, <1>4
  <1> QED BY <1>3, <1>4, <1>5, <1>6, <1>7

\* A Sync that stores its picture puts what is Own into the cache.
LEMMA Stored ==
    ASSUME VInv, NEW p \in {"loop", "miss"}, pic[p] # NoPicture, StorePicture(p), world' = world
    PROVE  /\ cache' \in Pictures /\ \A g \in Cgroup : Own(g, cache'[g])
           /\ pic' \in [{"loop", "miss"} -> Pictures \cup {NoPicture}] /\ pic'[p] = NoPicture
           /\ \A q \in {"loop", "miss"} : q # p => pic'[q] = pic[q]
           /\ \A q \in {"loop", "miss"}, g \in Cgroup : pic'[q] # NoPicture => Own(g, pic'[q][g])
  <1>1. /\ pic \in [{"loop", "miss"} -> Pictures \cup {NoPicture}] /\ cache' = pic[p]
        /\ pic' = [pic EXCEPT ![p] = NoPicture]
    BY DEF VInv, TypeOK, StorePicture
  <1>2. \A q \in {"loop", "miss"}, g \in Cgroup : pic[q] # NoPicture => Own(g, pic[q][g])
    BY DEF VInv, PicturesOwn
  <1>3. pic'[p] = NoPicture /\ \A q \in {"loop", "miss"} : q # p => pic'[q] = pic[q]
    BY <1>1
  <1>4. cache' \in Pictures
    BY <1>1
  <1>5. pic' \in [{"loop", "miss"} -> Pictures \cup {NoPicture}]
    BY <1>1
  <1> QED BY <1>1, <1>2, <1>3, <1>4, <1>5

\* The Syncs of kontext's loop and of the consumer.
LEMMA KontextStep ==
    ASSUME VInv, LoopSync \/ ConsumerSync
    PROVE  VInv'
  <1>0. /\ UNCHANGED <<world, verdict, enabled, verify, ring, sy, tr>>
        /\ TypeOK /\ LockOK /\ PicturesOwn /\ VerdictsOwn
    BY DEF VInv, LoopSync, ConsumerSync
  <1>1. /\ errors' \in 0..MaxErrors
        /\ cache' \in Pictures /\ \A g \in Cgroup : Own(g, cache'[g])
        /\ pic' \in [{"loop", "miss"} -> Pictures \cup {NoPicture}]
        /\ \A q \in {"loop", "miss"}, g \in Cgroup : pic'[q] # NoPicture => Own(g, pic'[q][g])
        /\ mu' \in {"none", "tracer", "consumer"} /\ (mu' = "tracer" <=> mu = "tracer")
        /\ mu' # "none" <=> pic'["miss"] # NoPicture
    <2>0. /\ cache \in Pictures /\ (\A g \in Cgroup : Own(g, cache[g])) /\ errors \in 0..MaxErrors
          /\ mu \in {"none", "tracer", "consumer"} /\ (mu # "none" <=> pic["miss"] # NoPicture)
      BY <1>0 DEF TypeOK, PicturesOwn
    <2>1. CASE TakePicture("loop") /\ UNCHANGED <<cache, mu>>
      BY <1>0, <2>0, <2>1, Taken
    <2>2. CASE pic["loop"] # NoPicture /\ StorePicture("loop") /\ UNCHANGED <<errors, mu>>
      BY <1>0, <2>0, <2>2, Stored
    <2>3. CASE mu = "none" /\ TakePicture("miss") /\ mu' = "consumer" /\ UNCHANGED cache
      BY <1>0, <2>0, <2>3, Taken
    <2>4. CASE mu = "consumer" /\ StorePicture("miss") /\ mu' = "none" /\ UNCHANGED errors
      BY <1>0, <2>0, <2>4, Stored
    <2> QED BY <2>1, <2>2, <2>3, <2>4 DEF LoopSync, ConsumerSync
  <1>2. TypeOK'
    BY <1>0, <1>1 DEF TypeOK
  <1>3. LockOK'
    BY <1>0, <1>1 DEF LockOK
  <1>4. PicturesOwn'
    BY <1>0, <1>1 DEF PicturesOwn, Own
  <1>5. VerdictsOwn'
    BY <1>0 DEF VerdictsOwn, Own
  <1> QED BY <1>2, <1>3, <1>4, <1>5 DEF VInv

\* The invariant after a step of syncOnce, of the kernel or of startFilters, from
\* what it leaves in the map, in the snapshot and in the ring.
LEMMA MapStep ==
    ASSUME VInv, UNCHANGED <<world, cache, pic, mu, verify, tr>>,
           errors' \in 0..MaxErrors, enabled' \in BOOLEAN,
           ring' \in Seq(Event), Len(ring') <= MaxRing,
           verdict' \in Pictures, \A g \in Cgroup : Own(g, verdict'[g]),
           sy' \in SyState, \A g \in Cgroup : Own(g, sy'.snap[g])
    PROVE  VInv'
  <1>1. TypeOK'
    BY DEF VInv, TypeOK
  <1>2. LockOK'
    BY DEF VInv, LockOK
  <1>3. PicturesOwn'
    BY DEF VInv, PicturesOwn, Own
  <1>4. VerdictsOwn'
    BY DEF VInv, VerdictsOwn, Own
  <1> QED BY <1>1, <1>2, <1>3, <1>4 DEF VInv

\* What the invariant says of each part of the state.
LEMMA Now ==
    ASSUME VInv
    PROVE  /\ errors \in 0..MaxErrors /\ enabled \in BOOLEAN
           /\ ring \in Seq(Event) /\ Len(ring) <= MaxRing
           /\ verdict \in Pictures /\ \A g \in Cgroup : Own(g, verdict[g])
           /\ cache \in Pictures /\ \A g \in Cgroup : Own(g, cache[g])
           /\ sy \in SyState /\ \A g \in Cgroup : Own(g, sy.snap[g])
           /\ Own(tr.ev.cg, tr.attrs) /\ tr \in TrState
  BY DEF VInv, TypeOK, PicturesOwn, VerdictsOwn

\* No attributes and empty ones are Own.
LEMMA NoneOwn ==
    ASSUME NEW g \in Cgroup
    PROVE  Own(g, Nothing) /\ Own(g, Empty) /\ Own(g, NoInfo[g])
  BY DEF Own, NoInfo

\* A verdict is written, or an entry deleted or evicted.
LEMMA Written ==
    ASSUME VInv, NEW g \in Cgroup, NEW v \in Info, Own(g, v), verdict' = [verdict EXCEPT ![g] = v]
    PROVE  verdict' \in Pictures /\ \A h \in Cgroup : Own(h, verdict'[h])
  <1>1. verdict \in [Cgroup -> Info] /\ \A h \in Cgroup : Own(h, verdict[h])
    BY Now DEF Pictures
  <1>2. verdict' \in Pictures
    BY <1>1 DEF Pictures
  <1>3. verdict'[g] = v /\ \A h \in Cgroup : h # g => verdict'[h] = verdict[h]
    BY <1>1
  <1> QED BY <1>1, <1>2, <1>3

\* syncOnce writes from its snapshot and deletes.
LEMMA SyncOnceStep ==
    ASSUME VInv, SyncSnapshot \/ SyncStep
    PROVE  VInv'
  <1>0. UNCHANGED <<world, cache, pic, mu, enabled, verify, ring, tr>>
    BY DEF SyncSnapshot, SyncStep, SyncUpdate, SyncUpdated, SyncVisit, SyncDone, syncing, kontext
  <1>i. SyncIdle("idle") \in SyState /\ SyncIdle("idle").snap = NoInfo
    BY Constants DEF SyncIdle, SyState
  <1>1. CASE SyncSnapshot
    <2>1. sy' \in SyState /\ sy'.snap = cache /\ UNCHANGED <<errors, verdict>>
      BY <1>1, Now DEF SyncSnapshot, SyState
    <2> QED BY <1>0, <2>1, Now, MapStep
  <1>2. CASE SyncUpdate
    <2>1. CASE \E g \in sy.todo : /\ verdict' = [verdict EXCEPT ![g] = sy.snap[g]]
                                  /\ sy' = [sy EXCEPT !.todo = @ \ {g}]
                                  /\ UNCHANGED errors
      <3>1. PICK g \in sy.todo : /\ verdict' = [verdict EXCEPT ![g] = sy.snap[g]]
                                 /\ sy' = [sy EXCEPT !.todo = @ \ {g}]
        BY <2>1
      <3>2. g \in Cgroup /\ sy.snap[g] \in Info /\ Own(g, sy.snap[g])
        BY Now, Fields DEF VInv
      <3>3. sy' \in SyState /\ sy'.snap = sy.snap
        BY <3>1, Now DEF SyState
      <3>4. verdict' \in Pictures /\ \A h \in Cgroup : Own(h, verdict'[h])
        BY <3>1, <3>2, Written
      <3> QED BY <1>0, <2>1, <3>3, <3>4, Now, MapStep
    <2>2. CASE errors < MaxErrors /\ errors' = errors + 1 /\ sy' = SyncIdle("idle") /\ UNCHANGED verdict
      <3>1. errors' \in 0..MaxErrors
        BY <2>2, Now, Constants
      <3> QED BY <1>0, <1>i, <2>2, <3>1, Now, NoneOwn, MapStep
    <2> QED BY <1>2, <2>1, <2>2 DEF SyncUpdate
  <1>3. CASE SyncUpdated
    <2>1. sy' \in SyState /\ sy'.snap = sy.snap /\ UNCHANGED <<errors, verdict>>
      BY <1>3, Now DEF SyncUpdated, SyState
    <2> QED BY <1>0, <2>1, Now, MapStep
  <1>4. CASE SyncVisit
    <2>1. PICK g \in sy.todo :
              /\ sy' = [sy EXCEPT !.todo = @ \ {g}]
              /\ verdict' = IF sy.snap[g] = Nothing THEN [verdict EXCEPT ![g] = Nothing] ELSE verdict
      BY <1>4 DEF SyncVisit
    <2>2. sy' \in SyState /\ sy'.snap = sy.snap /\ UNCHANGED errors
      BY <1>4, <2>1, Now DEF SyState, SyncVisit
    <2>3. g \in Cgroup /\ Nothing \in Info /\ Own(g, Nothing)
      BY Fields, Constants, NoneOwn DEF VInv
    <2>4. verdict' \in Pictures /\ \A h \in Cgroup : Own(h, verdict'[h])
      BY <2>1, <2>3, Written, Now
    <2> QED BY <1>0, <2>2, <2>4, Now, MapStep
  <1>5. CASE SyncDone
    <2>1. sy' = SyncIdle("idle") /\ UNCHANGED <<errors, verdict>>
      BY <1>5 DEF SyncDone
    <2> QED BY <1>0, <1>i, <2>1, Now, NoneOwn, MapStep
  <1> QED BY <1>1, <1>2, <1>3, <1>4, <1>5 DEF SyncStep

\* The filters are enabled; the LRU evicts; the kernel decides by what it finds.
LEMMA KernelStep ==
    ASSUME VInv, Enable \/ \E g \in Cgroup : Evict(g) \/ Emit(g)
    PROVE  VInv'
  <1>0. UNCHANGED <<world, errors, cache, pic, mu, verify, sy, tr>>
    BY DEF Enable, Evict, Emit, kontext
  <1>1. CASE Enable
    <2>1. enabled' \in BOOLEAN /\ UNCHANGED <<ring, verdict>>
      BY <1>1 DEF Enable
    <2> QED BY <1>0, <2>1, Now, MapStep
  <1>2. ASSUME NEW g \in Cgroup, Evict(g)
        PROVE  VInv'
    <2>1. verdict' = [verdict EXCEPT ![g] = Nothing] /\ UNCHANGED <<enabled, ring>>
      BY <1>2 DEF Evict
    <2>2. verdict' \in Pictures /\ \A h \in Cgroup : Own(h, verdict'[h])
      BY <2>1, Written, NoneOwn, Constants
    <2> QED BY <1>0, <2>1, <2>2, Now, MapStep
  <1>3. ASSUME NEW g \in Cgroup, Emit(g)
        PROVE  VInv'
    <2>1. PICK dec : /\ dec = Undecided \/ (verdict[g] # Nothing /\ dec = Match[verdict[g]])
                     /\ dec # Nothing
                     /\ ring' = Append(ring, [cg |-> g, dec |-> dec])
                     /\ Len(ring) < MaxRing
                     /\ UNCHANGED <<enabled, verdict>>
      BY <1>3 DEF Emit
    <2>2. dec \in Nat \cup {Undecided}
      <3>1. verdict[g] # Nothing => verdict[g] \in Attrs
        BY Now, Constants DEF Pictures
      <3> QED BY <2>1, <3>1, VerdictsAssumption
    <2>3. [cg |-> g, dec |-> dec] \in Event
      BY <2>2 DEF Event
    <2>4. ring' \in Seq(Event) /\ Len(ring') <= MaxRing
      BY <2>1, <2>3, Now, Constants
    <2> QED BY <1>0, <2>1, <2>4, Now, MapStep
  <1> QED BY <1>1, <1>2, <1>3

\* The invariant after a step of the read loop that leaves kontext alone.
LEMMA ReaderStep ==
    ASSUME VInv, UNCHANGED <<world, cache, pic, mu, enabled, verify, sy>>,
           errors' \in 0..MaxErrors, ring' \in Seq(Event), Len(ring') <= MaxRing,
           verdict' \in Pictures, \A g \in Cgroup : Own(g, verdict'[g]),
           tr' \in TrState, tr.pc # "store", tr'.pc # "store",
           tr'.pc = "write" => tr'.attrs # Nothing, Own(tr'.ev.cg, tr'.attrs)
    PROVE  VInv'
  <1>1. TypeOK'
    BY DEF VInv, TypeOK
  <1>2. LockOK'
    BY DEF VInv, LockOK
  <1>3. PicturesOwn'
    BY DEF VInv, PicturesOwn, Own
  <1>4. VerdictsOwn'
    BY DEF VerdictsOwn, Own
  <1> QED BY <1>1, <1>2, <1>3, <1>4 DEF VInv

\* The read loop looks up, syncs and writes what it found.
LEMMA TracerStep ==
    ASSUME VInv, TrStep
    PROVE  VInv'
  <1>0. /\ tr \in TrState /\ tr.ev \in Event /\ tr.ev.cg \in Cgroup /\ tr.attrs \in Info
        /\ cache[tr.ev.cg] \in Info /\ Own(tr.ev.cg, cache[tr.ev.cg]) /\ Own(tr.ev.cg, tr.attrs)
        /\ Own(tr.ev.cg, Empty) /\ Own(tr.ev.cg, Nothing)
    BY Now, Fields, NoneOwn DEF VInv
  <1>1. CASE TrRead
    <2>1. /\ UNCHANGED <<world, cache, pic, mu, enabled, verify, sy, errors, verdict>>
          /\ ring # << >> /\ ring' = Tail(ring) /\ tr.pc = "read"
          /\ tr' = tr \/ tr' = [pc |-> "lookup", ev |-> Head(ring), attrs |-> Nothing]
      BY <1>1 DEF TrRead, kontext
    <2>2. Head(ring) \in Event /\ ring' \in Seq(Event) /\ Len(ring') <= MaxRing
      BY <2>1, Now, Constants
    <2>3. CASE tr' = tr
      BY <1>0, <2>1, <2>2, <2>3, Now, ReaderStep
    <2>4. CASE tr' = [pc |-> "lookup", ev |-> Head(ring), attrs |-> Nothing]
      <3>1. tr' \in TrState /\ tr'.pc = "lookup" /\ tr'.attrs = Nothing /\ tr'.ev.cg \in Cgroup
        BY <2>2, <2>4, Constants DEF TrState, Event
      <3>2. Own(tr'.ev.cg, tr'.attrs)
        BY <3>1 DEF Own
      <3> QED BY <2>1, <2>2, <3>1, <3>2, Now, ReaderStep
    <2> QED BY <2>1, <2>3, <2>4
  <1>2. CASE TrLookup \/ TrAgain
    <2>1. /\ UNCHANGED <<world, cache, pic, mu, enabled, verify, sy, errors, verdict, ring>>
          /\ tr.pc # "store"
      BY <1>2 DEF TrLookup, TrAgain, kontext
    <2>2. CASE \E v \in Info \ {Nothing} : Own(tr.ev.cg, v) /\ tr' = [tr EXCEPT !.pc = "write", !.attrs = v]
      <3>1. PICK v \in Info \ {Nothing} : Own(tr.ev.cg, v) /\ tr' = [tr EXCEPT !.pc = "write", !.attrs = v]
        BY <2>2
      <3>2. tr' \in TrState /\ tr'.pc = "write" /\ tr'.attrs = v /\ tr'.ev = tr.ev
        BY <1>0, <3>1 DEF TrState
      <3> QED BY <2>1, <3>1, <3>2, Now, ReaderStep
    <2>3. CASE tr' = [tr EXCEPT !.pc = "ensure"]
      <3>1. tr' \in TrState /\ tr'.pc = "ensure" /\ tr'.attrs = tr.attrs /\ tr'.ev = tr.ev
        BY <1>0, <2>3 DEF TrState
      <3> QED BY <1>0, <2>1, <3>1, Now, ReaderStep
    <2>4. Empty \in Info \ {Nothing}
      BY Constants
    <2> QED BY <1>0, <1>2, <2>2, <2>3, <2>4 DEF TrLookup, TrAgain, Go
  <1>3. CASE TrEnsure
    <2>1. UNCHANGED <<world, cache, verdict, enabled, verify, ring, sy>> /\ tr.pc = "ensure"
      BY <1>3 DEF TrEnsure
    <2>2. CASE Go("again") /\ UNCHANGED <<errors, pic, mu>>
      <3>1. tr' \in TrState /\ tr'.pc = "again" /\ tr'.attrs = tr.attrs /\ tr'.ev = tr.ev
        BY <1>0, <2>2 DEF TrState, Go
      <3> QED BY <1>0, <2>1, <2>2, <3>1, Now, ReaderStep
    <2>3. CASE mu = "none" /\ mu' = "tracer" /\ TakePicture("miss") /\ Go("store")
      <3>1. tr' \in TrState /\ tr'.pc = "store" /\ tr'.attrs = tr.attrs /\ tr'.ev = tr.ev
        BY <1>0, <2>3 DEF TrState, Go
      <3>2. /\ errors' \in 0..MaxErrors
            /\ pic' \in [{"loop", "miss"} -> Pictures \cup {NoPicture}] /\ pic'["miss"] # NoPicture
            /\ \A q \in {"loop", "miss"}, g \in Cgroup : pic'[q] # NoPicture => Own(g, pic'[q][g])
        BY <2>1, <2>3, Taken
      <3>3. TypeOK'
        BY <2>1, <2>3, <3>1, <3>2 DEF VInv, TypeOK
      <3>4. LockOK'
        BY <2>3, <3>1 DEF LockOK
      <3>5. PicturesOwn' /\ VerdictsOwn'
        BY <2>1, <3>1, <3>2 DEF VInv, PicturesOwn, VerdictsOwn, Own
      <3> QED BY <3>3, <3>4, <3>5 DEF VInv
    <2> QED BY <1>3, <2>2, <2>3 DEF TrEnsure
  <1>4. CASE TrStore
    <2>1. /\ UNCHANGED <<world, errors, verdict, enabled, verify, ring, sy>> /\ tr.pc = "store"
          /\ StorePicture("miss") /\ mu' = "none" /\ tr' = [tr EXCEPT !.pc = "again"]
      BY <1>4 DEF TrStore, Go
    <2>2. pic["miss"] # NoPicture
      BY <2>1 DEF VInv, TypeOK, LockOK
    <2>3. tr' \in TrState /\ tr'.pc = "again" /\ tr'.attrs = tr.attrs /\ tr'.ev = tr.ev
      BY <1>0, <2>1 DEF TrState
    <2>4. /\ cache' \in Pictures /\ \A g \in Cgroup : Own(g, cache'[g])
          /\ pic' \in [{"loop", "miss"} -> Pictures \cup {NoPicture}] /\ pic'["miss"] = NoPicture
          /\ \A q \in {"loop", "miss"}, g \in Cgroup : pic'[q] # NoPicture => Own(g, pic'[q][g])
      BY <2>1, <2>2, Stored
    <2>5. TypeOK'
      BY <2>1, <2>3, <2>4 DEF VInv, TypeOK
    <2>6. LockOK'
      BY <2>1, <2>3 DEF LockOK
    <2>7. PicturesOwn' /\ VerdictsOwn'
      BY <2>1, <2>3, <2>4 DEF VInv, PicturesOwn, VerdictsOwn, Own
    <2> QED BY <2>5, <2>6, <2>7 DEF VInv
  <1>5. CASE TrWrite
    <2>1. /\ UNCHANGED <<world, cache, pic, mu, enabled, verify, ring, sy>> /\ tr.pc = "write"
          /\ tr' = Reading
      BY <1>5 DEF TrWrite, kontext
    <2>2. tr' \in TrState /\ tr'.pc = "read" /\ Own(tr'.ev.cg, tr'.attrs)
      BY <2>1, Constants DEF Reading, TrState, Own
    <2>3. CASE verdict' = [verdict EXCEPT ![tr.ev.cg] = tr.attrs] /\ UNCHANGED errors
      <3>1. verdict' \in Pictures /\ \A h \in Cgroup : Own(h, verdict'[h])
        BY <1>0, <2>3, Written
      <3> QED BY <2>1, <2>2, <2>3, <3>1, Now, ReaderStep
    <2>4. CASE errors < MaxErrors /\ errors' = errors + 1 /\ UNCHANGED verdict
      <3>1. errors' \in 0..MaxErrors
        BY <2>4, Now, Constants
      <3> QED BY <2>1, <2>2, <2>4, <3>1, Now, ReaderStep
    <2> QED BY <1>5, <2>3, <2>4 DEF TrWrite
  <1> QED BY <1>1, <1>2, <1>3, <1>4, <1>5 DEF TrStep

-----------------------------------------------------------------------------
(* The theorems. *)

\* The inductive invariant of the verdict cache holds whatever the Syncs, syncOnce
\* and resolveFilter find and however they interleave.
THEOREM VerdictsInvariance == Spec => []VInv
  <1>1. Init => VInv
    BY VInvInit
  <1>2. VInv /\ [Next]_vars => VInv'
    <2> SUFFICES ASSUME VInv, [Next]_vars PROVE VInv'
      OBVIOUS
    <2>1. CASE UNCHANGED vars
      BY <2>1 DEF vars, VInv, TypeOK, LockOK, PicturesOwn, VerdictsOwn, Own
    <2>2. CASE Next
      BY <2>2, ContainerStep, KontextStep, SyncOnceStep, KernelStep, TracerStep DEF Next
    <2> QED BY <2>1, <2>2
  <1> QED BY <1>1, <1>2, PTL DEF Spec

\* Every variable keeps its type; syncMu is held for exactly the time of a Sync by a
\* miss, and resolveFilter never writes a verdict of unknown attributes.
THEOREM VerdictsTypeCorrect == Spec => []TypeOK
  <1>1. VInv => TypeOK
    BY DEF VInv
  <1> QED BY <1>1, VerdictsInvariance, PTL

\* The kernel filters an event by the attributes of its own cgroup's container or by
\* empty ones, never by another's or by ones no container had yet.
THEOREM VerdictsAreOwn == Spec => []VerdictsOwn
  <1>1. VInv => VerdictsOwn
    BY DEF VInv
  <1> QED BY <1>1, VerdictsInvariance, PTL

-----------------------------------------------------------------------------
(* What is right stays right. *)

\* A step without failure of the runtime, while containers rest.
Restful == world' = world /\ (errors' = errors \/ pic' = pic)

\* The right picture does not change.
LEMMA SamePicture ==
    ASSUME world' = world
    PROVE  /\ Picture(TRUE)' = Picture(TRUE)
           /\ \A g \in Cgroup : Right(g)' = Right(g)
           /\ \A e \in Event : SettledEvent(e)' <=> SettledEvent(e)
  <1>1. Picture(TRUE)' = Picture(TRUE)
    BY DEF Picture
  <1>2. \A g \in Cgroup : Right(g)' = Right(g)
    BY <1>1 DEF Right
  <1>3. \A e \in Event : SettledEvent(e)' <=> SettledEvent(e)
    BY <1>2 DEF SettledEvent, Event
  <1> QED BY <1>1, <1>2, <1>3

\* The right picture is a picture, with attributes wherever Right has them.
LEMMA RightPicture ==
    /\ Picture(TRUE) \in Pictures /\ Picture(TRUE) # NoPicture
    /\ \A g \in Cgroup : Right(g) \in Attrs
    /\ \A g \in Cgroup : Right(g) = IF Picture(TRUE)[g] = Nothing THEN Empty ELSE Picture(TRUE)[g]
  <1>1. Picture(TRUE) \in [Cgroup -> Info]
    BY Constants DEF Picture
  <1>2. Picture(TRUE) # NoPicture
    BY <1>1, PicturesArePictures DEF Pictures
  <1>3. \A g \in Cgroup : Right(g) \in Attrs
    BY <1>1, Constants DEF Right
  <1> QED BY <1>1, <1>2, <1>3 DEF Pictures, Right

\* A Sync takes a right picture.
LEMMA RightTaken ==
    ASSUME VInv, Settled, Restful, NEW p \in {"loop", "miss"}, TakePicture(p)
    PROVE  \A q \in {"loop", "miss"} : pic'[q] \in {NoPicture, Picture(TRUE)}
  <1>1. pic \in [{"loop", "miss"} -> Pictures \cup {NoPicture}] /\ errors \in Nat
    BY Constants DEF VInv, TypeOK
  <1>2. CASE pic' = [pic EXCEPT ![p] = Picture(TRUE)]
    BY <1>1, <1>2 DEF Settled
  <1>3. CASE pic' = pic
    BY <1>3 DEF Settled
  <1>4. CASE errors' = errors + 1
    <2>1. errors' # errors
      BY <1>1, <1>4
    <2> QED BY <1>3, <2>1 DEF Restful
  <1> QED BY <1>2, <1>4 DEF TakePicture

\* A Sync stores a right picture.
LEMMA RightStored ==
    ASSUME VInv, Settled, NEW p \in {"loop", "miss"}, pic[p] # NoPicture, StorePicture(p)
    PROVE  cache' = Picture(TRUE) /\ \A q \in {"loop", "miss"} : pic'[q] \in {NoPicture, Picture(TRUE)}
  <1>1. pic \in [{"loop", "miss"} -> Pictures \cup {NoPicture}]
    BY DEF VInv, TypeOK
  <1>2. cache' = pic[p] /\ pic' = [pic EXCEPT ![p] = NoPicture]
    BY DEF StorePicture
  <1> QED BY <1>1, <1>2 DEF Settled

\* From the parts of the state to the whole, while containers rest.
LEMMA SettledParts ==
    ASSUME VInv, VInv', Settled, world' = world,
           cache' = Picture(TRUE),
           \A p \in {"loop", "miss"} : pic'[p] \in {NoPicture, Picture(TRUE)},
           sy'.pc \in {"update", "delete"} => sy'.snap = Picture(TRUE),
           \A g \in Cgroup : verdict'[g] \in {Nothing, Right(g)},
           \A i \in 1..Len(ring') : SettledEvent(ring'[i]),
           SettledEvent(tr'.ev),
           tr'.pc = "write" => tr'.attrs = Right(tr'.ev.cg)
    PROVE  Settled'
  <1>1. ring' \in Seq(Event) /\ tr' \in TrState /\ tr'.ev \in Event /\ tr'.ev.cg \in Cgroup
    BY DEF VInv, TypeOK, TrState, Event
  <1>2. \A i \in 1..Len(ring') : ring'[i] \in Event
    BY <1>1
  <1>3. \A i \in 1..Len(ring') : SettledEvent(ring[i])'
    BY <1>2, SamePicture
  <1> QED BY <1>1, <1>3, SamePicture DEF Settled

\* What Settled says of each part of the state.
LEMMA SettledNow ==
    ASSUME VInv, Settled
    PROVE  /\ cache = Picture(TRUE)
           /\ \A p \in {"loop", "miss"} : pic[p] \in {NoPicture, Picture(TRUE)}
           /\ sy.pc \in {"update", "delete"} => sy.snap = Picture(TRUE)
           /\ \A g \in Cgroup : verdict[g] \in {Nothing, Right(g)}
           /\ \A i \in 1..Len(ring) : SettledEvent(ring[i])
           /\ SettledEvent(tr.ev)
           /\ tr.pc = "write" => tr.attrs = Right(tr.ev.cg)
  BY DEF Settled

\* A right verdict is written, or an entry deleted or evicted.
LEMMA RightWritten ==
    ASSUME VInv, Settled, NEW g \in Cgroup, NEW v \in {Nothing, Right(g)},
           verdict' = [verdict EXCEPT ![g] = v]
    PROVE  \A h \in Cgroup : verdict'[h] \in {Nothing, Right(h)}
  <1>1. verdict \in [Cgroup -> Info]
    BY Now DEF Pictures
  <1>2. verdict'[g] = v /\ \A h \in Cgroup : h # g => verdict'[h] = verdict[h]
    BY <1>1
  <1> QED BY <1>2, SettledNow

\* The Syncs of kontext's loop and of the consumer.
LEMMA SettledKontext ==
    ASSUME VInv, VInv', Settled, Restful, LoopSync \/ ConsumerSync
    PROVE  Settled'
  <1>0. world' = world /\ UNCHANGED <<verdict, ring, sy, tr>>
    BY DEF LoopSync, ConsumerSync
  <1>1. cache' = Picture(TRUE) /\ \A p \in {"loop", "miss"} : pic'[p] \in {NoPicture, Picture(TRUE)}
    <2>1. ASSUME NEW p \in {"loop", "miss"}, TakePicture(p), UNCHANGED cache
          PROVE  <1>1
      BY <2>1, RightTaken, SettledNow
    <2>2. ASSUME NEW p \in {"loop", "miss"}, pic[p] # NoPicture, StorePicture(p)
          PROVE  <1>1
      BY <2>2, RightStored
    <2>3. mu = "consumer" => pic["miss"] # NoPicture
      BY DEF VInv, TypeOK
    <2> QED BY <2>1, <2>2, <2>3 DEF LoopSync, ConsumerSync
  <1> QED BY <1>0, <1>1, SettledNow, SettledParts

\* A pass of syncOnce.
LEMMA SettledSyncOnce ==
    ASSUME VInv, VInv', Settled, SyncSnapshot \/ SyncStep
    PROVE  Settled'
  <1>0. world' = world /\ UNCHANGED <<cache, pic, ring, tr>>
    BY DEF SyncSnapshot, SyncStep, SyncUpdate, SyncUpdated, SyncVisit, SyncDone, syncing, kontext
  <1>1. sy'.pc \in {"update", "delete"} => sy'.snap = Picture(TRUE)
    <2>1. sy \in SyState /\ cache = Picture(TRUE) /\ (sy.pc \in {"update", "delete"} => sy.snap = Picture(TRUE))
      BY Now, SettledNow
    <2>2. CASE SyncSnapshot
      BY <2>1, <2>2 DEF SyncSnapshot
    <2>3. CASE SyncUpdate
      <3>1. CASE sy' = SyncIdle("idle")
        BY <3>1 DEF SyncIdle
      <3>2. CASE sy.pc = "update" /\ \E g \in sy.todo : sy' = [sy EXCEPT !.todo = @ \ {g}]
        BY <2>1, <3>2 DEF SyState
      <3> QED BY <2>3, <3>1, <3>2 DEF SyncUpdate
    <2>4. CASE SyncUpdated
      BY <2>1, <2>4 DEF SyncUpdated, SyState
    <2>5. CASE SyncVisit
      BY <2>1, <2>5 DEF SyncVisit, SyState
    <2>6. CASE SyncDone
      BY <2>6 DEF SyncDone, SyncIdle
    <2> QED BY <2>2, <2>3, <2>4, <2>5, <2>6 DEF SyncStep
  <1>2. \A g \in Cgroup : verdict'[g] \in {Nothing, Right(g)}
    <2>1. CASE UNCHANGED verdict
      BY <2>1, SettledNow
    <2>2. ASSUME NEW g \in sy.todo, sy.pc = "update", verdict' = [verdict EXCEPT ![g] = sy.snap[g]]
          PROVE  <1>2
      <3>1. g \in Cgroup /\ sy.snap[g] \in {Nothing, Right(g)}
        BY <2>2, SettledNow, RightPicture, Fields DEF VInv
      <3> QED BY <2>2, <3>1, RightWritten
    <2>3. ASSUME NEW g \in sy.todo, verdict' = [verdict EXCEPT ![g] = Nothing]
          PROVE  <1>2
      <3>1. g \in Cgroup
        BY Fields DEF VInv
      <3> QED BY <2>3, <3>1, RightWritten
    <2> QED BY <2>1, <2>2, <2>3
            DEF SyncSnapshot, SyncStep, SyncUpdate, SyncUpdated, SyncVisit, SyncDone
  <1> QED BY <1>0, <1>1, <1>2, SettledNow, SettledParts

\* The switch, the LRU and the kernel's decision.
LEMMA SettledKernel ==
    ASSUME VInv, VInv', Settled, Enable \/ \E g \in Cgroup : Evict(g) \/ Emit(g)
    PROVE  Settled'
  <1>0. world' = world /\ UNCHANGED <<cache, pic, sy, tr>>
    BY DEF Enable, Evict, Emit, kontext
  <1>1. CASE Enable
    <2>1. UNCHANGED <<verdict, ring>>
      BY <1>1 DEF Enable
    <2> QED BY <1>0, <2>1, SettledNow, SettledParts
  <1>2. ASSUME NEW g \in Cgroup, Evict(g)
        PROVE  Settled'
    <2>1. verdict' = [verdict EXCEPT ![g] = Nothing] /\ UNCHANGED ring
      BY <1>2 DEF Evict
    <2>2. \A h \in Cgroup : verdict'[h] \in {Nothing, Right(h)}
      BY <2>1, RightWritten
    <2> QED BY <1>0, <2>1, <2>2, SettledNow, SettledParts
  <1>3. ASSUME NEW g \in Cgroup, Emit(g)
        PROVE  Settled'
    <2>1. PICK dec : /\ dec = Undecided \/ (verdict[g] # Nothing /\ dec = Match[verdict[g]])
                     /\ ring' = Append(ring, [cg |-> g, dec |-> dec])
                     /\ UNCHANGED verdict
      BY <1>3 DEF Emit
    <2>2. dec \in {Undecided, Match[Right(g)]}
      BY <2>1, SettledNow
    <2>3. SettledEvent([cg |-> g, dec |-> dec])
      BY <2>2 DEF SettledEvent
    <2>4. /\ ring \in Seq(Event) /\ Len(ring') = Len(ring) + 1
          /\ ring'[Len(ring) + 1] = [cg |-> g, dec |-> dec]
          /\ \A i \in 1..Len(ring) : ring'[i] = ring[i]
      BY <2>1, Now
    <2>5. \A i \in 1..Len(ring') : SettledEvent(ring'[i])
      <3>1. \A i \in 1..Len(ring') : i \in 1..Len(ring) \/ i = Len(ring) + 1
        BY <2>4
      <3> QED BY <2>3, <2>4, <3>1, SettledNow
    <2> QED BY <1>0, <2>1, <2>5, SettledNow, SettledParts
  <1> QED BY <1>1, <1>2, <1>3

\* The read loop: it looks up, syncs and writes what is right.
LEMMA SettledTracer ==
    ASSUME VInv, VInv', Settled, Restful, TrStep
    PROVE  Settled'
  <1>0. /\ world' = world /\ UNCHANGED sy
        /\ tr \in TrState /\ tr.ev \in Event /\ tr.ev.cg \in Cgroup
    BY Fields, Now DEF TrStep, TrRead, TrLookup, TrEnsure, TrStore, TrAgain, TrWrite, VInv
  <1>1. CASE TrRead
    <2>1. /\ UNCHANGED <<cache, pic, verdict>> /\ ring # << >> /\ ring' = Tail(ring) /\ tr.pc = "read"
          /\ tr' = tr \/ tr' = [pc |-> "lookup", ev |-> Head(ring), attrs |-> Nothing]
      BY <1>1 DEF TrRead, kontext
    <2>2. /\ Len(ring) > 0 /\ Head(ring) = ring[1] /\ Len(ring') = Len(ring) - 1
          /\ \A i \in 1..Len(ring') : ring'[i] = ring[i + 1]
      BY <2>1, Now
    <2>3. Len(ring) \in Nat
      BY Now
    <2>4. SettledEvent(Head(ring)) /\ \A i \in 1..Len(ring') : SettledEvent(ring'[i])
      <3>1. 1 \in 1..Len(ring) /\ \A i \in 1..Len(ring') : i + 1 \in 1..Len(ring)
        BY <2>2, <2>3
      <3> QED BY <2>2, <3>1, SettledNow
    <2>5. SettledEvent(tr'.ev) /\ tr'.pc # "write"
      BY <2>1, <2>4, SettledNow
    <2> QED BY <1>0, <2>1, <2>4, <2>5, SettledNow, SettledParts
  <1>2. CASE TrLookup \/ TrAgain
    <2>1. UNCHANGED <<cache, pic, verdict, ring>>
      BY <1>2 DEF TrLookup, TrAgain, kontext
    <2>2. Right(tr.ev.cg) = IF cache[tr.ev.cg] = Nothing THEN Empty ELSE cache[tr.ev.cg]
      BY <1>0, SettledNow, RightPicture
    <2>3. tr'.ev = tr.ev /\ (tr'.pc = "write" => tr'.attrs = Right(tr.ev.cg))
      BY <1>0, <1>2, <2>2 DEF TrLookup, TrAgain, Go, TrState
    <2> QED BY <1>0, <2>1, <2>3, SettledNow, SettledParts
  <1>3. CASE TrEnsure
    <2>1. UNCHANGED <<cache, verdict, ring>> /\ tr'.ev = tr.ev /\ tr'.pc # "write"
      BY <1>0, <1>3 DEF TrEnsure, Go, TrState
    <2>2. \A p \in {"loop", "miss"} : pic'[p] \in {NoPicture, Picture(TRUE)}
      <3>1. CASE UNCHANGED pic
        BY <3>1, SettledNow
      <3>2. CASE TakePicture("miss")
        BY <3>2, RightTaken
      <3> QED BY <1>3, <3>1, <3>2 DEF TrEnsure
    <2> QED BY <1>0, <2>1, <2>2, SettledNow, SettledParts
  <1>4. CASE TrStore
    <2>1. UNCHANGED <<verdict, ring>> /\ tr'.ev = tr.ev /\ tr'.pc # "write" /\ StorePicture("miss")
      BY <1>0, <1>4 DEF TrStore, Go, TrState
    <2>2. pic["miss"] # NoPicture
      BY <1>4 DEF TrStore, VInv, TypeOK, LockOK
    <2> QED BY <1>0, <2>1, <2>2, RightStored, SettledNow, SettledParts
  <1>5. CASE TrWrite
    <2>1. UNCHANGED <<cache, pic, ring>> /\ tr.pc = "write" /\ tr'.pc = "read" /\ tr'.ev = NoEvent
      BY <1>5 DEF TrWrite, kontext, Reading
    <2>2. SettledEvent(NoEvent)
      BY DEF SettledEvent, NoEvent
    <2>3. \A g \in Cgroup : verdict'[g] \in {Nothing, Right(g)}
      <3>1. CASE UNCHANGED verdict
        BY <3>1, SettledNow
      <3>2. CASE verdict' = [verdict EXCEPT ![tr.ev.cg] = tr.attrs]
        BY <1>0, <2>1, <3>2, SettledNow, RightWritten
      <3> QED BY <1>5, <3>1, <3>2 DEF TrWrite
    <2> QED BY <1>0, <2>1, <2>2, <2>3, SettledNow, SettledParts
  <1> QED BY <1>1, <1>2, <1>3, <1>4, <1>5 DEF TrStep

\* Once the cache, the pictures and the snapshot under way, the verdicts, the events
\* in the ring and the one in hand are right, every step keeps them so, but for a
\* container that changes and a Sync the runtime does not answer: a late Sync, an old
\* snapshot, an eviction, a failed write or a miss cannot spoil them.
THEOREM RightStaysRight == Spec => SettledStays
  <1>1. VInv /\ VInv' /\ [Next]_vars =>
            [Settled /\ world' = world /\ (errors' = errors \/ pic' = pic) => Settled']_vars
    <2> SUFFICES ASSUME VInv, VInv', Next, Settled, Restful
                 PROVE  Settled'
      BY DEF Restful
    <2>1. CASE \E g \in Cgroup : ContainerChanges(g)
      <3>1. UNCHANGED <<cache, pic, verdict, ring, sy, tr>> /\ world' = world
        BY <2>1 DEF ContainerChanges, kontext, Restful
      <3> QED BY <3>1, SettledNow, SettledParts
    <2> QED BY <2>1, SettledKontext, SettledSyncOnce, SettledKernel, SettledTracer DEF Next
  <1> QED BY <1>1, VerdictsInvariance, PTL DEF Spec, SettledStays
=============================================================================
