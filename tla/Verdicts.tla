------------------------------ MODULE Verdicts ------------------------------
(***************************************************************************)
(* The cgroup verdicts: from containers through kontext's cache into the   *)
(* kernel's ko_cgroup_verdict map, and from there into the decision of an  *)
(* event.                                                                  *)
(*                                                                         *)
(* Two goroutines write the map: syncOnce, every 30 seconds, copies a      *)
(* snapshot of the cache and deletes every other entry; resolveFilter      *)
(* writes what it found for the cgroup of an event the kernel could not    *)
(* decide, or one it verifies.  The map is an LRU hash and may lose an     *)
(* entry at any time.  The cache is replaced by Syncs, whose pictures of   *)
(* the node may be old when they are stored; Kontext has the steps within  *)
(* a Sync, here it takes its picture and stores it.                        *)
(*                                                                         *)
(* A verdict is named by the attributes it was computed from; that its     *)
(* bits are right for these is FilterCompile's concern, and FilterWalk's   *)
(* that the kernel uses them right.  Match is what the filters then make   *)
(* of an event.                                                            *)
(***************************************************************************)
EXTENDS Integers, Sequences

CONSTANTS
    Cgroup,         \* cgroup ids
    AttrsOf,        \* the attributes of the container in a cgroup
    Match,          \* the filter an event with given attributes is attributed to
    Worlds,         \* what the agent finds when it starts
    MaxErrors,      \* bound: failed calls of the runtime and of the map
    MaxRing         \* bound: events not yet read

State == {"none", "created", "running", "exited", "removed"}
Nothing == -1       \* no container, no entry, no filter
Empty == 0          \* empty attributes
Attrs == {Empty} \cup {AttrsOf[g] : g \in Cgroup}
Info == Attrs \cup {Nothing}

ASSUME VerdictsAssumption ==
    /\ Cgroup # {}
    /\ AttrsOf \in [Cgroup -> Nat \ {Empty}]
    /\ Match \in [Attrs -> Nat \cup {Nothing}]
    /\ Worlds \subseteq [Cgroup -> State]
    /\ MaxErrors \in Nat /\ MaxRing \in Nat \ {0}

VARIABLES
    world,      \* the container of each cgroup
    errors,     \* failed calls so far
    cache,      \* Client.byCgroup: attributes, or Nothing
    pic,        \* the pictures that Syncs of the loop, and of a miss, will store
    mu,         \* Client.syncMu: its holder, or "none"
    verdict,    \* ko_cgroup_verdict: attributes, or Nothing
    enabled,    \* ko_filter_cfg
    verify,     \* the verify option
    ring,       \* events decided by the kernel, or left undecided
    sy,         \* syncOnce, called by startFilters first and then by syncVerdicts
    tr          \* the read loop of Tracer.Run with resolveFilter

kontext == <<cache, pic, mu>>
vars == <<world, errors, cache, pic, mu, verdict, enabled, verify, ring, sy, tr>>

Pictures == [Cgroup -> Info]
NoPicture == << >>
NoInfo == [g \in Cgroup |-> Nothing]
Undecided == -2

NoEvent == [cg |-> CHOOSE g \in Cgroup : TRUE, dec |-> Undecided]
Event == [cg : Cgroup, dec : Nat \cup {Undecided}]

SyState == [pc : {"start", "update", "delete", "idle"}, snap : Pictures, todo : SUBSET Cgroup]
TrState == [pc : {"read", "lookup", "ensure", "store", "again", "write"}, ev : Event, attrs : Info]

TypeOK ==
    /\ world \in [Cgroup -> State]
    /\ errors \in 0..MaxErrors
    /\ cache \in Pictures
    /\ pic \in [{"loop", "miss"} -> Pictures \cup {NoPicture}]
    /\ mu \in {"none", "tracer", "consumer"}
    /\ verdict \in Pictures
    /\ enabled \in BOOLEAN /\ verify \in BOOLEAN
    /\ ring \in Seq(Event) /\ Len(ring) <= MaxRing
    /\ sy \in SyState /\ tr \in TrState
    \* The lock is held for the time of a Sync; what is written are attributes.
    /\ mu # "none" <=> pic["miss"] # NoPicture
    /\ tr.pc = "write" => tr.attrs # Nothing

SyncIdle(pc) == [pc |-> pc, snap |-> NoInfo, todo |-> {}]
Reading == [pc |-> "read", ev |-> NoEvent, attrs |-> Nothing]

Init ==
    /\ world \in Worlds /\ errors = 0
    /\ cache = NoInfo
    /\ pic = [p \in {"loop", "miss"} |-> NoPicture] /\ mu = "none"
    /\ verdict = NoInfo
    /\ enabled = FALSE /\ verify \in BOOLEAN
    /\ ring = << >>
    /\ sy = SyncIdle("start")
    /\ tr = Reading

-----------------------------------------------------------------------------
(* The node: the runtime lists a container from when it runs until it exits; *)
(* its cgroup is there before and after.                                     *)

Lifecycle == {<< "none", "created" >>, << "created", "running" >>, << "running", "exited" >>, << "exited", "removed" >>}

ContainerChanges(g) ==
    /\ \E e \in Lifecycle : world[g] = e[1] /\ world' = [world EXCEPT ![g] = e[2]]
    /\ UNCHANGED <<errors, kontext, verdict, enabled, verify, ring, sy, tr>>

\* Mutation of Picture: the runtime is asked for containers in any state.
PictureOfAll(answers) ==
    [g \in Cgroup |-> CASE world[g] \in {"none", "removed"} -> Nothing
                        [] world[g] \notin {"none", "removed"} /\ answers -> AttrsOf[g]
                        [] OTHER -> Empty]

\* What a Sync stores: every cgroup with a container, with the attributes of those
\* the runtime lists; without any when the runtime does not answer.
Picture(answers) ==
    [g \in Cgroup |-> CASE world[g] \in {"none", "removed"} -> Nothing
                        [] world[g] = "running" /\ answers -> AttrsOf[g]
                        [] OTHER -> Empty]

-----------------------------------------------------------------------------
(* kontext. *)

TakePicture(p) ==
    \/ pic' = [pic EXCEPT ![p] = Picture(TRUE)] /\ UNCHANGED errors
    \/ errors < MaxErrors /\ errors' = errors + 1 /\ pic' = [pic EXCEPT ![p] = Picture(FALSE)]

\* Mutation of StorePicture: what is gone stays in the cache.
StorePictureMerges(p) ==
    /\ cache' = [g \in Cgroup |-> IF pic[p][g] = Nothing THEN cache[g] ELSE pic[p][g]]
    /\ pic' = [pic EXCEPT ![p] = NoPicture]

StorePicture(p) == cache' = pic[p] /\ pic' = [pic EXCEPT ![p] = NoPicture]

LoopSync ==
    /\ \/ pic["loop"] = NoPicture /\ TakePicture("loop") /\ UNCHANGED cache
       \/ pic["loop"] # NoPicture /\ StorePicture("loop") /\ UNCHANGED errors
    /\ UNCHANGED <<world, mu, verdict, enabled, verify, ring, sy, tr>>

\* The event consumer misses too, and syncs under the lock.  Its events come from
\* the read loop, which runs after startFilters.
ConsumerSync ==
    /\ enabled
    /\ \/ mu = "none" /\ TakePicture("miss") /\ mu' = "consumer" /\ UNCHANGED cache
       \/ mu = "consumer" /\ StorePicture("miss") /\ mu' = "none" /\ UNCHANGED errors
    /\ UNCHANGED <<world, verdict, enabled, verify, ring, sy, tr>>

-----------------------------------------------------------------------------
(* syncOnce and startFilters. *)

syncing == <<world, kontext, enabled, verify, ring, tr>>

\* startFilters calls it once before the switch is thrown, the ticker from then on
\* (it is started before the switch, and its first tick is taken to come after it).
SyncSnapshot ==
    /\ sy.pc = "start" \/ (sy.pc = "idle" /\ enabled)
    /\ sy' = [pc |-> "update", snap |-> cache, todo |-> {g \in Cgroup : cache[g] # Nothing}]
    /\ UNCHANGED <<syncing, errors, verdict>>

\* A failed update ends the pass.
SyncUpdate ==
    /\ sy.pc = "update" /\ sy.todo # {}
    /\ \/ \E g \in sy.todo :
             /\ verdict' = [verdict EXCEPT ![g] = sy.snap[g]]
             /\ sy' = [sy EXCEPT !.todo = @ \ {g}]
             /\ UNCHANGED errors
       \/ /\ errors < MaxErrors /\ errors' = errors + 1
          /\ sy' = SyncIdle("idle")
          /\ UNCHANGED verdict
    /\ UNCHANGED syncing

SyncUpdated ==
    /\ sy.pc = "update" /\ sy.todo = {}
    /\ sy' = [sy EXCEPT !.pc = "delete", !.todo = Cgroup]
    /\ UNCHANGED <<syncing, errors, verdict>>

\* Mutation of SyncVisit: the entries of containers that are gone stay.
SyncVisitKeeps ==
    /\ sy.pc = "delete"
    /\ \E g \in sy.todo : sy' = [sy EXCEPT !.todo = @ \ {g}]
    /\ UNCHANGED <<syncing, errors, verdict>>

\* The iterator comes by every key that stays in the map; those that are not in the
\* snapshot are deleted.
SyncVisit ==
    /\ sy.pc = "delete"
    /\ \E g \in sy.todo :
          /\ sy' = [sy EXCEPT !.todo = @ \ {g}]
          /\ verdict' = IF sy.snap[g] = Nothing THEN [verdict EXCEPT ![g] = Nothing] ELSE verdict
    /\ UNCHANGED <<syncing, errors>>

SyncDone ==
    /\ sy.pc = "delete" /\ sy.todo = {}
    /\ sy' = SyncIdle("idle")
    /\ UNCHANGED <<syncing, errors, verdict>>

\* startFilters: the switch is thrown after the first pass.
Enable ==
    /\ ~enabled /\ sy.pc = "idle"
    /\ enabled' = TRUE
    /\ UNCHANGED <<world, errors, kontext, verdict, verify, ring, sy, tr>>

-----------------------------------------------------------------------------
(* The kernel. *)

Evict(g) ==
    /\ verdict[g] # Nothing
    /\ verdict' = [verdict EXCEPT ![g] = Nothing]
    /\ UNCHANGED <<world, errors, kontext, enabled, verify, ring, sy, tr>>

\* An event of cgroup g is left to Go until filters are enabled and while there is
\* no entry; otherwise the entry decides it, and it may be dropped here.
Emit(g) ==
    /\ Len(ring) < MaxRing
    /\ LET undecided == ~enabled \/ verdict[g] = Nothing
           dec == IF undecided THEN Undecided ELSE Match[verdict[g]]
       IN  /\ dec # Nothing
           /\ ring' = Append(ring, [cg |-> g, dec |-> dec])
    /\ UNCHANGED <<world, errors, kontext, verdict, enabled, verify, sy, tr>>

-----------------------------------------------------------------------------
(* The read loop and resolveFilter. *)

Go(pc) == tr' = [tr EXCEPT !.pc = pc]

\* A decided event is passed on, and looked at again only to verify it.
TrRead ==
    /\ enabled /\ tr.pc = "read" /\ ring # << >>
    /\ ring' = Tail(ring)
    /\ tr' = IF Head(ring).dec = Undecided \/ verify
             THEN [pc |-> "lookup", ev |-> Head(ring), attrs |-> Nothing] ELSE tr
    /\ UNCHANGED <<world, errors, kontext, verdict, enabled, verify, sy>>

TrLookup ==
    /\ tr.pc = "lookup"
    /\ \/ cache[tr.ev.cg] # Nothing /\ tr' = [tr EXCEPT !.pc = "write", !.attrs = cache[tr.ev.cg]]
       \/ cache[tr.ev.cg] = Nothing /\ Go("ensure")
    /\ UNCHANGED <<world, errors, kontext, verdict, enabled, verify, ring, sy>>

\* ensureSynced: a Sync unless there was one within minSyncInterval.
TrEnsure ==
    /\ tr.pc = "ensure"
    /\ \/ Go("again") /\ UNCHANGED <<errors, pic, mu>>
       \/ mu = "none" /\ mu' = "tracer" /\ TakePicture("miss") /\ Go("store")
    /\ UNCHANGED <<world, cache, verdict, enabled, verify, ring, sy>>

TrStore ==
    /\ tr.pc = "store"
    /\ StorePicture("miss") /\ mu' = "none"
    /\ Go("again")
    /\ UNCHANGED <<world, errors, verdict, enabled, verify, ring, sy>>

\* Mutation of TrAgain: what is not found has no known attributes, and is written so.
TrAgainUnknown ==
    /\ tr.pc = "again"
    /\ tr' = [tr EXCEPT !.pc = "write", !.attrs = cache[tr.ev.cg]]
    /\ UNCHANGED <<world, errors, kontext, verdict, enabled, verify, ring, sy>>

\* Mutation of TrAgain: the cache is not looked at again.
TrAgainEmpty ==
    /\ tr.pc = "again"
    /\ tr' = [tr EXCEPT !.pc = "write", !.attrs = Empty]
    /\ UNCHANGED <<world, errors, kontext, verdict, enabled, verify, ring, sy>>

\* A cgroup that is not found has empty attributes, known to be such.
TrAgain ==
    /\ tr.pc = "again"
    /\ tr' = [tr EXCEPT !.pc = "write", !.attrs = IF cache[tr.ev.cg] = Nothing THEN Empty ELSE cache[tr.ev.cg]]
    /\ UNCHANGED <<world, errors, kontext, verdict, enabled, verify, ring, sy>>

\* The event is evaluated, and the verdict written; an error is logged.
TrWrite ==
    /\ tr.pc = "write"
    /\ \/ verdict' = [verdict EXCEPT ![tr.ev.cg] = tr.attrs] /\ UNCHANGED errors
       \/ errors < MaxErrors /\ errors' = errors + 1 /\ UNCHANGED verdict
    /\ tr' = Reading
    /\ UNCHANGED <<world, kontext, enabled, verify, ring, sy>>

-----------------------------------------------------------------------------

SyncStep == SyncUpdate \/ SyncUpdated \/ SyncVisit \/ SyncDone
TrStep == TrRead \/ TrLookup \/ TrEnsure \/ TrStore \/ TrAgain \/ TrWrite

Next ==
    \/ \E g \in Cgroup : ContainerChanges(g) \/ Evict(g) \/ Emit(g)
    \/ LoopSync \/ ConsumerSync
    \/ SyncSnapshot \/ SyncStep \/ Enable
    \/ TrStep

\* The tickers tick and the scheduler runs every goroutine.  Nothing makes events
\* arrive, containers change, entries be evicted or the consumer miss; who holds
\* the lock comes to release it.
Fairness ==
    /\ WF_vars(LoopSync)
    /\ WF_vars(ConsumerSync /\ mu = "consumer")
    /\ WF_vars(SyncSnapshot) /\ WF_vars(SyncStep) /\ WF_vars(Enable)
    /\ WF_vars(TrStep)

Spec == Init /\ [][Next]_vars /\ Fairness

-----------------------------------------------------------------------------
(* Properties. *)

\* An entry that is not empty has the attributes of its own cgroup's container, and
\* of one that has been running: however old the picture, the snapshot or the answer
\* it was made from, the kernel never filters by what no container there ever was.
Own(g, v) ==
    v \in {Nothing, Empty} \/ (v = AttrsOf[g] /\ world[g] \in {"running", "exited", "removed"})
VerdictsOwn == \A g \in Cgroup : Own(g, verdict[g])

\* The attributes of cgroup g as the code would have them now.
Right(g) == IF Picture(TRUE)[g] = Nothing THEN Empty ELSE Picture(TRUE)[g]

\* resolveFilter has an outcome for the event in hand.
Resolves == tr.pc = "write" /\ tr'.pc = "read"

\* Whatever old snapshot overwrote or deleted a newer verdict, and whatever miss
\* left the verdict of empty attributes behind: once containers rest, every entry
\* becomes right and stays so, and the kernel drops and attributes by right entries.
VerdictsConverge == <>[](\A g \in Cgroup : verdict[g] \in {Nothing, Right(g)})

\* Likewise the events: from some time on each one that Go resolves is attributed as
\* its cgroup's container says, and each one that the kernel decided agrees with it.
DecisionsConverge ==
    <>[][Resolves => /\ Match[tr.attrs] = Match[Right(tr.ev.cg)]
                     /\ tr.ev.dec \in {Undecided, Match[tr.attrs]}]_vars

\* Everything that is known of containers, or on its way to be written, is right.
SettledEvent(e) == e.dec \in {Undecided, Match[Right(e.cg)]}
Settled ==
    /\ cache = Picture(TRUE)
    /\ \A p \in {"loop", "miss"} : pic[p] \in {NoPicture, Picture(TRUE)}
    /\ sy.pc \in {"update", "delete"} => sy.snap = Picture(TRUE)
    /\ \A g \in Cgroup : verdict[g] \in {Nothing, Right(g)}
    /\ \A i \in 1..Len(ring) : SettledEvent(ring[i])
    /\ SettledEvent(tr.ev)
    /\ tr.pc = "write" => tr.attrs = Right(tr.ev.cg)

\* Nothing the agent does by itself, in whatever order, spoils what is right: only a
\* container that changes does, or a Sync that the runtime does not answer.  A failed
\* map update, an eviction and a miss within minSyncInterval do not.
SettledStays ==
    [][Settled /\ world' = world /\ (errors' = errors \/ pic' = pic) => Settled']_vars

\* "Setting verify: true re-evaluates every eBPF-decided event in userspace and
\* counts disagreements on ko_filter_verify_mismatches_total, which must stay zero."
VerifyAgrees == [][Resolves => tr.ev.dec \in {Undecided, Match[tr.attrs]}]_vars

-----------------------------------------------------------------------------
(* The inductive invariant behind VerdictsOwn. *)

\* The tracer is in a Sync exactly while it holds the lock.
LockOK == mu = "tracer" <=> tr.pc = "store"

\* Whatever may come to be written is as good as what is in the map.
PicturesOwn ==
    /\ \A g \in Cgroup : Own(g, cache[g]) /\ Own(g, sy.snap[g])
    /\ \A p \in {"loop", "miss"}, g \in Cgroup : pic[p] # NoPicture => Own(g, pic[p][g])
    /\ Own(tr.ev.cg, tr.attrs)

VInv == TypeOK /\ LockOK /\ PicturesOwn /\ VerdictsOwn
=============================================================================
