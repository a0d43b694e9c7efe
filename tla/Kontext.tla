------------------------------ MODULE Kontext ------------------------------
(***************************************************************************)
(* pkg/kontext: the cache from cgroup ids to containers.                   *)
(*                                                                         *)
(* A Sync walks the cgroup filesystem, asks the container runtime for the  *)
(* running containers, joins the two by container id and replaces the      *)
(* cache.  Three goroutines run Syncs: the resync loop of Run, which takes *)
(* no lock, and the two callers of GetContainerInfo (the tracer's filter   *)
(* and the event consumer), whose misses are serialised by syncMu and      *)
(* limited to one in minSyncInterval.  Everything between two accesses to  *)
(* shared state or to the clock may interleave with the others, with       *)
(* containers that come and go and with time.                              *)
(*                                                                         *)
(* A container is a number, which stands for its id and for the labels the *)
(* runtime reports; a cgroup id may be reused by a later container.  The   *)
(* clock is taken to be monotonic.                                         *)
(***************************************************************************)
EXTENDS Naturals

CONSTANTS
    Cgroup,         \* cgroup ids, as the kernel reports them: inode numbers
    KeyBits,        \* bits of an inode number that walkCgroups keeps (32)
    Caller,         \* goroutines that call GetContainerInfo
    MinSync,        \* minSyncInterval
    MaxCont,        \* bound: containers ever created
    MaxErrors,      \* bound: failed answers of the runtime
    MaxTime         \* bound: clock

ASSUME KontextAssumption ==
    /\ Cgroup \subseteq Nat /\ KeyBits \in Nat
    /\ MinSync \in Nat \ {0}
    /\ MaxCont \in Nat
    /\ MaxErrors \in Nat
    /\ MaxTime \in Nat
    /\ "loop" \notin Caller /\ "none" \notin Caller

VARIABLES
    world,      \* world[g]: the container whose cgroup has id g, or 0
    state,      \* state[k]: what the runtime says of container k
    errors,     \* failed answers of the runtime
    now,        \* the clock
    cache,      \* Client.byCgroup
    lastSync,   \* Client.lastSync
    mu,         \* Client.syncMu: its holder, or "none"
    proc,       \* the goroutines
    \* History.
    lastMiss,   \* when the last Sync caused by a miss began
    slipped     \* the loop has put a time from before that over its stamp

environment == <<world, state>>
history == <<lastMiss, slipped>>
vars == <<world, state, errors, now, cache, lastSync, mu, proc, lastMiss, slipped>>

Cont == 1..MaxCont
Proc == Caller \cup {"loop"}

\* ContainerInfo: the container, and whether its labels were known.
NoInfo == [cont |-> 0, named |-> FALSE]
Info == [cont : 0..MaxCont, named : BOOLEAN]

\* The keys of the cache, and the ids it is asked for.
Key(ino) == ino % 2 ^ KeyBits
Id == Cgroup \cup {Key(g) : g \in Cgroup}

\* A goroutine: where it is, the cgroup it looks up, the time it has in hand, and
\* the local variables of its Sync (cgroups still to visit, paths, criByID).
NoPaths == [i \in Id |-> 0]
Fresh(pc, g) == [pc |-> pc, cg |-> g, time |-> 0, todo |-> {}, paths |-> NoPaths, cri |-> {}]

Step == {"idle", "lookup", "check", "since", "lock", "recheck",
         "walk", "list", "store", "clock", "stamp", "again"}
ProcState == [pc : Step, cg : Cgroup, time : Nat, todo : SUBSET Cgroup,
              paths : [Id -> 0..MaxCont], cri : SUBSET Cont]

TypeOK ==
    /\ world \in [Cgroup -> 0..MaxCont]
    /\ state \in [Cont -> {"none", "created", "running", "exited"}]
    /\ errors \in 0..MaxErrors
    /\ now \in Nat /\ lastSync \in Nat /\ lastMiss \in Nat
    /\ cache \in [Id -> Info]
    /\ mu \in Caller \cup {"none"}
    /\ proc \in [Proc -> ProcState]
    /\ slipped \in BOOLEAN

\* The loop begins with a Sync; lastSync is long ago.
Init ==
    /\ world = [g \in Cgroup |-> 0] /\ state = [k \in Cont |-> "none"] /\ errors = 0
    /\ now = MinSync
    /\ cache = [i \in Id |-> NoInfo]
    /\ lastSync = 0
    /\ mu = "none"
    /\ \E g \in Cgroup :
          proc = [p \in Proc |-> IF p = "loop" THEN [Fresh("walk", g) EXCEPT !.todo = Cgroup]
                                 ELSE Fresh("idle", g)]
    /\ lastMiss = 0 /\ slipped = FALSE

-----------------------------------------------------------------------------
(* Containers, numbered as they are created: the cgroup appears before the   *)
(* runtime lists the container; at the end either may go first.              *)

running == {k \in Cont : state[k] = "running"}

Create(g, k) ==
    /\ world[g] = 0 /\ state[k] = "none" /\ \A j \in 1..(k - 1) : state[j] # "none"
    /\ world' = [world EXCEPT ![g] = k]
    /\ state' = [state EXCEPT ![k] = "created"]
    /\ UNCHANGED <<errors, now, cache, lastSync, mu, proc, history>>

StartRunning(k) ==
    /\ state[k] = "created"
    /\ state' = [state EXCEPT ![k] = "running"]
    /\ UNCHANGED <<world, errors, now, cache, lastSync, mu, proc, history>>

Exit(k) ==
    /\ state[k] = "running"
    /\ state' = [state EXCEPT ![k] = "exited"]
    /\ UNCHANGED <<world, errors, now, cache, lastSync, mu, proc, history>>

Remove(g) ==
    /\ world[g] # 0
    /\ world' = [world EXCEPT ![g] = 0]
    /\ UNCHANGED <<state, errors, now, cache, lastSync, mu, proc, history>>

Tick ==
    /\ now < MaxTime
    /\ now' = now + 1
    /\ UNCHANGED <<environment, errors, cache, lastSync, mu, proc, history>>

-----------------------------------------------------------------------------
(* GetContainerInfo. *)

Go(p, pc) == proc' = [proc EXCEPT ![p].pc = pc]
Leave(p, pc) == proc' = [proc EXCEPT ![p] = Fresh(pc, proc[p].cg)]
Return(p) == Leave(p, "idle")
SyncFrom(p) == proc' = [proc EXCEPT ![p] = [Fresh("walk", proc[p].cg) EXCEPT !.todo = Cgroup]]

\* lastSyncTime, and time.Since of it a moment later.
Load(p, pc) == proc' = [proc EXCEPT ![p].pc = pc, ![p].time = lastSync]
Recent(p) == now - proc[p].time < MinSync

Call(p, g) ==
    /\ proc[p].pc = "idle"
    /\ proc' = [proc EXCEPT ![p] = Fresh("lookup", g)]
    /\ UNCHANGED <<environment, errors, now, cache, lastSync, mu, history>>

LookupCache(p) ==
    /\ proc[p].pc = "lookup"
    /\ \/ cache[proc[p].cg] # NoInfo /\ Return(p)
       \/ cache[proc[p].cg] = NoInfo /\ Go(p, "check")
    /\ UNCHANGED <<environment, errors, now, cache, lastSync, mu, history>>

\* ensureSynced, before the lock.
LoadLast(p) ==
    /\ proc[p].pc = "check"
    /\ Load(p, "since")
    /\ UNCHANGED <<environment, errors, now, cache, lastSync, mu, history>>

CheckRecent(p) ==
    /\ proc[p].pc = "since"
    /\ \/ Recent(p) /\ Leave(p, "again")
       \/ ~Recent(p) /\ Leave(p, "lock")
    /\ UNCHANGED <<environment, errors, now, cache, lastSync, mu, history>>

\* The lock; the goroutine that held it may have synced, so lastSync is read again.
Lock(p) ==
    /\ proc[p].pc = "lock" /\ mu = "none"
    /\ mu' = p
    /\ Load(p, "recheck")
    /\ UNCHANGED <<environment, errors, now, cache, lastSync, history>>

\* Mutation of Recheck: no second check.
RecheckSkipped(p) ==
    /\ proc[p].pc = "recheck"
    /\ SyncFrom(p) /\ lastMiss' = now
    /\ UNCHANGED <<environment, errors, now, cache, lastSync, mu, slipped>>

Recheck(p) ==
    /\ proc[p].pc = "recheck"
    /\ \/ Recent(p) /\ Leave(p, "again") /\ mu' = "none" /\ UNCHANGED lastMiss
       \/ ~Recent(p) /\ SyncFrom(p) /\ lastMiss' = now /\ UNCHANGED mu
    /\ UNCHANGED <<environment, errors, now, cache, lastSync, slipped>>

\* The second lookup: found, or ErrContainerNotFound.
LookupAgain(p) ==
    /\ proc[p].pc = "again"
    /\ Return(p)
    /\ UNCHANGED <<environment, errors, now, cache, lastSync, mu, history>>

-----------------------------------------------------------------------------
(* Sync. *)

\* walkCgroups visits the directories one by one; two whose inode numbers have the
\* low bits in common have one key, and the one visited last stays.
Walk(p) ==
    /\ proc[p].pc = "walk"
    /\ \/ \E g \in proc[p].todo :
             proc' = [proc EXCEPT ![p].todo = @ \ {g},
                                  ![p].paths[Key(g)] = IF world[g] = 0 THEN @ ELSE world[g]]
       \/ proc[p].todo = {} /\ Go(p, "list")
    /\ UNCHANGED <<environment, errors, now, cache, lastSync, mu, history>>

\* ListContainers; on an error the containers stay without labels.
List(p) ==
    /\ proc[p].pc = "list"
    /\ \/ proc' = [proc EXCEPT ![p].pc = "store", ![p].cri = running] /\ UNCHANGED errors
       \/ errors < MaxErrors /\ errors' = errors + 1 /\ Go(p, "store")
    /\ UNCHANGED <<environment, now, cache, lastSync, mu, history>>

Join(paths, cri) ==
    [i \in Id |-> IF paths[i] = 0 THEN NoInfo
                  ELSE [cont |-> paths[i], named |-> paths[i] \in cri]]

\* Mutation of Store: entries that are gone are kept.
StoreMerges(p) ==
    /\ proc[p].pc = "store"
    /\ cache' = [i \in Id |-> IF proc[p].paths[i] = 0 THEN cache[i]
                              ELSE Join(proc[p].paths, proc[p].cri)[i]]
    /\ Leave(p, "clock")
    /\ UNCHANGED <<environment, errors, now, lastSync, mu, history>>

\* The new map replaces the old one.
Store(p) ==
    /\ proc[p].pc = "store"
    /\ cache' = Join(proc[p].paths, proc[p].cri)
    /\ Leave(p, "clock")
    /\ UNCHANGED <<environment, errors, now, lastSync, mu, history>>

\* time.Now(), which is stored a moment later.
ReadClock(p) ==
    /\ proc[p].pc = "clock"
    /\ proc' = [proc EXCEPT ![p].pc = "stamp", ![p].time = now]
    /\ UNCHANGED <<environment, errors, now, cache, lastSync, mu, history>>

\* lastSync is stored; a caller releases the lock and looks again.
Stamp(p) ==
    /\ proc[p].pc = "stamp"
    /\ lastSync' = proc[p].time
    /\ \/ /\ p = "loop" /\ Return(p) /\ UNCHANGED mu
          /\ slipped' = (slipped \/ proc[p].time < lastMiss)
       \/ p # "loop" /\ Leave(p, "again") /\ mu' = "none" /\ slipped' = FALSE
    /\ UNCHANGED <<environment, errors, now, cache, lastMiss>>

\* Mutation of Resync: the loop takes the lock and never returns it.
ResyncLocks ==
    /\ proc["loop"].pc = "idle" /\ mu = "none"
    /\ mu' = "loop"
    /\ SyncFrom("loop")
    /\ UNCHANGED <<environment, errors, now, cache, lastSync, history>>

\* Run: the ticker starts the next Sync.
Resync ==
    /\ proc["loop"].pc = "idle"
    /\ SyncFrom("loop")
    /\ UNCHANGED <<environment, errors, now, cache, lastSync, mu, history>>

-----------------------------------------------------------------------------

Sync(p) == Walk(p) \/ List(p) \/ Store(p) \/ ReadClock(p) \/ Stamp(p)
Get(p) == LookupCache(p) \/ LoadLast(p) \/ CheckRecent(p) \/ Lock(p) \/ Recheck(p) \/ LookupAgain(p)

Next ==
    \/ \E g \in Cgroup, k \in Cont : Create(g, k)
    \/ \E k \in Cont : StartRunning(k) \/ Exit(k)
    \/ \E g \in Cgroup : Remove(g)
    \/ Tick \/ Resync
    \/ \E p \in Caller, g \in Cgroup : Call(p, g)
    \/ \E p \in Caller : Get(p)
    \/ \E p \in Proc : Sync(p)

\* The scheduler runs every goroutine, the runtime answers, the ticker ticks.
\* Nothing makes a caller call, a container start or the clock advance.
Fairness ==
    /\ WF_vars(Resync)
    /\ \A p \in Proc : WF_vars(Sync(p))
    /\ \A p \in Caller : WF_vars(Get(p))

Spec == Init /\ [][Next]_vars /\ Fairness

-----------------------------------------------------------------------------
(* Properties. *)

\* A miss begins a Sync.
Misses(p) == proc[p].pc = "recheck" /\ proc'[p].pc = "walk"

\* "rate-limits miss-triggered syncs so a stream of events from host processes
\* cannot stampede the cgroupfs walk": such Syncs begin minSyncInterval apart.  The
\* one exception is the loop, which takes no lock: it may store a time it has read
\* before a miss began over the stamp of that miss, and then one Sync comes early.
MissesSpaced ==
    [][\A p \in Caller : Misses(p) => slipped \/ now >= lastMiss + MinSync]_vars

\* What the cache should say of cgroup g.
Current(g) == IF world[g] = 0 THEN NoInfo ELSE [cont |-> world[g], named |-> world[g] \in running]

\* Ids that the cache can tell: low enough, and no other cgroup's low bits.
Sole(g) == \A h \in Cgroup : Key(h) = g <=> h = g

\* Whatever raced before, once containers stop coming and going the cache becomes
\* and stays right: a late Sync may put an old picture back, a later one repairs it.
Converges == <>[](\A g \in Cgroup : Sole(g) => cache[g] = Current(g))

-----------------------------------------------------------------------------
(* The inductive invariant behind MissesSpaced. *)

Syncing == {"walk", "list", "store", "clock", "stamp"}

\* A caller syncs only while it holds syncMu, so callers never sync at once.
LockOK == \A p \in Caller : proc[p].pc \in Syncing \cup {"recheck"} => mu = p

\* A time that is known is past.
PastOK == lastSync <= now /\ lastMiss <= now /\ \A p \in Proc : proc[p].time <= now

\* The Sync of a miss stamps a time from after its begin; unless the loop puts an
\* older one over it, lastSync covers lastMiss whenever nobody is in between, and so
\* does what a caller read behind the lock.
ClockOK ==
    /\ mu = "none" => slipped \/ lastMiss <= lastSync
    /\ \A p \in Caller :
          /\ proc[p].pc = "recheck" => slipped \/ (lastMiss <= proc[p].time /\ lastMiss <= lastSync)
          /\ proc[p].pc = "stamp" => lastMiss <= proc[p].time

KInv == TypeOK /\ LockOK /\ PastOK /\ ClockOK
=============================================================================
