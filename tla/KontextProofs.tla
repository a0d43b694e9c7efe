---------------------------- MODULE KontextProofs ----------------------------
(***************************************************************************)
(* Syncs caused by misses are minSyncInterval apart, for any number of     *)
(* callers, cgroups and containers, unless the resync loop, which takes no *)
(* lock, has put an older time over the stamp of the last one.             *)
(***************************************************************************)
EXTENDS Kontext, TLAPS

\* Nobody but p moves, and p to r.
Moves(p, r) == proc' = [proc EXCEPT ![p] = r]
Others(p) == proc' \in [Proc -> ProcState] /\ \A q \in Proc \ {p} : proc'[q] = proc[q]

\* What the ways to change a program counter do.
LEMMA MoveKeeps ==
    ASSUME proc \in [Proc -> ProcState], NEW p \in Proc, NEW r \in ProcState, Moves(p, r)
    PROVE  Others(p) /\ proc'[p] = r
  BY DEF Moves, Others

LEMMA FreshState ==
    ASSUME NEW g \in Cgroup, NEW pc \in Step
    PROVE  /\ Fresh(pc, g) \in ProcState /\ Fresh(pc, g).pc = pc /\ Fresh(pc, g).time = 0
           /\ LET w == [Fresh(pc, g) EXCEPT !.todo = Cgroup]
              IN  w \in ProcState /\ w.pc = pc /\ w.time = 0
  <1>1. NoPaths \in [Id -> 0..MaxCont] /\ 0 \in Nat
    BY KontextAssumption DEF NoPaths
  <1> QED BY <1>1 DEF Fresh, ProcState

LEMMA Left ==
    ASSUME proc \in [Proc -> ProcState], NEW p \in Proc, NEW pc \in Step, Leave(p, pc)
    PROVE  Others(p) /\ proc'[p].pc = pc /\ proc'[p].time = 0
  <1>1. proc[p].cg \in Cgroup
    BY DEF ProcState
  <1>2. Moves(p, Fresh(pc, proc[p].cg))
    BY DEF Leave, Moves
  <1>3. /\ Fresh(pc, proc[p].cg) \in ProcState
        /\ Fresh(pc, proc[p].cg).pc = pc /\ Fresh(pc, proc[p].cg).time = 0
    BY <1>1, FreshState
  <1>4. Others(p) /\ proc'[p] = Fresh(pc, proc[p].cg)
    BY <1>2, <1>3, MoveKeeps
  <1> QED BY <1>3, <1>4

LEMMA SyncBegun ==
    ASSUME proc \in [Proc -> ProcState], NEW p \in Proc, SyncFrom(p)
    PROVE  Others(p) /\ proc'[p].pc = "walk" /\ proc'[p].time = 0
  <1>1. proc[p].cg \in Cgroup /\ "walk" \in Step
    BY DEF ProcState, Step
  <1> DEFINE w == [Fresh("walk", proc[p].cg) EXCEPT !.todo = Cgroup]
  <1>2. Moves(p, w)
    BY DEF SyncFrom, Moves
  <1>3. w \in ProcState /\ w.pc = "walk" /\ w.time = 0
    BY <1>1, FreshState
  <1> HIDE DEF w
  <1>4. Others(p) /\ proc'[p] = w
    BY <1>2, <1>3, MoveKeeps
  <1> QED BY <1>3, <1>4

LEMMA Gone ==
    ASSUME proc \in [Proc -> ProcState], NEW p \in Proc, NEW pc \in Step, Go(p, pc)
    PROVE  Others(p) /\ proc'[p].pc = pc /\ proc'[p].time = proc[p].time
  BY DEF Go, Others, ProcState

LEMMA TimeTaken ==
    ASSUME proc \in [Proc -> ProcState], NEW p \in Proc, NEW pc \in Step, NEW t \in Nat,
           proc' = [proc EXCEPT ![p].pc = pc, ![p].time = t]
    PROVE  Others(p) /\ proc'[p].pc = pc /\ proc'[p].time = t
  BY DEF Others, ProcState

\* LockOK after a step of p that leaves the lock alone: p is the loop, or neither
\* syncs nor checks afterwards, or did so before.
LEMMA LockKept ==
    ASSUME LockOK, mu' = mu, NEW p \in Proc, Others(p),
           \/ p = "loop" \/ proc'[p].pc \notin Syncing \cup {"recheck"}
           \/ proc[p].pc \in Syncing \cup {"recheck"}
    PROVE  LockOK'
  BY KontextAssumption DEF LockOK, Proc, Others

\* The invariants about times after a step of p that leaves them and the lock alone,
\* and p outside the two points where its time matters.
LEMMA TimesKept ==
    ASSUME TypeOK, PastOK, ClockOK, UNCHANGED <<now, lastSync, history, mu>>,
           NEW p \in Proc, Others(p), proc'[p].time <= now,
           p = "loop" \/ proc'[p].pc \notin {"recheck", "stamp"}
    PROVE  PastOK' /\ ClockOK'
  <1>1. PastOK'
    BY DEF PastOK, history, Others
  <1>2. \A q \in Caller : proc'[q].pc \in {"recheck", "stamp"} => proc'[q] = proc[q]
    BY KontextAssumption DEF Others, Proc
  <1>3. ClockOK'
    BY <1>2 DEF ClockOK, history
  <1> QED BY <1>1, <1>3

\* The invariant holds initially: lastSync is long ago.
LEMMA KInvInit ==
    ASSUME Init
    PROVE  KInv
  <1>1. PICK g \in Cgroup :
            proc = [p \in Proc |-> IF p = "loop" THEN [Fresh("walk", g) EXCEPT !.todo = Cgroup]
                                   ELSE Fresh("idle", g)]
    BY DEF Init
  <1>2. /\ [Fresh("walk", g) EXCEPT !.todo = Cgroup] \in ProcState
        /\ [Fresh("walk", g) EXCEPT !.todo = Cgroup].time = 0
        /\ Fresh("idle", g) \in ProcState /\ Fresh("idle", g).pc = "idle" /\ Fresh("idle", g).time = 0
    BY FreshState DEF Step
  <1>3. /\ proc \in [Proc -> ProcState]
        /\ \A p \in Caller : proc[p].pc = "idle"
        /\ \A p \in Proc : proc[p].time = 0
    BY <1>1, <1>2, KontextAssumption DEF Proc
  <1>4. TypeOK
    <2>1. cache \in [Id -> Info]
      BY KontextAssumption DEF Init, NoInfo, Info
    <2>2. state \in [Cont -> {"none", "created", "running", "exited"}] /\ errors \in 0..MaxErrors
      BY KontextAssumption DEF Init
    <2>3. world \in [Cgroup -> 0..MaxCont]
      BY KontextAssumption DEF Init
    <2> QED BY <1>3, <2>1, <2>2, <2>3, KontextAssumption DEF Init, TypeOK
  <1>5. LockOK
    BY <1>3 DEF LockOK, Syncing
  <1>6. PastOK /\ ClockOK
    <2>1. lastSync = 0 /\ lastMiss = 0 /\ now = MinSync /\ MinSync \in Nat
      BY KontextAssumption DEF Init
    <2>2. PastOK
      BY <1>3, <2>1 DEF PastOK
    <2>3. \A p \in Caller : proc[p].pc # "recheck" /\ proc[p].pc # "stamp"
      BY <1>3
    <2> QED BY <2>1, <2>2, <2>3 DEF ClockOK
  <1> QED BY <1>4, <1>5, <1>6 DEF KInv

\* Containers come and go and the clock advances: no goroutine moves.
LEMMA WorldStep ==
    ASSUME KInv, \/ \E g \in Cgroup, k \in Cont : Create(g, k)
                 \/ \E k \in Cont : StartRunning(k) \/ Exit(k)
                 \/ \E g \in Cgroup : Remove(g)
                 \/ Tick
    PROVE  KInv' /\ UNCHANGED proc
  <1>1. UNCHANGED <<errors, cache, lastSync, mu, proc, lastMiss, slipped>>
    BY DEF Create, StartRunning, Exit, Remove, Tick, history
  <1>2. now' \in Nat /\ now <= now'
    BY DEF KInv, TypeOK, Create, StartRunning, Exit, Remove, Tick
  <1>3. /\ world' \in [Cgroup -> 0..MaxCont]
        /\ state' \in [Cont -> {"none", "created", "running", "exited"}]
    <2>1. ASSUME NEW g \in Cgroup, NEW k \in Cont, Create(g, k)
          PROVE  <1>3!1 /\ <1>3!2
      BY <2>1, KontextAssumption DEF Create, KInv, TypeOK, Cont
    <2>2. ASSUME NEW k \in Cont, StartRunning(k) \/ Exit(k)
          PROVE  <1>3!1 /\ <1>3!2
      BY <2>2 DEF StartRunning, Exit, KInv, TypeOK
    <2>3. ASSUME NEW g \in Cgroup, Remove(g)
          PROVE  <1>3!1 /\ <1>3!2
      BY <2>3, KontextAssumption DEF Remove, KInv, TypeOK
    <2>4. CASE Tick
      BY <2>4 DEF Tick, environment, KInv, TypeOK
    <2> QED BY <2>1, <2>2, <2>3, <2>4
  <1>4. TypeOK'
    BY <1>1, <1>2, <1>3 DEF KInv, TypeOK
  <1>5. LockOK' /\ ClockOK'
    BY <1>1 DEF KInv, LockOK, ClockOK
  <1>6. PastOK'
    <2>1. \A p \in Proc : proc[p].time \in Nat
      BY DEF KInv, TypeOK, ProcState
    <2> QED BY <1>1, <1>2, <2>1 DEF KInv, TypeOK, PastOK
  <1> QED BY <1>1, <1>4, <1>5, <1>6 DEF KInv

\* The steps of a caller outside the lock, and the ticker of the loop.
LEMMA LooseStep ==
    ASSUME KInv, \/ \E p \in Caller, g \in Cgroup : Call(p, g)
                 \/ \E p \in Caller : LookupCache(p) \/ LoadLast(p) \/ CheckRecent(p) \/ LookupAgain(p)
                 \/ Resync
    PROVE  KInv'
  <1>0. proc \in [Proc -> ProcState] /\ \A p \in Caller : p \in Proc
    BY DEF KInv, TypeOK, Proc
  <1>1. UNCHANGED <<environment, errors, now, cache, lastSync, mu, history>>
    BY DEF Call, LookupCache, LoadLast, CheckRecent, LookupAgain, Resync
  <1>2. /\ now \in Nat /\ lastSync \in Nat /\ lastSync <= now /\ 0 <= now
        /\ \A p \in Proc : proc[p].time <= now
    BY DEF KInv, TypeOK, PastOK
  <1>3. PICK p \in Proc : /\ Others(p) /\ proc'[p].time <= now
                          /\ p = "loop" \/ proc'[p].pc \notin Syncing \cup {"recheck"}
    <2>1. ASSUME NEW p \in Caller, NEW g \in Cgroup, Call(p, g)
          PROVE  Others(p) /\ proc'[p].time <= now /\ proc'[p].pc \notin Syncing \cup {"recheck"}
      <3>1. "lookup" \in Step /\ Moves(p, Fresh("lookup", g))
        BY <2>1 DEF Step, Call, Moves
      <3>2. /\ Fresh("lookup", g) \in ProcState
            /\ Fresh("lookup", g).pc = "lookup" /\ Fresh("lookup", g).time = 0
        BY <3>1, FreshState
      <3>3. Others(p) /\ proc'[p] = Fresh("lookup", g)
        BY <1>0, <3>1, <3>2, MoveKeeps
      <3> QED BY <1>2, <3>2, <3>3 DEF Syncing
    <2>2. ASSUME NEW p \in Caller, LookupCache(p) \/ CheckRecent(p) \/ LookupAgain(p)
          PROVE  Others(p) /\ proc'[p].time <= now /\ proc'[p].pc \notin Syncing \cup {"recheck"}
      <3>1. PICK pc \in Step \ (Syncing \cup {"recheck"}) : Go(p, pc) \/ Leave(p, pc)
        BY <2>2 DEF LookupCache, CheckRecent, LookupAgain, Return, Step, Syncing
      <3> QED BY <1>0, <1>2, <3>1, Gone, Left
    <2>3. ASSUME NEW p \in Caller, LoadLast(p)
          PROVE  Others(p) /\ proc'[p].time <= now /\ proc'[p].pc \notin Syncing \cup {"recheck"}
      <3>1. "since" \in Step /\ proc' = [proc EXCEPT ![p].pc = "since", ![p].time = lastSync]
        BY <2>3 DEF Step, LoadLast, Load
      <3>2. Others(p) /\ proc'[p].pc = "since" /\ proc'[p].time = lastSync
        BY <1>0, <1>2, <3>1, TimeTaken
      <3> QED BY <1>2, <3>2 DEF Syncing
    <2>4. CASE Resync
      <3>1. "loop" \in Proc /\ SyncFrom("loop")
        BY <2>4 DEF Proc, Resync
      <3> QED BY <1>0, <1>2, <3>1, SyncBegun
    <2> QED BY <1>0, <2>1, <2>2, <2>3, <2>4
  <1>4. TypeOK'
    BY <1>1, <1>3 DEF KInv, TypeOK, environment, history, Others
  <1>5. LockOK'
    BY <1>1, <1>3, LockKept DEF KInv
  <1>6. PastOK' /\ ClockOK'
    BY <1>1, <1>3, TimesKept DEF KInv, Syncing
  <1> QED BY <1>4, <1>5, <1>6 DEF KInv

\* The lock, with lastSync read behind it.
LEMMA LockStep ==
    ASSUME KInv, NEW p \in Caller, Lock(p)
    PROVE  KInv'
  <1>0. /\ proc \in [Proc -> ProcState] /\ p \in Proc /\ mu = "none" /\ mu' = p /\ p # "none"
        /\ UNCHANGED <<environment, errors, now, cache, lastSync, lastMiss, slipped>>
        /\ now \in Nat /\ lastSync \in Nat /\ lastMiss \in Nat
        /\ lastSync <= now /\ lastMiss <= now /\ (slipped \/ lastMiss <= lastSync)
    BY KontextAssumption DEF KInv, TypeOK, PastOK, ClockOK, Proc, Lock, history
  <1>1. Others(p) /\ proc'[p].pc = "recheck" /\ proc'[p].time = lastSync
    <2>1. "recheck" \in Step /\ proc' = [proc EXCEPT ![p].pc = "recheck", ![p].time = lastSync]
      BY DEF Step, Lock, Load
    <2> QED BY <1>0, <2>1, TimeTaken
  <1>2. \A q \in Caller \ {p} : proc'[q] = proc[q] /\ proc[q].pc \notin Syncing \cup {"recheck"}
    <2>1. \A q \in Caller : q # "none"
      BY KontextAssumption
    <2> QED BY <1>0, <1>1, <2>1 DEF KInv, LockOK, Others, Proc
  <1>3. TypeOK'
    BY <1>0, <1>1 DEF KInv, TypeOK, environment, Others
  <1>4. LockOK'
    BY <1>0, <1>2 DEF LockOK
  <1>5. PastOK'
    BY <1>0, <1>1 DEF KInv, PastOK, Others
  <1>6. ClockOK'
    BY <1>0, <1>1, <1>2 DEF ClockOK, Syncing
  <1> QED BY <1>3, <1>4, <1>5, <1>6 DEF KInv

\* The second check: a miss that gets past it is late enough.
LEMMA RecheckStep ==
    ASSUME KInv, NEW p \in Caller, Recheck(p)
    PROVE  KInv' /\ (Misses(p) => slipped \/ now >= lastMiss + MinSync)
  <1>0. /\ proc \in [Proc -> ProcState] /\ p \in Proc /\ mu = p /\ p # "none"
        /\ UNCHANGED <<environment, errors, now, cache, lastSync, slipped>>
        /\ now \in Nat /\ lastSync \in Nat /\ lastMiss \in Nat /\ proc[p].time \in Nat
        /\ lastSync <= now /\ lastMiss <= now
        /\ slipped \/ (lastMiss <= proc[p].time /\ lastMiss <= lastSync)
    BY KontextAssumption DEF KInv, TypeOK, PastOK, ClockOK, LockOK, Proc, ProcState, Recheck
  <1>1. \A q \in Caller \ {p} : proc[q].pc \notin Syncing \cup {"recheck"}
    BY <1>0 DEF KInv, LockOK
  <1>2. CASE Recent(p) /\ Leave(p, "again") /\ mu' = "none" /\ UNCHANGED lastMiss
    <2>1. Others(p) /\ proc'[p].pc = "again" /\ proc'[p].time = 0
      BY <1>0, <1>2, Left DEF Step
    <2>2. TypeOK'
      BY <1>0, <1>2, <2>1 DEF KInv, TypeOK, environment, Others
    <2>3. \A q \in Caller : proc'[q].pc \notin Syncing \cup {"recheck"}
      BY <1>1, <2>1 DEF Others, Syncing, Proc
    <2>4. LockOK' /\ ClockOK'
      BY <1>0, <1>2, <2>3 DEF LockOK, ClockOK, Syncing
    <2>5. PastOK'
      BY <1>0, <1>2, <2>1 DEF KInv, PastOK, Others
    <2> QED BY <2>1, <2>2, <2>4, <2>5 DEF KInv, Misses
  <1>3. CASE ~Recent(p) /\ SyncFrom(p) /\ lastMiss' = now /\ UNCHANGED mu
    <2>1. Others(p) /\ proc'[p].pc = "walk" /\ proc'[p].time = 0
      BY <1>0, <1>3, SyncBegun
    <2>2. TypeOK'
      BY <1>0, <1>3, <2>1 DEF KInv, TypeOK, environment, Others
    <2>3. LockOK'
      BY <1>0, <1>3, <2>1, LockKept DEF KInv, Recheck
    <2>4. \A q \in Caller : proc'[q].pc \notin {"recheck", "stamp"}
      BY <1>1, <2>1 DEF Others, Syncing, Proc
    <2>5. ClockOK'
      BY <1>0, <1>3, <2>4 DEF ClockOK
    <2>6. PastOK'
      BY <1>0, <1>3, <2>1 DEF KInv, PastOK, Others
    <2>7. slipped \/ now >= lastMiss + MinSync
      BY <1>0, <1>3, KontextAssumption DEF Recent
    <2> QED BY <2>2, <2>3, <2>5, <2>6, <2>7 DEF KInv
  <1> QED BY <1>2, <1>3 DEF Recheck

\* A Sync, by whomever: the walk, the list, the store.
LEMMA SyncStep ==
    ASSUME KInv, NEW p \in Proc, Walk(p) \/ List(p) \/ Store(p)
    PROVE  KInv'
  <1>0. proc \in [Proc -> ProcState] /\ proc[p] \in ProcState /\ proc[p].pc \in Syncing
    BY DEF KInv, TypeOK, Walk, List, Store, Syncing
  <1>1. UNCHANGED <<environment, now, lastSync, mu, history>>
    BY DEF Walk, List, Store
  <1>2. now \in Nat /\ 0 <= now /\ proc[p].time <= now
    BY DEF KInv, TypeOK, PastOK
  <1>3. Others(p) /\ proc'[p].time <= now /\ proc'[p].pc \notin {"recheck", "stamp"}
    <2>1. CASE Go(p, "list")
      BY <1>0, <1>2, <2>1, Gone DEF Step
    <2>2. CASE Go(p, "store")
      BY <1>0, <1>2, <2>2, Gone DEF Step
    <2>3. CASE Leave(p, "clock")
      BY <1>0, <1>2, <2>3, Left DEF Step
    <2>4. ASSUME NEW g \in proc[p].todo, Walk(p),
                 proc' = [proc EXCEPT ![p].todo = @ \ {g},
                                      ![p].paths[Key(g)] = IF world[g] = 0 THEN @ ELSE world[g]]
          PROVE  Others(p) /\ proc'[p].time <= now /\ proc'[p].pc \notin {"recheck", "stamp"}
      <3>1. world[g] \in 0..MaxCont /\ g \in Cgroup /\ Key(g) \in Id
        BY <1>0 DEF KInv, TypeOK, ProcState, Id
      <3> DEFINE r == [proc[p] EXCEPT !.todo = @ \ {g},
                                      !.paths[Key(g)] = IF world[g] = 0 THEN @ ELSE world[g]]
      <3>2. r \in ProcState /\ r.time = proc[p].time /\ r.pc = proc[p].pc
        BY <1>0, <3>1 DEF ProcState
      <3>3. Moves(p, r)
        BY <2>4 DEF Moves
      <3>4. proc[p].pc = "walk"
        BY <2>4 DEF Walk
      <3> HIDE DEF r
      <3> QED BY <1>0, <1>2, <3>2, <3>3, <3>4, MoveKeeps
    <2>5. ASSUME proc' = [proc EXCEPT ![p].pc = "store", ![p].cri = running]
          PROVE  Others(p) /\ proc'[p].time <= now /\ proc'[p].pc \notin {"recheck", "stamp"}
      BY <1>0, <1>2, <2>5 DEF ProcState, running, Step, Others
    <2> QED BY <2>1, <2>2, <2>3, <2>4, <2>5 DEF Walk, List, Store
  <1>4. errors' \in 0..MaxErrors
    BY KontextAssumption DEF Walk, List, Store, KInv, TypeOK
  <1>5. cache' \in [Id -> Info]
    <2>1. CASE UNCHANGED cache
      BY <2>1 DEF KInv, TypeOK
    <2>2. CASE cache' = Join(proc[p].paths, proc[p].cri)
      BY <1>0, <2>2, KontextAssumption DEF Join, NoInfo, Info, ProcState
    <2> QED BY <2>1, <2>2 DEF Walk, List, Store
  <1>6. TypeOK'
    BY <1>1, <1>3, <1>4, <1>5 DEF KInv, TypeOK, environment, history, Others
  <1>7. LockOK'
    BY <1>0, <1>1, <1>3, LockKept DEF KInv
  <1>8. PastOK' /\ ClockOK'
    BY <1>1, <1>3, TimesKept DEF KInv
  <1> QED BY <1>6, <1>7, <1>8 DEF KInv

\* The clock is read: of a miss, the time is not before its begin.
LEMMA ReadClockStep ==
    ASSUME KInv, NEW p \in Proc, ReadClock(p)
    PROVE  KInv'
  <1>0. /\ proc \in [Proc -> ProcState] /\ proc[p].pc = "clock"
        /\ UNCHANGED <<environment, errors, now, cache, lastSync, mu, lastMiss, slipped>>
        /\ now \in Nat /\ lastMiss <= now
    BY DEF KInv, TypeOK, PastOK, ReadClock, history
  <1>1. Others(p) /\ proc'[p].pc = "stamp" /\ proc'[p].time = now
    <2>1. "stamp" \in Step /\ proc' = [proc EXCEPT ![p].pc = "stamp", ![p].time = now]
      BY DEF Step, ReadClock
    <2> QED BY <1>0, <2>1, TimeTaken
  <1>2. TypeOK'
    BY <1>0, <1>1 DEF KInv, TypeOK, environment, Others
  <1>3. LockOK'
    BY <1>0, <1>1, LockKept DEF KInv, Syncing
  <1>4. PastOK'
    BY <1>0, <1>1 DEF KInv, PastOK, Others
  <1>5. ClockOK'
    BY <1>0, <1>1 DEF KInv, ClockOK, Others, Proc
  <1> QED BY <1>2, <1>3, <1>4, <1>5 DEF KInv

\* The stamp of a miss, with which it releases the lock.
LEMMA MissStamps ==
    ASSUME KInv, NEW p \in Caller, Stamp(p)
    PROVE  KInv'
  <1>0. /\ proc \in [Proc -> ProcState] /\ p \in Proc /\ p # "loop" /\ mu = p
        /\ UNCHANGED <<environment, errors, now, cache, lastMiss>> /\ lastSync' = proc[p].time
        /\ mu' = "none" /\ slipped' = FALSE /\ Leave(p, "again")
        /\ now \in Nat /\ proc[p].time \in Nat /\ proc[p].time <= now /\ lastMiss <= proc[p].time
    BY KontextAssumption DEF KInv, TypeOK, PastOK, ClockOK, LockOK, Syncing, Stamp, Proc, ProcState
  <1>1. Others(p) /\ proc'[p].pc = "again" /\ proc'[p].time = 0
    BY <1>0, Left DEF Step
  <1>2. \A q \in Caller : proc'[q].pc \notin Syncing \cup {"recheck"}
    BY <1>0, <1>1 DEF KInv, LockOK, Others, Syncing, Proc
  <1>3. TypeOK'
    BY <1>0, <1>1 DEF KInv, TypeOK, environment, Others
  <1>4. LockOK' /\ ClockOK'
    BY <1>0, <1>2 DEF LockOK, ClockOK, Syncing
  <1>5. PastOK'
    BY <1>0, <1>1 DEF KInv, PastOK, Others
  <1> QED BY <1>3, <1>4, <1>5 DEF KInv

\* The stamp of the loop, whatever its age.
LEMMA LoopStamps ==
    ASSUME KInv, Stamp("loop")
    PROVE  KInv'
  <1>0. /\ proc \in [Proc -> ProcState] /\ "loop" \in Proc /\ "loop" \notin Caller
        /\ UNCHANGED <<environment, errors, now, cache, lastMiss, mu>>
        /\ lastSync' = proc["loop"].time /\ Leave("loop", "idle")
        /\ slipped' = (slipped \/ proc["loop"].time < lastMiss)
        /\ now \in Nat /\ lastMiss \in Nat /\ proc["loop"].time \in Nat /\ proc["loop"].time <= now
    BY KontextAssumption DEF KInv, TypeOK, PastOK, Stamp, Return, Proc, ProcState
  <1>1. Others("loop") /\ proc'["loop"].time = 0
    BY <1>0, Left DEF Step
  <1>2. slipped' \in BOOLEAN /\ (slipped => slipped')
    BY <1>0
  <1>3. slipped' \/ lastMiss' <= lastSync'
    <2>1. CASE proc["loop"].time < lastMiss
      BY <1>0, <2>1
    <2>2. CASE ~(proc["loop"].time < lastMiss)
      BY <1>0, <2>2
    <2> QED BY <2>1, <2>2
  <1>4. TypeOK'
    BY <1>0, <1>1, <1>2 DEF KInv, TypeOK, environment, Others
  <1>5. LockOK'
    BY <1>0, <1>1, LockKept DEF KInv
  <1>6. PastOK'
    BY <1>0, <1>1 DEF KInv, PastOK, Others
  <1>7. ClockOK'
    <2>1. \A q \in Caller : proc'[q] = proc[q]
      BY <1>0, <1>1 DEF Others, Proc
    <2> QED BY <1>0, <1>2, <1>3, <2>1 DEF KInv, ClockOK
  <1> QED BY <1>4, <1>5, <1>6, <1>7 DEF KInv

\* What MissesSpaced says of a step.
Spaced == \A p \in Caller : Misses(p) => slipped \/ now >= lastMiss + MinSync

\* Every step keeps the invariant, and spaces the Syncs of misses.
LEMMA KInvNext ==
    ASSUME KInv, [Next]_vars
    PROVE  KInv' /\ [Spaced]_vars
  <1>0. proc \in [Proc -> ProcState]
    BY DEF KInv, TypeOK
  <1>1. CASE UNCHANGED vars
    BY <1>1 DEF vars, KInv, TypeOK, LockOK, PastOK, ClockOK
  <1>2. CASE Next
    <2>1. ASSUME NEW p \in Caller, Get(p)
          PROVE  KInv'
      BY <2>1, LooseStep, LockStep, RecheckStep DEF Get
    <2>2. ASSUME NEW p \in Proc, Sync(p)
          PROVE  KInv'
      BY <2>2, SyncStep, ReadClockStep, MissStamps, LoopStamps DEF Sync, Proc
    <2>3. KInv'
      BY <1>2, <2>1, <2>2, WorldStep, LooseStep DEF Next
    <2>4. ASSUME NEW p \in Caller, Misses(p)
          PROVE  slipped \/ now >= lastMiss + MinSync
      <3>0. p \in Proc /\ proc[p].pc = "recheck" /\ proc'[p].pc = "walk" /\ p # "loop"
        BY <2>4, KontextAssumption DEF Misses, Proc
      <3>1. SUFFICES Recheck(p)
        BY <2>4, RecheckStep
      <3>2. ~UNCHANGED proc
        BY <3>0
      <3>3. ASSUME NEW q \in Caller, NEW g \in Cgroup, Call(q, g)
            PROVE  FALSE
        <4>1. q # p
          BY <3>0, <3>3 DEF Call
        <4>2. proc'[p] = proc[p]
          BY <1>0, <3>0, <3>3, <4>1 DEF Call
        <4> QED BY <3>0, <4>2
      <3>4. ASSUME NEW q \in Caller, Get(q)
            PROVE  Recheck(p)
        <4>1. ASSUME q # p
              PROVE  proc'[p] = proc[p]
          BY <1>0, <3>0, <3>4, <4>1 DEF Get, LookupCache, LoadLast, CheckRecent, Lock, Recheck,
             LookupAgain, Go, Leave, Return, Load, SyncFrom
        <4>2. q = p
          BY <3>0, <4>1
        <4> QED BY <3>0, <3>4, <4>2 DEF Get, LookupCache, LoadLast, CheckRecent, Lock, LookupAgain
      <3>5. ASSUME NEW q \in Proc, Sync(q) \/ (q = "loop" /\ Resync)
            PROVE  FALSE
        <4>1. q # p
          BY <3>0, <3>5 DEF Sync, Walk, List, Store, ReadClock, Stamp
        <4>2. proc'[p] = proc[p]
          BY <1>0, <3>0, <3>5, <4>1 DEF Sync, Walk, List, Store, ReadClock, Stamp, Resync,
             Go, Leave, Return, SyncFrom
        <4> QED BY <3>0, <4>2
      <3> QED BY <1>2, <3>2, <3>3, <3>4, <3>5, WorldStep DEF Next, Proc
    <2> QED BY <2>3, <2>4 DEF Spaced
  <1> QED BY <1>1, <1>2

-----------------------------------------------------------------------------

\* The inductive invariant of kontext holds of every interleaving of the loop, the
\* callers, the clock and the containers; a stamp may be older than what it replaces.
THEOREM KontextInvariance == Spec => []KInv
  <1>1. Init => KInv
    BY KInvInit
  <1>2. KInv /\ [Next]_vars => KInv'
    BY KInvNext
  <1> QED BY <1>1, <1>2, PTL DEF Spec

\* Every variable keeps its type; the lock is only ever a caller's.
THEOREM KontextTypeCorrect == Spec => []TypeOK
  <1>1. KInv => TypeOK
    BY DEF KInv
  <1> QED BY <1>1, KontextInvariance, PTL

\* ensureSynced: callers never walk the cgroup filesystem at the same time.
THEOREM MissSyncsExclude == Spec => []LockOK
  <1>1. KInv => LockOK
    BY DEF KInv
  <1> QED BY <1>1, KontextInvariance, PTL

\* ensureSynced: Syncs that misses cause begin at least minSyncInterval apart, except
\* for one after each time the loop stored that is older than the last of them.
THEOREM MissSyncsAreSpaced == Spec => MissesSpaced
  <1>1. KInv /\ [Next]_vars => [Spaced]_vars
    BY KInvNext
  <1>2. [Spaced]_vars => [\A p \in Caller : Misses(p) => slipped \/ now >= lastMiss + MinSync]_vars
    BY DEF Spaced
  <1> QED BY <1>1, <1>2, KontextInvariance, PTL DEF Spec, MissesSpaced
=============================================================================
