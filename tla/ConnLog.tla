------------------------------ MODULE ConnLog ------------------------------
(***************************************************************************)
(* What the tracer promises to whoever reads ko_events, without sockets,   *)
(* maps or tracepoints: the records of a connection are any number of      *)
(* samples (retransmit, probe) followed by at most one lifecycle event     *)
(* (closed, failed), all of them between the moment its connect is seen    *)
(* and the moment it ends or is lost sight of.  A record may be dropped    *)
(* (filtered, or the buffer is full) but never duplicated or reordered.    *)
(***************************************************************************)
EXTENDS Naturals, Sequences

CONSTANTS Conn, RingCap

VARIABLES
    phase,  \* phase[c] \in {"new", "tracked", "ended", "lost"}
    log,    \* the records written
    taken   \* how many of them have been read

logVars == <<phase, log, taken>>

Sample == {"retransmit", "probe"}
End == {"closed", "failed"}

LogInit ==
    /\ phase = [c \in Conn |-> "new"]
    /\ log = << >>
    /\ taken = 0

Write(c, type) ==
    /\ Len(log) - taken < RingCap
    /\ log' = Append(log, [conn |-> c, type |-> type])

\* A connect is seen (tracked) or not (lost); seeing it may push others out.
Start(c) ==
    /\ phase[c] = "new"
    /\ \E p \in {"tracked", "lost"}, L \in SUBSET {d \in Conn : phase[d] = "tracked"} :
          phase' = [d \in Conn |-> IF d = c THEN p ELSE IF d \in L THEN "lost" ELSE phase[d]]
    /\ UNCHANGED <<log, taken>>

Observe(c) ==
    /\ phase[c] = "tracked"
    /\ \E type \in Sample : Write(c, type)
    /\ UNCHANGED <<phase, taken>>

Finish(c) ==
    /\ phase[c] = "tracked"
    /\ phase' = [phase EXCEPT ![c] = "ended"]
    /\ UNCHANGED log \/ \E type \in End : Write(c, type)
    /\ UNCHANGED taken

Lose(c) ==
    /\ phase[c] = "tracked"
    /\ phase' = [phase EXCEPT ![c] = "lost"]
    /\ UNCHANGED <<log, taken>>

Take ==
    /\ taken < Len(log)
    /\ taken' = taken + 1
    /\ UNCHANGED <<phase, log>>

\* The agent ends: what it was tracking is lost, what was not read is gone.
Reset ==
    /\ phase' = [c \in Conn |-> IF phase[c] = "tracked" THEN "lost" ELSE phase[c]]
    /\ log' = << >>
    /\ taken' = 0

LogNext ==
    \/ \E c \in Conn : Start(c) \/ Observe(c) \/ Finish(c) \/ Lose(c)
    \/ Take \/ Reset

LogSpec == LogInit /\ [][LogNext]_logVars
=============================================================================
