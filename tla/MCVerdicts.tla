----------------------------- MODULE MCVerdicts -----------------------------
(***************************************************************************)
(* Verdicts for TLC: the filters match the containers and nothing else,    *)
(* and the agent starts before a container or finds it in any state.       *)
(***************************************************************************)
EXTENDS Verdicts

MCAttrsOf == [g \in Cgroup |-> 1]
MCMatch == [a \in Attrs |-> IF a = Empty THEN Nothing ELSE a - 1]
MCWorlds == [Cgroup -> State]
=============================================================================
