----------------------------- MODULE MCPipeline -----------------------------
(* Pipeline for TLC: configurations to check. *)
EXTENDS Pipeline

\* With filters and a container runtime, without verify and metrics.
Usual == [filters |-> TRUE, verify |-> FALSE, kontext |-> TRUE, metrics |-> FALSE]
UsualOnly == {Usual}

\* Every configuration; the metrics server, which meets the others in the shared
\* context only, beside the smaller ones.
MetricsApart == {c \in Config : c.metrics => ~(c.filters /\ (c.kontext \/ c.verify))}
=============================================================================
