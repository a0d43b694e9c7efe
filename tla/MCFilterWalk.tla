---------------------------- MODULE MCFilterWalk ----------------------------
(***************************************************************************)
(* FilterWalk for TLC: every list of up to MaxFilters filters of up to     *)
(* MaxConj predicates that Compile accepts, and the empty configuration.   *)
(***************************************************************************)
EXTENDS FilterWalk, FilterProgram

CONSTANT MaxConj    \* bound: predicates of one filter

SomePreds == [kind : {"CMP", "ATTR"}, a : {0}, user : {FALSE}]
SomeFilters == {Userspace} \cup UNION {{PushedDown(p) : p \in [1..n -> SomePreds]} : n \in 0..MaxConj}
FilterLists == UNION {[1..n -> SomeFilters] : n \in 1..MaxFilters}
MCStreams == {<< >>} \cup {Compile(fs) : fs \in {gs \in FilterLists : Accepted(gs)}}
=============================================================================
