------------------------------ MODULE PcbList ------------------------------
(***************************************************************************)
(* The list API of include/os/list.h as the kernel uses it: a list is the  *)
(* sequence of the nodes reachable from its head by `next'.  A node has    *)
(* one pair of links, so it is on one list at a time; that this is really  *)
(* so in every reachable state is the invariant OneQueue of module Kernel, *)
(* which is what makes the abstraction to sequences legitimate.            *)
(*                                                                         *)
(* Range(s) is the set of the nodes of s, IsInjective(s) says that no node *)
(* is linked twice, and Min(I) is where an array scan such as              *)
(* `for(i = 0; i != N; ++i) if(...) break;' stops if I is the set of the   *)
(* indices the test accepts.                                               *)
(*                                                                         *)
(* The operators are closed expressions, not recursive functions, so that  *)
(* module PcbListProofs can say what they return for every list.           *)
(***************************************************************************)
EXTENDS Integers, Sequences, FiniteSets, FiniteSetsExt, Functions

\* How many indices of the set I are at most i.
Rank(I, i) == Cardinality({j \in I : j <= i})

\* The sublist of s at the index set I, in list order.
SubList(s, I) ==
    IF I = DOMAIN s
    THEN s
    ELSE [k \in 1 .. Cardinality(I) |-> s[CHOOSE i \in I : Rank(I, i) = k]]

\* The list left when list_del has unlinked the nodes of S.
Without(s, S) == SubList(s, {i \in DOMAIN s : s[i] \notin S})
=============================================================================
