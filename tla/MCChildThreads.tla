---------------------------- MODULE MCChildThreads ----------------------------
(***************************************************************************)
(* A collection of five jobs, a tree of pairs like that of                 *)
(* matrix_resizer, and a collection in which one runnable calls run on a   *)
(* pair and another on a collection; one to five processors.               *)
(***************************************************************************)
EXTENDS ChildThreads

Leafy(n, calls) == [r \in 1 .. n |-> IF r \in DOMAIN calls THEN calls[r] ELSE <<>>]

MCPrograms ==
  {[kids |-> Leafy(6, <<<<2, 3, 4, 5, 6>>>>), pairs |-> {}],
   [kids |-> Leafy(7, <<<<2, 5>>, <<3, 4>>, <<>>, <<>>, <<6, 7>>>>), pairs |-> {1, 2, 5}],
   [kids |-> Leafy(8, <<<<2, 5, 6>>, <<3, 4>>, <<>>, <<>>, <<>>, <<7, 8>>>>), pairs |-> {2}]}
MCProcessors == 1 .. 5
=============================================================================
