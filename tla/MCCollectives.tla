---------------------------- MODULE MCCollectives ----------------------------
(***************************************************************************)
(* Five ranks, so that in a tree one rank both receives and sends and one  *)
(* waits a round.  Programs make one call, or two in succession that use   *)
(* the same tag or the same MPI collectives with different roots.          *)
(***************************************************************************)
EXTENDS Collectives

MCN == 5

Plain(op, root) ==
    [op |-> op, root |-> root, dest |-> 2, length |-> 0, long |-> {}, bad |-> {},
     ground |-> FALSE, native |-> FALSE, tree |-> FALSE]

Barrier    == Plain("barrier", 0)
Pass       == Plain("message", 1)
Bcast      == [Plain("bcast", 1) EXCEPT !.long = {1}]
Gather     == [Plain("gather", 0) EXCEPT !.long = {2}]
Allgather  == [Plain("allgather", 0) EXCEPT !.long = {1}]
Scatter    == [Plain("scatter", 1) EXCEPT !.length = 8]
Reduce     == Plain("reduce", 1)
Allreduce  == [Plain("allreduce", 0) EXCEPT !.bad = {1}]
Scan       == Plain("scan", 1)
TreeReduce == [Plain("reduce", 1) EXCEPT !.tree = TRUE]
TreeAll    == [Plain("allreduce", 2) EXCEPT !.tree = TRUE]

Single ==
    {Plain("bcast", MCN),
     [Plain("gather", 1) EXCEPT !.bad = {2}],
     [Plain("scatter", 0) EXCEPT !.bad = {0}],
     [Plain("reduce", 0) EXCEPT !.bad = {0}],
     [Plain("reduce", 0) EXCEPT !.ground = TRUE, !.bad = {0}, !.tree = TRUE],
     [Plain("allreduce", 4) EXCEPT !.long = {0}],
     [Plain("scan", 0) EXCEPT !.bad = {1}, !.ground = TRUE],
     [Plain("reduce", 0) EXCEPT !.tree = TRUE, !.bad = {4}],
     [Plain("reduce", 1) EXCEPT !.native = TRUE],
     [Plain("scan", 0) EXCEPT !.native = TRUE]}

MCPrograms ==
    {<<c>> : c \in Single} \cup
    {<<Barrier, Bcast>>, <<Bcast, Gather>>, <<Gather, Allgather>>, <<Allgather, Barrier>>,
     <<Scatter, Pass>>, <<Pass, Scatter>>, <<Pass, Reduce>>, <<Reduce, Allreduce>>,
     <<Scan, Reduce>>, <<Allreduce, Scan>>, <<TreeReduce, TreeAll>>, <<TreeAll, TreeReduce>>,
     <<[Plain("allreduce", 0) EXCEPT !.native = TRUE], Bcast>>}

\* The hypothesis of theorem CollectivesPairUp.
ASSUME MCNoneCutShort == NoneCutShort
==============================================================================
