------------------------- MODULE MCCollectiveClaims -------------------------
(***************************************************************************)
(* Three ranks call allreduce in tree order, and pass root 1; then they    *)
(* call allgather, and what rank 2 contributes cannot be unpickled at rank *)
(* 0, the root of the gather.                                              *)
(***************************************************************************)
EXTENDS Collectives

MCN == 3

MCCall(op, root, bad, tree) ==
    [op |-> op, root |-> root, dest |-> 0, length |-> 0, long |-> {}, bad |-> bad,
     ground |-> FALSE, native |-> FALSE, tree |-> tree]

MCPrograms ==
    {<<MCCall("allreduce", 1, {}, TRUE), MCCall("allgather", 0, {2}, FALSE)>>}

\* A reduction combines the values of the ranks in rank order: its result is
\* documented as op(op(...op(rank0_value,rank1_value),...),rankn-1_value),
\* Python operators as non-commutative, and the root of an allreduce as not
\* applicable.
CombinedInRankOrder ==
    \A r \in Rank : \A k \in 1..Len(returned[r]) :
        program[k].op \in Reduction => returned[r][k] = Promised(program[k], k, r)

\* allgather ends on every rank, with a list or an exception: its comments say
\* that rank 0 must broadcast to the other processes even if its gather fails,
\* and that the exception must not prevent that broadcast.
AllgatherEnds == <>(\A r \in Rank : Len(returned[r]) = Len(program))

(***************************************************************************)
(* Both are claimed of every behaviour; if only one of them were right,    *)
(* this disjunction would be.  A behaviour that violates it refutes both:  *)
(* the allreduce returns the values in the order 1, 2, 0, and ranks 1 and  *)
(* 2 wait for ever in the broadcast of allgather.                          *)
(***************************************************************************)
SomeCollectiveClaimHolds == []CombinedInRankOrder \/ AllgatherEnds
=============================================================================
