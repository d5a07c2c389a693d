------------------------------- MODULE MCShift -------------------------------
(***************************************************************************)
(* The left shift of sendrecv's documentation: every rank passes an object *)
(* too long for the header to its left neighbour and receives one from its *)
(* right neighbour.  MPI buffers headers (PYMPI_EAGER_LIMIT is chosen for  *)
(* that) and lets bodies wait for their receivers.                         *)
(***************************************************************************)
EXTENDS PointToPoint

Long == [kind |-> "pickle", bytes |-> <<"a", "b">>]

MCRank   == 0..2
MCTag    == {"t"}
MCObject == {Long}

Left(r)  == (r + 2) % 3
Right(r) == (r + 1) % 3

MCCalls == [r \in MCRank |->
    {[op |-> "sendrecv", obj |-> Long, dest |-> Left(r), sendtag |-> "t",
      source |-> Right(r), recvtag |-> ANY]}]

\* Every rank of the shift does make its call.
ShiftSpec == FairSpec /\ \A r \in Rank : WF_vars(MakeCall(r))

(***************************************************************************)
(* The shift completes: every rank's sendrecv returns.  What sendrecv      *)
(* promises for "Any serializable Python object" (pyMPI_comm_message.c),   *)
(* and what the unit tests expect of a 256-pair tuple.                     *)
(***************************************************************************)
ShiftCompletes == <>(\A r \in Rank : Len(delivered[r]) = 1)
==============================================================================
