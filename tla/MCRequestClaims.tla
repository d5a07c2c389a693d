--------------------------- MODULE MCRequestClaims ---------------------------
(***************************************************************************)
(* Programs in which four claims about requests come to nothing.  Rank 1   *)
(* isends rank 0 two long strings with one tag and the empty string with   *)
(* another, and tests the last; rank 0 posts its irecvs for them before it *)
(* looks at any, as MPI programs do, and waits for two.  Then rank 1 and   *)
(* rank 2 exchange long strings: each isends one, posts an irecv for the   *)
(* other's and calls waitall([send, receive]).  MPI buffers nothing.       *)
(***************************************************************************)
EXTENDS Requests

Long  == [kind |-> "string", bytes |-> <<"a", "b">>]
Other == [kind |-> "string", bytes |-> <<"b", "a">>]
Empty == [kind |-> "string", bytes |-> <<>>]

MCRank   == 0..2
MCTag    == {"t", "u"}
MCObject == {Long, Other, Empty}

To(obj, dest, tag) == [obj |-> obj, dest |-> dest, tag |-> tag]
From(source, tag)  == [source |-> source, tag |-> tag]

MCSends == [r \in MCRank |->
    CASE r = 0 -> {}
      [] r = 1 -> {To(Long, 0, "t"), To(Other, 0, "t"), To(Empty, 0, "u"), To(Long, 2, "t")}
      [] r = 2 -> {To(Long, 1, "t")}]

MCReceives == [r \in MCRank |->
    IF r = 0 THEN {From(1, "t"), From(1, "u")} ELSE {From(3 - r, "t")}]

MCUses == [r \in MCRank |-> {"test", "wait"}]

MCMaxRequests == [r \in MCRank |-> CASE r = 0 -> 3 [] r = 1 -> 5 [] r = 2 -> 2]

Count(r) == Len(req[r])

Program0 ==
    \/ Count(0) < 2 /\ Irecv(0, From(1, "t"))
    \/ Count(0) = 2 /\ Irecv(0, From(1, "u"))
    \/ Count(0) = 3 /\ Wait(0, <<2, 3>>)

\* The waitall of r, whose send is request k and whose receive the next, has returned.
Done(r, k) == Count(r) > k /\ req[r][k].told /\ req[r][k + 1].message # NONE

Program1 ==
    \/ Count(1) = 0 /\ Isend(1, To(Long, 0, "t"))
    \/ Count(1) = 1 /\ Isend(1, To(Other, 0, "t"))
    \/ Count(1) = 2 /\ Isend(1, To(Empty, 0, "u"))
    \/ Count(1) = 3 /\ ~req[1][3].told /\ Test(1, 3)
    \/ Count(1) = 3 /\ req[1][3].told /\ Isend(1, To(Long, 2, "t"))
    \/ Count(1) = 4 /\ Irecv(1, From(2, "t"))
    \/ Count(1) = 5 /\ ~Done(1, 4) /\ Wait(1, <<4, 5>>)

Program2 ==
    \/ Count(2) = 0 /\ Isend(2, To(Long, 1, "t"))
    \/ Count(2) = 1 /\ Irecv(2, From(1, "t"))
    \/ Count(2) = 2 /\ ~Done(2, 1) /\ Wait(2, <<1, 2>>)

ClaimsNext == Program0 \/ Program1 \/ Program2 \/ \E r \in Rank : WaitStep(r) \/ MatchMessage(r)

ClaimsSpec ==
    /\ Init /\ [][ClaimsNext]_vars
    /\ WF_vars(Program0) /\ WF_vars(Program1) /\ WF_vars(Program2)
    /\ \A r \in Rank : WF_vars(WaitStep(r)) /\ WF_vars(MatchMessage(r))

\* A send that test or wait has called complete is complete in each of its
\* messages ("Test to see if a nonblocking operation has finished", request_test).
\* test looks at the body's request alone, which is null for an object that
\* fits into the header.
ToldSendIsOver ==
    \A r \in Rank : \A k \in 1..Len(req[r]) :
        LET q == req[r][k]
        IN  q.send /\ q.told =>
                /\ SendDone(r, q.peer, q.hdr.index)
                /\ q.bod.index # 0 => SendDone(r, q.peer, q.bod.index)

\* An irecv waits for the two messages of one object and then reconstitutes
\* it, as the design notes say: Intact.  Nothing keeps the second irecv, posted
\* first, from being given the body of the first one's object as its header.
OverlappingReceivesIntact == Intact

\* No process dies of a receive: the empty string is a serializable Python
\* object, which recv receives.  But request_second_message hands pyMPI_unpack
\* no place for a second message, and pyMPI_unpack looks there for it.
NoRankCrashes == crashed = {}

\* Both waitalls return: all of the exchange can be fulfilled, and the design
\* notes say that waitall polls all of its requests.  It waits one by one, and
\* a receive whose turn has not come does not post the receive of its body.
ExchangeCompletes == <>(Done(1, 4) /\ Done(2, 1))

(***************************************************************************)
(* Each of the four is claimed of every behaviour; if only one of them     *)
(* were right, this disjunction would be.  A behaviour that violates it    *)
(* refutes all four at once.                                               *)
(***************************************************************************)
SomeRequestClaimHolds ==
    \/ []ToldSendIsOver
    \/ []OverlappingReceivesIntact
    \/ []NoRankCrashes
    \/ ExchangeCompletes
==============================================================================
