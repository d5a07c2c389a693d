--------------------------- MODULE MCPointToPoint ---------------------------
(***************************************************************************)
(* Three ranks.  Ranks 1 and 2 send rank 0 one short and two long objects  *)
(* on two tags, rank 0 receives with and without wildcards, and ranks 0    *)
(* and 1 also exchange objects.  MPI buffers everything, so that senders   *)
(* run as far ahead of their receiver as they can.                         *)
(***************************************************************************)
EXTENDS PointToPoint

Short    == [kind |-> "string", bytes |-> <<"a">>]
Empty    == [kind |-> "string", bytes |-> <<>>]
Long     == [kind |-> "string", bytes |-> <<"a", "b">>]
Pickle   == [kind |-> "pickle", bytes |-> <<"b", "b">>]
Number   == [kind |-> "int", bytes |-> <<"a", "b">>]
Lambda   == [kind |-> "unpicklable", bytes |-> <<>>]

MCRank   == 0..2
MCTag    == {"t", "u"}
MCObject == {Short, Empty, Long, Pickle, Number, Lambda}

Sends(o, d, t) ==
    [op |-> "send", obj |-> o, dest |-> d, sendtag |-> t, source |-> ANY, recvtag |-> ANY]
Receives(s, t) ==
    [op |-> "recv", obj |-> Empty, dest |-> 0, sendtag |-> "t", source |-> s, recvtag |-> t]
Exchanges(o, d, t, s) ==
    [op |-> "sendrecv", obj |-> o, dest |-> d, sendtag |-> t, source |-> s, recvtag |-> ANY]

MCCalls == [r \in MCRank |->
    CASE r = 0 -> {Receives(ANY, ANY), Receives(1, "t"), Receives(ANY, "t"),
                   Exchanges(Pickle, 1, "t", ANY)}
      [] r = 1 -> {Sends(Long, 0, "t"), Sends(Empty, 0, "u"), Sends(Lambda, 0, "t"),
                   Exchanges(Long, 0, "u", 0)}
      [] r = 2 -> {Sends(Pickle, 0, "t"), Sends(Number, 0, "u")}]
=============================================================================
