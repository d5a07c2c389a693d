------------------------------ MODULE MCRequests ------------------------------
(***************************************************************************)
(* Two senders and a receiver.  Rank 1 isends rank 0 two objects, long or  *)
(* empty, on one tag or on two, and rank 2 a short one; rank 0 posts       *)
(* receives with and without wildcards.  MPI buffers nothing, and programs *)
(* keep within the rules that pyMPI leaves to them (Liberties = {}).       *)
(***************************************************************************)
EXTENDS Completion

Short  == [kind |-> "string", bytes |-> <<"a">>]
Empty  == [kind |-> "string", bytes |-> <<>>]
Long   == [kind |-> "string", bytes |-> <<"a", "b">>]

MCRank   == 0..2
MCTag    == {"t", "u"}
MCObject == {Short, Empty, Long}

To0(o, t) == [obj |-> o, dest |-> 0, tag |-> t]

MCSends == [r \in MCRank |->
    CASE r = 0 -> {}
      [] r = 1 -> {To0(Long, "t"), To0(Empty, "u")}
      [] r = 2 -> {To0(Short, "t")}]

MCUses == [r \in MCRank |->
    CASE r = 0 -> {"test", "test_cancelled", "wait", "cancel", "drop"}
      [] r = 1 -> {"test", "forget"}
      [] r = 2 -> {"wait", "drop"}]

MCPolls == [r \in MCRank |->
    IF r = 0 THEN {<<"waitany", <<1, 2>>>>, <<"waitsome", <<2, 1>>>>} ELSE {}]

MCMaxRequests == [r \in MCRank |-> IF r = 2 THEN 1 ELSE 2]

MCReceives == [r \in MCRank |->
    IF r = 0 THEN {[source |-> ANY, tag |-> ANY], [source |-> 1, tag |-> "t"]} ELSE {}]
==============================================================================
