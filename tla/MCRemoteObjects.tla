--------------------------- MODULE MCRemoteObjects ---------------------------
(***************************************************************************)
(* Two ranks and two calls on the objects of three programs: one with an   *)
(* object of rank 1 and one of both on two communicators, one whose objects *)
(* share the default tag, and one object that waits for calls on rank 1    *)
(* only, on a communicator that numbers the ranks the other way round.     *)
(***************************************************************************)
EXTENDS RemoteObjects

World == <<0, 1>>

Object(comm, tag, receive) == [comm |-> comm, tag |-> tag, receive |-> receive]

MCPrograms ==
    {<<Object(<<1>>, 99, {1}), Object(World, 99, {0, 1})>>,
     <<Object(World, 99, {1}), Object(World, 99, {1})>>,
     <<Object(<<1, 0>>, 99, {1})>>}

Index(ranks) == [kind |-> "ranks", ranks |-> ranks]

Slice(start, stop, step) == [kind |-> "slice", start |-> start, stop |-> stop, step |-> step]

\* obj[::-1], obj[0,2,1], obj[1]
MCCalls ==
    {<<Slice(Omitted, Omitted, -1), "returns", TRUE>>,
     <<Index(<<0, 2, 1>>), "forwards", FALSE>>,
     <<Index(<<1>>), "raises", TRUE>>}
=============================================================================
