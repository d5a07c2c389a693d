--------------------------- MODULE MCRemoteClaims ---------------------------
(***************************************************************************)
(* A program of three ranks in which four claims about remote calls come   *)
(* to nothing.  Rank 0 has two objects of the default tag, and rank 1 one  *)
(* of a tag of its own, that wait for calls.  Rank 1 makes a call in two   *)
(* parts, which the wrong object gets; rank 0 one that raises, and one     *)
(* that does not; and rank 2, on a communicator of its own, one on a slice *)
(* that has no end.                                                        *)
(***************************************************************************)
EXTENDS MCRemoteObjects

ClaimsPrograms ==
    {<<Object(World, 99, {0}), Object(World, 99, {0}), Object(World, 5, {1}),
       Object(<<2>>, 99, {})>>}

\* obj[0] with arguments that do not fit into a header, obj[1] with a method
\* that raises, obj[1] with one that returns, and obj[0:2:3], which counts 0,
\* 3, 6, ...
Long    == <<Index(<<0>>), "returns", TRUE>>
Raising == <<Index(<<1>>), "raises", FALSE>>
Next1   == <<Index(<<1>>), "returns", FALSE>>
Endless == <<Slice(0, 2, 3), "returns", FALSE>>

ClaimsCalls == {Long, Raising, Next1, Endless}

\* The calls of the program, in this order: who makes it on which object
Script == <<<<1, 1, Long>>, <<0, 3, Raising>>, <<0, 3, Next1>>, <<2, 4, Endless>>>>

Scripted(r, k, call) ==
    /\ Len(called) < Len(Script)
    /\ Script[Len(called) + 1] = <<r, k, call>>
    /\ Call(r, k, call)

ClaimsNext ==
    \/ \E r \in Ranks, k \in DOMAIN objects : remote_init(r, k) \/ InitDone(r, k)
    \/ \E r \in Ranks, k \in DOMAIN objects, call \in Calls : Scripted(r, k, call)
    \/ \E q, r \in Ranks : Match(q, r)
    \/ \E r \in Ranks : Hook(r) \/ Surfaces(r)

ClaimsSpec == Init /\ [][ClaimsNext]_vars /\ Fairness

\* "We must process unexpected messages as they come in" (rco_housekeeping):
\* there comes a time when all calls to a rank are executed.
Unprocessed(r)    == \E c \in DOMAIN called : Awaited(c, r) /\ ~Executed(c, r)
CallsProcessed(r) == Unprocessed(r) ~> ~Unprocessed(r)

\* "When we slice or index, we are really just specifying which ranks are going
\* to be involved in the send" (partial_slice): to send comes to an end.
SlicesEnd == looping = {}

\* "List of sends that have posted, but have not yet cleared machine"
\* (sends_posted): it has the request of every message that is under way.
SendsKept ==
    \A q \in Ranks : \A m \in ToSet(wire[q]) : [m EXCEPT !.body = FALSE] \in sends_posted[q]

(***************************************************************************)
(* Each of these is claimed of every program; if only one of them were     *)
(* right, the first at one of the ranks that get calls, this disjunction   *)
(* would be.  A behaviour that violates it refutes all at once: rank 0 has *)
(* a body for a header, and rank 1 executes the call that raises for ever, *)
(* and the next never.                                                     *)
(***************************************************************************)
SomeRemoteClaimHolds ==
    \/ \E r \in {0, 1} : CallsProcessed(r)
    \/ []SlicesEnd
    \/ []SendsKept
=============================================================================
