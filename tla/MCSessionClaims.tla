--------------------------- MODULE MCSessionClaims ---------------------------
(***************************************************************************)
(* A session of two ranks at a prompt, in which five claims about pyMPI's  *)
(* sessions come to nothing: rank 0 alone gets a communicator c, output is *)
(* synchronized on c, and the program frees WORLD, finalizes MPI and       *)
(* exits.  cart_create leaves rank 1 a null object, of rank 0 and size 0.  *)
(***************************************************************************)
EXTENDS MCSession

AnyFollows(before, l) == TRUE

PromptOnly == {<<"prompt", TRUE>>}

ClaimsLines ==
    <<{Cart(<<1>>, <<>>)}, {Queue("c", {}, "none", "absent")}, {On("free", "WORLD")},
      {Do("finalize")}, {Do("exit")}>>

\* A rank that synchronizes its output is held up by members of the
\* communicator only: "Control output/errput on various ranks on a
\* communicator" (comm_synchronizeQueuedOutput).  The barrier is on
\* MPI_COMM_WORLD.
HeldByMembers ==
    \A r \in Ranks :
        pc[r] = "out:syncBarrier" /\ Target(r).handle # COMM_NULL
            /\ ~Complete(r, COMM_WORLD, FALSE) =>
            \E q \in Members(Target(r).handle) : ~Joined(q, r, COMM_WORLD)

\* No program releases pyMPI's copy of MPI_COMM_WORLD: "Don't allow
\* MPI_COMM_WORLD or PYTHON_COMM_WORLD to be freed." (comm_free).
WorldNotFreed ==
    \A r \in Ranks : pc[r] \in Reading \cup {"run"} => pyMPI_COMM_WORLD[r] \notin freed[r]

\* No process finalizes MPI twice: "It is called at shutdown unless already
\* finalized" (pyMPI_sysmods_fini).
FinalizedOnce == \A r \in Ranks : finalizes[r] <= 1

\* A slice has only ranks of its communicator: "Slices from a communicator
\* return the list of "rank" numbers in the range" (comm_slice).
SlicesAreRanks ==
    (\A r \in Ranks : pc[r] = "start") =>
        \A size \in 1..4, start, stop \in {Omitted} \cup -5..5 :
            LET s == comm_slice(size, [start |-> start, stop |-> stop, step |-> Omitted])
            IN  s # Raises => ToSet(s) \subseteq 0..(size - 1)

\* Every rank's session ends with the input: "When finalized, the slaves are
\* cut off from the input stream" (parallelReadline).  What a slave gets is an
\* interrupt, and it prompts for ever.
SlavesCutOff == <>(\A r \in Ranks : ~Alive(r) \/ pc[r] = "gone")

(***************************************************************************)
(* Each of the five is claimed of every session; if only one of them were  *)
(* right, this disjunction would be.  A session that violates it refutes   *)
(* all five at once.                                                       *)
(***************************************************************************)
SomeSessionClaimHolds ==
    \/ []HeldByMembers
    \/ []WorldNotFreed
    \/ []FinalizedOnce
    \/ []SlicesAreRanks
    \/ SlavesCutOff
=============================================================================
