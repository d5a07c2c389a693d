----------------------------- MODULE MPIRuntime -----------------------------
(***************************************************************************)
(* What the interpreter's own modules use of MPI: starting and finalizing  *)
(* it, communicators, and the collective calls made on them.  MPI is       *)
(* external.                                                               *)
(*                                                                         *)
(* A communicator is named by its ancestry: Append(c, k) is the one that   *)
(* the k-th collective call on c creates, so the ranks that make that call *)
(* agree on the name.  calls[c][r] is the log of the collective calls r    *)
(* has made on c; MPI takes the k-th of every member for one and the same, *)
(* and if they are different calls none of them returns.                   *)
(*                                                                         *)
(* MPI may, but need not, let a call return before the others have got     *)
(* there: early, a parameter of the steps that end a call, says it does.   *)
(***************************************************************************)
EXTENDS Integers, SequencesExt

CONSTANT N      \* the number of ranks of the job

ASSUME NAssumption == N \in Nat \ {0}

Ranks == 0..(N - 1)

VARIABLES
    pc,         \* pc[r]: the code that rank r runs, or the MPI call it waits at
    mpi,        \* mpi[r]: what r has done with MPI
    finalizes,  \* finalizes[r]: the number of calls of MPI_Finalize
    group,      \* group[c]: the ranks of communicator c, in its own order
    calls,      \* calls[c][r]: the collective calls of r on c
    freed,      \* freed[r]: the communicators that r has released
    misused     \* misused[r]: MPI calls of r that MPI does not allow

mpiVars == <<mpi, finalizes, group, calls, freed, misused>>

COMM_WORLD == <<>>
COMM_NULL  == <<0>>

Members(c)     == ToSet(group[c])
RankIn(c, r)   == (CHOOSE i \in 1..Len(group[c]) : group[c][i] = r) - 1
Root(c)        == group[c][1]
MPI_States     == {"off", "on", "finalizing", "finalized", "killed"}
Alive(r)       == mpi[r] # "killed"

\* MPI_Initialized and MPI_Finalized, as pyMPI_util_ready puts them together
Ready(r) == mpi[r] = "on"
Finalized(r) == mpi[r] \in {"finalizing", "finalized"}

Usable(r, c) == Ready(r) /\ c \in DOMAIN group /\ c \notin freed[r] /\ r \in Members(c)

\* Rank r makes a collective call on c: data is what its root passes.
Enter(r, c, op, data) ==
    /\ Usable(r, c)
    /\ calls' = [calls EXCEPT ![c][r] = Append(@, [op |-> op, data |-> data])]
    /\ freed' = IF op = "free" THEN [freed EXCEPT ![r] = @ \cup {c}] ELSE freed
    /\ UNCHANGED <<mpi, finalizes, group, misused>>

Abort == mpi' = [q \in Ranks |-> "killed"]

\* Rank r calls MPI when it must not, or with a communicator that is none.
\* The call returns an error, or the job dies.
Misuse(r, c) ==
    /\ ~Usable(r, c)
    /\ misused' = [misused EXCEPT ![r] = @ \cup
           {IF ~Ready(r) THEN "notReady" ELSE IF c = COMM_NULL THEN "null" ELSE "stale"}]
    /\ mpi' = mpi \/ Abort
    /\ UNCHANGED <<finalizes, group, calls, freed>>

-----------------------------------------------------------------------------
Turn(r, c) == Len(calls[c][r])
Now(r, c)  == calls[c][r][Turn(r, c)]

Joined(q, r, c) ==
    Len(calls[c][q]) >= Turn(r, c) /\ calls[c][q][Turn(r, c)].op = Now(r, c).op

\* Whom must the call that r waits at on c wait for?
Awaited(r, c, early) ==
    IF Now(r, c).op # "bcast" THEN Members(c)
    ELSE IF r # Root(c) THEN {Root(c)}
    ELSE IF early THEN {} ELSE Members(c)

Complete(r, c, early) == \A q \in Awaited(r, c, early) : Joined(q, r, c)

\* What the root of the broadcast that r waits at has sent
Sent(r, c) == calls[c][Root(c)][Turn(r, c)].data

\* The communicator that the call r waits at makes, of the ranks given: it is
\* there once the first member returns with it.
NewComm(r, c) == Append(c, Turn(r, c))
Create(new, ranks) ==
    LET known == DOMAIN group \cup {new}
    IN  /\ group' = [x \in known |-> IF x \in DOMAIN group THEN group[x] ELSE ranks]
        /\ calls' = [x \in known |-> IF x \in DOMAIN group THEN calls[x] ELSE [q \in Ranks |-> <<>>]]
        /\ UNCHANGED <<mpi, finalizes, freed, misused>>

MPI_Init(r) ==
    /\ mpi' = [mpi EXCEPT ![r] = "on"]
    /\ UNCHANGED <<finalizes, group, calls, freed, misused>>

\* MPI_Finalize is called, and returns when all ranks have called it.
MPI_Finalize(r) ==
    /\ finalizes' = [finalizes EXCEPT ![r] = @ + 1]
    /\ IF Ready(r)
       THEN /\ mpi' = [mpi EXCEPT ![r] = "finalizing"]
            /\ UNCHANGED misused
       ELSE /\ misused' = [misused EXCEPT ![r] = @ \cup {"notReady"}]
            /\ mpi' = mpi \/ Abort
    /\ UNCHANGED <<group, calls, freed>>

FinalizeReturns(r, early) ==
    /\ early \/ \A q \in Ranks : Finalized(q)
    /\ mpi' = [mpi EXCEPT ![r] = IF @ = "finalizing" THEN "finalized" ELSE @]
    /\ UNCHANGED <<finalizes, group, calls, freed, misused>>

MPIInit ==
    /\ mpi = [r \in Ranks |-> "off"]
    /\ finalizes = [r \in Ranks |-> 0]
    /\ group = [c \in {COMM_WORLD} |-> [i \in 1..N |-> i - 1]]
    /\ calls = [c \in {COMM_WORLD} |-> [r \in Ranks |-> <<>>]]
    /\ freed = [r \in Ranks |-> {}]
    /\ misused = [r \in Ranks |-> {}]
=============================================================================
