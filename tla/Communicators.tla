--------------------------- MODULE Communicators ---------------------------
(***************************************************************************)
(* Python's communicator objects (pyMPI_comm.c, pyMPI_comm_misc.c,         *)
(* pyMPI_cart.c): a handle, a flag that says who releases it, and the rank *)
(* and size that were asked of MPI when the object was made.  pyMPI itself *)
(* keeps two handles, pyMPI_COMM_WORLD and pyMPI_COMM_INPUT.               *)
(*                                                                         *)
(* A program has three names for communicator objects: WORLD, which the    *)
(* mpi module defines, and its own c and d.                                *)
(***************************************************************************)
EXTENDS MPIRuntime

VARIABLES
    object,             \* object[r][name]: the object that r has under a name
    pyMPI_COMM_WORLD,   \* pyMPI_COMM_WORLD[r], pyMPI_COMM_INPUT[r]: handles
    pyMPI_COMM_INPUT

commVars == <<object, pyMPI_COMM_WORLD, pyMPI_COMM_INPUT>>

Names == {"WORLD", "c", "d"}

None == [is |-> "None", handle |-> COMM_NULL, persistent |-> TRUE, rank |-> 0, size |-> 0]

\* Mutant of CommObject: ranks count from one.
CommObjectRankFromOne(r, handle, persistent) ==
    [is |-> "communicator", handle |-> handle, persistent |-> persistent,
     rank |-> IF handle = COMM_NULL THEN 0 ELSE RankIn(handle, r) + 1,
     size |-> IF handle = COMM_NULL THEN 0 ELSE Len(group[handle])]

\* The constructor mpi.communicator(handle, persistent)
CommObject(r, handle, persistent) ==
    [is         |-> "communicator",
     handle     |-> handle,
     persistent |-> persistent,
     rank       |-> IF handle = COMM_NULL THEN 0 ELSE RankIn(handle, r),
     size       |-> IF handle = COMM_NULL THEN 0 ELSE Len(group[handle])]

\* pyMPI_comm: every communicator that pyMPI makes is built with the default
\* flag, persistent.
pyMPI_comm(r, handle) == CommObject(r, handle, TRUE)

-----------------------------------------------------------------------------
(***************************************************************************)
(* A communicator is a sequence of its ranks.  A slice has its bounds put  *)
(* in place by PySlice_GetIndices, and its length from C's division, which *)
(* rounds towards zero.  A slice that raises is not a sequence of ranks.   *)
(***************************************************************************)
Omitted == 1000
Raises  == <<-1000>>

Quotient(a, b) == IF a >= 0 THEN a \div b ELSE -((-a) \div b)

Bound(index, default, size) ==
    IF index = Omitted THEN default ELSE IF index < 0 THEN index + size ELSE index

\* Mutant of SliceLength: stop is taken for a member of the slice.
SliceLengthInclusive(start, stop, step) ==
    IF step < 0 THEN Quotient(start - stop - step, -step) ELSE Quotient(stop - start + step, step)

SliceLength(start, stop, step) ==
    IF step < 0 THEN Quotient(start - (stop + 1) - step, -step)
    ELSE Quotient((stop - 1) - start + step, step)

comm_slice(size, slice) ==
    LET step  == IF slice.step = Omitted THEN 1 ELSE slice.step
        start == Bound(slice.start, IF step < 0 THEN size - 1 ELSE 0, size)
        stop  == Bound(slice.stop, IF step < 0 THEN -1 ELSE size, size)
        long  == SliceLength(start, stop, step)
    IN  IF step = 0 \/ stop > size \/ start >= size THEN Raises
        ELSE IF long < 0 THEN Raises     \* PyList_New
        ELSE [i \in 1..long |-> start + (i - 1) * step]

comm_item(size, position) == IF position \in 0..(size - 1) THEN <<position>> ELSE Raises

-----------------------------------------------------------------------------
(***************************************************************************)
(* comm_create.  The argument is None, one rank, or a slice of the         *)
(* communicator it is called on; a rank that is no member gets None.       *)
(***************************************************************************)
Inclusions(o, arg) ==
    CASE arg.kind = "rank"  -> <<arg.start>>
      [] arg.kind = "item"  -> comm_item(o.size, arg.start)
      [] arg.kind = "slice" -> comm_slice(o.size, arg)

BadInclusions(o, ranks) ==
    \/ ranks = Raises
    \/ Len(ranks) > o.size
    \/ \E i \in 1..Len(ranks) : ranks[i] \notin 0..(o.size - 1)
    \/ ~IsInjective(ranks)

\* The dimensions of a grid, if they are omitted one dimension of all ranks
Dims(size, grid)    == IF grid.dims = <<>> THEN <<size>> ELSE grid.dims
BadGrid(size, grid) == grid.periods # <<>> /\ Len(grid.periods) # Len(Dims(size, grid))
Product(dims)        == FoldLeft(LAMBDA a, b : a * b, 1, dims)
GridSize(size, grid) == IF grid.dims = <<>> THEN size ELSE Product(grid.dims)

\* The ranks of a new communicator, as world ranks
Included(c, ranks) == [i \in 1..Len(ranks) |-> group[c][ranks[i] + 1]]

\* What a rank gets of a new communicator: nothing, unless it is a member
Handle(r, new) == IF r \in Members(new) THEN new ELSE COMM_NULL

-----------------------------------------------------------------------------
(***************************************************************************)
(* Releasing.  comm_free is what a destroyed object that is not persistent *)
(* does; pyMPI's own communicators and MPI's are let be.  An error is      *)
(* forgotten, and so is what became of the object.                         *)
(***************************************************************************)
\* Mutant of Protected: the copy that pyMPI uses is forgotten.
ProtectedMPIOnly(r) == {COMM_WORLD, COMM_NULL, pyMPI_COMM_INPUT[r]}

Protected(r) == {COMM_WORLD, COMM_NULL, pyMPI_COMM_WORLD[r], pyMPI_COMM_INPUT[r]}

comm_free(r, handle) ==
    IF handle \in Protected(r) THEN UNCHANGED mpiVars
    ELSE Enter(r, handle, "free", <<>>) \/ Misuse(r, handle)

comm_dealloc(r, o) ==
    IF o.is = "communicator" /\ ~o.persistent THEN comm_free(r, o.handle)
    ELSE UNCHANGED mpiVars

\* Rank r gives a name another object: the one it had is destroyed.
Rebind(r, name, o) ==
    /\ comm_dealloc(r, object[r][name])
    /\ object' = [object EXCEPT ![r][name] = o]
    /\ UNCHANGED <<pyMPI_COMM_WORLD, pyMPI_COMM_INPUT>>

\* comm_set_persistent
comm_set_persistent(r, name, flag) ==
    object' = [object EXCEPT ![r][name].persistent = flag]

CommInit ==
    /\ object = [r \in Ranks |-> [n \in Names |-> None]]
    /\ pyMPI_COMM_WORLD = [r \in Ranks |-> COMM_NULL]
    /\ pyMPI_COMM_INPUT = [r \in Ranks |-> COMM_NULL]
=============================================================================
