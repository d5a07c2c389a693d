--------------------------- MODULE MCDriverClaims ---------------------------
(***************************************************************************)
(* One module and one utility, for pyMPI: what is said of the driver's     *)
(* barriers, and of the depth of calls.                                    *)
(***************************************************************************)
EXTENDS Pynamic

MCOptions ==
    {[num_files |-> 2, avg_num_functions |-> 2, call_depth |-> 2, num_utility_files |-> 1,
      avg_num_u_functions |-> 2, processes |-> 1, use_mpi4py |-> FALSE, major |-> 2]}

\* The option is the "maximum Pynamic call stack depth" (so_generator.py:477,
\* pynamic.README:125).
DepthKept ==
    \A f \in DOMAIN sizes \cap Modules : \A h \in StackHeights(f) : h <= options.call_depth

(***************************************************************************)
(* The driver holds rank 0 back until all are through, TimesCoverAll, and  *)
(* no call goes deeper than the option says: both are claimed of every     *)
(* build and run.  If only one were right, this disjunction would be, and  *)
(* a behaviour that violates it refutes both.                              *)
(***************************************************************************)
SomeDriverClaimHolds == []TimesCoverAll \/ []DepthKept
=============================================================================
