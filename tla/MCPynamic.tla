----------------------------- MODULE MCPynamic -----------------------------
(***************************************************************************)
(* Builds of up to four modules and two utilities by a pool of up to three *)
(* processes, over an earlier build of more modules; call depths 0 to 2;   *)
(* an average of 1, so that a utility may have no function.                *)
(***************************************************************************)
EXTENDS Pynamic

Option(files, avg, depth, utilities, avg_u, processes, mpi4py, major) ==
    [num_files |-> files, avg_num_functions |-> avg, call_depth |-> depth,
     num_utility_files |-> utilities, avg_num_u_functions |-> avg_u,
     processes |-> processes, use_mpi4py |-> mpi4py, major |-> major]

MCOptions ==
    {Option(3, 2, 2, 1, 1, 2, FALSE, 2), Option(4, 2, 2, 2, 2, 2, TRUE, 3), Option(5, 2, 2, 1, 2, 3, TRUE, 3),
     Option(2, 3, 1, 0, 0, 1, FALSE, 2), Option(2, 1, 2, 1, 2, 1, TRUE, 3),
     Option(2, 2, 0, 1, 1, 1, FALSE, 2), Option(1, 2, 1, 2, 2, 2, FALSE, 2),
     Option(1, 2, 1, 0, 2, 0, FALSE, 2)}

MCStale == {Module(0), Module(4), Utility(0), Begin, Final}
=============================================================================
