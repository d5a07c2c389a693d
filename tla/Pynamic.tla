------------------------------ MODULE Pynamic ------------------------------
(***************************************************************************)
(* The benchmark as a whole: the build (Generator), and then the driver    *)
(* that create_driver wrote, executed by every rank.  It imports all       *)
(* modules, calls the entry function of each, and computes a fractal; rank *)
(* 0 takes the times, after a barrier each.                                *)
(***************************************************************************)
EXTENDS Generator, Sequences

CONSTANTS N     \* the number of ranks

ASSUME NAssumption == N \in Nat \ {0}

VARIABLES
    mpi,        \* what the driver has imported: "pyMPI", "mpi4py", or "none"
    at,         \* at[r]: the part of the driver that r is in
    entered,    \* entered[r]: the barriers that r has come to
    imported,   \* imported[r], visited[r]: the modules that r has imported, called
    visited,
    reduced     \* the ranks that have given their part of the fractal

driverVars == <<mpi, at, entered, imported, visited, reduced>>
vars == <<buildVars, driverVars>>

\* Without MPI there is one rank, and its barrier is dummy_mpi's.
Ranks == IF mpi = "none" THEN {0} ELSE 0..(N - 1)

Parts == <<"barrier1", "import", "barrier2", "visit", "barrier3", "fractal", "barrier4", "gone">>

Place(part) == CHOOSE i \in DOMAIN Parts : Parts[i] = part
Past(r, part) == at[r] # "idle" /\ Place(at[r]) > Place(part)
After(part) == Parts[Place(part) + 1]

NumModules == Cardinality(Modules)

\* The driver imports begin, then the modules by their numbers, then final.
Nth(k) == IF k = 1 THEN Begin ELSE IF k = NumModules + 2 THEN Final ELSE Module(k - 2)
Last   == NumModules + 2

-----------------------------------------------------------------------------
Launch ==
    /\ stage = "done" /\ at[0] = "idle"
    /\ mpi' \in IF options.use_mpi4py THEN {"mpi4py", "none"} ELSE {"pyMPI", "none"}
    /\ at' = [r \in 0..(N - 1) |-> "barrier1"]
    /\ UNCHANGED <<buildVars, entered, imported, visited, reduced>>

Go(r, to) == at' = [at EXCEPT ![r] = to]

BarrierParts == {"barrier1", "barrier2", "barrier3", "barrier4"}
Number(part) == CASE part = "barrier1" -> 1 [] part = "barrier2" -> 2
                  [] part = "barrier3" -> 3 [] part = "barrier4" -> 4

\* Mutant of Barrier: only the rank that takes the time calls it.
BarrierOfTimer(r) ==
    /\ r = 0 /\ at[r] \in BarrierParts /\ mpi = "mpi4py" /\ entered[r] < Number(at[r])
    /\ entered' = [entered EXCEPT ![r] = @ + 1]
    /\ UNCHANGED <<buildVars, mpi, at, imported, visited, reduced>>

\* The wrapper of mpi4py calls the barrier.
Barrier(r) ==
    /\ at[r] \in BarrierParts /\ mpi = "mpi4py" /\ entered[r] < Number(at[r])
    /\ entered' = [entered EXCEPT ![r] = @ + 1]
    /\ UNCHANGED <<buildVars, mpi, at, imported, visited, reduced>>

\* Mutant of MayLeave: the barrier does not wait.
MayLeaveAtOnce(r) == at[r] \in BarrierParts /\ (mpi = "mpi4py" => entered[r] = Number(at[r]))

\* That of pyMPI names it, actual_mpi.barrier, and goes on; so does dummy_mpi.
MayLeave(r) ==
    /\ at[r] \in BarrierParts
    /\ mpi = "mpi4py" => \A q \in Ranks : entered[q] >= Number(at[r])

BarrierDone(r) ==
    /\ MayLeave(r)
    /\ Go(r, IF at[r] = "barrier3" /\ mpi = "none" THEN "gone" ELSE After(at[r]))
    /\ UNCHANGED <<buildVars, mpi, entered, imported, visited, reduced>>

Import(r) ==
    /\ at[r] = "import" /\ Nth(imported[r] + 1) \in built
    /\ imported' = [imported EXCEPT ![r] = @ + 1]
    /\ IF imported'[r] = Last THEN Go(r, "barrier2") ELSE UNCHANGED at
    /\ UNCHANGED <<buildVars, mpi, entered, visited, reduced>>

\* libmodulebegin.begin_break_here(), libmodule<i>_entry(), libmodulefinal.break_here()
Visit(r) ==
    /\ at[r] = "visit"
    /\ visited' = [visited EXCEPT ![r] = @ + 1]
    /\ IF visited'[r] = Last THEN Go(r, "barrier3") ELSE UNCHANGED at
    /\ UNCHANGED <<buildVars, mpi, entered, imported, reduced>>

\* mpi.reduce(..., mpi.SUM, 0): rank 0 has the sum when it has every part.
Reduce(r) ==
    /\ at[r] = "fractal" /\ r \notin reduced
    /\ reduced' = reduced \cup {r}
    /\ UNCHANGED <<buildVars, mpi, at, entered, imported, visited>>

ReduceDone(r) ==
    /\ at[r] = "fractal" /\ r \in reduced
    /\ r = 0 => Ranks \subseteq reduced
    /\ Go(r, "barrier4")
    /\ UNCHANGED <<buildVars, mpi, entered, imported, visited, reduced>>

-----------------------------------------------------------------------------
Init ==
    /\ BuildInit
    /\ mpi = "none"
    /\ at = [r \in 0..(N - 1) |-> "idle"]
    /\ entered = [r \in 0..(N - 1) |-> 0]
    /\ imported = [r \in 0..(N - 1) |-> 0]
    /\ visited = [r \in 0..(N - 1) |-> 0]
    /\ reduced = {}

Rank(r) == Barrier(r) \/ BarrierDone(r) \/ Import(r) \/ Visit(r) \/ Reduce(r) \/ ReduceDone(r)

Next ==
    \/ BuildNext /\ UNCHANGED driverVars
    \/ Launch
    \/ \E r \in Ranks : Rank(r)

(***************************************************************************)
(* The main process, the workers of the pool and the ranks all get on.     *)
(***************************************************************************)
Fairness ==
    /\ WF_vars(MainProcess /\ UNCHANGED driverVars)
    /\ WF_vars((\E f \in DOMAIN tasks : Worker(f)) /\ UNCHANGED driverVars)
    /\ WF_vars(Launch)
    /\ \A r \in 0..(N - 1) : WF_vars(r \in Ranks /\ Rank(r))

Spec == Init /\ [][Next]_vars /\ Fairness

-----------------------------------------------------------------------------
(***************************************************************************)
(* When a library is compiled, those it is linked with are there           *)
(* (so_generator.py:384, 406: the results of the pool are awaited); the    *)
(* executables of a build that ends well have the libraries of this build, *)
(* not those of an earlier one, in the directory or in the archive.        *)
(***************************************************************************)
LibrariesThere ==
    /\ \A f \in DOMAIN tasks : tasks[f] = "running" => Libraries(f) \subseteq built
    /\ stage \in {"final", "begin"} =>
           Libraries(IF stage = "final" THEN Final ELSE Begin) \subseteq built
    /\ stage = "done" =>
           /\ linked = Imported \cup Utilities
           /\ archive = Imported \cup Utilities

\* The functions of a file that call function i of it; -1 is the entry.
Callers(n, i) == {j \in 0..(n - 1) : CallsNext(n, j) /\ j + 1 = i}
                   \cup (IF EntryCalls(i) THEN {-1} ELSE {})

(***************************************************************************)
(* An entry function visits every function of its module, once, and stacks *)
(* no more than call_depth of them; the utility functions that they draw   *)
(* (so_generator.py:145-154) may stack as many again on top.               *)
(***************************************************************************)
VisitsRight ==
    \A f \in DOMAIN sizes \cap Modules :
        /\ \A i \in 0..(sizes[f] - 1) : Cardinality(Callers(sizes[f], i)) = 1
        /\ \A h \in StackHeights(f) :
              h <= options.call_depth + (IF Utilities = {} THEN 0 ELSE options.call_depth)

(***************************************************************************)
(* When rank 0 takes the time of the imports, the visits, the fractal, the *)
(* other ranks are through with them, too ("driver finished importing all  *)
(* modules", so_generator.py:289).                                         *)
(***************************************************************************)
TimesCoverAll ==
    \A q \in Ranks :
        /\ Past(0, "barrier2") => imported[q] = Last
        /\ Past(0, "barrier3") => visited[q] = Last
        /\ Past(0, "barrier4") /\ mpi # "none" => q \in reduced

\* The same of the driver for mpi4py, and of one process alone.
TimesCoverAllMpi4py == mpi # "pyMPI" => TimesCoverAll

(***************************************************************************)
(* A build and the driver come to an end, unless a worker of the pool is   *)
(* lost with its task: then the main process waits for ever, instead of    *)
(* stopping with the error that print_error shows (so_generator.py:503).   *)
(***************************************************************************)
EverythingEnds ==
    <>(\/ stage = "error"
       \/ \E f \in DOMAIN tasks : tasks[f] = "lost"
       \/ \A r \in Ranks : at[r] = "gone")
=============================================================================
