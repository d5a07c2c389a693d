----------------------------- MODULE Generator -----------------------------
(***************************************************************************)
(* The generator of Pynamic (so_generator.py) and the build around it      *)
(* (config_pynamic.py): C files with random functions, compiled by a pool  *)
(* of processes into shared libraries, an archive of their object files,   *)
(* and the executables that are linked with them.                          *)
(*                                                                         *)
(* A function is known by its number, a file by its kind and number; types *)
(* and arguments of functions are left out.  The compiler, make and        *)
(* multiprocessing are external: a command succeeds or fails.              *)
(***************************************************************************)
EXTENDS Integers, FiniteSets

CONSTANTS
    Options,    \* command lines, as records
    Stale       \* the files of an earlier build, in the same directory

ASSUME OptionsAssumption ==
    Options \subseteq [num_files : Nat, avg_num_functions : Nat, call_depth : Nat,
                       num_utility_files : Nat, avg_num_u_functions : Nat,
                       processes : Nat, use_mpi4py : BOOLEAN, major : {2, 3}]

VARIABLES
    options,
    stage,      \* how far the main process is
    sizes,      \* the C files written: how many functions each has
    tasks,      \* tasks[f]: what became of compile_file(f) in the pool
    built,      \* the files whose shared library and object are there
    archive,    \* what libpynamic.a has
    linked      \* the libraries that the executables are linked with

buildVars == <<options, stage, sizes, tasks, built, archive, linked>>

Utility(i) == <<"libutility", i>>
Module(i)  == <<"libmodule", i>>
Final      == <<"libmodulefinal", 0>>
Begin      == <<"libmodulebegin", 0>>

Utilities == {Utility(i) : i \in 0..(options.num_utility_files - 1)}
Modules   == {Module(i) : i \in 0..(options.num_files - options.num_utility_files - 1)}

\* compile_file: what the command links a library with.
Libraries(f) ==
    CASE f \in Modules   -> Utilities
      [] f = Begin       -> Modules
      [] OTHER           -> {}

-----------------------------------------------------------------------------
(***************************************************************************)
(* generate_c_file.  Function i calls the next one, unless it is the last  *)
(* of the file or of a chain of call_depth; the entry calls the first of   *)
(* every chain.  Before that, a function of a module calls one of a        *)
(* utility, which is drawn from all of them, and calls its next in turn.   *)
(***************************************************************************)
CallsNextTooFar(n, i) == i # n - 1 /\ i % options.call_depth # options.call_depth   \* a mutant

CallsNext(n, i) == i # n - 1 /\ i % options.call_depth # options.call_depth - 1
EntryCalls(i)   == i % options.call_depth = 0

\* Function i of file f and those that it leads to by calls of the next: l of them
Leads(f, i, l) == i + l <= sizes[f] /\ \A j \in 0..(l - 2) : CallsNext(sizes[f], i + j)

\* How many functions are on the stack while the entry of module f executes,
\* those of the module, and those of a utility on top of them
Own(f) == {l \in 1..sizes[f] : \E i \in 0..(sizes[f] - 1) : EntryCalls(i) /\ Leads(f, i, l)}
Drawn  == UNION {{l \in 1..sizes[u] : \E i \in 0..(sizes[u] - 1) : Leads(u, i, l)} :
                     u \in Utilities \cap DOMAIN sizes}

StackHeights(f) == Own(f) \cup {l + m : l \in Own(f), m \in Drawn}

\* random.randint(avg/2, avg*3/2); python 3 divides, and refuses halves.
Counts(avg) == (avg \div 2)..((3 * avg) \div 2)
Halves(avg) == options.major = 3 /\ avg % 2 = 1

\* i % call_depth raises: for any function of a module, and for any of a
\* utility that has another behind it.
DividesByZero(f, n) == options.call_depth = 0 /\ n > (IF f \in Modules THEN 0 ELSE 1)

\* A utility that is drawn may have no function to draw.
Draws(f, n)     == f \in Modules /\ n > 0 /\ Utilities # {}
MayDraw(f, n)   == Draws(f, n) => \E u \in Utilities : sizes[u] > 0
MayRaise(f, n)  == DividesByZero(f, n) \/ (Draws(f, n) /\ \E u \in Utilities : sizes[u] = 0)

Raise == stage' = "error" /\ UNCHANGED <<options, sizes, tasks, built, archive, linked>>

generate_c_file(f, avg) ==
    \/ Halves(avg) /\ Raise
    \/ /\ ~Halves(avg)
       /\ \E n \in Counts(avg) :
            \/ MayRaise(f, n) /\ Raise
            \/ /\ ~DividesByZero(f, n) /\ MayDraw(f, n)
               /\ sizes' = [g \in DOMAIN sizes \cup {f} |-> IF g = f THEN n ELSE sizes[g]]
               /\ UNCHANGED <<options, stage, tasks, built, archive, linked>>

-----------------------------------------------------------------------------
\* run_so_generator: the files of earlier builds are removed, the pool made.
Clean ==
    /\ stage = "clean"
    /\ stage' = IF options.processes = 0 THEN "error" ELSE "writeUtilities"
    /\ built' = {} /\ archive' = {}
    /\ UNCHANGED <<options, sizes, tasks, linked>>

Write(batch, avg, now) ==
    /\ stage = now
    /\ \E f \in batch \ DOMAIN sizes :
         /\ \A g \in batch \ DOMAIN sizes : f[2] <= g[2]
         /\ generate_c_file(f, avg)

\* pool.apply_async for each file
Dispatch(batch, now, next) ==
    /\ stage = now /\ batch \subseteq DOMAIN sizes
    /\ tasks' = [f \in DOMAIN tasks \cup batch |-> IF f \in batch THEN "queued" ELSE tasks[f]]
    /\ stage' = next
    /\ UNCHANGED <<options, sizes, built, archive, linked>>

WriteUtility  == Write(Utilities, options.avg_num_u_functions, "writeUtilities")
WriteModule   == Write(Modules, options.avg_num_functions, "writeModules")
StartUtilities == Dispatch(Utilities, "writeUtilities", "awaitUtilities")
StartModules   == Dispatch(Modules, "writeModules", "awaitModules")

-----------------------------------------------------------------------------
(***************************************************************************)
(* The pool.  A worker whose command fails leaves by sys.exit, which the   *)
(* pool does not catch: another worker takes its place, and nobody tells   *)
(* p.get() of the task.                                                    *)
(***************************************************************************)
Running == {f \in DOMAIN tasks : tasks[f] = "running"}

Take(f) ==
    /\ tasks[f] = "queued" /\ Cardinality(Running) < options.processes
    /\ stage # "error"
    /\ tasks' = [tasks EXCEPT ![f] = "running"]
    /\ UNCHANGED <<options, stage, sizes, built, archive, linked>>

compile_file(f) ==
    /\ tasks[f] = "running" /\ stage # "error"
    /\ \/ /\ Libraries(f) \subseteq built
          /\ built' = built \cup {f}
          /\ tasks' = [tasks EXCEPT ![f] = "done"]
       \/ tasks' = [tasks EXCEPT ![f] = "lost"] /\ UNCHANGED built
    /\ UNCHANGED <<options, stage, sizes, archive, linked>>

\* Mutant of AllDone: the results are not asked for.
AllQueued(batch) == batch \subseteq DOMAIN tasks

\* [p.get() for p in results]
AllDone(batch) == \A f \in batch : tasks[f] = "done"

Await(batch, archived, now, next) ==
    /\ stage = now /\ AllDone(batch)
    /\ stage' = next
    /\ archive' = archive \cup archived
    /\ UNCHANGED <<options, sizes, tasks, built, linked>>

AwaitUtilities == Await(Utilities, {}, "awaitUtilities", "final")
AwaitModules   == Await(Modules, Modules, "awaitModules", "begin")

CompileHere(f, archived, now, next) ==
    /\ stage = now
    /\ \/ /\ Libraries(f) \subseteq built
          /\ built' = built \cup {f} /\ archive' = archive \cup archived
          /\ stage' = next
       \/ stage' = "error" /\ UNCHANGED <<built, archive>>
    /\ UNCHANGED <<options, sizes, tasks, linked>>

CompileFinal == CompileHere(Final, {Final} \cup Utilities, "final", "writeModules")
CompileBegin == CompileHere(Begin, {Begin}, "begin", "drivers")

\* The modules that the drivers import, and that pyMPI_initialize.c makes
\* built-in modules of the executable
Imported == {Begin, Final} \cup Modules

\* create_driver, twice: its fractal part is examples/fractal.py, which is there.
Drivers ==
    /\ stage = "drivers"
    /\ stage' = "configure"
    /\ UNCHANGED <<options, sizes, tasks, built, archive, linked>>

-----------------------------------------------------------------------------
(***************************************************************************)
(* config_pynamic.py.  configure gets every library of the directory; the  *)
(* makefile for mpi4py counts them in a shell, for s in {1..n}, which for  *)
(* n < 1 counts down.  make does not find a library that is not there.     *)
(***************************************************************************)
Braces(n) == IF n < 1 THEN (n - 1)..0 ELSE 0..(n - 1)

MakefileLibraries ==
    {Begin, Final}
      \cup {Utility(i) : i \in Braces(options.num_utility_files)}
      \cup {Module(i) : i \in Braces(options.num_files - options.num_utility_files)}

Configure ==
    /\ stage = "configure"
    /\ \/ linked' = (IF options.use_mpi4py THEN MakefileLibraries ELSE built) /\ stage' = "make"
       \/ linked' = linked /\ stage' = "error"
    /\ UNCHANGED <<options, sizes, tasks, built, archive>>

Make ==
    /\ stage = "make"
    /\ \/ linked \subseteq built /\ stage' = "done"
       \/ stage' = "error"
    /\ UNCHANGED <<options, sizes, tasks, built, archive, linked>>

-----------------------------------------------------------------------------
BuildInit ==
    /\ options \in Options
    /\ stage = "clean"
    /\ sizes = <<>> /\ tasks = <<>>
    /\ built = Stale /\ archive = {}
    /\ linked = {}

MainProcess ==
    \/ Clean
    \/ WriteUtility \/ StartUtilities \/ AwaitUtilities \/ CompileFinal
    \/ WriteModule \/ StartModules \/ AwaitModules \/ CompileBegin
    \/ Drivers \/ Configure \/ Make

Worker(f) == Take(f) \/ compile_file(f)

BuildNext == MainProcess \/ \E f \in DOMAIN tasks : Worker(f)
=============================================================================
