--------------------------- MODULE Pynamic_proofs ---------------------------
(***************************************************************************)
(* The safety of the build and of the driver, for all command lines, all   *)
(* remains of earlier builds and any number of ranks.  BuildInv says what  *)
(* is built, archived and linked at every stage of the main process, while *)
(* the workers of the pool go on; DriverInv what a rank has behind it in   *)
(* every part of the driver, and what rank 0 knows of the others.          *)
(***************************************************************************)
EXTENDS Pynamic, FiniteSetTheorems, TLAPS

HaveBegin     == {"drivers", "configure", "make", "done"}
HaveModules   == {"begin"} \cup HaveBegin
HaveFinal     == {"writeModules", "awaitModules"} \cup HaveModules
HaveUtilities == {"final"} \cup HaveFinal

Stages == {"clean", "error", "writeUtilities", "awaitUtilities"} \cup HaveUtilities

Task == {"queued", "running", "done", "lost"}

BuildTypeOK ==
    /\ options \in Options /\ stage \in Stages
    /\ \A f \in DOMAIN sizes : sizes[f] \in Nat
    /\ \A f \in DOMAIN tasks : tasks[f] \in Task

\* Only files without functions can be written with a call depth of 0.
DepthOK == \A f \in DOMAIN sizes \cap Modules : sizes[f] > 0 => options.call_depth > 0

TasksOK ==
    /\ stage \in {"clean", "writeUtilities"} => DOMAIN tasks = {}
    /\ stage \in {"awaitUtilities", "final", "writeModules"} => DOMAIN tasks = Utilities
    /\ stage \in {"awaitModules"} \cup HaveModules => DOMAIN tasks = Utilities \cup Modules
    /\ \A f \in DOMAIN tasks :
          /\ f \in Utilities \/ (f \in Modules /\ Utilities \subseteq built)
          /\ tasks[f] = "done" => f \in built

BuiltOK ==
    /\ stage \notin {"clean", "error"} => built \subseteq Imported \cup Utilities
    /\ stage \in HaveUtilities => Utilities \subseteq built
    /\ stage \in HaveFinal => Final \in built
    /\ stage \in HaveModules => Modules \subseteq built
    /\ stage \in HaveBegin => Begin \in built

ArchiveOK ==
    /\ stage \in {"writeUtilities", "awaitUtilities", "final"} => archive = {}
    /\ stage \in {"writeModules", "awaitModules"} => archive = {Final} \cup Utilities
    /\ stage = "begin" => archive = {Final} \cup Utilities \cup Modules
    /\ stage \in HaveBegin => archive = Imported \cup Utilities

LinkedOK ==
    /\ stage = "make" => linked = IF options.use_mpi4py THEN MakefileLibraries ELSE Imported \cup Utilities
    /\ stage = "done" => linked = Imported \cup Utilities

BuildInv == BuildTypeOK /\ DepthOK /\ TasksOK /\ BuiltOK /\ ArchiveOK /\ LinkedOK

-----------------------------------------------------------------------------
(***************************************************************************)
(* Arithmetic of chains of calls.                                          *)
(***************************************************************************)
LEMMA Multiple ==
    ASSUME NEW d \in Nat, NEW a \in Int, d > 0, d * a < d, d * a > -d
    PROVE  a = 0
<1>1. CASE a >= 1
  <2>1. d * a >= d * 1
    BY <1>1
  <2>. QED
    BY <2>1
<1>2. CASE a <= -1
  <2>1. d * a <= d * (-1)
    BY <1>2
  <2>. QED
    BY <2>1
<1>. QED
  BY <1>1, <1>2

LEMMA DivMod ==
    ASSUME NEW d \in Nat, NEW i \in Int, d > 0
    PROVE  /\ i \div d \in Int /\ i % d \in 0..(d - 1)
           /\ i = d * (i \div d) + (i % d)
OBVIOUS

\* The remainder of i is the only one.
LEMMA RemainderUnique ==
    ASSUME NEW d \in Nat, NEW i \in Int, NEW q \in Int, NEW m \in 0..(d - 1), d > 0, i = d * q + m
    PROVE  i % d = m
<1>. DEFINE p == i \div d
            k == i % d
<1>1. p \in Int /\ k \in 0..(d - 1) /\ i = d * p + k
  BY DivMod
<1>. HIDE DEF p, k
<1>2. d * (p - q) = m - k
  BY <1>1
<1>3. p - q = 0
  <2>1. d * (p - q) < d /\ d * (p - q) > -d
    BY <1>1, <1>2
  <2>. QED
    BY <1>1, <2>1, Multiple
<1>4. k = m
  BY <1>1, <1>2, <1>3
<1>. QED
  BY <1>4 DEF k

LEMMA ChainEnds ==
    ASSUME NEW d \in Nat, NEW i \in Nat, d > 0
    PROVE  \E j \in 0..(d - 1) : (i + j) % d = d - 1
<1>. DEFINE p == i \div d
            k == i % d
            j == d - 1 - k
<1>1. p \in Int /\ k \in 0..(d - 1) /\ i = d * p + k
  BY DivMod
<1>2. j \in 0..(d - 1) /\ i + j = d * p + (d - 1) /\ i + j \in Int
  <2>. HIDE DEF p, k
  <2>. QED
    BY <1>1
<1>3. (i + j) % d = d - 1
  <2>. HIDE DEF p, k, j
  <2>. QED
    BY <1>1, <1>2, RemainderUnique
<1>. QED
  BY <1>2, <1>3

\* A chain begins where the one before it ends.
LEMMA ChainBegins ==
    ASSUME NEW d \in Nat, NEW i \in Nat, d > 0, i > 0
    PROVE  i % d = 0 <=> (i - 1) % d = d - 1
<1>1. ASSUME i % d = 0 PROVE (i - 1) % d = d - 1
  <2>. DEFINE p == i \div d
  <2>1. p \in Int /\ i = d * p
    BY <1>1, DivMod
  <2>2. i - 1 = d * (p - 1) + (d - 1) /\ p - 1 \in Int /\ i - 1 \in Int
    <3>. HIDE DEF p
    <3>. QED
      BY <2>1
  <2>. HIDE DEF p
  <2>. QED
    BY <2>2, RemainderUnique
<1>2. ASSUME (i - 1) % d = d - 1 PROVE i % d = 0
  <2>. DEFINE p == (i - 1) \div d
  <2>1. p \in Int /\ i - 1 = d * p + (d - 1)
    BY <1>2, DivMod
  <2>2. i = d * (p + 1) + 0 /\ p + 1 \in Int
    <3>. HIDE DEF p
    <3>. QED
      BY <2>1
  <2>. HIDE DEF p
  <2>3. 0 \in 0..(d - 1)
    OBVIOUS
  <2>4. PICK q \in Int : i = d * q + 0
    BY Zenon, <2>2
  <2>. QED
    BY <2>3, <2>4, RemainderUnique
<1>. QED
  BY <1>1, <1>2

\* A function has one caller: the one before it, or the entry.
LEMMA OneCaller ==
    ASSUME NEW n \in Nat, NEW i \in 0..(n - 1), options.call_depth \in Nat, options.call_depth > 0
    PROVE  Cardinality(Callers(n, i)) = 1
<1>. DEFINE d == options.call_depth
<1>0. i > 0 => (i % d = 0 <=> (i - 1) % d = d - 1)
  <2>1. d \in Nat /\ d > 0 /\ i \in Nat
    OBVIOUS
  <2>. HIDE DEF d
  <2>. QED
    BY <2>1, ChainBegins
<1>1. CASE i % d = 0
  <2>1. \A j \in 0..(n - 1) : ~(CallsNext(n, j) /\ j + 1 = i)
    <3>. SUFFICES ASSUME NEW j \in 0..(n - 1), CallsNext(n, j), j + 1 = i PROVE FALSE
      OBVIOUS
    <3>1. j = i - 1 /\ i > 0
      OBVIOUS
    <3>2. (i - 1) % d = d - 1
      BY <1>0, <1>1, <3>1
    <3>. QED
      BY <3>1, <3>2 DEF CallsNext
  <2>2. Callers(n, i) = {-1}
    BY <1>1, <2>1 DEF Callers, EntryCalls
  <2>. QED
    BY <2>2, FS_Singleton
<1>2. CASE i % d # 0
  <2>1. i > 0
    <3>1. CASE i = 0
      <4>1. i = d * 0 + 0
        BY <3>1
      <4>2. i % d = 0
        BY <4>1, RemainderUnique
      <4>. QED
        BY <1>2, <4>2
    <3>. QED
      BY <3>1
  <2>2. (i - 1) % d # d - 1
    BY <1>0, <1>2, <2>1
  <2>3. CallsNext(n, i - 1) /\ i - 1 \in 0..(n - 1)
    BY <2>1, <2>2 DEF CallsNext
  <2>4. {j \in 0..(n - 1) : CallsNext(n, j) /\ j + 1 = i} = {i - 1}
    <3>. HIDE DEF d
    <3>. QED
      BY <2>3
  <2>5. Callers(n, i) = {i - 1}
    BY <1>2, <2>4 DEF Callers, EntryCalls
  <2>. QED
    BY <2>5, FS_Singleton
<1>. QED
  BY <1>1, <1>2

\* No more than call_depth functions of one file lead to each other.
LEMMA ChainsEnd ==
    ASSUME NEW f, NEW i \in Nat, NEW l \in Nat, options.call_depth \in Nat, options.call_depth > 0,
           Leads(f, i, l)
    PROVE  l <= options.call_depth
<1>. DEFINE d == options.call_depth
<1>1. PICK j \in 0..(d - 1) : (i + j) % d = d - 1
  BY ChainEnds
<1>2. ~CallsNext(sizes[f], i + j)
  BY <1>1 DEF CallsNext
<1>3. j \notin 0..(l - 2)
  BY <1>2 DEF Leads
<1>. QED
  BY <1>3

LEMMA VisitsFollow == BuildInv => VisitsRight
<1>. SUFFICES ASSUME BuildInv, NEW f \in DOMAIN sizes \cap Modules
              PROVE  /\ \A i \in 0..(sizes[f] - 1) : Cardinality(Callers(sizes[f], i)) = 1
                     /\ \A h \in StackHeights(f) :
                           h <= options.call_depth + (IF Utilities = {} THEN 0 ELSE options.call_depth)
  BY DEF VisitsRight
<1>1. /\ \A g \in DOMAIN sizes : sizes[g] \in Nat
      /\ options.call_depth \in Nat /\ (sizes[f] > 0 => options.call_depth > 0)
  BY OptionsAssumption DEF BuildInv, BuildTypeOK, DepthOK
<1>2. ASSUME NEW i \in 0..(sizes[f] - 1) PROVE Cardinality(Callers(sizes[f], i)) = 1
  BY <1>1, OneCaller
<1>3. ASSUME NEW h \in StackHeights(f)
      PROVE  h <= options.call_depth + (IF Utilities = {} THEN 0 ELSE options.call_depth)
  <2>1. \A l \in Own(f) : l \in Nat /\ l <= options.call_depth /\ options.call_depth > 0
    <3>. SUFFICES ASSUME NEW l \in 1..sizes[f], NEW i \in 0..(sizes[f] - 1), Leads(f, i, l)
                  PROVE  l \in Nat /\ l <= options.call_depth /\ options.call_depth > 0
      BY DEF Own
    <3>. QED
      BY <1>1, ChainsEnd
  <2>2. CASE h \in Own(f)
    BY <1>1, <2>1, <2>2
  <2>3. ASSUME NEW l \in Own(f), NEW m \in Drawn, h = l + m
        PROVE  h <= options.call_depth + (IF Utilities = {} THEN 0 ELSE options.call_depth)
    <3>1. PICK u \in Utilities \cap DOMAIN sizes :
                  m \in 1..sizes[u] /\ \E i \in 0..(sizes[u] - 1) : Leads(u, i, m)
      BY DEF Drawn
    <3>2. m \in Nat /\ m <= options.call_depth
      BY <1>1, <2>1, <3>1, ChainsEnd
    <3>3. Utilities # {}
      BY <3>1
    <3>. QED
      BY <1>1, <2>1, <2>3, <3>2, <3>3
  <2>. QED
    BY <2>2, <2>3 DEF StackHeights
<1>. QED
  BY <1>2, <1>3

-----------------------------------------------------------------------------
(***************************************************************************)
(* The build.                                                              *)
(***************************************************************************)
LEMMA Names ==
    /\ \A f \in Utilities : f \notin Modules /\ f # Begin /\ f # Final
    /\ \A f \in Modules : f \notin Utilities /\ f # Begin /\ f # Final
    /\ Begin # Final
BY DEF Utilities, Modules, Utility, Module, Begin, Final

\* The command line stays, and with it the names of the files.
LEMMA FilesStay ==
    ASSUME options' = options
    PROVE  /\ Utilities' = Utilities /\ Modules' = Modules
           /\ Imported' = Imported /\ MakefileLibraries' = MakefileLibraries
BY DEF Utilities, Modules, Imported, MakefileLibraries

LEMMA BuildStarts == BuildInit => BuildInv
<1>. SUFFICES ASSUME BuildInit PROVE BuildInv
  OBVIOUS
<1>. USE DEF BuildInit, HaveBegin, HaveModules, HaveFinal, HaveUtilities
<1>1. BuildTypeOK /\ DepthOK
  BY DEF BuildTypeOK, Stages, DepthOK
<1>2. TasksOK
  BY DEF TasksOK
<1>3. BuiltOK /\ ArchiveOK /\ LinkedOK
  BY DEF BuiltOK, ArchiveOK, LinkedOK
<1>. QED
  BY <1>1, <1>2, <1>3 DEF BuildInv

\* An error ends the main process, wherever it is.
LEMMA ErrorOK ==
    ASSUME BuildInv, stage' = "error", UNCHANGED <<options, sizes, tasks, built>>
    PROVE  BuildInv'
<1>. USE FilesStay DEF BuildInv, HaveBegin, HaveModules, HaveFinal, HaveUtilities
<1>1. BuildTypeOK' /\ DepthOK'
  BY DEF BuildTypeOK, Stages, DepthOK
<1>2. TasksOK'
  BY DEF TasksOK
<1>3. BuiltOK' /\ ArchiveOK' /\ LinkedOK'
  BY DEF BuiltOK, ArchiveOK, LinkedOK
<1>. QED
  BY <1>1, <1>2, <1>3 DEF BuildInv

\* A step of the main process that changes neither C files nor tasks.
LEMMA StageOK ==
    ASSUME BuildInv, UNCHANGED <<options, sizes, tasks>>, stage' \in Stages,
           TasksOK', BuiltOK', ArchiveOK', LinkedOK'
    PROVE  BuildInv'
BY FilesStay DEF BuildInv, BuildTypeOK, DepthOK

LEMMA CleanOK == ASSUME BuildInv, Clean PROVE BuildInv'
<1>. USE FilesStay DEF Clean, HaveBegin, HaveModules, HaveFinal, HaveUtilities
<1>1. stage' \in Stages
  BY DEF Stages
<1>2. TasksOK'
  BY DEF BuildInv, TasksOK
<1>3. BuiltOK' /\ ArchiveOK' /\ LinkedOK'
  BY DEF BuiltOK, ArchiveOK, LinkedOK
<1>. QED
  BY <1>1, <1>2, <1>3, StageOK

LEMMA WriteOK ==
    ASSUME BuildInv, NEW f \in Utilities \cup Modules, NEW avg \in Nat, generate_c_file(f, avg)
    PROVE  BuildInv'
<1>1. CASE Raise
  BY <1>1, ErrorOK DEF Raise
<1>2. ASSUME NEW n \in Counts(avg), ~DividesByZero(f, n),
             sizes' = [g \in DOMAIN sizes \cup {f} |-> IF g = f THEN n ELSE sizes[g]],
             UNCHANGED <<options, stage, tasks, built, archive, linked>>
      PROVE  BuildInv'
  <2>1. n \in Nat
    BY <1>2 DEF Counts
  <2>2. options.call_depth \in Nat
    BY OptionsAssumption DEF BuildInv, BuildTypeOK
  <2>3. BuildTypeOK'
    BY <1>2, <2>1 DEF BuildInv, BuildTypeOK
  <2>4. DepthOK'
    BY <1>2, <2>1, <2>2, FilesStay DEF BuildInv, DepthOK, DividesByZero
  <2>5. TasksOK' /\ BuiltOK' /\ ArchiveOK' /\ LinkedOK'
    BY <1>2, FilesStay DEF BuildInv, TasksOK, BuiltOK, ArchiveOK, LinkedOK
  <2>. QED
    BY <2>3, <2>4, <2>5 DEF BuildInv
<1>. QED
  BY <1>1, <1>2 DEF generate_c_file

LEMMA WriteFilesOK == ASSUME BuildInv, WriteUtility \/ WriteModule PROVE BuildInv'
<1>1. options.avg_num_u_functions \in Nat /\ options.avg_num_functions \in Nat
  BY OptionsAssumption DEF BuildInv, BuildTypeOK
<1>. QED
  BY <1>1, WriteOK DEF WriteUtility, WriteModule, Write

LEMMA StartOK == ASSUME BuildInv, StartUtilities \/ StartModules PROVE BuildInv'
<1>. USE FilesStay DEF BuildInv, StartUtilities, StartModules, Dispatch,
                       HaveBegin, HaveModules, HaveFinal, HaveUtilities
<1>1. BuildTypeOK' /\ DepthOK'
  BY DEF BuildTypeOK, Stages, Task, DepthOK
<1>2. TasksOK'
  BY Names DEF TasksOK, BuiltOK
<1>3. BuiltOK'
  BY DEF BuiltOK
<1>4. ArchiveOK' /\ LinkedOK'
  BY DEF ArchiveOK, LinkedOK
<1>. QED
  BY <1>1, <1>2, <1>3, <1>4

LEMMA AwaitOK == ASSUME BuildInv, AwaitUtilities \/ AwaitModules PROVE BuildInv'
<1>. USE FilesStay DEF BuildInv, AwaitUtilities, AwaitModules, Await, AllDone,
                       HaveBegin, HaveModules, HaveFinal, HaveUtilities
<1>1. stage' \in Stages
  BY DEF Stages
<1>2. TasksOK'
  BY DEF TasksOK
<1>3. BuiltOK'
  BY DEF BuiltOK, TasksOK
<1>4. ArchiveOK' /\ LinkedOK'
  BY DEF ArchiveOK, LinkedOK
<1>. QED
  BY <1>1, <1>2, <1>3, <1>4, StageOK

LEMMA CompileHereOK == ASSUME BuildInv, CompileFinal \/ CompileBegin PROVE BuildInv'
<1>1. CASE stage' = "error"
  <2>1. CASE UNCHANGED built
    BY <1>1, <2>1, ErrorOK DEF CompileFinal, CompileBegin, CompileHere
  <2>. QED
    BY <1>1, <2>1 DEF CompileFinal, CompileBegin, CompileHere
<1>2. CASE stage' # "error"
  <2>. USE <1>2, FilesStay DEF BuildInv, CompileFinal, CompileBegin, CompileHere,
                       HaveBegin, HaveModules, HaveFinal, HaveUtilities
  <2>1. stage' \in Stages
    BY DEF Stages
  <2>2. TasksOK'
    BY DEF TasksOK
  <2>3. BuiltOK'
    BY DEF BuiltOK, Imported
  <2>4. ArchiveOK' /\ LinkedOK'
    BY DEF ArchiveOK, LinkedOK, Imported
  <2>. QED
    BY <2>1, <2>2, <2>3, <2>4, StageOK
<1>. QED
  BY <1>1, <1>2

\* The makefile for mpi4py finds its libraries only if it counts them right.
LEMMA MakefileFinds ==
    ASSUME options \in Options, MakefileLibraries \subseteq Imported \cup Utilities
    PROVE  MakefileLibraries = Imported \cup Utilities
<1>. DEFINE u == options.num_utility_files
            m == options.num_files - options.num_utility_files
<1>1. u \in Int /\ m \in Int
  BY OptionsAssumption
<1>2. u >= 1
  <2>1. CASE u < 1
    <3>1. 0 \in Braces(u)
      BY <1>1, <2>1 DEF Braces
    <3>2. Utility(0) \in Utilities
      BY <3>1, Names DEF MakefileLibraries, Imported, Utility, Module, Begin, Final, Modules
    <3>3. 0 \in 0..(u - 1)
      BY <3>2 DEF Utilities, Utility
    <3>. QED
      BY <1>1, <2>1, <3>3
  <2>. QED
    BY <1>1, <2>1
<1>3. m >= 1
  <2>1. CASE m < 1
    <3>1. 0 \in Braces(m)
      BY <1>1, <2>1 DEF Braces
    <3>2. Module(0) \in Modules
      BY <3>1 DEF MakefileLibraries, Imported, Utility, Module, Begin, Final, Utilities
    <3>3. 0 \in 0..(m - 1)
      BY <3>2 DEF Modules, Module
    <3>. QED
      BY <1>1, <2>1, <3>3
  <2>. QED
    BY <1>1, <2>1
<1>4. Braces(u) = 0..(u - 1) /\ Braces(m) = 0..(m - 1)
  BY <1>1, <1>2, <1>3 DEF Braces
<1>. QED
  BY <1>4 DEF MakefileLibraries, Imported, Utilities, Modules

LEMMA LinkOK == ASSUME BuildInv, Drivers \/ Configure \/ Make PROVE BuildInv'
<1>1. CASE stage' = "error"
  BY <1>1, ErrorOK DEF Drivers, Configure, Make
<1>2. CASE stage' # "error"
  <2>. USE <1>2, FilesStay DEF BuildInv, Drivers, Configure, Make,
                       HaveBegin, HaveModules, HaveFinal, HaveUtilities
  <2>1. stage' \in Stages
    BY DEF Stages
  <2>2. TasksOK'
    BY DEF TasksOK
  <2>3. BuiltOK' /\ ArchiveOK'
    BY DEF BuiltOK, ArchiveOK
  <2>4. CASE Drivers
    BY <2>1, <2>2, <2>3, <2>4, StageOK DEF LinkedOK
  <2>5. CASE Configure
    <3>1. built = Imported \cup Utilities
      BY <2>5 DEF BuiltOK, Imported
    <3>2. LinkedOK'
      BY <2>5, <3>1 DEF LinkedOK
    <3>. QED
      BY <2>1, <2>2, <2>3, <2>5, <3>2, StageOK
  <2>6. CASE Make
    <3>1. linked \subseteq built /\ built \subseteq Imported \cup Utilities
      BY <2>6 DEF BuiltOK
    <3>2. linked = Imported \cup Utilities
      BY <2>6, <3>1, MakefileFinds DEF LinkedOK, BuildTypeOK
    <3>3. LinkedOK'
      BY <2>6, <3>2 DEF LinkedOK
    <3>. QED
      BY <2>1, <2>2, <2>3, <2>6, <3>3, StageOK
  <2>. QED
    BY <2>4, <2>5, <2>6
<1>. QED
  BY <1>1, <1>2

LEMMA WorkerOK == ASSUME BuildInv, NEW f \in DOMAIN tasks, Worker(f) PROVE BuildInv'
<1>. USE FilesStay DEF BuildInv, Worker, Take, compile_file,
                       HaveBegin, HaveModules, HaveFinal, HaveUtilities
<1>1. BuildTypeOK' /\ DepthOK'
  BY DEF BuildTypeOK, Task, DepthOK
<1>2. TasksOK'
  BY DEF TasksOK
<1>3. BuiltOK'
  <2>1. f \in Utilities \cup Modules
    BY DEF TasksOK
  <2>. QED
    BY <2>1 DEF BuiltOK, Imported, TasksOK
<1>4. ArchiveOK' /\ LinkedOK'
  BY DEF ArchiveOK, LinkedOK
<1>. QED
  BY <1>1, <1>2, <1>3, <1>4

LEMMA BuildStep == ASSUME BuildInv, BuildNext PROVE BuildInv'
<1>1. CASE MainProcess
  BY <1>1, CleanOK, WriteFilesOK, StartOK, AwaitOK, CompileHereOK, LinkOK DEF MainProcess
<1>2. CASE \E f \in DOMAIN tasks : Worker(f)
  BY <1>2, WorkerOK
<1>. QED
  BY <1>1, <1>2 DEF BuildNext

LEMMA LibrariesFollow == BuildInv => LibrariesThere
<1>. SUFFICES ASSUME BuildInv PROVE LibrariesThere
  OBVIOUS
<1>. USE DEF BuildInv, HaveBegin, HaveModules, HaveFinal, HaveUtilities
<1>1. ASSUME NEW f \in DOMAIN tasks PROVE Libraries(f) \subseteq built
  BY Names DEF Libraries, TasksOK
<1>2. Libraries(Final) = {} /\ Libraries(Begin) = Modules
  BY Names DEF Libraries
<1>3. stage \in {"final", "begin"} =>
         Libraries(IF stage = "final" THEN Final ELSE Begin) \subseteq built
  BY <1>2 DEF BuiltOK
<1>4. stage = "done" => linked = Imported \cup Utilities /\ archive = Imported \cup Utilities
  BY DEF LinkedOK, ArchiveOK
<1>. QED
  BY <1>1, <1>3, <1>4 DEF LibrariesThere

-----------------------------------------------------------------------------
(***************************************************************************)
(* The driver.                                                             *)
(***************************************************************************)
All == 0..(N - 1)

Part == {"barrier1", "import", "barrier2", "visit", "barrier3", "fractal", "barrier4", "gone"}

AfterFractal == {"barrier4", "gone"}
AfterVisit   == {"barrier3", "fractal"} \cup AfterFractal
AfterImport  == {"barrier2", "visit"} \cup AfterVisit

DriverTypeOK ==
    /\ mpi \in {"pyMPI", "mpi4py", "none"}
    /\ at \in [All -> {"idle"} \cup Part]
    /\ entered \in [All -> Nat]
    /\ imported \in [All -> Nat] /\ visited \in [All -> Nat]

\* All ranks start together.
TogetherOK == at[0] = "idle" => \A r \in All : at[r] = "idle"

\* What a rank has behind it where it is
BehindOK ==
    \A r \in All :
        /\ at[r] \in AfterImport => imported[r] = Last
        /\ at[r] \in AfterVisit => visited[r] = Last
        /\ at[r] \in AfterFractal /\ mpi # "none" => r \in reduced

\* A rank that has come to a barrier is not before it.
EnteredOK ==
    \A r \in All :
        /\ entered[r] >= 2 => at[r] \in AfterImport
        /\ entered[r] >= 3 => at[r] \in AfterVisit
        /\ entered[r] >= 4 => at[r] \in AfterFractal

\* Rank 0 has left a barrier only when all have come to it.
LeftOK ==
    mpi = "mpi4py" => \A r \in All :
        /\ at[0] \in {"visit"} \cup AfterVisit => entered[r] >= 2
        /\ at[0] \in {"fractal"} \cup AfterFractal => entered[r] >= 3
        /\ at[0] = "gone" => entered[r] >= 4

DriverInv == DriverTypeOK /\ TogetherOK /\ BehindOK /\ EnteredOK /\ LeftOK

IInv == BuildInv /\ DriverInv

LEMMA PartsAre ==
    /\ DOMAIN Parts = 1..8
    /\ Parts[1] = "barrier1" /\ Parts[2] = "import" /\ Parts[3] = "barrier2"
    /\ Parts[4] = "visit" /\ Parts[5] = "barrier3" /\ Parts[6] = "fractal"
    /\ Parts[7] = "barrier4" /\ Parts[8] = "gone"
BY DEF Parts

LEMMA PlaceIs == ASSUME NEW i \in 1..8 PROVE Place(Parts[i]) = i
<1>1. ASSUME NEW j \in 1..8, Parts[j] = Parts[i] PROVE j = i
  <2>1. i \in {1, 2, 3, 4, 5, 6, 7, 8} /\ j \in {1, 2, 3, 4, 5, 6, 7, 8}
    OBVIOUS
  <2>. QED
    BY <1>1, <2>1, PartsAre
<1>. QED
  BY <1>1, PartsAre DEF Place

LEMMA Places ==
    /\ Place("barrier1") = 1 /\ Place("import") = 2 /\ Place("barrier2") = 3
    /\ Place("visit") = 4 /\ Place("barrier3") = 5 /\ Place("fractal") = 6
    /\ Place("barrier4") = 7 /\ Place("gone") = 8
<1>1. /\ Place(Parts[1]) = 1 /\ Place(Parts[2]) = 2 /\ Place(Parts[3]) = 3
      /\ Place(Parts[4]) = 4 /\ Place(Parts[5]) = 5 /\ Place(Parts[6]) = 6
      /\ Place(Parts[7]) = 7 /\ Place(Parts[8]) = 8
  BY PlaceIs
<1>. QED
  BY <1>1, PartsAre

LEMMA AfterBarrier ==
    /\ After("barrier1") = "import" /\ After("barrier2") = "visit"
    /\ After("barrier3") = "fractal" /\ After("barrier4") = "gone"
BY Places, PartsAre DEF After

LEMMA RanksAre ==
    ASSUME mpi \in {"pyMPI", "mpi4py", "none"}
    PROVE  0 \in All /\ 0 \in Ranks /\ Ranks \subseteq All /\ (mpi # "none" => Ranks = All)
BY NAssumption DEF Ranks, All

LEMMA LastStays == ASSUME options' = options PROVE Last' = Last
BY FilesStay DEF Last, NumModules

LEMMA DriverStarts == Init => DriverInv
<1>. SUFFICES ASSUME Init PROVE DriverInv
  OBVIOUS
<1>. USE NAssumption DEF Init, All, AfterImport, AfterVisit, AfterFractal
<1>1. DriverTypeOK
  BY DEF DriverTypeOK
<1>2. TogetherOK /\ BehindOK /\ EnteredOK
  BY DEF TogetherOK, BehindOK, EnteredOK
<1>3. LeftOK
  BY DEF LeftOK
<1>. QED
  BY <1>1, <1>2, <1>3 DEF DriverInv

LEMMA DriverStays ==
    ASSUME DriverInv, options' = options, UNCHANGED driverVars
    PROVE  DriverInv'
BY LastStays DEF driverVars, DriverInv, DriverTypeOK, TogetherOK, BehindOK, EnteredOK, LeftOK

LEMMA LaunchOK == ASSUME DriverInv, Launch PROVE DriverInv'
<1>. USE LastStays, NAssumption DEF DriverInv, Launch, buildVars, All, AfterImport, AfterVisit, AfterFractal
<1>1. DriverTypeOK'
  BY DEF DriverTypeOK, Part
<1>0. 0 \in All
  OBVIOUS
<1>2. at' = [r \in All |-> "barrier1"]
  OBVIOUS
<1>3. TogetherOK' /\ BehindOK' /\ EnteredOK'
  <2>. HIDE DEF Launch
  <2>1. TogetherOK' /\ BehindOK'
    BY <1>0, <1>2 DEF TogetherOK, BehindOK
  <2>2. \A r \in All : ~(entered[r] >= 2 \/ entered[r] >= 3 \/ entered[r] >= 4)
    BY DEF Launch, DriverTypeOK, EnteredOK, TogetherOK
  <2>3. entered' = entered
    BY DEF Launch
  <2>. QED
    BY <2>1, <2>2, <2>3 DEF EnteredOK
<1>4. LeftOK'
  BY DEF LeftOK
<1>. QED
  BY <1>1, <1>2, <1>3, <1>4

LEMMA BarrierOK == ASSUME DriverInv, NEW r \in All, Barrier(r) PROVE DriverInv'
<1>. USE LastStays DEF DriverInv, Barrier, buildVars
<1>1. DriverTypeOK'
  BY DEF DriverTypeOK
<1>2. TogetherOK' /\ BehindOK'
  BY DEF TogetherOK, BehindOK
<1>3. EnteredOK'
  <2>1. /\ entered[r] >= 1 => at[r] \in {"barrier2", "barrier3", "barrier4"}
        /\ entered[r] >= 2 => at[r] \in {"barrier3", "barrier4"}
        /\ entered[r] >= 3 => at[r] = "barrier4"
    BY DEF DriverTypeOK, BarrierParts, Number
  <2>2. entered'[r] = entered[r] + 1 /\ at' = at /\ entered[r] \in Nat
        /\ \A q \in All \ {r} : entered'[q] = entered[q]
    BY DEF DriverTypeOK
  <2>. QED
    BY <2>1, <2>2 DEF EnteredOK, AfterImport, AfterVisit, AfterFractal
<1>4. LeftOK'
  BY DEF LeftOK, DriverTypeOK
<1>. QED
  BY <1>1, <1>2, <1>3, <1>4

LEMMA BarrierDoneOK == ASSUME DriverInv, NEW r \in All, BarrierDone(r) PROVE DriverInv'
<1>. USE LastStays, AfterBarrier DEF DriverInv, BarrierDone, Go, MayLeave, BarrierParts, buildVars
<1>1. DriverTypeOK'
  BY DEF DriverTypeOK, Part
<1>2. TogetherOK'
  BY NAssumption DEF DriverTypeOK, TogetherOK, Part, All
<1>3. BehindOK'
  BY DEF DriverTypeOK, BehindOK, AfterImport, AfterVisit, AfterFractal
<1>4. EnteredOK'
  BY DEF DriverTypeOK, EnteredOK, AfterImport, AfterVisit, AfterFractal
<1>5. LeftOK'
  BY RanksAre DEF DriverTypeOK, LeftOK, Number, AfterImport, AfterVisit, AfterFractal
<1>. QED
  BY <1>1, <1>2, <1>3, <1>4, <1>5

LEMMA WorkOK ==
    ASSUME DriverInv, NEW r \in All, Import(r) \/ Visit(r) \/ Reduce(r) \/ ReduceDone(r)
    PROVE  DriverInv'
<1>. USE LastStays DEF DriverInv, Import, Visit, Reduce, ReduceDone, Go, buildVars
<1>1. DriverTypeOK'
  <2>1. CASE Import(r)
    BY <2>1 DEF DriverTypeOK, Part
  <2>2. CASE Visit(r)
    BY <2>2 DEF DriverTypeOK, Part
  <2>3. CASE Reduce(r) \/ ReduceDone(r)
    BY <2>3 DEF DriverTypeOK, Part
  <2>. QED
    BY <2>1, <2>2, <2>3
<1>2. TogetherOK'
  <2>1. at[0] # "idle" \/ \A q \in All : at[q] = "idle"
    BY DEF TogetherOK
  <2>2. at[r] # "idle" /\ (at' = at \/ \E p \in Part : at' = [at EXCEPT ![r] = p])
    BY DEF Part
  <2>3. 0 \in All /\ at \in [All -> {"idle"} \cup Part]
    BY NAssumption DEF All, DriverTypeOK
  <2>4. at'[0] # "idle"
    BY <2>1, <2>2, <2>3 DEF Part
  <2>. QED
    BY <2>4 DEF TogetherOK
<1>3. BehindOK'
  BY DEF DriverTypeOK, BehindOK, AfterImport, AfterVisit, AfterFractal
<1>4. EnteredOK'
  BY DEF DriverTypeOK, EnteredOK, AfterImport, AfterVisit, AfterFractal
<1>5. LeftOK'
  <2>1. mpi' = mpi /\ entered' = entered
    OBVIOUS
  <2>2. \/ at'[0] = at[0]
        \/ at[0] = "import" /\ at'[0] = "barrier2"
        \/ at[0] = "visit" /\ at'[0] = "barrier3"
        \/ at[0] = "fractal" /\ at'[0] = "barrier4"
    BY NAssumption DEF DriverTypeOK, All
  <2>. HIDE DEF Import, Visit, Reduce, ReduceDone
  <2>. QED
    BY <2>1, <2>2 DEF LeftOK, AfterVisit, AfterFractal
<1>. QED
  BY <1>1, <1>2, <1>3, <1>4, <1>5

LEMMA TimesFollow == DriverInv => TimesCoverAllMpi4py
<1>. SUFFICES ASSUME DriverInv, mpi # "pyMPI", NEW q \in Ranks
              PROVE  /\ Past(0, "barrier2") => imported[q] = Last
                     /\ Past(0, "barrier3") => visited[q] = Last
                     /\ Past(0, "barrier4") /\ mpi # "none" => q \in reduced
  BY DEF TimesCoverAllMpi4py, TimesCoverAll
<1>. USE DEF DriverInv, AfterImport, AfterVisit, AfterFractal
<1>1. 0 \in All /\ q \in All
  BY RanksAre DEF DriverTypeOK
<1>2. /\ Past(0, "barrier2") => at[0] \in {"visit"} \cup AfterVisit
      /\ Past(0, "barrier3") => at[0] \in {"fractal"} \cup AfterFractal
      /\ Past(0, "barrier4") => at[0] = "gone"
  <2>1. at[0] \in {"idle"} \cup Part
    BY <1>1 DEF DriverTypeOK
  <2>. QED
    BY <2>1, Places DEF Part, Past
<1>3. CASE mpi = "none"
  BY <1>1, <1>2, <1>3 DEF BehindOK, Ranks
<1>4. CASE mpi = "mpi4py"
  BY <1>1, <1>2, <1>4 DEF BehindOK, EnteredOK, LeftOK
<1>. QED
  BY <1>3, <1>4 DEF DriverTypeOK

-----------------------------------------------------------------------------
LEMMA InitOK == Init => IInv
BY BuildStarts, DriverStarts DEF Init, IInv

LEMMA OptionsStay == ASSUME BuildNext PROVE options' = options
BY DEF BuildNext, MainProcess, Clean, WriteUtility, WriteModule, Write, generate_c_file, Raise,
       StartUtilities, StartModules, Dispatch, AwaitUtilities, AwaitModules, Await,
       CompileFinal, CompileBegin, CompileHere, Drivers, Configure, Make, Worker, Take, compile_file

\* The driver leaves the build alone.
LEMMA BuildStays == ASSUME BuildInv, UNCHANGED buildVars PROVE BuildInv'
BY FilesStay DEF buildVars, BuildInv, BuildTypeOK, DepthOK, TasksOK, BuiltOK, ArchiveOK, LinkedOK

LEMMA NextOK == IInv /\ [Next]_vars => IInv'
<1>. SUFFICES ASSUME IInv, [Next]_vars PROVE IInv'
  OBVIOUS
<1>. USE DEF IInv
<1>1. CASE BuildNext /\ UNCHANGED driverVars
  BY <1>1, BuildStep, OptionsStay, DriverStays
<1>2. CASE Launch
  BY <1>2, LaunchOK, BuildStays DEF Launch
<1>3. ASSUME NEW r \in Ranks, Rank(r) PROVE IInv'
  <2>1. r \in All
    BY RanksAre DEF DriverInv, DriverTypeOK
  <2>2. DriverInv'
    BY <1>3, <2>1, BarrierOK, BarrierDoneOK, WorkOK DEF Rank
  <2>3. UNCHANGED buildVars
    BY <1>3 DEF Rank, Barrier, BarrierDone, Import, Visit, Reduce, ReduceDone
  <2>. QED
    BY <2>2, <2>3, BuildStays
<1>4. CASE UNCHANGED vars
  BY <1>4, BuildStays, DriverStays DEF vars, buildVars
<1>. QED
  BY <1>1, <1>2, <1>3, <1>4 DEF Next

LEMMA Invariant == Spec => []IInv
BY InitOK, NextOK, PTL DEF Spec

(***************************************************************************)
(* Whatever the pool does, and whatever an earlier build has left behind,  *)
(* nothing is linked before it is compiled, and the executables are made   *)
(* of the libraries of this build, all of them.                            *)
(***************************************************************************)
THEOREM LibrariesAlwaysThere == Spec => []LibrariesThere
<1>1. IInv => LibrariesThere
  BY LibrariesFollow DEF IInv
<1>. QED
  BY <1>1, Invariant, PTL

(***************************************************************************)
(* An entry visits every function of its module once, with no more than    *)
(* call_depth of them on the stack, and as many of a utility, for every    *)
(* number of functions and every depth.                                    *)
(***************************************************************************)
THEOREM VisitsAlwaysRight == Spec => []VisitsRight
<1>1. IInv => VisitsRight
  BY VisitsFollow DEF IInv
<1>. QED
  BY <1>1, Invariant, PTL

(***************************************************************************)
(* The times that rank 0 of the driver for mpi4py takes cover the work of  *)
(* all ranks, however many there are.                                      *)
(***************************************************************************)
THEOREM TimesAlwaysCoverAll == Spec => []TimesCoverAllMpi4py
<1>1. IInv => TimesCoverAllMpi4py
  BY TimesFollow DEF IInv
<1>. QED
  BY <1>1, Invariant, PTL
=============================================================================
