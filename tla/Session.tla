------------------------------ MODULE Session ------------------------------
(***************************************************************************)
(* A session of the parallel interpreter, from MPI_Init to the end of the  *)
(* process: pyMPI_init, the lines that all ranks execute, and the way out. *)
(* A line is a record: do is what it does, on the name of the communicator *)
(* object it calls a method of, to the name it gives the result.           *)
(***************************************************************************)
EXTENDS SynchronizedOutput

VARIABLES
    sys_exit_called,    \* sys_exit_called[r]: sys.exit has been called
    exits               \* exits[r]: python ends the process, main gets no control

lifeVars == <<sys_exit_called, exits>>

vars == <<pc, mpiVars, commVars, readVars, outVars, lifeVars>>

\* A collective call of the line on its communicator
Call(r, op, where) ==
    \/ Enter(r, Target(r).handle, op, <<>>) /\ Proceed(r, where)
    \/ Misuse(r, Target(r).handle) /\ Raise(r, {})

-----------------------------------------------------------------------------
(***************************************************************************)
(* pyMPI_init: WORLD is made of a copy of MPI_COMM_WORLD, and the input    *)
(* has another.  A module loaded into python registers shutdown first.     *)
(***************************************************************************)
Initialize(r) ==
    /\ pc[r] = "start"
    /\ MPI_Init(r)
    /\ Goto(r, "init")
    /\ UNCHANGED <<commVars, readVars, outVars, lifeVars>>

DupWorld(r) ==
    /\ pc[r] \in {"init", "initComm"}
    /\ Enter(r, COMM_WORLD, "dup", <<>>)
    /\ Goto(r, IF pc[r] = "init" THEN "init:dup" ELSE "init:dupInput")
    /\ UNCHANGED <<commVars, readVars, outVars, lifeVars>>

WorldDone(r) ==
    LET new == NewComm(r, COMM_WORLD)
    IN  /\ pc[r] \in {"init:dup", "init:dupInput"}
        /\ Complete(r, COMM_WORLD, FALSE)
        /\ Create(new, group[COMM_WORLD])
        /\ IF pc[r] = "init:dup"
           THEN /\ pyMPI_COMM_WORLD' = [pyMPI_COMM_WORLD EXCEPT ![r] = new]
                /\ Goto(r, "initComm")
                /\ UNCHANGED <<object, pyMPI_COMM_INPUT>>
           ELSE /\ pyMPI_COMM_INPUT' = [pyMPI_COMM_INPUT EXCEPT ![r] = new]
                /\ object' = [object EXCEPT ![r]["WORLD"] = pyMPI_comm(r, pyMPI_COMM_WORLD[r])]
                /\ Goto(r, "next")
                /\ UNCHANGED pyMPI_COMM_WORLD
        /\ UNCHANGED <<readVars, outVars, lifeVars>>

-----------------------------------------------------------------------------
\* A program's own mistake, at some ranks, or the user's interrupt, at all.  A
\* feeding rank 0 has sent the interrupt and goes on, to the same effect.
UserRaises(r) ==
    /\ pc[r] = "run" /\ Line(r).do \in {"raise", "interrupt"}
    /\ IF Line(r).do = "interrupt" \/ r \in Line(r).bad THEN Raise(r, {}) ELSE Proceed(r, "next")
    /\ UNCHANGED <<mpiVars, commVars, outVars, lifeVars>>

\* comm_dup, comm_create and cart_create: MPI makes a communicator of the
\* ranks that Chosen says, once every member has asked for it.
Chosen(r) ==
    LET o == Target(r)
        l == Line(r)
    IN  CASE l.do = "dup"    -> [i \in 1..Len(group[o.handle]) |-> i - 1]
          [] l.do = "create" -> Inclusions(o, l.arg)
          [] l.do = "cart"   -> [i \in 1..GridSize(Len(group[o.handle]), l.arg) |-> i - 1]

\* Errors that are found before MPI is asked, and one that MPI finds at once:
\* the grid has more places than there are ranks.
BadArgument(r) ==
    LET o    == Target(r)
        l    == Line(r)
        size == IF Usable(r, o.handle) THEN Len(group[o.handle]) ELSE 0
    IN  \/ l.do = "create" /\ BadInclusions(o, Inclusions(o, l.arg))
        \/ l.do = "cart" /\ o.handle = COMM_NULL
        \/ l.do = "cart" /\ size > 0
           /\ (BadGrid(size, l.arg) \/ GridSize(size, l.arg) > size)

MakeComm(r) ==
    LET o == Target(r)
        l == Line(r)
    IN  /\ pc[r] = "run" /\ l.do \in {"dup", "create", "cart"}
        /\ IF o.is = "None" \/ (l.do # "cart" /\ ~Ready(r))
           THEN Raise(r, {}) /\ UNCHANGED <<mpiVars, commVars>>
           ELSE IF l.do = "create" /\ l.arg.kind = "none"
           THEN Rebind(r, l.to, None) /\ Proceed(r, "next")
           ELSE IF l.do = "create" /\ Inclusions(o, l.arg) = <<>>
           THEN Rebind(r, l.to, pyMPI_comm(r, COMM_NULL)) /\ Proceed(r, "next")
           ELSE IF BadArgument(r)
           THEN Raise(r, {}) /\ UNCHANGED <<mpiVars, commVars>>
           ELSE Call(r, l.do, "make") /\ UNCHANGED commVars
        /\ UNCHANGED <<outVars, lifeVars>>

\* The new communicator is there.
CommMade(r) ==
    LET c     == Target(r).handle
        ranks == Included(c, Chosen(r))
    IN  /\ pc[r] = "make"
        /\ Complete(r, c, FALSE)
        /\ Create(NewComm(r, c), ranks)
        /\ Goto(r, "made")
        /\ UNCHANGED <<commVars, readVars, outVars, lifeVars>>

\* The name gets it: a rank left out has None of comm_create, and a null
\* communicator of cart_create.
CommBound(r) ==
    LET handle == Handle(r, NewComm(r, Target(r).handle))
    IN  /\ pc[r] = "made"
        /\ Rebind(r, Line(r).to, IF Line(r).do = "create" /\ handle = COMM_NULL THEN None
                                 ELSE pyMPI_comm(r, handle))
        /\ Proceed(r, "next")
        /\ UNCHANGED <<outVars, lifeVars>>

\* mpi.communicator(int(object), persist)
WrapHandle(r) ==
    LET c == Target(r).handle
        l == Line(r)
    IN  /\ pc[r] = "run" /\ l.do = "wrap"
        /\ IF Target(r).is = "None"
           THEN Raise(r, {}) /\ UNCHANGED <<mpiVars, commVars>>
           ELSE IF c = COMM_NULL \/ Usable(r, c)
           THEN Rebind(r, l.to, CommObject(r, c, l.persist)) /\ Proceed(r, "next")
           ELSE Misuse(r, c) /\ Raise(r, {}) /\ UNCHANGED commVars
        /\ UNCHANGED <<outVars, lifeVars>>

\* object.persistent = flag
SetPersistent(r) ==
    /\ pc[r] = "run" /\ Line(r).do = "persistent"
    /\ IF Target(r).is = "None" THEN Raise(r, {}) /\ UNCHANGED object
       ELSE comm_set_persistent(r, Line(r).on, Line(r).persist) /\ Proceed(r, "next")
    /\ UNCHANGED <<mpiVars, pyMPI_COMM_WORLD, pyMPI_COMM_INPUT, outVars, lifeVars>>

\* The name is given up.
Delete(r) ==
    /\ pc[r] = "run" /\ Line(r).do = "del"
    /\ Rebind(r, Line(r).on, None)
    /\ Proceed(r, "next")
    /\ UNCHANGED <<outVars, lifeVars>>

\* comm_free, the method: only what it sees to be MPI's own is refused.
FreeComm(r) ==
    LET c == Target(r).handle
    IN  /\ pc[r] = "run" /\ Line(r).do = "free"
        /\ IF Target(r).is = "None" \/ ~Ready(r) \/ c \in {COMM_WORLD, COMM_NULL}
           THEN Raise(r, {}) /\ UNCHANGED <<mpiVars, commVars>>
           ELSE /\ Call(r, "free", "next")
                /\ object' = [object EXCEPT ![r][Line(r).on].handle =
                                  IF Usable(r, c) THEN COMM_NULL ELSE @]
                /\ UNCHANGED <<pyMPI_COMM_WORLD, pyMPI_COMM_INPUT>>
        /\ UNCHANGED <<outVars, lifeVars>>

-----------------------------------------------------------------------------
\* mpi.finalize()
Finalize(r) ==
    /\ pc[r] = "run" /\ Line(r).do = "finalize"
    /\ IF Ready(r) THEN MPI_Finalize(r) /\ Proceed(r, "finalizing")
       ELSE Raise(r, {}) /\ UNCHANGED mpiVars
    /\ UNCHANGED <<commVars, outVars, lifeVars>>

FinalizeDone(r, early) ==
    /\ pc[r] = "finalizing"
    /\ FinalizeReturns(r, early)
    /\ Proceed(r, "next")
    /\ UNCHANGED <<commVars, outVars, lifeVars>>

\* sys.exit() raises SystemExit, which a program may catch, and one may be
\* raised without it.
SystemExit(r) ==
    /\ pc[r] = "run" /\ Line(r).do \in {"exit", "caughtExit", "raiseSystemExit"}
    /\ sys_exit_called' = [sys_exit_called EXCEPT ![r] = @ \/ Line(r).do # "raiseSystemExit"]
    /\ IF Line(r).do = "caughtExit" THEN Proceed(r, "next") /\ UNCHANGED exits
       ELSE Proceed(r, "leave") /\ exits' = [exits EXCEPT ![r] = TRUE]
    /\ UNCHANGED <<mpiVars, commVars, outVars>>

\* mpi.abort()
AbortJob(r) ==
    /\ pc[r] = "run" /\ Line(r).do = "abort"
    /\ IF Ready(r)
       THEN /\ Abort
            /\ Proceed(r, "gone")
            /\ UNCHANGED <<finalizes, group, calls, freed, misused>>
       ELSE Raise(r, {}) /\ UNCHANGED mpiVars
    /\ UNCHANGED <<commVars, outVars, lifeVars>>

\* A line's code ends in a fatal signal: the whole job, or the rank alone.
fatal_signal(r) ==
    /\ pc[r] = "run" /\ Line(r).do = "crash"
    /\ IF Ready(r) THEN Abort ELSE UNCHANGED mpi
    /\ Proceed(r, "gone")
    /\ UNCHANGED <<finalizes, group, calls, freed, misused, commVars, outVars, lifeVars>>

-----------------------------------------------------------------------------
(***************************************************************************)
(* The way out.  python destroys its objects, and runs what was registered *)
(* for its end last first: last_wish, and then in a module shutdown.       *)
(***************************************************************************)
Destroy(r) ==
    /\ pc[r] = "leave"
    /\ \E name \in Names :
           /\ object[r][name].is = "communicator" /\ ~object[r][name].persistent
           /\ Rebind(r, name, None)
    /\ UNCHANGED <<pc, readVars, outVars, lifeVars>>

\* Frees a communicator of pyMPI's own, unless there is none.
Release(r, handle) ==
    IF handle = COMM_NULL THEN UNCHANGED mpiVars
    ELSE Enter(r, handle, "free", <<>>) \/ Misuse(r, handle)

last_wish(r) ==
    /\ pc[r] = "leave"
    /\ \A name \in Names : object[r][name].persistent
    /\ Release(r, pyMPI_COMM_WORLD[r])
    /\ pyMPI_COMM_WORLD' = [pyMPI_COMM_WORLD EXCEPT ![r] = COMM_NULL]
    /\ Proceed(r, "fini:readline")
    /\ UNCHANGED <<object, pyMPI_COMM_INPUT, outVars, lifeVars>>

readline_fini(r) ==
    /\ pc[r] = "fini:readline"
    /\ Release(r, pyMPI_COMM_INPUT[r])
    /\ pyMPI_COMM_INPUT' = [pyMPI_COMM_INPUT EXCEPT ![r] = COMM_NULL]
    /\ Proceed(r, "fini:sysmods")
    /\ UNCHANGED <<object, pyMPI_COMM_WORLD, outVars, lifeVars>>

sysmods_fini(r) ==
    /\ pc[r] = "fini:sysmods"
    /\ IF sys_exit_called[r] /\ pyMPI_owns_MPI
       THEN MPI_Finalize(r) /\ Proceed(r, "fini:finalizing")
       ELSE Proceed(r, "end") /\ UNCHANGED mpiVars
    /\ UNCHANGED <<commVars, outVars, lifeVars>>

\* Mutant of AtEnd: nobody asks whether MPI is finalized.
AtEndUnchecked(r) ==
    /\ pc[r] = "end"
    /\ IF ~pyMPI_owns_MPI \/ ~exits[r]
       THEN MPI_Finalize(r) /\ Proceed(r, "end:finalizing")
       ELSE Proceed(r, "gone") /\ UNCHANGED mpiVars
    /\ UNCHANGED <<commVars, outVars, lifeVars>>

\* shutdown of a module, or what main does when it has control again
AtEnd(r) ==
    /\ pc[r] = "end"
    /\ IF ~Finalized(r) /\ (~pyMPI_owns_MPI \/ ~exits[r])
       THEN MPI_Finalize(r) /\ Proceed(r, "end:finalizing")
       ELSE Proceed(r, "gone") /\ UNCHANGED mpiVars
    /\ UNCHANGED <<commVars, outVars, lifeVars>>

EndFinalized(r, early) ==
    /\ pc[r] \in {"fini:finalizing", "end:finalizing"}
    /\ FinalizeReturns(r, early)
    /\ Proceed(r, IF pc[r] = "fini:finalizing" THEN "end" ELSE "gone")
    /\ UNCHANGED <<commVars, outVars, lifeVars>>

-----------------------------------------------------------------------------
Init ==
    /\ pc = [r \in Ranks |-> "start"]
    /\ MPIInit /\ CommInit /\ ReadInit /\ OutInit
    /\ sys_exit_called = [r \in Ranks |-> FALSE]
    /\ exits = [r \in Ranks |-> FALSE]

Boot(r) == Initialize(r) \/ DupWorld(r) \/ WorldDone(r)

Read(r, early) ==
    /\ \/ EnterReadline(r) \/ FeedBadArgument(r) \/ AwaitSize(r) \/ SlaveNoMemory(r)
       \/ SizeDone(r, early) \/ LineDone(r, early)
       \/ \E l \in AllLines : FinalizedReadline(r, l) \/ ReadLine(r, l) \/ ReadScript(r, l)
    /\ UNCHANGED <<outVars, lifeVars>>

Output(r, early) ==
    /\ \/ UserPrints(r) \/ SynchronizedWrite(r) \/ CollectNext(r) \/ WriteNext(r)
       \/ AwaitWriting(r, early) \/ WriteFails(r) \/ WriteDone(r)
       \/ QueuedOutput(r) \/ SystemStream(r) \/ SyncBarrier(r, early) \/ SyncDone(r) \/ SyncFails(r)
    /\ UNCHANGED lifeVars

Command(r, early) ==
    \/ UserRaises(r) \/ MakeComm(r) \/ CommMade(r) \/ CommBound(r) \/ WrapHandle(r)
    \/ SetPersistent(r) \/ Delete(r) \/ FreeComm(r) \/ Finalize(r) \/ FinalizeDone(r, early)
    \/ SystemExit(r) \/ AbortJob(r) \/ fatal_signal(r)

Leave(r, early) ==
    \/ Destroy(r) \/ last_wish(r) \/ readline_fini(r) \/ sysmods_fini(r)
    \/ AtEnd(r) \/ EndFinalized(r, early)

Step(r, early) ==
    /\ Alive(r)
    /\ Boot(r) \/ Read(r, early) \/ Output(r, early) \/ Command(r, early) \/ Leave(r, early)

Next == \E r \in Ranks, early \in BOOLEAN : Step(r, early)

(***************************************************************************)
(* Every process runs: a step of a rank that stays possible is taken.  A   *)
(* collective call returns once every member has made it; that one returns *)
(* before is possible, and nothing to count on, as it is that MPI ends the *)
(* job because of a wrong call.                                            *)
(***************************************************************************)
Fairness == \A r \in Ranks : WF_vars(Step(r, FALSE) /\ (Alive(r)' \/ pc'[r] = "gone"))

Spec == Init /\ [][Next]_vars /\ Fairness

-----------------------------------------------------------------------------
(***************************************************************************)
(* Properties                                                              *)
(***************************************************************************)
Reading == {"next", "read:barrier", "read:size", "read:line"}

Did(r, what) == \E i \in 1..Len(executed[r]) : executed[r][i].do = what

\* Two objects of r may have one handle, other than that of WORLD.
Aliased(r) ==
    \E i \in 1..Len(executed[r]) : executed[r][i].do = "wrap" /\ executed[r][i].on # "WORLD"

PCs == {"start", "init", "init:dup", "initComm", "init:dupInput"} \cup Reading \cup
       {"run", "make", "made", "finalizing"} \cup
       {"out:collect", "out:send", "out:failed", "out:barrier", "out:sync", "out:syncBarrier",
        "out:failedBarrier", "dead"} \cup
       {"leave", "fini:readline", "fini:sysmods", "fini:finalizing", "end", "end:finalizing", "gone"}

Objects == [is : {"None", "communicator"}, handle : DOMAIN group \cup {COMM_NULL},
            persistent : BOOLEAN, rank : Ranks, size : 0..N]

\* Types, and: a communicator object has a rank below its size.
TypeOK ==
    /\ pc \in [Ranks -> PCs]
    /\ mpi \in [Ranks -> MPI_States]
    /\ finalizes \in [Ranks -> Nat]
    /\ DOMAIN calls = DOMAIN group
    /\ \A c \in DOMAIN group : Members(c) \subseteq Ranks /\ IsInjective(group[c])
    /\ \A r \in Ranks :
          /\ freed[r] \subseteq DOMAIN group
          /\ misused[r] \subseteq {"notReady", "null", "stale"}
          /\ {pyMPI_COMM_WORLD[r], pyMPI_COMM_INPUT[r]} \subseteq DOMAIN group \cup {COMM_NULL}
          /\ written[r] \in 0..N
          /\ ToSet(streams[r]) \subseteq Stream /\ IsInjective(streams[r])
          /\ \A n \in Names : object[r][n] \in Objects /\ object[r][n].rank <= Max({0, object[r][n].size - 1})
          /\ \A s \in Stream : stream[r][s].to \in {"terminal", "file", "null"}
    /\ mode \in {"prompt", "feeder", "script"}
    /\ ToSet(entered) \subseteq AllLines
    /\ faults \subseteq {"argument", "memory", "raised", "uncaught", "misuse", "assertion"}
    /\ sys_exit_called \in [Ranks -> BOOLEAN] /\ exits \in [Ranks -> BOOLEAN]

\* A slice whose bounds are those of a rank, from either end, gives the ranks
\* that are a multiple of its step from start on and short of stop, in that
\* order ("Slices from a communicator return the list of "rank" numbers in the
\* range"); it raises only if there are none.
SliceOf(size, from, to, by, s) ==
    LET ranks == {i \in 0..(size - 1) : /\ \E k \in 0..size : i = from + k * by
                                       /\ IF by < 0 THEN i > to ELSE i < to}
    IN  IF s = Raises THEN ranks = {}
        ELSE ToSet(s) = ranks /\ \A i \in 1..Len(s) : s[i] = from + (i - 1) * by

SlicesRight ==
    (\A r \in Ranks : pc[r] = "start") =>
        \A size \in 0..4, step \in {Omitted} \cup -5..-1 \cup 1..5 :
            \A start \in {Omitted} \cup -size..(size - 1), stop \in {Omitted} \cup -size..size :
                LET by == IF step = Omitted THEN 1 ELSE step
                IN  SliceOf(size,
                            Bound(start, IF by < 0 THEN size - 1 ELSE 0, size),
                            Bound(stop, IF by < 0 THEN -1 ELSE size, size), by,
                            comm_slice(size, [start |-> start, stop |-> stop, step |-> step]))

\* The k-th collective call on a communicator is the same call at all of its
\* members, whatever has raised at some of them, as long as nothing has failed
\* inside a collective operation or ended a script at some ranks.
CollectivesMatch ==
    faults = {} =>
        \A c \in DOMAIN group : \A q, r \in Members(c) :
            \A k \in 1..Len(calls[c][q]) :
                k <= Len(calls[c][r]) => calls[c][q][k].op = calls[c][r][k].op

\* pyMPI uses MPI before it is initialized, or after it is finalized, only if
\* the program finalized it.
UsedWhenReady == \A r \in Ranks : "notReady" \in misused[r] => Did(r, "finalize")

\* And it uses a handle that is released only if the program made two objects
\* of one handle or released that of WORLD.
MisuseIsTheProgram ==
    /\ UsedWhenReady
    /\ \A r \in Ranks : "stale" \in misused[r] => Aliased(r)

\* MPI is finalized once, and not twice, by every process that ends and is not
\* killed ("It is called at shutdown unless already finalized").
FinalizedAtEnd ==
    \A r \in Ranks :
        /\ finalizes[r] <= 1
        /\ pc[r] = "gone" /\ finalizes[r] = 0 => ~Alive(r) \/ Did(r, "crash")

\* What m has written in a synchronized write of the line given
Texts(m, line) == SelectSeq(output[m], LAMBDA t : t.sync /\ t.line = line)

\* synchronizedWrite returns only when the master has written the texts of all
\* members, in rank order ("Throw a barrier to ensure all release together").
ReturnMeansWritten ==
    [][\A r \in Ranks :
         pc[r] = "out:barrier" /\ pc'[r] = "next" /\ faults = {} =>
             Texts(group[Target(r).handle][1], Len(executed[r]))
                 = [i \in 1..Target(r).size |->
                       [SyncText(r) EXCEPT !.rank = group[Target(r).handle][i]]]]_vars

\* At a prompt the ranks work in step, as InputStream promises.
Stream0 == INSTANCE InputStream WITH
               Ranks    <- Ranks,
               Master   <- 0,
               AllLines <- AllLines,
               entered  <- IF mode = "script" THEN <<>> ELSE entered,
               executed <- IF mode = "script" THEN [r \in Ranks |-> <<>>] ELSE executed,
               idle     <- IF mode = "script" THEN {} ELSE {r \in Ranks : pc[r] \in Reading},
               alone    <- mode # "script" /\ finalizes[0] > 0

ImplementsInputStream == Stream0!Spec

\* Where the stdout of rank q went when it executed line n: to nowhere?
Discarded(q, n) ==
    LET opens == {m \in 1..(n - 1) : executed[q][m].do = "queue" /\ executed[q][m].stdout # "absent"}
    IN  opens # {} /\ executed[q][Max(opens)].stdout = "null"

Occurrences(t, seq) == Cardinality({i \in 1..Len(seq) : seq[i] = t})

\* What a rank has printed is, exactly once, in somebody's output, in its file,
\* or on the way to the master, unless the rank threw it away.
OutputKept ==
    faults = {} =>
        \A q \in Ranks : \A n \in 1..Len(executed[q]) :
            LET t == [rank |-> q, line |-> n, sync |-> FALSE]
            IN  /\ executed[q][n].do = "print" /\ ~Discarded(q, n)
                /\ n < Len(executed[q]) \/ pc[q] # "run"
                => Occurrences(t, FlattenSeq([r \in 1..N |-> output[r - 1]])) + Occurrences(t, stream[q]["stdout"].held)
                     + Occurrences(t, FlattenSeq([i \in 1..Len(mail[q]) |-> mail[q][i].texts]))
                     + Occurrences(t, FlattenSeq(FlattenSeq([r \in 1..N |-> got[r - 1]]))) = 1

\* A rank whose program has finalized MPI has no part in the input any more.
CutOff(r) == mode # "script" /\ Finalized(r) /\ pc[r] = "next"

\* Every session comes to an end at every rank that has the input, once the
\* input is over, unless something failed inside a collective operation or
\* ended a script.
SessionEnds ==
    <>(faults # {} \/ \A r \in Ranks : ~Alive(r) \/ pc[r] = "gone" \/ CutOff(r))
=============================================================================
