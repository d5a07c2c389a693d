------------------------------ MODULE Readline ------------------------------
(***************************************************************************)
(* Parallel input (pyMPI_readline.c): the interactive interpreter of every *)
(* rank reads its next line with parallelReadline.  After a barrier rank 0 *)
(* reads what the user types and broadcasts first its size, then the line  *)
(* itself, on a communicator of its own.  bcast_input_to_slaves does rank  *)
(* 0's part for a program of rank 0 that gets its lines elsewhere.         *)
(*                                                                         *)
(* A line is a command; Eof is the end of the input, an empty string, and  *)
(* Interrupt is no string at all, which python takes for a keyboard's.     *)
(***************************************************************************)
EXTENDS Communicators

CONSTANTS
    Lines,      \* Lines[i]: what the i-th line of the input may be
    Follows(_, _),  \* Follows(before, l): may it be l after those before?
    Jobs        \* how jobs may be run: where lines come from, "prompt",
                \* "feeder" or "script", and whether pyMPI owns MPI

\* What a line may do: a method is called on an object and its result is
\* given a name of the program's own; bad are the ranks where it goes wrong.
Own          == Names \ {"WORLD"}
Inclusion    == [kind : {"none", "rank", "item", "slice"}, start : Int, stop : Int, step : Int]
Grid         == [dims : Seq(Nat), periods : Seq(BOOLEAN)]
Destinations == {"absent", "none", "file", "null"}
Statements ==
    [do : {"interrupt", "print", "finalize", "exit", "caughtExit", "raiseSystemExit", "crash", "abort"}]
    \cup [do : {"raise"}, bad : SUBSET Ranks]
    \cup [do : {"write"}, on : Names, bad : SUBSET Ranks, badFile : BOOLEAN]
    \cup [do : {"queue"}, on : Names, bad : SUBSET Ranks,
           stdout : Destinations, stderr : Destinations]
    \cup [do : {"dup"}, on : Names, to : Own]
    \cup [do : {"create"}, on : Names, to : Own, arg : Inclusion]
    \cup [do : {"cart"}, on : Names, to : Own, arg : Grid]
    \cup [do : {"wrap"}, on : Names, to : Own, persist : BOOLEAN]
    \cup [do : {"persistent"}, on : Names, persist : BOOLEAN]
    \cup [do : {"free", "del"}, on : Names]

ASSUME LinesAssumption == Lines \in Seq(SUBSET Statements)
ASSUME JobsAssumption == Jobs \subseteq {"prompt", "feeder", "script"} \X BOOLEAN

VARIABLES
    mode,       \* where lines come from in this job
    pyMPI_owns_MPI, \* pyMPI is the program, and not a module of python
    entered,    \* the lines of the user or the script so far, Eof the last
    executed,   \* executed[r]: the lines that r has begun to execute
    faults      \* what has gone wrong in the program, or in the machine

jobVars  == <<mode, pyMPI_owns_MPI>>
readVars == <<jobVars, entered, executed, faults>>

Eof       == [do |-> "eof"]
Interrupt == [do |-> "interrupt"]
AllLines == {Eof} \cup UNION Range(Lines)
ASSUME GridsAssumption == \A l \in AllLines : l.do = "cart" => Product(l.arg.dims) \in Nat
EOT == -1                \* PYMPI_BROADCAST_EOT
Size(l) == IF l = Interrupt THEN EOT ELSE IF l = Eof THEN 0 ELSE 1     \* 1: any length

Input(r) == pyMPI_COMM_INPUT[r]

\* Rank r goes on to run the line, or leaves at the end of the input.
Run(r, l) ==
    IF l = Eof
    THEN /\ pc' = [pc EXCEPT ![r] = "leave"]
         /\ UNCHANGED executed
    ELSE /\ pc' = [pc EXCEPT ![r] = "run"]
         /\ executed' = [executed EXCEPT ![r] = Append(@, l)]

Goto(r, where) == pc' = [pc EXCEPT ![r] = where]

\* A line comes into existence: the end of the input is always possible.
Possible ==
    {Eof} \cup IF Len(entered) < Len(Lines)
               THEN {l \in Lines[Len(entered) + 1] : Follows(entered, l)} ELSE {}

Choose(l) ==
    /\ l \in Possible
    /\ entered' = Append(entered, l)

-----------------------------------------------------------------------------
\* Every rank begins with the barrier; a feeding rank 0 has one of its own.
\* An error of it is an exception: the prompt comes again, a program ends.
EnterReadline(r) ==
    /\ pc[r] = "next" /\ mode # "script"
    /\ \/ Enter(r, Input(r), "barrier", <<>>) /\ Goto(r, "read:barrier")
       \/ /\ Misuse(r, Input(r))
          /\ Goto(r, IF r = 0 /\ mode = "feeder" THEN "leave" ELSE "next")
    /\ UNCHANGED <<readVars, commVars>>

\* A barrier on finalized MPI may also pass for one: rank 0 then reads on
\* alone, "the slaves are cut off from the input stream".  What they get is no
\* string, an interrupt and not the end of the input: they prompt again.
FinalizedReadline(r, l) ==
    /\ pc[r] = "next" /\ mode # "script" /\ Finalized(r)
    /\ misused' = [misused EXCEPT ![r] = @ \cup {"notReady"}]
    /\ IF r = 0 THEN mode = "prompt" /\ Choose(l) /\ Run(r, l)
       ELSE l = Interrupt /\ Goto(r, "next") /\ UNCHANGED <<entered, executed>>
    /\ UNCHANGED <<mpi, finalizes, group, calls, freed, jobVars, faults, commVars>>

\* Mutant of ReadLine: the barrier is not waited for.
ReadLineAtOnce(r, l) ==
    /\ pc[r] = "read:barrier" /\ r = 0
    /\ Choose(l)
    /\ Enter(r, Input(r), "bcast", <<Size(l)>>)
    /\ Goto(r, "read:size")
    /\ UNCHANGED <<jobVars, executed, faults, commVars>>

\* Rank 0 reads a line and starts to broadcast its size.
ReadLine(r, l) ==
    /\ pc[r] = "read:barrier" /\ r = 0
    /\ Complete(r, Input(r), FALSE)
    /\ Choose(l)
    /\ Enter(r, Input(r), "bcast", <<Size(l)>>)
    /\ Goto(r, "read:size")
    /\ UNCHANGED <<jobVars, executed, faults, commVars>>

\* A feeding program passes bcast_input_to_slaves what is no string: the
\* arguments are only looked at when the slaves are past the barrier.
FeedBadArgument(r) ==
    /\ pc[r] = "read:barrier" /\ r = 0 /\ mode = "feeder"
    /\ Complete(r, Input(r), FALSE)
    /\ faults' = faults \cup {"argument"}
    /\ Goto(r, "next")
    /\ UNCHANGED <<mpiVars, jobVars, entered, executed, commVars>>

AwaitSize(r) ==
    /\ pc[r] = "read:barrier" /\ r # 0
    /\ Complete(r, Input(r), FALSE)
    /\ Enter(r, Input(r), "bcast", <<>>)
    /\ Goto(r, "read:size")
    /\ UNCHANGED <<readVars, commVars>>

\* Mutant of SizeDone: slaves do not ask whether there is a line.
SizeDoneNoEnd(r, early) ==
    LET line == IF r = 0 THEN <<Last(entered)>> ELSE <<>>
    IN  /\ pc[r] = "read:size"
        /\ Complete(r, Input(r), early)
        /\ IF r = 0 /\ Sent(r, Input(r))[1] = EOT
           THEN Run(r, Interrupt) /\ UNCHANGED mpiVars
           ELSE Enter(r, Input(r), "bcast", line) /\ Goto(r, "read:line") /\ UNCHANGED executed
        /\ UNCHANGED <<jobVars, entered, faults, commVars>>

\* The size is sent or received; the line itself follows, unless there is none.
SizeDone(r, early) ==
    LET size == Sent(r, Input(r))[1]
        line == IF r = 0 THEN <<Last(entered)>> ELSE <<>>
    IN  /\ pc[r] = "read:size"
        /\ Complete(r, Input(r), early)
        /\ IF size = EOT
           THEN Run(r, Interrupt) /\ UNCHANGED mpiVars
           ELSE /\ Enter(r, Input(r), "bcast", line)
                /\ Goto(r, "read:line")
                /\ UNCHANGED executed
        /\ UNCHANGED <<jobVars, entered, faults, commVars>>

\* A slave has no memory for the line: it prompts again, without the broadcast.
SlaveNoMemory(r) ==
    /\ pc[r] = "read:size" /\ r # 0
    /\ Complete(r, Input(r), FALSE)
    /\ Sent(r, Input(r))[1] # EOT
    /\ faults' = faults \cup {"memory"}
    /\ Goto(r, "next")      \* of one rank only
    /\ UNCHANGED <<mpiVars, jobVars, entered, executed, commVars>>

LineDone(r, early) ==
    /\ pc[r] = "read:line"
    /\ Complete(r, Input(r), early)
    /\ Run(r, Sent(r, Input(r))[1])
    /\ UNCHANGED <<mpiVars, jobVars, entered, faults, commVars>>

\* Without a prompt, every rank reads the same script.
ReadScript(r, l) ==
    /\ pc[r] = "next" /\ mode = "script"
    /\ IF Len(executed[r]) < Len(entered)
       THEN l = entered[Len(executed[r]) + 1] /\ UNCHANGED entered
       ELSE Choose(l) /\ l # Interrupt
    /\ Run(r, l)
    /\ UNCHANGED <<mpiVars, jobVars, faults, commVars>>

ReadInit ==
    /\ \E job \in Jobs : mode = job[1] /\ pyMPI_owns_MPI = job[2]
    /\ entered = <<>>
    /\ executed = [r \in Ranks |-> <<>>]
    /\ faults = {}
=============================================================================
