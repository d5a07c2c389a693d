---------------------------- MODULE InputStream ----------------------------
(***************************************************************************)
(* What the parallel prompt promises: the ranks work in step.  A line is   *)
(* read only when every rank is through with every earlier line; each rank *)
(* then executes it, once.  A rank may stop taking lines.  If rank 0 is    *)
(* alone, because MPI is finalized, it reads on by itself.                 *)
(***************************************************************************)
EXTENDS Integers, Sequences

CONSTANTS Ranks, Master, AllLines

VARIABLES
    entered,    \* the lines read so far
    executed,   \* executed[r]: the lines that rank r has begun to execute
    idle,       \* the ranks that are ready for a line
    alone       \* MPI is finalized at the master

vars == <<entered, executed, idle, alone>>

Init ==
    /\ entered = <<>>
    /\ executed = [r \in Ranks |-> <<>>]
    /\ idle = {}
    /\ alone = FALSE

Ready(r) ==
    /\ idle' \in {idle, idle \cup {r}}
    /\ alone' \in {alone, TRUE}
    /\ UNCHANGED <<entered, executed>>

Read(line) ==
    /\ idle = Ranks
    /\ \A r \in Ranks : executed[r] = entered
    /\ entered' = Append(entered, line)
    /\ UNCHANGED <<executed, idle, alone>>

Execute(r) ==
    /\ r \in idle /\ Len(executed[r]) < Len(entered)
    /\ executed' = [executed EXCEPT ![r] = Append(@, entered[Len(@) + 1])]
    /\ idle' = idle \ {r}
    /\ UNCHANGED <<entered, alone>>

Stop(r) ==
    /\ idle' = idle \ {r}
    /\ UNCHANGED <<entered, executed, alone>>

\* The master reads the end of the input, or a line that it executes at once.
ReadAlone(line) ==
    /\ alone /\ Master \in idle
    /\ entered' = Append(entered, line)
    /\ executed' \in {executed, [executed EXCEPT ![Master] = Append(@, line)]}
    /\ idle' = idle \ {Master}
    /\ UNCHANGED alone

Next ==
    \/ \E r \in Ranks : Ready(r) \/ Execute(r) \/ Stop(r)
    \/ \E line \in AllLines : Read(line) \/ ReadAlone(line)

Spec == Init /\ [][Next]_vars
=============================================================================
