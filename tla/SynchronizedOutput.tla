------------------------- MODULE SynchronizedOutput -------------------------
(***************************************************************************)
(* Output (pyMPI_comm_io.c).  synchronizedWrite has the master of a        *)
(* communicator write everybody's text in rank order.  Slaves may queue    *)
(* what they print in files; synchronizeQueuedOutput sends the files to    *)
(* the master, which prints them, and may change where output goes.        *)
(*                                                                         *)
(* Texts go to the master as messages with the tag of pyMPI_collective,    *)
(* mail[r] holding those of r.  Each process has an output of its own: how *)
(* the launcher of the job puts them together is outside the program.      *)
(***************************************************************************)
EXTENDS Readline

VARIABLES
    mail,       \* mail[r]: the texts r has sent to the master, and on what
    got,        \* got[r]: what a master has collected so far
    written,    \* written[r]: how much of that it has written
    streams,    \* streams[r]: the streams that r is still to synchronize
    stream,     \* stream[r][s]: where output stream s goes, what its file holds
    output      \* output[r]: what r has written to its own output

outVars == <<mail, got, written, streams, stream, output>>

Stream == {"stdout", "stderr"}

Text(r)     == [rank |-> r, line |-> Len(executed[r]), sync |-> FALSE]
SyncText(r) == [Text(r) EXCEPT !.sync = TRUE]

Line(r)   == Last(executed[r])
Target(r) == object[r][Line(r).on]      \* the communicator of the method called

\* The line raises at rank r: the interpreter prompts again, a script ends.
Raise(r, fault) ==
    /\ faults' = faults \cup (fault \cup IF mode = "script" THEN {"uncaught"} ELSE {})
    /\ Goto(r, IF mode = "script" THEN "leave" ELSE "next")
    /\ UNCHANGED <<jobVars, entered, executed>>

Proceed(r, where) ==
    /\ Goto(r, where)
    /\ UNCHANGED readVars

UserPrints(r) ==
    /\ pc[r] = "run" /\ Line(r).do = "print"
    /\ LET out == stream[r]["stdout"].to
       IN  /\ output' = IF out = "terminal" THEN [output EXCEPT ![r] = Append(@, Text(r))] ELSE output
           /\ stream' = IF out = "file" THEN [stream EXCEPT ![r]["stdout"].held = Append(@, Text(r))]
                        ELSE stream
    /\ Proceed(r, "next")
    /\ UNCHANGED <<mpiVars, commVars, mail, got, written, streams>>

-----------------------------------------------------------------------------
(***************************************************************************)
(* pyMPI_collective: a slave sends its data, the master, the rank 0 of the *)
(* communicator object, collects them in rank order.                       *)
(***************************************************************************)
Collect(r, texts) ==
    IF Target(r).rank = 0
    THEN /\ got' = [got EXCEPT ![r] = <<texts>>]
         /\ Proceed(r, "out:collect")
         /\ UNCHANGED <<mpiVars, mail>>
    ELSE IF Usable(r, Target(r).handle)
    THEN /\ mail' = [mail EXCEPT ![r] = Append(@, [comm |-> Target(r).handle, texts |-> texts])]
         /\ Proceed(r, "out:send")
         /\ UNCHANGED <<mpiVars, got>>
    ELSE /\ Misuse(r, Target(r).handle)
         /\ Proceed(r, "out:failed")
         /\ UNCHANGED <<mail, got>>

\* The first message of q under way on communicator c, 0 if there is none
Posted(q, c) == SelectInSeq(mail[q], LAMBDA m : m.comm = c)

CollectNext(r) ==
    LET o    == Target(r)
        from == group[o.handle][Len(got[r]) + 1]
        at   == Posted(from, o.handle)
    IN  /\ pc[r] = "out:collect" /\ Len(got[r]) < o.size
        /\ IF Usable(r, o.handle)
           THEN /\ at # 0
                /\ got' = [got EXCEPT ![r] = Append(@, mail[from][at].texts)]
                /\ mail' = [mail EXCEPT ![from] = RemoveAt(@, at)]
                /\ UNCHANGED <<mpiVars, pc>>
           ELSE /\ Misuse(r, o.handle)
                /\ Goto(r, "out:failed")
                /\ UNCHANGED <<mail, got>>
        /\ UNCHANGED <<readVars, commVars, written, streams, stream, output>>

\* Is the message that slave r sends gone?  MPI may keep it until then.
SendDone(r, early) ==
    pc[r] = "out:send" /\ (early \/ Posted(r, Target(r).handle) = 0)
CollectDone(r) == pc[r] = "out:collect" /\ Len(got[r]) >= Target(r).size

-----------------------------------------------------------------------------
\* io_synchronizedWrite: the text is made before anybody communicates.
SynchronizedWrite(r) ==
    /\ pc[r] = "run" /\ Line(r).do = "write"
    /\ IF Target(r).is = "None" \/ r \in Line(r).bad
       THEN /\ Raise(r, IF Target(r).is = "None" THEN {} ELSE {"raised"})
            /\ UNCHANGED <<mpiVars, mail, got>>
       ELSE Collect(r, <<SyncText(r)>>)
    /\ written' = [written EXCEPT ![r] = 0]
    /\ UNCHANGED <<commVars, streams, stream, output>>

\* The master writes the next rank's text, or cannot.
WriteNext(r) ==
    /\ CollectDone(r) /\ Line(r).do = "write" /\ written[r] < Target(r).size
    /\ IF Line(r).badFile
       THEN Raise(r, {"raised"}) /\ UNCHANGED <<written, output>>
       ELSE /\ output' = [output EXCEPT ![r] = @ \o got[r][written[r] + 1]]
            /\ written' = [written EXCEPT ![r] = @ + 1]
            /\ UNCHANGED <<pc, readVars>>
    /\ UNCHANGED <<mpiVars, commVars, mail, got, streams, stream>>

\* Mutant of AwaitWriting: the master has nobody to wait for.
AwaitWritingSlavesOnly(r, early) ==
    /\ SendDone(r, early) \/ (CollectDone(r) /\ written[r] >= Target(r).size)
    /\ Line(r).do = "write"
    /\ IF Target(r).rank = 0 THEN UNCHANGED mpiVars /\ Proceed(r, "next")
       ELSE \/ Enter(r, Target(r).handle, "barrier", <<>>) /\ Proceed(r, "out:barrier")
            \/ Misuse(r, Target(r).handle) /\ Raise(r, {"misuse"})
    /\ UNCHANGED <<commVars, outVars>>

\* Mutant of AwaitWriting: the master enters the barrier before it writes.
AwaitWritingUnwritten(r, early) ==
    /\ SendDone(r, early) \/ CollectDone(r)
    /\ Line(r).do = "write"
    /\ \/ Enter(r, Target(r).handle, "barrier", <<>>) /\ Proceed(r, "out:barrier")
       \/ Misuse(r, Target(r).handle) /\ Raise(r, {"misuse"})
    /\ UNCHANGED <<commVars, outVars>>

\* All wait for the master to have written.
AwaitWriting(r, early) ==
    /\ SendDone(r, early) \/ (CollectDone(r) /\ written[r] >= Target(r).size)
    /\ Line(r).do = "write"
    /\ \/ Enter(r, Target(r).handle, "barrier", <<>>) /\ Proceed(r, "out:barrier")
       \/ Misuse(r, Target(r).handle) /\ Raise(r, {"misuse"})
    /\ UNCHANGED <<commVars, outVars>>

WriteFails(r) ==
    /\ pc[r] = "out:failed" /\ Line(r).do = "write"
    /\ Raise(r, {"misuse"})
    /\ UNCHANGED <<mpiVars, commVars, outVars>>

WriteDone(r) ==
    /\ pc[r] = "out:barrier"
    /\ Complete(r, Target(r).handle, FALSE)
    /\ Proceed(r, "next")
    /\ UNCHANGED <<mpiVars, commVars, outVars>>

-----------------------------------------------------------------------------
\* Which streams a call of synchronizeQueuedOutput synchronizes, in order
Streams(l) ==
    IF l.stdout # "absent" /\ l.stderr = "absent" THEN <<"stdout">>
    ELSE IF l.stdout = "absent" /\ l.stderr # "absent" THEN <<"stderr">>
    ELSE <<"stdout", "stderr">>

QueuedOutput(r) ==
    /\ pc[r] = "run" /\ Line(r).do = "queue"
    /\ IF Target(r).is = "None" \/ ~Ready(r)
       THEN Raise(r, {}) /\ UNCHANGED streams
       ELSE /\ streams' = [streams EXCEPT ![r] = Streams(Line(r))]
            /\ Proceed(r, "out:sync")
    /\ UNCHANGED <<mpiVars, commVars, mail, got, written, stream, output>>

\* Where the output of a slave goes from now on
Reopened(old, as) ==
    CASE as = "absent" -> old
      [] as = "none"   -> "terminal"
      [] OTHER         -> as

\* Mutant of Queued: the file is read when it has been opened for writing again.
QueuedReopened(old) == <<>>

\* What has been written to a stream, if it goes to a file
Queued(old) == IF old.to = "terminal" THEN <<>> ELSE old.held

\* synchronize_system_stream: a slave takes what is queued, then reopens.  If
\* the file cannot be opened it is gone, and the slave with it.
SystemStream(r) ==
    LET s   == Head(streams[r])
        old == stream[r][s]
        new == Reopened(old.to, Line(r)[s])
    IN  /\ pc[r] = "out:sync"
        /\ IF Target(r).rank = 0 THEN Collect(r, <<>>) /\ UNCHANGED stream
           ELSE IF r \in Line(r).bad /\ new # "terminal"
           THEN /\ stream' = [stream EXCEPT ![r][s] = [to |-> "terminal", held |-> <<>>]]
                /\ Raise(r, {"raised"})
                /\ UNCHANGED <<mpiVars, mail, got>>
           ELSE /\ stream' = [stream EXCEPT ![r][s] = [to |-> new, held |-> <<>>]]
                /\ Collect(r, Queued(old))
        /\ UNCHANGED <<commVars, written, streams, output>>

\* Whatever came of the collective, everybody goes into a barrier of the
\* whole job, the communicator's members or not.
SyncBarrier(r, early) ==
    /\ SendDone(r, early) \/ CollectDone(r) \/ pc[r] = "out:failed"
    /\ Line(r).do = "queue"
    /\ \/ /\ Enter(r, COMM_WORLD, "barrier", <<>>)
          /\ Goto(r, IF pc[r] = "out:failed" THEN "out:failedBarrier" ELSE "out:syncBarrier")
       \/ Misuse(r, COMM_WORLD) /\ Goto(r, "out:failedBarrier")
    /\ UNCHANGED <<readVars, commVars, outVars>>

\* The master prints the slaves' output and all go on with the next stream.
SyncDone(r) ==
    LET more == Tail(streams[r])
    IN  /\ pc[r] = "out:syncBarrier"
        /\ Complete(r, COMM_WORLD, FALSE)
        /\ output' = IF Target(r).rank = 0
                     THEN [output EXCEPT ![r] = @ \o FlattenSeq(Tail(got[r]))] ELSE output
        /\ got' = [got EXCEPT ![r] = <<>>]
        /\ streams' = [streams EXCEPT ![r] = more]
        /\ Proceed(r, IF more = <<>> THEN "next" ELSE "out:sync")
        /\ UNCHANGED <<mpiVars, commVars, mail, written, stream>>

\* After a failed collective a slave raises; the assertion ends the master.
SyncFails(r) ==
    /\ pc[r] = "out:failedBarrier"
    /\ Ready(r) => Complete(r, COMM_WORLD, FALSE)
    /\ IF Target(r).rank = 0
       THEN /\ Goto(r, "dead")
            /\ faults' = faults \cup {"assertion"}
            /\ UNCHANGED <<jobVars, entered, executed>>
       ELSE Raise(r, {"misuse"})
    /\ UNCHANGED <<mpiVars, commVars, outVars>>

OutInit ==
    /\ mail = [r \in Ranks |-> <<>>]
    /\ got = [r \in Ranks |-> <<>>]
    /\ written = [r \in Ranks |-> 0]
    /\ streams = [r \in Ranks |-> <<>>]
    /\ stream = [r \in Ranks |-> [s \in Stream |-> [to |-> "terminal", held |-> <<>>]]]
    /\ output = [r \in Ranks |-> <<>>]
=============================================================================
