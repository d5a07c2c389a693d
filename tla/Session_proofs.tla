---------------------------- MODULE Session_proofs ----------------------------
(***************************************************************************)
(* What holds however a session goes, for any number of ranks and any      *)
(* lines, in five parts:                                                   *)
(*                                                                         *)
(*   - MPI is finalized once, and not used before it is initialized or     *)
(*     after it is finalized, but for what the program itself brings       *)
(*     about (LifeInv);                                                    *)
(*   - communicators, objects and handles are what they may be (CommInv);  *)
(*   - the input: rank 0's calls tell where the others are (StreamInv),    *)
(*     and the session implements InputStream;                             *)
(*   - the streams of output, and so all of TypeOK (OutInv);               *)
(*   - a handle is new when a rank gets it (FreshInv), so that only a      *)
(*     program can make one that is used and released.                     *)
(*                                                                         *)
(* Each part begins with the steps that have nothing to do with it and     *)
(* says in one lemma that they preserve it: Quiet, Aside, Turns, Settled,  *)
(* Calm.                                                                   *)
(***************************************************************************)
EXTENDS Session, SequenceTheorems, FiniteSetTheorems, TLAPS

\* Where the way out has got to MPI_Finalize; where a rank executes a line
Late   == {"fini:finalizing", "end", "end:finalizing", "gone"}
InLine == {"run", "make", "made", "finalizing", "out:collect", "out:send", "out:failed",
           "out:barrier", "out:sync", "out:syncBarrier", "out:failedBarrier"}
Early  == {"init", "init:dup", "initComm", "init:dupInput", "next", "read:barrier", "read:size",
           "read:line", "dead", "leave", "fini:readline", "fini:sysmods"} \cup InLine
Places == {"start"} \cup Early \cup Late

\* The ways of misusing MPI
Ways == {"notReady", "null", "stale"}

Types ==
    /\ pc \in [Ranks -> Places]
    /\ mpi \in [Ranks -> MPI_States]
    /\ finalizes \in [Ranks -> Nat]
    /\ misused \in [Ranks -> SUBSET Ways]
    /\ sys_exit_called \in [Ranks -> BOOLEAN]
    /\ exits \in [Ranks -> BOOLEAN]
    /\ \E S : executed \in [Ranks -> Seq(S)]

\* What a rank has done with MPI, and how often it has finalized it
StateOK(r) ==
    /\ pc[r] = "start" => mpi[r] \in {"off", "killed"}
    /\ mpi[r] = "off" => pc[r] = "start"
    /\ mpi[r] \in {"off", "on"} => finalizes[r] = 0
    /\ mpi[r] \in {"finalizing", "finalized"} => finalizes[r] >= 1
    /\ pc[r] \in InLine => executed[r] # <<>>

\* Before the way out only the program finalizes it, and only once; a second
\* time comes of sys.exit.
OnceOK(r) ==
    /\ pc[r] \notin Late /\ finalizes[r] # 0 => Did(r, "finalize") /\ finalizes[r] = 1
    /\ finalizes[r] > 1 => pyMPI_owns_MPI /\ Did(r, "finalize") /\ sys_exit_called[r]
    /\ "notReady" \in misused[r] => Did(r, "finalize")

\* On the way out it is finalized, or the program has avoided it.
EndOK(r) ==
    /\ pc[r] \in {"fini:finalizing", "end:finalizing"} => finalizes[r] >= 1
    /\ pc[r] = "end" /\ sys_exit_called[r] /\ pyMPI_owns_MPI => finalizes[r] >= 1
    /\ pc[r] = "gone" /\ finalizes[r] = 0 =>
          ~Alive(r) \/ Did(r, "crash") \/ (pyMPI_owns_MPI /\ exits[r] /\ ~sys_exit_called[r])

RankOK(r) == StateOK(r) /\ OnceOK(r) /\ EndOK(r)

LifeInv == Types /\ \A r \in Ranks : RankOK(r)

-----------------------------------------------------------------------------
(***************************************************************************)
(* Quiet steps.                                                            *)
(***************************************************************************)
MisusedSo(r, how) ==
    /\ misused' = [misused EXCEPT ![r] = @ \cup {how}]
    /\ how = "notReady" => ~Ready(r)

\* MPI is used, but neither started nor finalized.
MPIUsed(r) ==
    /\ mpi' = mpi \/ Abort
    /\ misused' = misused \/ \E how \in Ways : MisusedSo(r, how)
    /\ finalizes' = finalizes

\* The rank goes from one place in the session to another.
Moves(r) ==
    /\ \E where \in Early :
           /\ pc' = [pc EXCEPT ![r] = where]
           /\ where \in InLine => pc[r] \in InLine
    /\ pc[r] \in Early

Quiet(r) ==
    /\ MPIUsed(r) /\ Moves(r)
    /\ UNCHANGED <<executed, pyMPI_owns_MPI, lifeVars>>

\* Neither the steps of another rank that are not quiet nor the end of the job
\* disturb what a rank has done.
LEMMA OthersKept ==
    ASSUME NEW q \in Ranks, RankOK(q),
           pc'[q] = pc[q], mpi'[q] \in {mpi[q], "killed"}, finalizes'[q] = finalizes[q],
           executed'[q] = executed[q], misused'[q] = misused[q],
           sys_exit_called'[q] = sys_exit_called[q], exits'[q] = exits[q],
           UNCHANGED pyMPI_owns_MPI
    PROVE  RankOK(q)'
<1>1. StateOK(q)'
  BY DEF RankOK, StateOK
<1>2. OnceOK(q)'
  BY DEF RankOK, OnceOK, Did
<1>3. EndOK(q)'
  BY DEF RankOK, EndOK, Did, Alive
<1>. QED
  BY <1>1, <1>2, <1>3 DEF RankOK

LEMMA UsedTypes ==
    ASSUME LifeInv, NEW r \in Ranks, MPIUsed(r)
    PROVE  /\ mpi' \in [Ranks -> MPI_States]
           /\ \A q \in Ranks : mpi'[q] \in {mpi[q], "killed"}
           /\ misused' \in [Ranks -> SUBSET Ways]
           /\ \A q \in Ranks \ {r} : misused'[q] = misused[q]
           /\ "notReady" \in misused'[r] => "notReady" \in misused[r] \/ ~Ready(r)
           /\ finalizes' = finalizes
<1>1. /\ mpi' \in [Ranks -> MPI_States]
      /\ \A q \in Ranks : mpi'[q] \in {mpi[q], "killed"}
  BY DEF MPIUsed, Abort, LifeInv, Types, MPI_States
<1>2. misused \in [Ranks -> SUBSET Ways]
  BY DEF LifeInv, Types
<1>3. CASE misused' = misused
  BY <1>1, <1>2, <1>3 DEF MPIUsed
<1>4. ASSUME NEW how \in Ways, MisusedSo(r, how)
      PROVE  /\ misused' \in [Ranks -> SUBSET Ways]
             /\ \A q \in Ranks \ {r} : misused'[q] = misused[q]
             /\ "notReady" \in misused'[r] => "notReady" \in misused[r] \/ ~Ready(r)
  BY <1>2, <1>4 DEF Ways, MisusedSo
<1>. QED
  BY <1>1, <1>3, <1>4 DEF MPIUsed

LEMMA QuietKeeps ==
    ASSUME LifeInv, NEW r \in Ranks, Alive(r), Quiet(r)
    PROVE  LifeInv'
<1>1. /\ pc' \in [Ranks -> Places] /\ pc'[r] \notin Late \cup {"start"} /\ pc[r] \notin Late \cup {"start"}
      /\ pc'[r] \in InLine => pc[r] \in InLine
      /\ \A q \in Ranks \ {r} : pc'[q] = pc[q]
  BY DEF Quiet, Moves, LifeInv, Types, Places, Early, InLine, Late
<1>2. /\ mpi' \in [Ranks -> MPI_States]
      /\ \A q \in Ranks : mpi'[q] \in {mpi[q], "killed"}
  BY UsedTypes DEF Quiet
<1>3. /\ misused' \in [Ranks -> SUBSET Ways]
      /\ \A q \in Ranks \ {r} : misused'[q] = misused[q]
      /\ "notReady" \in misused'[r] => "notReady" \in misused[r] \/ ~Ready(r)
  BY UsedTypes DEF Quiet
<1>4. UNCHANGED <<finalizes, executed, pyMPI_owns_MPI, sys_exit_called, exits>>
  BY DEF Quiet, MPIUsed, lifeVars
<1>5. Types'
  BY <1>1, <1>2, <1>3, <1>4 DEF LifeInv, Types
<1>6. ASSUME NEW q \in Ranks \ {r} PROVE RankOK(q)'
  <2>1. RankOK(q)
    BY DEF LifeInv
  <2>2. /\ pc'[q] = pc[q] /\ mpi'[q] \in {mpi[q], "killed"} /\ misused'[q] = misused[q]
        /\ finalizes'[q] = finalizes[q] /\ executed'[q] = executed[q]
        /\ sys_exit_called'[q] = sys_exit_called[q] /\ exits'[q] = exits[q]
    BY <1>1, <1>2, <1>3, <1>4
  <2>. QED
    BY <1>4, <2>1, <2>2, OthersKept
<1>7. RankOK(r)'
  <2>1. RankOK(r) /\ mpi[r] \in MPI_States /\ finalizes[r] \in Nat
    BY DEF LifeInv, Types
  <2>2. StateOK(r)'
    BY <1>1, <1>2, <1>4, <2>1 DEF RankOK, StateOK
  <2>3. ~Ready(r) => Did(r, "finalize")
    BY <1>1, <2>1 DEF RankOK, StateOK, OnceOK, Ready, Alive, MPI_States
  <2>4. Did(r, "finalize")' <=> Did(r, "finalize")
    BY <1>4 DEF Did
  <2>5. OnceOK(r)'
    BY <1>1, <1>3, <1>4, <2>1, <2>3, <2>4 DEF RankOK, OnceOK
  <2>6. EndOK(r)'
    BY <1>1 DEF EndOK, Late
  <2>. QED
    BY <2>2, <2>5, <2>6 DEF RankOK
<1>. QED
  BY <1>5, <1>6, <1>7 DEF LifeInv

-----------------------------------------------------------------------------
(***************************************************************************)
(* What uses MPI without starting or finalizing it.                        *)
(***************************************************************************)
LEMMA Unused ==
    ASSUME NEW r \in Ranks, UNCHANGED mpiVars
    PROVE  MPIUsed(r)
BY DEF mpiVars, MPIUsed

LEMMA EnterUses ==
    ASSUME NEW r \in Ranks, NEW c, NEW op, NEW data, Enter(r, c, op, data)
    PROVE  MPIUsed(r)
BY DEF Enter, MPIUsed

LEMMA MisuseUses ==
    ASSUME NEW r \in Ranks, NEW c, Misuse(r, c)
    PROVE  MPIUsed(r)
<1>. DEFINE how == IF ~Ready(r) THEN "notReady" ELSE IF c = COMM_NULL THEN "null" ELSE "stale"
<1>1. how \in Ways /\ (how = "notReady" => ~Ready(r))
  BY DEF Ways
<1>2. misused' = [misused EXCEPT ![r] = @ \cup {how}]
  BY Zenon DEF Misuse
<1>3. (mpi' = mpi \/ Abort) /\ finalizes' = finalizes
  BY Zenon DEF Misuse
<1>. HIDE DEF how
<1>. QED
  BY <1>1, <1>2, <1>3, Zenon DEF MPIUsed, MisusedSo

LEMMA CreateUses ==
    ASSUME NEW r \in Ranks, NEW new, NEW ranks, Create(new, ranks)
    PROVE  MPIUsed(r)
BY DEF Create, MPIUsed

LEMMA RebindUses ==
    ASSUME NEW r \in Ranks, NEW name, NEW o, Rebind(r, name, o)
    PROVE  MPIUsed(r)
<1>1. UNCHANGED mpiVars \/ \E c : Enter(r, c, "free", <<>>) \/ Misuse(r, c)
  BY Zenon DEF Rebind, comm_dealloc, comm_free
<1>. QED
  BY <1>1, Unused, EnterUses, MisuseUses

LEMMA ReleaseUses ==
    ASSUME NEW r \in Ranks, NEW c, Release(r, c)
    PROVE  MPIUsed(r)
BY Unused, EnterUses, MisuseUses DEF Release

-----------------------------------------------------------------------------
(***************************************************************************)
(* Ways of moving.                                                         *)
(***************************************************************************)
LEMMA GotoMoves ==
    ASSUME NEW r \in Ranks, NEW where \in Early,
           pc[r] \in Early, where \in InLine => pc[r] \in InLine,
           Goto(r, where)
    PROVE  Moves(r)
BY DEF Goto, Moves

LEMMA ProceedQuiet ==
    ASSUME NEW r \in Ranks, NEW where \in Early,
           pc[r] \in Early, where \in InLine => pc[r] \in InLine,
           Proceed(r, where), MPIUsed(r), UNCHANGED lifeVars
    PROVE  Quiet(r)
BY GotoMoves DEF Proceed, Quiet, readVars, jobVars

LEMMA RaiseQuiet ==
    ASSUME NEW r \in Ranks, NEW fault, pc[r] \in Early,
           Raise(r, fault), MPIUsed(r), UNCHANGED lifeVars
    PROVE  Quiet(r)
<1>1. Goto(r, "leave") \/ Goto(r, "next")
  BY DEF Raise
<1>2. Moves(r)
  <2>1. {"leave", "next"} \subseteq Early \ InLine
    BY DEF Early, InLine
  <2>. QED
    BY <1>1, <2>1, GotoMoves
<1>. QED
  BY <1>2 DEF Raise, Quiet, jobVars

LEMMA CallQuiet ==
    ASSUME NEW r \in Ranks, NEW op, NEW where \in Early,
           pc[r] \in Early, where \in InLine => pc[r] \in InLine,
           Call(r, op, where), UNCHANGED lifeVars
    PROVE  Quiet(r)
BY EnterUses, MisuseUses, ProceedQuiet, RaiseQuiet DEF Call

LEMMA GotoQuiet ==
    ASSUME NEW r \in Ranks, NEW where \in Early,
           pc[r] \in Early, where \in InLine => pc[r] \in InLine,
           Goto(r, where), MPIUsed(r), UNCHANGED <<executed, pyMPI_owns_MPI, lifeVars>>
    PROVE  Quiet(r)
BY GotoMoves DEF Quiet

-----------------------------------------------------------------------------
(***************************************************************************)
(* The quiet actions, part by part.                                        *)
(***************************************************************************)
LEMMA BootQuiet ==
    ASSUME NEW r \in Ranks, DupWorld(r) \/ WorldDone(r)
    PROVE  Quiet(r)
<1>. USE DEF Early, InLine, readVars, jobVars
<1>1. CASE DupWorld(r)
  <2>1. MPIUsed(r)
    BY <1>1, EnterUses DEF DupWorld
  <2>2. CASE pc[r] = "init"
    BY <1>1, <2>1, <2>2, GotoQuiet DEF DupWorld
  <2>3. CASE pc[r] = "initComm"
    BY <1>1, <2>1, <2>3, GotoQuiet DEF DupWorld
  <2>. QED
    BY <1>1, <2>2, <2>3 DEF DupWorld
<1>2. CASE WorldDone(r)
  <2>1. MPIUsed(r)
    BY <1>2, CreateUses DEF WorldDone
  <2>2. CASE pc[r] = "init:dup"
    BY <1>2, <2>1, <2>2, GotoQuiet DEF WorldDone
  <2>3. CASE pc[r] = "init:dupInput"
    BY <1>2, <2>1, <2>3, GotoQuiet DEF WorldDone
  <2>. QED
    BY <1>2, <2>2, <2>3 DEF WorldDone
<1>. QED
  BY <1>1, <1>2

LEMMA LeavesQuiet ==
    ASSUME NEW r \in Ranks, pc[r] \in Early, Run(r, Eof), MPIUsed(r),
           UNCHANGED <<pyMPI_owns_MPI, lifeVars>>
    PROVE  Quiet(r)
<1>1. Goto(r, "leave") /\ UNCHANGED executed
  BY DEF Run, Goto
<1>. QED
  BY <1>1, GotoQuiet DEF Early, InLine

LEMMA ReadQuiet ==
    ASSUME NEW r \in Ranks, NEW early \in BOOLEAN, UNCHANGED lifeVars,
           \/ EnterReadline(r) \/ FeedBadArgument(r) \/ AwaitSize(r) \/ SlaveNoMemory(r)
           \/ \E l \in AllLines : ReadLine(r, l)
    PROVE  Quiet(r)
<1>. USE DEF Early, InLine, readVars, jobVars
<1>1. CASE EnterReadline(r)
  <2>1. MPIUsed(r) /\ UNCHANGED <<executed, pyMPI_owns_MPI>> /\ pc[r] = "next"
    BY <1>1, EnterUses, MisuseUses DEF EnterReadline
  <2>2. Goto(r, "read:barrier") \/ Goto(r, "leave") \/ Goto(r, "next")
    BY <1>1 DEF EnterReadline
  <2>. QED
    BY <2>1, <2>2, GotoQuiet
<1>2. CASE FeedBadArgument(r)
  BY <1>2, Unused, GotoQuiet DEF FeedBadArgument
<1>3. CASE AwaitSize(r)
  BY <1>3, EnterUses, GotoQuiet DEF AwaitSize
<1>4. CASE SlaveNoMemory(r)
  BY <1>4, Unused, GotoQuiet DEF SlaveNoMemory
<1>5. CASE \E l \in AllLines : ReadLine(r, l)
  BY <1>5, EnterUses, GotoQuiet DEF ReadLine
<1>. QED
  BY <1>1, <1>2, <1>3, <1>4, <1>5

LEMMA CollectQuiet ==
    ASSUME NEW r \in Ranks, NEW texts, pc[r] \in InLine, Collect(r, texts), UNCHANGED lifeVars
    PROVE  Quiet(r)
<1>1. MPIUsed(r)
  BY Unused, MisuseUses DEF Collect
<1>2. \E where \in {"out:collect", "out:send", "out:failed"} : Proceed(r, where)
  BY DEF Collect
<1>. QED
  BY <1>1, <1>2, ProceedQuiet DEF Early, InLine

LEMMA OutputQuiet ==
    ASSUME LifeInv, NEW r \in Ranks, NEW early \in BOOLEAN, Output(r, early)
    PROVE  Quiet(r)
<1>. USE DEF Early, InLine
<1>1. UNCHANGED lifeVars
  BY DEF Output
<1>2. CASE UserPrints(r)
  BY <1>1, <1>2, Unused, ProceedQuiet DEF UserPrints
<1>3. CASE SynchronizedWrite(r)
  <2>1. pc[r] = "run"
    BY <1>3 DEF SynchronizedWrite
  <2>2. CASE Collect(r, <<SyncText(r)>>)
    BY <1>1, <2>1, <2>2, CollectQuiet
  <2>3. CASE \E fault : Raise(r, fault) /\ UNCHANGED mpiVars
    BY <1>1, <2>1, <2>3, Unused, RaiseQuiet
  <2>. QED
    BY <1>3, <2>2, <2>3 DEF SynchronizedWrite
<1>4. CASE CollectNext(r)
  <2>1. pc[r] = "out:collect" /\ MPIUsed(r) /\ UNCHANGED <<executed, pyMPI_owns_MPI>>
    BY <1>4, Unused, MisuseUses DEF CollectNext, readVars, jobVars
  <2>2. Goto(r, "out:failed") \/ UNCHANGED pc
    BY <1>4 DEF CollectNext
  <2>3. Goto(r, "out:failed") \/ Goto(r, "out:collect")
    BY <2>1, <2>2 DEF Goto, LifeInv, Types
  <2>. QED
    BY <1>1, <2>1, <2>3, GotoQuiet
<1>5. CASE WriteNext(r)
  <2>1. pc[r] = "out:collect" /\ MPIUsed(r)
    BY <1>5, Unused DEF WriteNext, CollectDone
  <2>2. CASE Raise(r, {"raised"})
    BY <1>1, <2>1, <2>2, RaiseQuiet
  <2>3. CASE UNCHANGED <<pc, readVars>>
    <3>1. Goto(r, "out:collect")
      BY <2>1, <2>3 DEF Goto, LifeInv, Types
    <3>. QED
      BY <1>1, <2>1, <2>3, <3>1, GotoQuiet DEF readVars, jobVars
  <2>. QED
    BY <1>5, <2>2, <2>3 DEF WriteNext
<1>6. CASE AwaitWriting(r, early)
  <2>1. pc[r] \in {"out:send", "out:collect"}
    BY <1>6 DEF AwaitWriting, SendDone, CollectDone
  <2>. QED
    BY <1>1, <1>6, <2>1, EnterUses, MisuseUses, ProceedQuiet, RaiseQuiet DEF AwaitWriting
<1>7. CASE WriteFails(r)
  BY <1>1, <1>7, Unused, RaiseQuiet DEF WriteFails
<1>8. CASE WriteDone(r)
  BY <1>1, <1>8, Unused, ProceedQuiet DEF WriteDone
<1>9. CASE QueuedOutput(r)
  BY <1>1, <1>9, Unused, ProceedQuiet, RaiseQuiet DEF QueuedOutput
<1>10. CASE SystemStream(r)
  <2>1. pc[r] = "out:sync"
    BY <1>10 DEF SystemStream
  <2>2. CASE \E texts : Collect(r, texts)
    BY <1>1, <2>1, <2>2, CollectQuiet
  <2>3. CASE Raise(r, {"raised"}) /\ UNCHANGED mpiVars
    BY <1>1, <2>1, <2>3, Unused, RaiseQuiet
  <2>. QED
    BY <1>10, <2>2, <2>3 DEF SystemStream
<1>11. CASE SyncBarrier(r, early)
  <2>1. pc[r] \in InLine
    BY <1>11 DEF SyncBarrier, SendDone, CollectDone
  <2>2. \E where \in {"out:failedBarrier", "out:syncBarrier"} : Goto(r, where)
    BY <1>11 DEF SyncBarrier
  <2>3. MPIUsed(r) /\ UNCHANGED <<executed, pyMPI_owns_MPI>>
    BY <1>11, EnterUses, MisuseUses DEF SyncBarrier, readVars, jobVars
  <2>. QED
    BY <1>1, <2>1, <2>2, <2>3, GotoQuiet
<1>12. CASE SyncDone(r)
  <2>1. \E where \in {"next", "out:sync"} : Proceed(r, where)
    BY <1>12 DEF SyncDone
  <2>. QED
    BY <1>1, <1>12, <2>1, Unused, ProceedQuiet DEF SyncDone
<1>13. CASE SyncFails(r)
  BY <1>1, <1>13, Unused, GotoQuiet, RaiseQuiet DEF SyncFails, jobVars
<1>. QED
  BY <1>2, <1>3, <1>4, <1>5, <1>6, <1>7, <1>8, <1>9, <1>10, <1>11, <1>12, <1>13 DEF Output

LEMMA CommandQuiet ==
    ASSUME NEW r \in Ranks,
           \/ UserRaises(r) \/ MakeComm(r) \/ CommMade(r) \/ CommBound(r) \/ WrapHandle(r)
           \/ SetPersistent(r) \/ Delete(r) \/ FreeComm(r)
    PROVE  Quiet(r)
<1>. USE DEF Early, InLine
<1>1. CASE UserRaises(r)
  BY <1>1, Unused, ProceedQuiet, RaiseQuiet DEF UserRaises
<1>2. CASE MakeComm(r)
  <2>1. pc[r] = "run" /\ UNCHANGED lifeVars
    BY <1>2 DEF MakeComm
  <2>2. CASE \E name, o : Rebind(r, name, o) /\ Proceed(r, "next")
    BY <2>1, <2>2, RebindUses, ProceedQuiet
  <2>3. CASE Raise(r, {}) /\ UNCHANGED mpiVars
    BY <2>1, <2>3, Unused, RaiseQuiet
  <2>4. CASE \E op : Call(r, op, "make")
    BY <2>1, <2>4, CallQuiet
  <2>. QED
    BY <1>2, <2>2, <2>3, <2>4, Zenon DEF MakeComm
<1>3. CASE CommMade(r)
  BY <1>3, CreateUses, GotoQuiet DEF CommMade, readVars, jobVars
<1>4. CASE CommBound(r)
  <2>1. pc[r] = "made" /\ UNCHANGED lifeVars /\ Proceed(r, "next")
    BY <1>4 DEF CommBound
  <2>2. \E name, o : Rebind(r, name, o)
    BY <1>4, Zenon DEF CommBound
  <2>. QED
    BY <2>1, <2>2, RebindUses, ProceedQuiet
<1>5. CASE WrapHandle(r)
  <2>1. pc[r] = "run" /\ UNCHANGED lifeVars
    BY <1>5 DEF WrapHandle
  <2>2. CASE \E name, o : Rebind(r, name, o) /\ Proceed(r, "next")
    BY <2>1, <2>2, RebindUses, ProceedQuiet
  <2>3. CASE Raise(r, {}) /\ UNCHANGED mpiVars
    BY <2>1, <2>3, Unused, RaiseQuiet
  <2>4. CASE \E c : Misuse(r, c) /\ Raise(r, {})
    BY <2>1, <2>4, MisuseUses, RaiseQuiet
  <2>. QED
    BY <1>5, <2>2, <2>3, <2>4, Zenon DEF WrapHandle
<1>6. CASE SetPersistent(r)
  BY <1>6, Unused, ProceedQuiet, RaiseQuiet DEF SetPersistent
<1>7. CASE Delete(r)
  BY <1>7, RebindUses, ProceedQuiet DEF Delete
<1>8. CASE FreeComm(r)
  BY <1>8, Unused, RaiseQuiet, CallQuiet DEF FreeComm
<1>. QED
  BY <1>1, <1>2, <1>3, <1>4, <1>5, <1>6, <1>7, <1>8

LEMMA LeaveQuiet ==
    ASSUME LifeInv, NEW r \in Ranks, Destroy(r) \/ last_wish(r) \/ readline_fini(r)
    PROVE  Quiet(r)
<1>. USE DEF Early, InLine
<1>1. CASE Destroy(r)
  <2>1. MPIUsed(r) /\ pc[r] = "leave"
    BY <1>1, RebindUses DEF Destroy
  <2>2. Goto(r, "leave")
    BY <1>1, <2>1 DEF Goto, Destroy, LifeInv, Types
  <2>. QED
    BY <1>1, <2>1, <2>2, GotoQuiet DEF Destroy, readVars, jobVars
<1>2. CASE last_wish(r)
  BY <1>2, ReleaseUses, ProceedQuiet DEF last_wish
<1>3. CASE readline_fini(r)
  BY <1>3, ReleaseUses, ProceedQuiet DEF readline_fini
<1>. QED
  BY <1>1, <1>2, <1>3

-----------------------------------------------------------------------------
(***************************************************************************)
(* Other steps: it is enough to see what the rank itself comes to.         *)
(***************************************************************************)
\* What a step of r does to the other ranks: it may end the job.
Alone(r) ==
    /\ pyMPI_owns_MPI' = pyMPI_owns_MPI
    /\ \A q \in Ranks \ {r} :
          /\ pc'[q] = pc[q] /\ mpi'[q] \in {mpi[q], "killed"} /\ finalizes'[q] = finalizes[q]
          /\ executed'[q] = executed[q] /\ misused'[q] = misused[q]
          /\ sys_exit_called'[q] = sys_exit_called[q] /\ exits'[q] = exits[q]

LEMMA AloneKeeps ==
    ASSUME LifeInv, NEW r \in Ranks, Alone(r), Types', RankOK(r)'
    PROVE  LifeInv'
<1>1. ASSUME NEW q \in Ranks \ {r} PROVE RankOK(q)'
  BY OthersKept DEF Alone, LifeInv
<1>. QED
  BY <1>1 DEF LifeInv

-----------------------------------------------------------------------------
(***************************************************************************)
(* A rank begins a line.                                                   *)
(***************************************************************************)
LEMMA Longer ==
    ASSUME NEW S, NEW s \in Seq(S), NEW x
    PROVE  /\ Append(s, x) \in Seq(S \cup {x})
           /\ Len(Append(s, x)) = Len(s) + 1
           /\ \A i \in 1..Len(s) : Append(s, x)[i] = s[i]
           /\ Append(s, x) # <<>>
<1>1. s \in Seq(S \cup {x})
  BY SeqMonotonic
<1>. QED
  BY <1>1, AppendProperties

LEMMA RunKeeps ==
    ASSUME LifeInv, NEW r \in Ranks, Alive(r), NEW l, Run(r, l), pc[r] \in Early, MPIUsed(r),
           UNCHANGED <<pyMPI_owns_MPI, lifeVars>>
    PROVE  LifeInv'
<1>1. CASE l = Eof
  BY <1>1, LeavesQuiet, QuietKeeps
<1>2. CASE l # Eof
  <2>1. PICK S : executed \in [Ranks -> Seq(S)]
    BY DEF LifeInv, Types
  <2>2. executed' = [executed EXCEPT ![r] = Append(@, l)] /\ Goto(r, "run")
    BY <1>2 DEF Run, Goto
  <2>. DEFINE T == S \cup {l}
  <2>3. executed' \in [Ranks -> Seq(T)]
    <3>1. executed \in [Ranks -> Seq(T)]
      BY <2>1, SeqMonotonic
    <3>2. Append(executed[r], l) \in Seq(T)
      BY <3>1, Longer, <2>1
    <3>. HIDE DEF T
    <3>. QED
      BY <2>2, <3>1, <3>2
  <2>4. /\ Len(executed'[r]) = Len(executed[r]) + 1 /\ executed'[r] # <<>>
        /\ \A i \in 1..Len(executed[r]) : executed'[r][i] = executed[r][i]
        /\ Len(executed[r]) \in Nat
    BY SMTT(40), <2>1, <2>2, Longer, LenProperties
  <2>5. \A what : Did(r, what) => Did(r, what)'
    BY <2>4 DEF Did
  <2>6. \A q \in Ranks \ {r} : executed'[q] = executed[q]
    BY <2>1, <2>2
  <2>7. pc' \in [Ranks -> Places] /\ pc'[r] = "run" /\ \A q \in Ranks \ {r} : pc'[q] = pc[q]
    BY <2>2 DEF Goto, LifeInv, Types, Places, Early, InLine
  <2>8. UNCHANGED <<finalizes, pyMPI_owns_MPI, sys_exit_called, exits>>
    BY DEF MPIUsed, lifeVars
  <2>9. RankOK(r) /\ mpi[r] \in MPI_States /\ finalizes[r] \in Nat /\ mpi'[r] \in {mpi[r], "killed"}
    BY UsedTypes DEF LifeInv, Types
  <2>10. Types'
    BY <2>3, <2>7, <2>8, UsedTypes DEF LifeInv, Types
  <2>11. Alone(r)
    BY <2>6, <2>7, <2>8, UsedTypes DEF Alone
  <2>12. StateOK(r)'
    BY <2>4, <2>7, <2>8, <2>9 DEF RankOK, StateOK, Early, InLine
  <2>13. OnceOK(r)'
    <3>1. pc[r] \notin Late /\ pc[r] # "start"
      BY DEF Early, InLine, Late
    <3>2. ~Ready(r) => Did(r, "finalize")
      BY <2>9, <3>1 DEF RankOK, StateOK, OnceOK, Ready, Alive, MPI_States
    <3>3. "notReady" \in misused'[r] => "notReady" \in misused[r] \/ ~Ready(r)
      BY UsedTypes
    <3>. QED
      BY <2>5, <2>8, <2>9, <3>1, <3>2, <3>3 DEF RankOK, OnceOK
  <2>14. EndOK(r)'
    BY <2>7 DEF EndOK
  <2>. QED
    BY <2>10, <2>11, <2>12, <2>13, <2>14, AloneKeeps DEF RankOK
<1>. QED
  BY <1>1, <1>2

LEMMA LineKeeps ==
    ASSUME LifeInv, NEW r \in Ranks, Alive(r), NEW early \in BOOLEAN, UNCHANGED lifeVars,
           \/ SizeDone(r, early) \/ LineDone(r, early)
           \/ \E l \in AllLines : FinalizedReadline(r, l) \/ ReadScript(r, l)
    PROVE  LifeInv'
<1>. USE DEF Early, jobVars
<1>1. CASE LineDone(r, early)
  BY <1>1, Unused, RunKeeps DEF LineDone
<1>2. CASE \E l \in AllLines : ReadScript(r, l)
  BY <1>2, Unused, RunKeeps DEF ReadScript
<1>3. ASSUME NEW l \in AllLines, FinalizedReadline(r, l)
      PROVE  LifeInv'
  <2>1. /\ pc[r] = "next" /\ UNCHANGED pyMPI_owns_MPI
        /\ Run(r, l) \/ (Goto(r, "next") /\ UNCHANGED executed)
    BY <1>3 DEF FinalizedReadline
  <2>2. MPIUsed(r)
    <3>1. MisusedSo(r, "notReady") /\ UNCHANGED <<mpi, finalizes>>
      BY <1>3 DEF FinalizedReadline, Finalized, Ready, MisusedSo
    <3>. QED
      BY <3>1 DEF MPIUsed, Ways
  <2>. QED
    BY <2>1, <2>2, RunKeeps, GotoQuiet, QuietKeeps DEF InLine
<1>4. CASE SizeDone(r, early)
  <2>1. pc[r] = "read:size" /\ UNCHANGED pyMPI_owns_MPI
        /\ \/ Run(r, Interrupt) /\ UNCHANGED mpiVars
           \/ Goto(r, "read:line") /\ MPIUsed(r) /\ UNCHANGED executed
    BY <1>4, EnterUses DEF SizeDone
  <2>. QED
    BY <2>1, Unused, RunKeeps, GotoQuiet, QuietKeeps DEF InLine
<1>. QED
  BY <1>1, <1>2, <1>3, <1>4

-----------------------------------------------------------------------------
(***************************************************************************)
(* MPI is started, and finalized.                                          *)
(***************************************************************************)
LEMMA InitializeKeeps ==
    ASSUME LifeInv, NEW r \in Ranks, Alive(r), Initialize(r)
    PROVE  LifeInv'
<1>. USE DEF readVars, jobVars, lifeVars
<1>1. /\ pc[r] = "start" /\ pc' = [pc EXCEPT ![r] = "init"] /\ mpi' = [mpi EXCEPT ![r] = "on"]
      /\ UNCHANGED <<finalizes, misused, executed, sys_exit_called, exits, pyMPI_owns_MPI>>
  BY DEF Initialize, MPI_Init, Goto
<1>2. RankOK(r) /\ mpi[r] = "off" /\ finalizes[r] = 0
  BY <1>1 DEF LifeInv, RankOK, StateOK, Alive
<1>3. Types'
  BY <1>1 DEF LifeInv, Types, MPI_States, Places, Early
<1>4. Alone(r)
  BY <1>1 DEF Alone, LifeInv, Types
<1>5. pc'[r] = "init" /\ mpi'[r] = "on"
  BY <1>1 DEF LifeInv, Types
<1>6. StateOK(r)' /\ EndOK(r)'
  BY <1>1, <1>2, <1>5 DEF StateOK, EndOK, InLine
<1>7. OnceOK(r)'
  BY <1>1, <1>2 DEF RankOK, OnceOK, Did
<1>. QED
  BY <1>3, <1>4, <1>6, <1>7, AloneKeeps DEF RankOK

\* A rank that asks MPI to finalize: the call is in order if MPI is on.
LEMMA FinalizeCalled ==
    ASSUME LifeInv, NEW r \in Ranks, Alive(r), MPI_Finalize(r)
    PROVE  /\ mpi' \in [Ranks -> MPI_States]
           /\ \A q \in Ranks \ {r} : mpi'[q] \in {mpi[q], "killed"}
           /\ IF Ready(r) THEN mpi'[r] = "finalizing" ELSE mpi'[r] \in {mpi[r], "killed"}
           /\ finalizes' \in [Ranks -> Nat] /\ finalizes'[r] = finalizes[r] + 1
           /\ \A q \in Ranks \ {r} : finalizes'[q] = finalizes[q]
           /\ misused' \in [Ranks -> SUBSET Ways]
           /\ \A q \in Ranks \ {r} : misused'[q] = misused[q]
           /\ "notReady" \in misused'[r] => "notReady" \in misused[r] \/ ~Ready(r)
<1>1. /\ mpi \in [Ranks -> MPI_States] /\ finalizes \in [Ranks -> Nat]
      /\ misused \in [Ranks -> SUBSET Ways]
  BY DEF LifeInv, Types
<1>2. finalizes' = [finalizes EXCEPT ![r] = @ + 1]
  BY DEF MPI_Finalize
<1>3. finalizes' \in [Ranks -> Nat] /\ finalizes'[r] = finalizes[r] + 1
      /\ \A q \in Ranks \ {r} : finalizes'[q] = finalizes[q]
  BY <1>1, <1>2
<1>4. CASE Ready(r)
  BY <1>1, <1>3, <1>4 DEF MPI_Finalize, MPI_States
<1>5. CASE ~Ready(r)
  <2>1. misused' = [misused EXCEPT ![r] = @ \cup {"notReady"}] /\ (mpi' = mpi \/ Abort)
    BY <1>5 DEF MPI_Finalize
  <2>2. /\ misused' \in [Ranks -> SUBSET Ways]
        /\ \A q \in Ranks \ {r} : misused'[q] = misused[q]
    BY <1>1, <2>1 DEF Ways
  <2>. QED
    BY <1>1, <1>3, <1>5, <2>1, <2>2 DEF Abort, MPI_States
<1>. QED
  BY <1>4, <1>5

\* The rank that goes somewhere with what it has executed, and with what it
\* knows of sys.exit.
LEMMA ProceedTypes ==
    ASSUME LifeInv, NEW r \in Ranks, NEW where \in Places, Proceed(r, where)
    PROVE  /\ pc' \in [Ranks -> Places] /\ pc'[r] = where
           /\ \A q \in Ranks \ {r} : pc'[q] = pc[q]
           /\ UNCHANGED <<executed, pyMPI_owns_MPI>>
           /\ \A what : Did(r, what)' <=> Did(r, what)
<1>1. UNCHANGED <<executed, pyMPI_owns_MPI>>
  BY DEF Proceed, readVars, jobVars
<1>2. \A what : Did(r, what)' <=> Did(r, what)
  BY <1>1 DEF Did
<1>. QED
  BY <1>1, <1>2 DEF LifeInv, Types, Proceed, Goto

LEMMA LineIsDone ==
    ASSUME LifeInv, NEW r \in Ranks, pc[r] = "run"
    PROVE  Did(r, Line(r).do)
<1>1. PICK S : executed[r] \in Seq(S)
  BY DEF LifeInv, Types
<1>2. executed[r] # <<>>
  BY DEF LifeInv, RankOK, StateOK, InLine
<1>3. Len(executed[r]) \in 1..Len(executed[r]) /\ Line(r) = executed[r][Len(executed[r])]
  BY <1>1, <1>2, EmptySeq, LenProperties DEF Line, Last
<1>. QED
  BY <1>3 DEF Did

LEMMA FinalizeKeeps ==
    ASSUME LifeInv, NEW r \in Ranks, Alive(r), Finalize(r)
    PROVE  LifeInv'
<1>1. pc[r] = "run" /\ Did(r, "finalize") /\ UNCHANGED lifeVars
  BY LineIsDone DEF Finalize
<1>2. CASE Ready(r)
  <2>1. MPI_Finalize(r) /\ Proceed(r, "finalizing") /\ "finalizing" \in Places
    BY <1>2 DEF Finalize, Places, Early, InLine
  <2>2. RankOK(r) /\ finalizes[r] = 0 /\ executed[r] # <<>>
    BY <1>1, <1>2 DEF LifeInv, RankOK, StateOK, Ready, InLine
  <2>3. Types' /\ Alone(r)
    BY <1>1, <2>1, FinalizeCalled, ProceedTypes DEF LifeInv, Types, Alone, lifeVars
  <2>4. pc'[r] = "finalizing" /\ mpi'[r] = "finalizing" /\ finalizes'[r] = 1 /\ executed' = executed
        /\ Did(r, "finalize")'
    BY <1>1, <1>2, <2>1, <2>2, FinalizeCalled, ProceedTypes
  <2>5. RankOK(r)'
    BY <2>2, <2>4 DEF RankOK, StateOK, OnceOK, EndOK
  <2>. QED
    BY <2>3, <2>5, AloneKeeps
<1>3. CASE ~Ready(r)
  BY <1>1, <1>3, Unused, RaiseQuiet, QuietKeeps DEF Finalize, Early, InLine
<1>. QED
  BY <1>2, <1>3

\* The call returns, and the rank goes on with its program or on its way out.
LEMMA ReturnKeeps ==
    ASSUME LifeInv, NEW r \in Ranks, NEW early \in BOOLEAN,
           FinalizeReturns(r, early), UNCHANGED lifeVars,
           \/ pc[r] = "finalizing" /\ Proceed(r, "next")
           \/ pc[r] = "fini:finalizing" /\ Proceed(r, "end")
           \/ pc[r] = "end:finalizing" /\ Proceed(r, "gone")
    PROVE  LifeInv'
<1>. DEFINE to == CASE pc[r] = "finalizing" -> "next" [] pc[r] = "fini:finalizing" -> "end"
                    [] pc[r] = "end:finalizing" -> "gone"
<1>1. to \in Places /\ Proceed(r, to)
  BY DEF Places, Early, Late
<1>2. /\ UNCHANGED <<finalizes, misused>>
      /\ mpi' \in [Ranks -> MPI_States] /\ \A q \in Ranks \ {r} : mpi'[q] = mpi[q]
      /\ mpi'[r] = IF mpi[r] = "finalizing" THEN "finalized" ELSE mpi[r]
  BY DEF FinalizeReturns, LifeInv, Types, MPI_States
<1>3. /\ pc' \in [Ranks -> Places] /\ pc'[r] = to /\ \A q \in Ranks \ {r} : pc'[q] = pc[q]
      /\ UNCHANGED <<executed, pyMPI_owns_MPI>>
      /\ \A what : Did(r, what)' <=> Did(r, what)
  <2>. HIDE DEF to
  <2>. QED
    BY <1>1, ProceedTypes
<1>4. Types' /\ Alone(r)
  BY <1>2, <1>3 DEF LifeInv, Types, Alone, lifeVars
<1>5. RankOK(r) /\ UNCHANGED <<sys_exit_called, exits>>
  BY DEF LifeInv, lifeVars
<1>6. StateOK(r)'
  BY <1>2, <1>3, <1>5 DEF RankOK, StateOK, InLine
<1>7. OnceOK(r)'
  BY <1>2, <1>3, <1>5 DEF RankOK, OnceOK, Late
<1>8. EndOK(r)'
  BY <1>2, <1>3, <1>5 DEF RankOK, EndOK, Late
<1>. QED
  BY <1>4, <1>6, <1>7, <1>8, AloneKeeps DEF RankOK

-----------------------------------------------------------------------------
(***************************************************************************)
(* Ways out of the program.                                                *)
(***************************************************************************)
LEMMA SystemExitKeeps ==
    ASSUME LifeInv, NEW r \in Ranks, Alive(r), SystemExit(r)
    PROVE  LifeInv'
<1>1. PICK where \in {"next", "leave"} : Proceed(r, where)
  BY DEF SystemExit
<1>2. pc[r] = "run" /\ where \in Places /\ UNCHANGED <<mpi, finalizes, misused>>
  BY DEF SystemExit, mpiVars, Places, Early
<1>3. /\ sys_exit_called' \in [Ranks -> BOOLEAN] /\ exits' \in [Ranks -> BOOLEAN]
      /\ \A q \in Ranks \ {r} : sys_exit_called'[q] = sys_exit_called[q] /\ exits'[q] = exits[q]
      /\ sys_exit_called[r] => sys_exit_called'[r]
  <2>1. sys_exit_called \in [Ranks -> BOOLEAN] /\ exits \in [Ranks -> BOOLEAN]
    BY DEF LifeInv, Types
  <2>2. sys_exit_called' = [sys_exit_called EXCEPT ![r] = @ \/ Line(r).do # "raiseSystemExit"]
    BY DEF SystemExit
  <2>3. exits' = exits \/ exits' = [exits EXCEPT ![r] = TRUE]
    BY DEF SystemExit
  <2>. QED
    BY <2>1, <2>2, <2>3
<1>4. /\ pc' \in [Ranks -> Places] /\ pc'[r] = where /\ \A q \in Ranks \ {r} : pc'[q] = pc[q]
      /\ UNCHANGED <<executed, pyMPI_owns_MPI>>
      /\ \A what : Did(r, what)' <=> Did(r, what)
  BY <1>1, <1>2, ProceedTypes
<1>5. Types' /\ Alone(r)
  BY <1>2, <1>3, <1>4 DEF LifeInv, Types, Alone
<1>6. RankOK(r)
  BY DEF LifeInv
<1>7. StateOK(r)' /\ EndOK(r)'
  BY <1>2, <1>4, <1>6 DEF RankOK, StateOK, EndOK, InLine
<1>8. OnceOK(r)'
  BY <1>2, <1>3, <1>4, <1>6 DEF RankOK, OnceOK, Late
<1>. QED
  BY <1>5, <1>7, <1>8, AloneKeeps DEF RankOK

\* A step that ends the process of r, which is killed or has crashed.
LEMMA GoneKeeps ==
    ASSUME LifeInv, NEW r \in Ranks, Proceed(r, "gone"), mpi' = mpi \/ Abort,
           mpi' = mpi => Did(r, "crash"), pc[r] = "run",
           UNCHANGED <<finalizes, misused, lifeVars>>
    PROVE  LifeInv'
<1>1. /\ pc' \in [Ranks -> Places] /\ pc'[r] = "gone" /\ \A q \in Ranks \ {r} : pc'[q] = pc[q]
      /\ UNCHANGED <<executed, pyMPI_owns_MPI>>
      /\ \A what : Did(r, what)' <=> Did(r, what)
  BY ProceedTypes DEF Places, Late
<1>2. mpi' \in [Ranks -> MPI_States] /\ \A q \in Ranks : mpi'[q] \in {mpi[q], "killed"}
  BY DEF Abort, LifeInv, Types, MPI_States
<1>3. Types' /\ Alone(r)
  BY <1>1, <1>2 DEF LifeInv, Types, Alone, lifeVars
<1>4. RankOK(r)
  BY DEF LifeInv
<1>5. StateOK(r)'
  BY <1>1, <1>2, <1>4 DEF RankOK, StateOK, InLine
<1>6. OnceOK(r)'
  BY <1>1, <1>4 DEF RankOK, OnceOK, Late, lifeVars
<1>7. EndOK(r)'
  <2>1. Did(r, "crash") \/ mpi'[r] = "killed"
    BY DEF Abort
  <2>. QED
    BY <1>1, <2>1 DEF EndOK, Alive
<1>. QED
  BY <1>3, <1>5, <1>6, <1>7, AloneKeeps DEF RankOK

LEMMA KilledKeeps ==
    ASSUME LifeInv, NEW r \in Ranks, Alive(r), AbortJob(r) \/ fatal_signal(r)
    PROVE  LifeInv'
<1>1. CASE AbortJob(r)
  <2>1. CASE Ready(r)
    <3>1. mpi' # mpi
      BY <1>1, <2>1 DEF AbortJob, Abort, Ready
    <3>. QED
      BY <1>1, <2>1, <3>1, GoneKeeps DEF AbortJob
  <2>2. CASE ~Ready(r)
    BY <1>1, <2>2, Unused, RaiseQuiet, QuietKeeps DEF AbortJob, Early, InLine
  <2>. QED
    BY <2>1, <2>2
<1>2. CASE fatal_signal(r)
  <2>1. pc[r] = "run" /\ Did(r, "crash")
    BY <1>2, LineIsDone DEF fatal_signal
  <2>. QED
    BY <1>2, <2>1, GoneKeeps DEF fatal_signal
<1>. QED
  BY <1>1, <1>2

\* python has destroyed what it had: with sys.exit, pyMPI finalizes MPI.
LEMMA SysmodsKeeps ==
    ASSUME LifeInv, NEW r \in Ranks, Alive(r), sysmods_fini(r)
    PROVE  LifeInv'
<1>1. pc[r] = "fini:sysmods" /\ UNCHANGED <<sys_exit_called, exits>>
  BY DEF sysmods_fini, lifeVars
<1>2. RankOK(r) /\ finalizes[r] \in Nat /\ mpi[r] \in MPI_States
  BY DEF LifeInv, Types
<1>3. ~Ready(r) => Did(r, "finalize")
  BY <1>1, <1>2 DEF RankOK, StateOK, OnceOK, Ready, Alive, MPI_States, Late
<1>4. CASE sys_exit_called[r] /\ pyMPI_owns_MPI
  <2>1. MPI_Finalize(r) /\ Proceed(r, "fini:finalizing") /\ "fini:finalizing" \in Places
    BY <1>4 DEF sysmods_fini, Places, Late
  <2>2. Types' /\ Alone(r)
    BY <1>1, <2>1, FinalizeCalled, ProceedTypes DEF LifeInv, Types, Alone
  <2>3. /\ pc'[r] = "fini:finalizing" /\ executed' = executed /\ finalizes'[r] = finalizes[r] + 1
        /\ IF Ready(r) THEN mpi'[r] = "finalizing" ELSE mpi'[r] \in {mpi[r], "killed"}
        /\ "notReady" \in misused'[r] => "notReady" \in misused[r] \/ ~Ready(r)
        /\ pyMPI_owns_MPI' = pyMPI_owns_MPI /\ (Did(r, "finalize")' <=> Did(r, "finalize"))
    BY <2>1, FinalizeCalled, ProceedTypes
  <2>4. StateOK(r)'
    BY <1>1, <1>2, <2>3 DEF RankOK, StateOK, InLine, Ready
  <2>5. OnceOK(r)'
    BY <1>1, <1>2, <1>3, <1>4, <2>3 DEF RankOK, OnceOK, Late
  <2>6. EndOK(r)'
    BY <1>2, <2>3 DEF EndOK
  <2>. QED
    BY <2>2, <2>4, <2>5, <2>6, AloneKeeps DEF RankOK
<1>5. CASE ~(sys_exit_called[r] /\ pyMPI_owns_MPI)
  <2>1. UNCHANGED mpiVars /\ Proceed(r, "end") /\ "end" \in Places
    BY <1>5 DEF sysmods_fini, Places, Late
  <2>2. /\ pc' \in [Ranks -> Places] /\ pc'[r] = "end" /\ \A q \in Ranks \ {r} : pc'[q] = pc[q]
        /\ UNCHANGED <<executed, pyMPI_owns_MPI>>
        /\ \A what : Did(r, what)' <=> Did(r, what)
    BY <2>1, ProceedTypes
  <2>3. Types' /\ Alone(r)
    BY <1>1, <2>1, <2>2 DEF LifeInv, Types, Alone, mpiVars
  <2>4. RankOK(r)'
    BY <1>1, <1>2, <1>5, <2>1, <2>2 DEF RankOK, StateOK, OnceOK, EndOK, Late, InLine, mpiVars
  <2>. QED
    BY <2>3, <2>4, AloneKeeps
<1>. QED
  BY <1>4, <1>5

\* What shutdown and main do at last: they finalize MPI if nobody has.
LEMMA AtEndKeeps ==
    ASSUME LifeInv, NEW r \in Ranks, Alive(r), AtEnd(r)
    PROVE  LifeInv'
<1>1. pc[r] = "end" /\ UNCHANGED <<sys_exit_called, exits>>
  BY DEF AtEnd, lifeVars
<1>2. RankOK(r) /\ finalizes[r] \in Nat /\ mpi[r] \in MPI_States
  BY DEF LifeInv, Types
<1>3. Ready(r) \/ Finalized(r)
  BY <1>1, <1>2 DEF RankOK, StateOK, Ready, Finalized, Alive, MPI_States
<1>4. CASE ~Finalized(r) /\ (~pyMPI_owns_MPI \/ ~exits[r])
  <2>1. MPI_Finalize(r) /\ Proceed(r, "end:finalizing") /\ "end:finalizing" \in Places
    BY <1>4 DEF AtEnd, Places, Late
  <2>2. finalizes[r] = 0 /\ Ready(r)
    BY <1>2, <1>3, <1>4 DEF RankOK, StateOK, Ready
  <2>3. Types' /\ Alone(r)
    BY <1>1, <2>1, FinalizeCalled, ProceedTypes DEF LifeInv, Types, Alone
  <2>4. /\ pc'[r] = "end:finalizing" /\ executed' = executed /\ finalizes'[r] = 1
        /\ mpi'[r] = "finalizing" /\ ("notReady" \in misused'[r] => "notReady" \in misused[r])
        /\ (Did(r, "finalize")' <=> Did(r, "finalize"))
    BY <2>1, <2>2, FinalizeCalled, ProceedTypes
  <2>5. RankOK(r)'
    BY <1>1, <1>2, <2>4 DEF RankOK, StateOK, OnceOK, EndOK, Late, InLine
  <2>. QED
    BY <2>3, <2>5, AloneKeeps
<1>5. CASE ~(~Finalized(r) /\ (~pyMPI_owns_MPI \/ ~exits[r]))
  <2>1. UNCHANGED mpiVars /\ Proceed(r, "gone") /\ "gone" \in Places
    BY <1>5 DEF AtEnd, Places, Late
  <2>2. /\ pc' \in [Ranks -> Places] /\ pc'[r] = "gone" /\ \A q \in Ranks \ {r} : pc'[q] = pc[q]
        /\ UNCHANGED <<executed, pyMPI_owns_MPI>>
        /\ \A what : Did(r, what)' <=> Did(r, what)
    BY <2>1, ProceedTypes
  <2>3. Types' /\ Alone(r)
    BY <1>1, <2>1, <2>2 DEF LifeInv, Types, Alone, mpiVars
  <2>4. StateOK(r)' /\ OnceOK(r)'
    BY <1>1, <1>2, <2>1, <2>2 DEF RankOK, StateOK, OnceOK, Late, InLine, mpiVars
  <2>5. EndOK(r)'
    <3>1. finalizes[r] = 0 => pyMPI_owns_MPI /\ exits[r] /\ ~sys_exit_called[r]
      BY <1>1, <1>2, <1>5 DEF RankOK, StateOK, EndOK, Finalized
    <3>. QED
      BY <1>1, <2>1, <2>2, <3>1 DEF EndOK, mpiVars
  <2>. QED
    BY <2>3, <2>4, <2>5, AloneKeeps DEF RankOK
<1>. QED
  BY <1>4, <1>5

-----------------------------------------------------------------------------
LEMMA StepKeeps ==
    ASSUME LifeInv, NEW r \in Ranks, NEW early \in BOOLEAN, Step(r, early)
    PROVE  LifeInv'
<1>. Alive(r)
  BY DEF Step
<1>1. CASE Boot(r)
  BY <1>1, InitializeKeeps, BootQuiet, QuietKeeps DEF Boot
<1>2. CASE Read(r, early)
  <2>1. UNCHANGED lifeVars
    BY <1>2 DEF Read
  <2>2. CASE \/ EnterReadline(r) \/ FeedBadArgument(r) \/ AwaitSize(r) \/ SlaveNoMemory(r)
             \/ \E l \in AllLines : ReadLine(r, l)
    BY <2>1, <2>2, ReadQuiet, QuietKeeps
  <2>3. CASE \/ SizeDone(r, early) \/ LineDone(r, early)
             \/ \E l \in AllLines : FinalizedReadline(r, l) \/ ReadScript(r, l)
    BY <2>1, <2>3, LineKeeps
  <2>. QED
    BY <1>2, <2>2, <2>3 DEF Read
<1>3. CASE Output(r, early)
  BY <1>3, OutputQuiet, QuietKeeps
<1>4. CASE Command(r, early)
  <2>1. CASE FinalizeDone(r, early)
    BY <2>1, ReturnKeeps DEF FinalizeDone
  <2>. QED
    BY <1>4, <2>1, CommandQuiet, QuietKeeps, FinalizeKeeps, SystemExitKeeps, KilledKeeps DEF Command
<1>5. CASE Leave(r, early)
  <2>1. CASE EndFinalized(r, early)
    BY <2>1, ReturnKeeps DEF EndFinalized
  <2>. QED
    BY <1>5, <2>1, LeaveQuiet, QuietKeeps, SysmodsKeeps, AtEndKeeps DEF Leave
<1>. QED
  BY <1>1, <1>2, <1>3, <1>4, <1>5 DEF Step

LEMMA LifeInitially == Init => LifeInv
<1>. SUFFICES ASSUME Init PROVE LifeInv
  OBVIOUS
<1>1. /\ pc = [r \in Ranks |-> "start"] /\ mpi = [r \in Ranks |-> "off"]
      /\ finalizes = [r \in Ranks |-> 0] /\ misused = [r \in Ranks |-> {}]
      /\ sys_exit_called = [r \in Ranks |-> FALSE] /\ exits = [r \in Ranks |-> FALSE]
      /\ executed = [r \in Ranks |-> <<>>]
  BY DEF Init, MPIInit, ReadInit
<1>2. executed \in [Ranks -> Seq({})]
  BY <1>1
<1>3. Types
  BY <1>1, <1>2 DEF Types, Places, MPI_States
<1>. QED
  BY <1>1, <1>3 DEF LifeInv, RankOK, StateOK, OnceOK, EndOK, Late, InLine

LEMMA LifeAlways == Spec => []LifeInv
<1>1. LifeInv /\ [Next]_vars => LifeInv'
  <2>. SUFFICES ASSUME LifeInv, [Next]_vars PROVE LifeInv'
    OBVIOUS
  <2>1. CASE Next
    BY <2>1, StepKeeps DEF Next
  <2>2. CASE UNCHANGED vars
    BY <2>2 DEF vars, mpiVars, readVars, jobVars, lifeVars, LifeInv, Types, RankOK, StateOK,
                OnceOK, EndOK, Did, Alive
  <2>. QED
    BY <2>1, <2>2
<1>. QED
  BY <1>1, LifeInitially, PTL DEF Spec

\* The program finalizes MPI before it calls sys.exit, or raises SystemExit
\* without it.
EndsItself(r) ==
    /\ pyMPI_owns_MPI
    /\ \/ Did(r, "finalize") /\ sys_exit_called[r]
       \/ exits[r] /\ ~sys_exit_called[r]

(***************************************************************************)
(* Every process that ends has finalized MPI, once, as long as no program  *)
(* ends itself (pyMPI_sysmods.c, pyMPI_main.c and shutdown in pyMPI_init.c *)
(* take turns at it).                                                      *)
(***************************************************************************)
THEOREM AlwaysFinalizedAtEnd == Spec => []((\A r \in Ranks : ~EndsItself(r)) => FinalizedAtEnd)
<1>1. LifeInv => ((\A r \in Ranks : ~EndsItself(r)) => FinalizedAtEnd)
  BY DEF LifeInv, RankOK, OnceOK, EndOK, FinalizedAtEnd, EndsItself, Types
<1>. QED
  BY <1>1, LifeAlways, PTL

(***************************************************************************)
(* pyMPI makes no call of MPI before MPI_Init or after MPI_Finalize, the   *)
(* destructors of its communicators included, unless the program itself    *)
(* has called mpi.finalize: the first half of MisuseIsTheProgram.          *)
(***************************************************************************)
THEOREM AlwaysUsedWhenReady == Spec => []UsedWhenReady
<1>1. LifeInv => UsedWhenReady
  BY DEF LifeInv, RankOK, OnceOK, UsedWhenReady
<1>. QED
  BY <1>1, LifeAlways, PTL

\* The communicators that pyMPI makes for itself, by dup of MPI_COMM_WORLD
WorldCopy == <<1>>
InputCopy == <<2>>
AllRanks  == [i \in 1..N |-> i - 1]

\* What holds of the communicators of the job
CommsOK ==
    /\ DOMAIN group \subseteq Seq(Nat) \ {COMM_NULL} /\ COMM_WORLD \in DOMAIN group
    /\ DOMAIN calls = DOMAIN group
    /\ \E T : \A c \in DOMAIN group : calls[c] \in [Ranks -> Seq(T)]
    /\ \A c \in DOMAIN group : group[c] \in Seq(Ranks) /\ IsInjective(group[c])
    /\ \A c \in DOMAIN group \cap {COMM_WORLD, WorldCopy, InputCopy} : group[c] = AllRanks
    /\ freed \in [Ranks -> SUBSET DOMAIN group]

\* A communicator stays what it is, and so does what q has called on it.
Grown == DOMAIN group \subseteq DOMAIN group' /\ \A c \in DOMAIN group : group'[c] = group[c]
Kept(q) == \A c \in DOMAIN group : calls'[c][q] = calls[c][q]

\* The calls on the communicator of the input
Log(r) == IF InputCopy \in DOMAIN group THEN calls[InputCopy][r] ELSE <<>>

LEMMA Names4 ==
    /\ COMM_WORLD \in Seq(Nat) /\ COMM_NULL \in Seq(Nat) /\ WorldCopy \in Seq(Nat) /\ InputCopy \in Seq(Nat)
    /\ COMM_WORLD # COMM_NULL /\ COMM_WORLD # WorldCopy /\ COMM_WORLD # InputCopy
    /\ COMM_NULL # WorldCopy /\ COMM_NULL # InputCopy /\ WorldCopy # InputCopy
    /\ Len(COMM_WORLD) = 0 /\ Len(COMM_NULL) = 1 /\ Len(WorldCopy) = 1 /\ Len(InputCopy) = 1
BY DEF COMM_WORLD, COMM_NULL, WorldCopy, InputCopy

\* The copies of another communicator are none of these.
LEMMA NewName ==
    ASSUME NEW c \in Seq(Nat), NEW k \in Nat
    PROVE  /\ Append(c, k) \in Seq(Nat)
           /\ c # COMM_WORLD => Append(c, k) \notin {COMM_WORLD, COMM_NULL, WorldCopy, InputCopy}
           /\ Append(COMM_WORLD, 1) = WorldCopy /\ Append(COMM_WORLD, 2) = InputCopy
<1>1. Append(c, k) \in Seq(Nat) /\ Len(Append(c, k)) = Len(c) + 1
  BY AppendProperties
<1>2. c # COMM_WORLD => Len(c) > 0
  BY DEF COMM_WORLD
<1>3. Append(COMM_WORLD, 1) = WorldCopy /\ Append(COMM_WORLD, 2) = InputCopy
  BY DEF COMM_WORLD, WorldCopy, InputCopy
<1>4. c # COMM_WORLD => Len(Append(c, k)) \notin {0, 1}
  BY ONLY <1>1, <1>2, c \in Seq(Nat)
<1>5. c # COMM_WORLD => Append(c, k) \notin {COMM_WORLD, COMM_NULL, WorldCopy, InputCopy}
  <2>1. \A x : x \in {COMM_WORLD, COMM_NULL, WorldCopy, InputCopy} => Len(x) \in {0, 1}
    BY ONLY Names4
  <2>. QED
    BY Zenon, <1>4, <2>1
<1>. QED
  BY <1>1, <1>3, <1>5

LEMMA Everybody == AllRanks \in Seq(Ranks) /\ IsInjective(AllRanks) /\ ToSet(AllRanks) = Ranks /\ 0 \in Ranks
                   /\ AllRanks[1] = 0
<1>1. N \in Nat /\ N > 0
  BY NAssumption
<1>2. AllRanks \in Seq(Ranks) /\ DOMAIN AllRanks = 1..N
  BY <1>1 DEF AllRanks, Ranks
<1>3. IsInjective(AllRanks)
  BY <1>1 DEF AllRanks, IsInjective
<1>4. ToSet(AllRanks) = Ranks
  <2>1. ASSUME NEW r \in Ranks PROVE r + 1 \in 1..N /\ r = AllRanks[r + 1]
    BY <1>1 DEF AllRanks, Ranks
  <2>2. ASSUME NEW i \in 1..N PROVE AllRanks[i] \in Ranks
    BY <1>1 DEF AllRanks, Ranks
  <2>. QED
    BY <1>2, <2>1, <2>2 DEF ToSet
<1>. QED
  BY <1>1, <1>2, <1>3, <1>4 DEF Ranks, AllRanks

\* What a collective call comes to
EnteredBy(r, h, op, data) ==
    /\ group' = group
    /\ h \in DOMAIN group /\ Ready(r) /\ h \notin freed[r] /\ r \in Members(h)
    /\ \A q \in Ranks, c \in DOMAIN group : q # r \/ c # h => calls'[c][q] = calls[c][q]
    /\ Len(calls[h][r]) \in Nat /\ Len(calls'[h][r]) = Len(calls[h][r]) + 1
    /\ calls'[h][r][Len(calls[h][r]) + 1] = [op |-> op, data |-> data]
    /\ \A k \in 1..Len(calls[h][r]) : calls'[h][r][k] = calls[h][r][k]
    /\ \A q \in Ranks \ {r} : freed'[q] = freed[q]
    /\ freed'[r] = IF op = "free" THEN freed[r] \cup {h} ELSE freed[r]

LEMMA Entered ==
    ASSUME CommsOK, NEW r \in Ranks, NEW h, NEW op, NEW data, Enter(r, h, op, data)
    PROVE  CommsOK' /\ Grown /\ EnteredBy(r, h, op, data)
<1>1. /\ h \in DOMAIN group /\ Ready(r) /\ h \notin freed[r] /\ r \in Members(h)
      /\ group' = group
      /\ calls' = [calls EXCEPT ![h][r] = Append(@, [op |-> op, data |-> data])]
      /\ freed' = IF op = "free" THEN [freed EXCEPT ![r] = @ \cup {h}] ELSE freed
  BY DEF Enter, Usable
<1>2. PICK T : \A c \in DOMAIN group : calls[c] \in [Ranks -> Seq(T)]
  BY DEF CommsOK
<1>. DEFINE e == [op |-> op, data |-> data]
            U == T \cup {e}
            s == calls[h][r]
<1>3. DOMAIN calls = DOMAIN group /\ s \in Seq(T)
  BY <1>1, <1>2 DEF CommsOK
<1>. HIDE DEF e
<1>4. /\ Append(s, e) \in Seq(U) /\ Len(s) \in Nat /\ Len(Append(s, e)) = Len(s) + 1
      /\ Append(s, e)[Len(s) + 1] = e
      /\ \A k \in 1..Len(s) : Append(s, e)[k] = s[k]
  BY <1>3, Longer, AppendProperties, LenProperties
<1>5. \A c \in DOMAIN group : calls[c] \in [Ranks -> Seq(U)]
  BY <1>2, SeqMonotonic
<1>6. /\ DOMAIN calls' = DOMAIN group
      /\ calls' = [calls EXCEPT ![h][r] = Append(s, e)]
  BY <1>1, <1>3 DEF e
<1>. HIDE DEF U, s
<1>7. /\ calls'[h] = [calls[h] EXCEPT ![r] = Append(s, e)]
      /\ \A c \in DOMAIN group : c # h => calls'[c] = calls[c]
  BY <1>1, <1>3, <1>6
<1>8. calls'[h] \in [Ranks -> Seq(U)] /\ calls'[h][r] = Append(s, e)
      /\ \A q \in Ranks : q # r => calls'[h][q] = calls[h][q]
  <2>1. calls[h] \in [Ranks -> Seq(U)] /\ Append(s, e) \in Seq(U)
    BY Zenon, <1>1, <1>4, <1>5
  <2>. QED
    BY ONLY <1>7, <2>1, r \in Ranks
<1>9. \A c \in DOMAIN group : calls'[c] \in [Ranks -> Seq(U)]
  BY <1>5, <1>7, <1>8
<1>10. freed' \in [Ranks -> SUBSET DOMAIN group]
       /\ \A q \in Ranks \ {r} : freed'[q] = freed[q]
       /\ freed'[r] = IF op = "free" THEN freed[r] \cup {h} ELSE freed[r]
  BY <1>1 DEF CommsOK
<1>11. CommsOK'
  BY <1>1, <1>6, <1>9, <1>10 DEF CommsOK
<1>. QED
  BY <1>1, <1>4, <1>7, <1>8, <1>10, <1>11 DEF s, e, Grown, EnteredBy

LEMMA Created ==
    ASSUME CommsOK, NEW new \in Seq(Nat) \ {COMM_NULL}, NEW ranks \in Seq(Ranks), Create(new, ranks),
           IsInjective(ranks), new \in {COMM_WORLD, WorldCopy, InputCopy} => ranks = AllRanks
    PROVE  /\ CommsOK' /\ Grown
           /\ DOMAIN group' = DOMAIN group \cup {new}
           /\ \A c \in DOMAIN group : calls'[c] = calls[c]
           /\ freed' = freed
           /\ \A q \in Ranks : new \notin DOMAIN group => calls'[new][q] = <<>>
<1>. DEFINE known == DOMAIN group \cup {new}
<1>1. /\ group' = [x \in known |-> IF x \in DOMAIN group THEN group[x] ELSE ranks]
      /\ calls' = [x \in known |-> IF x \in DOMAIN group THEN calls[x] ELSE [q \in Ranks |-> <<>>]]
      /\ freed' = freed
  BY DEF Create
<1>2. PICK T : \A c \in DOMAIN group : calls[c] \in [Ranks -> Seq(T)]
  BY DEF CommsOK
<1>3. [q \in Ranks |-> <<>>] \in [Ranks -> Seq(T)]
  OBVIOUS
<1>. HIDE DEF known
<1>4. \A c \in known : calls'[c] \in [Ranks -> Seq(T)]
  BY <1>1, <1>2, <1>3 DEF known
<1>5. DOMAIN group' = known /\ DOMAIN calls' = known
  BY <1>1
<1>6. \A c \in DOMAIN group : c \in known /\ group'[c] = group[c] /\ calls'[c] = calls[c]
  BY <1>1 DEF known
<1>7. new \notin DOMAIN group => group'[new] = ranks
  BY <1>1 DEF known
<1>8. \A c \in known : c \in DOMAIN group \/ (c = new /\ new \notin DOMAIN group)
  BY DEF known
<1>9. \A c \in known : group'[c] \in Seq(Ranks) /\ IsInjective(group'[c])
  BY <1>6, <1>7, <1>8 DEF CommsOK
<1>10. \A c \in known \cap {COMM_WORLD, WorldCopy, InputCopy} : group'[c] = AllRanks
  BY <1>6, <1>7, <1>8 DEF CommsOK
<1>11. freed' \in [Ranks -> SUBSET known]
  BY <1>1 DEF CommsOK, known
<1>12. known \subseteq Seq(Nat) \ {COMM_NULL} /\ COMM_WORLD \in known
  BY DEF CommsOK, known
<1>13. CommsOK'
  BY ONLY <1>4, <1>5, <1>9, <1>10, <1>11, <1>12 DEF CommsOK, AllRanks, COMM_WORLD, COMM_NULL, WorldCopy, InputCopy, Ranks
<1>14. \A q \in Ranks : new \notin DOMAIN group => calls'[new][q] = <<>>
  BY <1>1 DEF known
<1>. QED
  BY <1>1, <1>5, <1>6, <1>13, <1>14 DEF Grown, known

Booting == {"start", "init", "init:dup", "initComm", "init:dupInput"}
Over    == {"fini:sysmods"} \cup Late      \* the input is over, its communicator released

Thing == [is : {"None", "communicator"}, handle : Seq(Nat), persistent : BOOLEAN,
          rank : Ranks, size : 0..N]

HandleTypes ==
    /\ object \in [Ranks -> [Names -> Thing]]
    /\ pyMPI_COMM_WORLD \in [Ranks -> {COMM_NULL, WorldCopy}]
    /\ pyMPI_COMM_INPUT \in [Ranks -> {COMM_NULL, InputCopy}]

\* A communicator that a program of r may have: not MPI's, nor the input's
Belongs(r, h) == h \in DOMAIN group /\ r \in Members(h) /\ h \notin {COMM_WORLD, InputCopy}

ThingOK(r, o) ==
    /\ o.handle # COMM_NULL => Belongs(r, o.handle) /\ o.size = Len(group[o.handle])
    /\ o.rank # 0 => o.rank < o.size

HandlesOK(r) ==
    /\ pyMPI_COMM_WORLD[r] = WorldCopy => WorldCopy \in DOMAIN group
    /\ pyMPI_COMM_INPUT[r] = InputCopy => InputCopy \in DOMAIN group
    /\ pc[r] \notin {"start", "init", "init:dup", "fini:readline"} \cup Over =>
           pyMPI_COMM_WORLD[r] = WorldCopy
    /\ pc[r] \notin Booting \cup Over => pyMPI_COMM_INPUT[r] = InputCopy

TurnOK(r) ==
    /\ pc[r] \in {"start", "init"} => Turn(r, COMM_WORLD) = 0
    /\ pc[r] \in {"init:dup", "initComm"} => Turn(r, COMM_WORLD) = 1
    /\ pc[r] = "init:dupInput" => Turn(r, COMM_WORLD) = 2

FreedOK(r) ==
    /\ COMM_WORLD \notin freed[r]
    /\ InputCopy \in freed[r] => pc[r] \in Over

\* Between the call that makes a communicator and the name it gets
MakeOK(r) ==
    pc[r] \in {"make", "made"} =>
        LET c == Target(r).handle
        IN  /\ Line(r).do \in {"dup", "create", "cart"} /\ Belongs(r, c)
            /\ Chosen(r) \in Seq(0..(Len(group[c]) - 1)) /\ IsInjective(Chosen(r))
            /\ pc[r] = "made" => NewComm(r, c) \in DOMAIN group

RankComms(r) ==
    /\ HandlesOK(r) /\ TurnOK(r) /\ FreedOK(r) /\ MakeOK(r)
    /\ \A name \in Names : ThingOK(r, object[r][name])

CommInv == CommsOK /\ HandleTypes /\ \A r \in Ranks : RankComms(r)

\* What r does with MPI leaves the communicators and the other ranks alone,
\* and most of it the input as well.
Beside(r) ==
    /\ CommsOK' /\ Grown
    /\ \A q \in Ranks \ {r} : Kept(q) /\ freed'[q] = freed[q]

Apart(r) ==
    /\ Beside(r)
    /\ freed'[r] \cap {COMM_WORLD, InputCopy} \subseteq freed[r]
    /\ \A q \in Ranks : Log(q)' = Log(q)

LEMMA IdleApart ==
    ASSUME CommsOK, NEW r \in Ranks, UNCHANGED <<group, calls, freed>>
    PROVE  Apart(r) /\ UNCHANGED group
<1>1. CommsOK'
  BY DEF CommsOK
<1>. QED
  BY <1>1 DEF Apart, Beside, Grown, Kept, Log

LEMMA CallApart ==
    ASSUME CommsOK, NEW r \in Ranks, NEW h, NEW op, NEW data, Enter(r, h, op, data),
           h # InputCopy, op = "free" => h # COMM_WORLD
    PROVE  Apart(r) /\ UNCHANGED group
<1>0. CommsOK' /\ Grown /\ EnteredBy(r, h, op, data)
  BY Entered
<1>1. /\ CommsOK' /\ Grown /\ group' = group
      /\ \A q \in Ranks, c \in DOMAIN group : q # r \/ c # h => calls'[c][q] = calls[c][q]
      /\ \A q \in Ranks \ {r} : freed'[q] = freed[q]
      /\ freed'[r] = IF op = "free" THEN freed[r] \cup {h} ELSE freed[r]
  BY Zenon, <1>0 DEF EnteredBy
<1>2. \A q \in Ranks : Log(q)' = Log(q)
  BY <1>1 DEF Log
<1>3. \A q \in Ranks \ {r} : Kept(q)
  BY <1>1 DEF Kept
<1>4. freed'[r] \cap {COMM_WORLD, InputCopy} \subseteq freed[r]
  BY <1>1
<1>. QED
  BY <1>1, <1>2, <1>3, <1>4 DEF Apart, Beside

LEMMA CreateApart ==
    ASSUME CommsOK, NEW r \in Ranks,
           NEW new \in Seq(Nat) \ {COMM_NULL}, NEW ranks \in Seq(Ranks), Create(new, ranks),
           IsInjective(ranks), new \in {COMM_WORLD, WorldCopy, InputCopy} => ranks = AllRanks
    PROVE  Apart(r) /\ new \in DOMAIN group' /\ Kept(r) /\ freed' = freed
<1>1. /\ CommsOK' /\ Grown
      /\ DOMAIN group' = DOMAIN group \cup {new}
      /\ \A c \in DOMAIN group : calls'[c] = calls[c]
      /\ freed' = freed
      /\ \A q \in Ranks : new \notin DOMAIN group => calls'[new][q] = <<>>
  BY Created
<1>2. \A q \in Ranks : Log(q)' = Log(q)
  BY <1>1 DEF Log
<1>. QED
  BY <1>1, <1>2 DEF Apart, Beside, Kept

LEMMA ThingStays ==
    ASSUME CommsOK, Grown, NEW r \in Ranks, NEW o, ThingOK(r, o)
    PROVE  ThingOK(r, o)'
BY DEF ThingOK, Belongs, Grown, Members

\* What the others do is not felt.
LEMMA OthersComms ==
    ASSUME CommInv, Grown, NEW q \in Ranks, Kept(q), freed'[q] = freed[q], pc'[q] = pc[q],
           object'[q] = object[q], executed'[q] = executed[q],
           pyMPI_COMM_WORLD'[q] = pyMPI_COMM_WORLD[q], pyMPI_COMM_INPUT'[q] = pyMPI_COMM_INPUT[q]
    PROVE  RankComms(q)'
<1>1. CommsOK /\ RankComms(q)
  BY DEF CommInv
<1>2. HandlesOK(q)'
  BY <1>1 DEF RankComms, HandlesOK, Grown
<1>3. Turn(q, COMM_WORLD)' = Turn(q, COMM_WORLD)
  BY DEF Turn, Kept, CommInv, CommsOK
<1>4. TurnOK(q)'
  BY <1>1, <1>3 DEF RankComms, TurnOK
<1>5. FreedOK(q)'
  BY <1>1 DEF RankComms, FreedOK
<1>6. MakeOK(q)'
  <2>. SUFFICES ASSUME pc[q] \in {"make", "made"} PROVE MakeOK(q)'
    BY DEF MakeOK
  <2>. DEFINE c == Target(q).handle
  <2>1. Target(q)' = Target(q) /\ Line(q)' = Line(q)
    BY DEF Target, Line
  <2>2. c \in DOMAIN group /\ Belongs(q, c)
    BY <1>1 DEF RankComms, MakeOK, Belongs
  <2>3. group'[c] = group[c] /\ c \in DOMAIN group' /\ Belongs(q, c)'
    BY <2>1, <2>2 DEF Grown, Belongs, Members
  <2>4. Chosen(q)' = Chosen(q)
    BY <2>1, <2>3 DEF Chosen
  <2>5. NewComm(q, c)' = NewComm(q, c)
    BY <2>1, <2>2 DEF NewComm, Turn, Kept
  <2>. QED
    BY <1>1, <2>1, <2>3, <2>4, <2>5 DEF RankComms, MakeOK, Grown
<1>7. \A name \in Names : ThingOK(q, object[q][name])'
  BY <1>1, ThingStays DEF RankComms
<1>. QED
  BY <1>2, <1>4, <1>5, <1>6, <1>7 DEF RankComms

\* Where a rank has both communicators of pyMPI
Inside == {"next", "read:barrier", "read:size", "read:line", "dead", "leave"} \cup InLine

\* Only r's own part of the interpreters' state changes.
OnlyMine(r) ==
    \A q \in Ranks \ {r} :
        /\ pc'[q] = pc[q] /\ executed'[q] = executed[q] /\ object'[q] = object[q]
        /\ pyMPI_COMM_WORLD'[q] = pyMPI_COMM_WORLD[q] /\ pyMPI_COMM_INPUT'[q] = pyMPI_COMM_INPUT[q]

\* r's objects are what they may be, after the step.
NewObjects(r) ==
    /\ object' \in [Ranks -> [Names -> Thing]]
    /\ \A q \in Ranks \ {r} : object'[q] = object[q]
    /\ \A name \in Names : ThingOK(r, object'[r][name])

LEMMA MineKeeps ==
    ASSUME CommInv, NEW r \in Ranks, Beside(r), OnlyMine(r), HandleTypes', RankComms(r)'
    PROVE  CommInv'
<1>1. ASSUME NEW q \in Ranks \ {r} PROVE RankComms(q)'
  BY OthersComms DEF Beside, OnlyMine
<1>. QED
  BY <1>1 DEF CommInv, Beside

LEMMA InsideKeeps ==
    ASSUME CommInv, NEW r \in Ranks, Apart(r), OnlyMine(r), NewObjects(r),
           UNCHANGED <<pyMPI_COMM_WORLD, pyMPI_COMM_INPUT>>,
           \/ pc[r] \in Inside /\ pc'[r] \in Inside \cup {"fini:readline"} \cup Late
           \/ pc[r] \in Over /\ pc'[r] \in Late,
           MakeOK(r)'
    PROVE  CommInv'
<1>1. CommsOK /\ RankComms(r) /\ HandleTypes /\ Grown
  BY DEF CommInv, Apart, Beside
<1>2. HandleTypes'
  BY <1>1 DEF HandleTypes, NewObjects
<1>3. HandlesOK(r)' /\ TurnOK(r)'
  BY <1>1 DEF RankComms, HandlesOK, TurnOK, Grown, Inside, InLine, Booting, Over, Late
<1>4. FreedOK(r)'
  BY <1>1 DEF RankComms, FreedOK, Apart, Beside, Inside, InLine, Over, Late
<1>5. ASSUME NEW name \in Names PROVE ThingOK(r, object[r][name])'
  BY <1>1, ThingStays DEF NewObjects
<1>6. RankComms(r)'
  BY <1>3, <1>4, <1>5 DEF RankComms
<1>. QED
  BY <1>2, <1>6, MineKeeps DEF Apart

\* Most steps have nothing to do with the objects.
LEMMA SameObjects ==
    ASSUME CommInv, NEW r \in Ranks, UNCHANGED object
    PROVE  NewObjects(r)
BY DEF CommInv, HandleTypes, RankComms, NewObjects

LEMMA OneObject ==
    ASSUME CommInv, NEW r \in Ranks, NEW name \in Names, NEW o \in Thing, ThingOK(r, o),
           object' = [object EXCEPT ![r][name] = o]
    PROVE  NewObjects(r)
<1>1. object \in [Ranks -> [Names -> Thing]] /\ \A x \in Names : ThingOK(r, object[r][x])
  BY DEF CommInv, HandleTypes, RankComms
<1>2. object'[r] = [object[r] EXCEPT ![name] = o] /\ object' \in [Ranks -> [Names -> Thing]]
      /\ \A q \in Ranks \ {r} : object'[q] = object[q]
  BY <1>1
<1>3. \A x \in Names : object'[r][x] = o \/ object'[r][x] = object[r][x]
  BY <1>1, <1>2
<1>. QED
  BY <1>1, <1>2, <1>3 DEF NewObjects

-----------------------------------------------------------------------------
\* The rank of a member is a place in the communicator.
LEMMA RankOfMember ==
    ASSUME CommsOK, NEW h \in DOMAIN group, NEW r \in Members(h)
    PROVE  /\ Len(group[h]) \in 0..N
           /\ RankIn(h, r) \in 0..(Len(group[h]) - 1)
           /\ group[h][RankIn(h, r) + 1] = r
<1>1. group[h] \in Seq(Ranks) /\ IsInjective(group[h]) /\ N \in Nat
  BY NAssumption DEF CommsOK
<1>2. PICK i \in 1..Len(group[h]) : group[h][i] = r
  BY <1>1 DEF Members, ToSet
<1>3. /\ RankIn(h, r) \in 0..(Len(group[h]) - 1)
      /\ group[h][RankIn(h, r) + 1] = r
  <2>1. \E j \in 1..Len(group[h]) : group[h][j] = r
    BY <1>2
  <2>. DEFINE j == CHOOSE j \in 1..Len(group[h]) : group[h][j] = r
  <2>2. j \in 1..Len(group[h]) /\ group[h][j] = r
    BY <2>1, Zenon
  <2>3. RankIn(h, r) = j - 1 /\ Len(group[h]) \in Nat
    BY <1>1 DEF RankIn
  <2>. HIDE DEF j
  <2>. QED
    BY <2>2, <2>3
<1>4. Len(group[h]) <= N
  <2>. DEFINE n == Len(group[h])
  <2>1. n \in Nat /\ IsFiniteSet(1..n) /\ Cardinality(1..n) = n
    BY <1>1, FS_Interval
  <2>2. IsFiniteSet(Ranks) /\ Cardinality(Ranks) = N
    BY <1>1, FS_Interval DEF Ranks
  <2>3. group[h] \in Injection(1..n, Ranks)
    BY <1>1 DEF Injection, IsInjective
  <2>4. Cardinality(1..n) <= Cardinality(Ranks)
    BY <2>1, <2>2, <2>3, FS_Injection
  <2>. QED
    BY <2>1, <2>2, <2>4
<1>. QED
  BY <1>1, <1>3, <1>4

LEMMA ConstructedThing ==
    ASSUME CommInv, NEW r \in Ranks, NEW h, h = COMM_NULL \/ Belongs(r, h), NEW flag \in BOOLEAN
    PROVE  CommObject(r, h, flag) \in Thing /\ ThingOK(r, CommObject(r, h, flag))
<1>1. CASE h = COMM_NULL
  BY <1>1, Names4, Everybody, NAssumption DEF CommObject, Thing, ThingOK
<1>2. CASE h # COMM_NULL
  <2>1. CommsOK /\ h \in DOMAIN group /\ r \in Members(h) /\ h \in Seq(Nat)
    BY <1>2 DEF CommInv, Belongs, CommsOK
  <2>2. Len(group[h]) \in 0..N /\ RankIn(h, r) \in 0..(Len(group[h]) - 1)
    BY <2>1, RankOfMember
  <2>3. RankIn(h, r) \in Ranks
    BY <2>2, NAssumption DEF Ranks
  <2>. QED
    BY <1>2, <2>1, <2>2, <2>3 DEF CommObject, Thing, ThingOK
<1>. QED
  BY <1>1, <1>2

LEMMA NoneThing ==
    ASSUME NEW r \in Ranks
    PROVE  None \in Thing /\ ThingOK(r, None)
BY Names4, Everybody, NAssumption DEF None, Thing, ThingOK

LinesOK == executed \in [Ranks -> Seq(AllLines \ {Eof})]

LEMMA Shapes ==
    ASSUME NEW l \in Statements
    PROVE  /\ l.do \in {"write", "queue", "dup", "create", "cart", "wrap", "persistent", "free", "del"} =>
                  l.on \in Names
           /\ l.do \in {"dup", "create", "cart", "wrap"} => l.to \in Own
           /\ l.do = "create" => l.arg \in Inclusion
           /\ l.do = "cart" => l.arg \in Grid
           /\ l.do \in {"wrap", "persistent"} => l.persist \in BOOLEAN
           /\ l.do = "queue" => l.stdout \in Destinations /\ l.stderr \in Destinations
BY DEF Statements

LEMMA LineShape ==
    ASSUME LifeInv, LinesOK, NEW r \in Ranks, pc[r] \in InLine
    PROVE  Line(r) \in AllLines /\ Line(r) \in Statements
<1>1. executed[r] \in Seq(AllLines \ {Eof}) /\ executed[r] # <<>>
  BY DEF LinesOK, LifeInv, RankOK, StateOK
<1>2. Line(r) \in AllLines \ {Eof}
  BY <1>1, EmptySeq, LenProperties, ElementOfSeq DEF Line, Last
<1>3. AllLines \ {Eof} \subseteq Statements
  <2>. SUFFICES ASSUME NEW l \in UNION Range(Lines) PROVE l \in Statements
    BY DEF AllLines
  <2>1. PICK i \in DOMAIN Lines : l \in Lines[i]
    BY DEF Range
  <2>2. Lines[i] \in SUBSET Statements
    BY <2>1, LinesAssumption
  <2>. QED
    BY <2>1, <2>2
<1>. QED
  BY <1>2, <1>3

\* The object that a method is called on
LEMMA TargetThing ==
    ASSUME LifeInv, LinesOK, CommInv, NEW r \in Ranks, pc[r] \in InLine,
           Line(r).do \in {"write", "queue", "dup", "create", "cart", "wrap", "persistent", "free", "del"}
    PROVE  /\ Line(r).on \in Names /\ Target(r) \in Thing /\ ThingOK(r, Target(r))
           /\ Target(r).handle # InputCopy /\ Target(r).handle # COMM_WORLD
<1>1. Line(r).on \in Names
  BY LineShape, Shapes
<1>2. Target(r) \in Thing /\ ThingOK(r, Target(r))
  BY <1>1 DEF Target, CommInv, HandleTypes, RankComms
<1>. QED
  BY <1>1, <1>2, Names4 DEF ThingOK, Belongs

-----------------------------------------------------------------------------
\* A step of r that is no part of the input: where r goes, and what it leaves
Turns(r) ==
    /\ \A q \in Ranks \ {r} : pc'[q] = pc[q]
    /\ UNCHANGED <<mode, entered, executed>>
    /\ "argument" \in faults' <=> "argument" \in faults
    /\ \/ pc[r] \in InLine /\ pc'[r] \in InLine \cup {"next", "dead", "leave"} \cup Late
       \/ pc[r] = "leave" /\ pc'[r] \in {"leave", "fini:readline"}
       \/ pc[r] \in Over /\ pc'[r] \in Late

Aside(r) ==
    /\ Turns(r) /\ Apart(r) /\ NewObjects(r) /\ MakeOK(r)'
    /\ UNCHANGED <<pyMPI_COMM_WORLD, pyMPI_COMM_INPUT>>

LEMMA AsideKeeps ==
    ASSUME CommInv, NEW r \in Ranks, Aside(r)
    PROVE  CommInv'
<1>1. OnlyMine(r)
  BY DEF OnlyMine, Aside, Turns, NewObjects
<1>2. \/ pc[r] \in Inside /\ pc'[r] \in Inside \cup {"fini:readline"} \cup Late
      \/ pc[r] \in Over /\ pc'[r] \in Late
  BY DEF Aside, Turns, Inside
<1>. QED
  BY <1>1, <1>2, InsideKeeps DEF Aside

LEMMA PlainAside ==
    ASSUME CommInv, NEW r \in Ranks, Turns(r), pc'[r] \notin {"make", "made"},
           UNCHANGED <<group, calls, freed, commVars>>
    PROVE  Aside(r)
<1>1. UNCHANGED <<object, pyMPI_COMM_WORLD, pyMPI_COMM_INPUT>>
  BY DEF commVars
<1>. QED
  BY <1>1, IdleApart, SameObjects DEF Aside, CommInv, MakeOK

LEMMA GotoTurns ==
    ASSUME LifeInv, NEW r \in Ranks, NEW where, Goto(r, where), UNCHANGED <<mode, entered, executed>>,
           "argument" \in faults' <=> "argument" \in faults,
           \/ pc[r] \in InLine /\ where \in InLine \cup {"next", "dead", "leave"} \cup Late
           \/ pc[r] = "leave" /\ where = "leave"
           \/ pc[r] \in Over /\ where \in Late
    PROVE  Turns(r) /\ pc'[r] = where
BY DEF Goto, Turns, LifeInv, Types

LEMMA ProceedTurns ==
    ASSUME LifeInv, NEW r \in Ranks, NEW where, Proceed(r, where),
           \/ pc[r] \in InLine /\ where \in InLine \cup {"next", "dead", "leave"} \cup Late
           \/ pc[r] = "leave" /\ where = "leave"
           \/ pc[r] \in Over /\ where \in Late
    PROVE  Turns(r) /\ pc'[r] = where
BY GotoTurns DEF Proceed, readVars, jobVars

LEMMA RaiseTurns ==
    ASSUME LifeInv, NEW r \in Ranks, NEW fault, Raise(r, fault), pc[r] \in InLine, "argument" \notin fault
    PROVE  Turns(r) /\ pc'[r] \in {"next", "leave"}
<1>1. /\ UNCHANGED <<mode, entered, executed>>
      /\ "argument" \in faults' <=> "argument" \in faults
  BY DEF Raise, jobVars
<1>2. PICK where \in {"next", "leave"} : Goto(r, where)
  BY DEF Raise
<1>. QED
  BY <1>1, <1>2, GotoTurns

-----------------------------------------------------------------------------
LEMMA CollectAside ==
    ASSUME LifeInv, CommInv, NEW r \in Ranks, NEW texts, pc[r] \in InLine, Collect(r, texts),
           UNCHANGED commVars
    PROVE  Aside(r)
<1>1. PICK where \in {"out:collect", "out:send", "out:failed"} : Proceed(r, where)
  BY DEF Collect
<1>2. UNCHANGED <<group, calls, freed>>
  BY DEF Collect, mpiVars, Misuse
<1>. QED
  BY <1>1, <1>2, ProceedTurns, PlainAside DEF InLine

LEMMA BarrierAside ==
    ASSUME LifeInv, CommInv, NEW r \in Ranks, NEW h, h # InputCopy,
           Enter(r, h, "barrier", <<>>) \/ Misuse(r, h), UNCHANGED commVars,
           Turns(r), pc'[r] \notin {"make", "made"}
    PROVE  Aside(r)
<1>1. CASE Misuse(r, h)
  BY <1>1, PlainAside DEF Misuse
<1>2. CASE Enter(r, h, "barrier", <<>>)
  <2>1. Apart(r)
    BY <1>2, CallApart DEF CommInv
  <2>. QED
    BY <2>1, SameObjects DEF Aside, MakeOK, commVars
<1>. QED
  BY <1>1, <1>2

LEMMA OutputAside ==
    ASSUME LifeInv, LinesOK, CommInv, NEW r \in Ranks, NEW early \in BOOLEAN, Output(r, early)
    PROVE  Aside(r)
<1>. USE DEF InLine
<1>2. CASE UserPrints(r)
  BY <1>2, ProceedTurns, PlainAside DEF UserPrints, mpiVars
<1>3. CASE SynchronizedWrite(r)
  <2>1. pc[r] = "run" /\ UNCHANGED commVars
    BY <1>3 DEF SynchronizedWrite
  <2>2. CASE Collect(r, <<SyncText(r)>>)
    BY <2>1, <2>2, CollectAside
  <2>3. CASE \E fault : Raise(r, fault) /\ UNCHANGED mpiVars /\ "argument" \notin fault
    BY <2>1, <2>3, RaiseTurns, PlainAside DEF mpiVars
  <2>. QED
    BY <1>3, <2>2, <2>3 DEF SynchronizedWrite
<1>4. CASE CollectNext(r)
  <2>1. pc[r] = "out:collect" /\ UNCHANGED <<group, calls, freed, commVars, readVars>>
    BY <1>4 DEF CollectNext, mpiVars, Misuse
  <2>2. Goto(r, "out:failed") \/ Goto(r, "out:collect")
    BY <1>4, <2>1 DEF CollectNext, Goto, LifeInv, Types
  <2>. QED
    BY <2>1, <2>2, GotoTurns, PlainAside DEF readVars, jobVars
<1>5. CASE WriteNext(r)
  <2>1. pc[r] = "out:collect" /\ UNCHANGED <<group, calls, freed, commVars>>
    BY <1>5 DEF WriteNext, CollectDone, mpiVars
  <2>2. CASE Raise(r, {"raised"})
    BY <2>1, <2>2, RaiseTurns, PlainAside
  <2>3. CASE UNCHANGED <<pc, readVars>>
    <3>1. Goto(r, "out:collect")
      BY <2>1, <2>3 DEF Goto, LifeInv, Types
    <3>. QED
      BY <2>1, <2>3, <3>1, GotoTurns, PlainAside DEF readVars, jobVars
  <2>. QED
    BY <1>5, <2>2, <2>3 DEF WriteNext
<1>6. CASE AwaitWriting(r, early)
  <2>1. pc[r] \in {"out:send", "out:collect"} /\ Line(r).do = "write" /\ UNCHANGED commVars
    BY <1>6 DEF AwaitWriting, SendDone, CollectDone
  <2>2. Target(r).handle # InputCopy
    BY <2>1, TargetThing
  <2>3. Turns(r) /\ pc'[r] \notin {"make", "made"}
    BY <1>6, <2>1, ProceedTurns, RaiseTurns DEF AwaitWriting
  <2>4. Enter(r, Target(r).handle, "barrier", <<>>) \/ Misuse(r, Target(r).handle)
    BY <1>6 DEF AwaitWriting
  <2>. QED
    BY <2>1, <2>2, <2>3, <2>4, BarrierAside
<1>7. CASE WriteFails(r)
  BY <1>7, RaiseTurns, PlainAside DEF WriteFails, mpiVars
<1>8. CASE WriteDone(r)
  BY <1>8, ProceedTurns, PlainAside DEF WriteDone, mpiVars
<1>9. CASE QueuedOutput(r)
  BY <1>9, ProceedTurns, RaiseTurns, PlainAside DEF QueuedOutput, mpiVars
<1>10. CASE SystemStream(r)
  <2>1. pc[r] = "out:sync" /\ UNCHANGED commVars
    BY <1>10 DEF SystemStream
  <2>2. CASE \E texts : Collect(r, texts)
    BY <2>1, <2>2, CollectAside
  <2>3. CASE Raise(r, {"raised"}) /\ UNCHANGED mpiVars
    BY <2>1, <2>3, RaiseTurns, PlainAside DEF mpiVars
  <2>. QED
    BY <1>10, <2>2, <2>3 DEF SystemStream
<1>11. CASE SyncBarrier(r, early)
  <2>1. pc[r] \in InLine /\ UNCHANGED <<mode, entered, executed, commVars>>
        /\ ("argument" \in faults' <=> "argument" \in faults)
    BY <1>11 DEF SyncBarrier, SendDone, CollectDone, readVars, jobVars
  <2>2. \E where \in {"out:failedBarrier", "out:syncBarrier"} : Goto(r, where)
    BY <1>11 DEF SyncBarrier
  <2>3. Turns(r) /\ pc'[r] \notin {"make", "made"}
    BY <2>1, <2>2, GotoTurns
  <2>4. Enter(r, COMM_WORLD, "barrier", <<>>) \/ Misuse(r, COMM_WORLD)
    BY <1>11 DEF SyncBarrier
  <2>. QED
    BY <2>1, <2>3, <2>4, BarrierAside, Names4
<1>12. CASE SyncDone(r)
  <2>1. PICK where \in {"next", "out:sync"} : Proceed(r, where)
    BY <1>12 DEF SyncDone
  <2>. QED
    BY <1>12, <2>1, ProceedTurns, PlainAside DEF SyncDone, mpiVars
<1>13. CASE SyncFails(r)
  <2>1. pc[r] = "out:failedBarrier" /\ UNCHANGED <<group, calls, freed, commVars>>
    BY <1>13 DEF SyncFails, mpiVars
  <2>2. CASE Raise(r, {"misuse"})
    BY <2>1, <2>2, RaiseTurns, PlainAside
  <2>3. CASE Goto(r, "dead") /\ faults' = faults \cup {"assertion"} /\ UNCHANGED <<jobVars, entered, executed>>
    BY <2>1, <2>3, GotoTurns, PlainAside DEF jobVars
  <2>. QED
    BY <1>13, <2>2, <2>3 DEF SyncFails
<1>. QED
  BY <1>2, <1>3, <1>4, <1>5, <1>6, <1>7, <1>8, <1>9, <1>10, <1>11, <1>12, <1>13 DEF Output

\* An object that is destroyed may release its communicator, but not one of
\* pyMPI's own.
LEMMA RebindApart ==
    ASSUME CommInv, NEW r \in Ranks, pc[r] \in Inside, NEW name \in Names, NEW o \in Thing, ThingOK(r, o),
           Rebind(r, name, o)
    PROVE  Apart(r) /\ NewObjects(r) /\ UNCHANGED <<group, pyMPI_COMM_WORLD, pyMPI_COMM_INPUT>>
<1>. DEFINE h == object[r][name].handle
<1>1. /\ object' = [object EXCEPT ![r][name] = o]
      /\ UNCHANGED <<pyMPI_COMM_WORLD, pyMPI_COMM_INPUT>>
      /\ UNCHANGED mpiVars \/ comm_free(r, h)
  BY DEF Rebind, comm_dealloc
<1>2. NewObjects(r)
  BY <1>1, OneObject
<1>3. CommsOK /\ pyMPI_COMM_INPUT[r] = InputCopy
  BY DEF CommInv, RankComms, HandlesOK, Inside, InLine, Booting, Over, Late
<1>4. CASE UNCHANGED <<group, calls, freed>>
  BY <1>1, <1>2, <1>3, <1>4, IdleApart
<1>5. CASE Enter(r, h, "free", <<>>) /\ h \notin Protected(r)
  BY <1>1, <1>2, <1>3, <1>5, CallApart DEF Protected
<1>. QED
  BY <1>1, <1>4, <1>5 DEF comm_free, mpiVars, Misuse

LEMMA RebindAside ==
    ASSUME LifeInv, CommInv, NEW r \in Ranks, pc[r] \in InLine, NEW name \in Names, NEW o \in Thing,
           ThingOK(r, o), Rebind(r, name, o), Proceed(r, "next")
    PROVE  Aside(r)
<1>1. Apart(r) /\ NewObjects(r) /\ UNCHANGED <<group, pyMPI_COMM_WORLD, pyMPI_COMM_INPUT>>
  BY RebindApart DEF Inside
<1>2. Turns(r) /\ pc'[r] = "next"
  BY ProceedTurns
<1>. QED
  BY <1>1, <1>2 DEF Aside, MakeOK

LEMMA RaiseAside ==
    ASSUME LifeInv, CommInv, NEW r \in Ranks, pc[r] \in InLine, NEW fault, "argument" \notin fault,
           Raise(r, fault), UNCHANGED <<group, calls, freed, commVars>>
    PROVE  Aside(r)
BY RaiseTurns, PlainAside

-----------------------------------------------------------------------------
(***************************************************************************)
(* The ranks that are chosen for a new communicator                        *)
(***************************************************************************)
LEMMA QuotientType ==
    ASSUME NEW a \in Int, NEW b \in Int, b > 0
    PROVE  Quotient(a, b) \in Int
BY DEF Quotient

LEMMA SliceType ==
    ASSUME NEW size \in Nat, NEW s, s.start \in Int, s.stop \in Int, s.step \in Int
    PROVE  comm_slice(size, s) \in Seq(Int)
<1>. DEFINE step  == IF s.step = Omitted THEN 1 ELSE s.step
            start == Bound(s.start, IF step < 0 THEN size - 1 ELSE 0, size)
            stop  == Bound(s.stop, IF step < 0 THEN -1 ELSE size, size)
            long  == SliceLength(start, stop, step)
<1>1. step \in Int /\ start \in Int /\ stop \in Int
  BY DEF Bound
<1>2. Raises \in Seq(Int)
  BY DEF Raises
<1>. HIDE DEF step, start, stop
<1>3. step # 0 => long \in Int
  BY <1>1, QuotientType DEF SliceLength
<1>4. comm_slice(size, s) = IF step = 0 \/ stop > size \/ start >= size THEN Raises
                            ELSE IF long < 0 THEN Raises
                            ELSE [i \in 1..long |-> start + (i - 1) * step]
  BY DEF comm_slice, step, start, stop
<1>. HIDE DEF long
<1>5. ASSUME long \in Nat PROVE [i \in 1..long |-> start + (i - 1) * step] \in Seq(Int)
  <2>1. \A i \in 1..long : start + (i - 1) * step \in Int
    BY <1>1, <1>5
  <2>. QED
    BY <1>5, <2>1
<1>. QED
  BY <1>2, <1>3, <1>4, <1>5

LEMMA InclusionsType ==
    ASSUME NEW o \in Thing, NEW arg \in Inclusion, arg.kind # "none"
    PROVE  Inclusions(o, arg) \in Seq(Int)
<1>1. o.size \in Nat /\ arg.start \in Int /\ arg.stop \in Int /\ arg.step \in Int
      /\ arg.kind \in {"rank", "item", "slice"}
  BY NAssumption DEF Thing, Inclusion
<1>2. <<arg.start>> \in Seq(Int) /\ comm_item(o.size, arg.start) \in Seq(Int)
  BY <1>1 DEF comm_item, Raises
<1>3. comm_slice(o.size, arg) \in Seq(Int)
  BY <1>1, SliceType
<1>. QED
  BY <1>1, <1>2, <1>3 DEF Inclusions

LEMMA Narrower ==
    ASSUME NEW S, NEW T, NEW s \in Seq(T), \A i \in 1..Len(s) : s[i] \in S
    PROVE  s \in Seq(S)
<1>1. Len(s) \in Nat /\ s = [i \in 1..Len(s) |-> s[i]]
  BY LenProperties
<1>2. [i \in 1..Len(s) |-> s[i]] \in Seq(S)
  BY <1>1
<1>. QED
  BY <1>1, <1>2

\* What passes the tests before MPI is asked is a choice among the members.
LEMMA ChosenOK ==
    ASSUME LifeInv, LinesOK, CommInv, NEW r \in Ranks, pc[r] = "run",
           Line(r).do \in {"dup", "create", "cart"}, ~BadArgument(r), Usable(r, Target(r).handle),
           Line(r).do = "create" => Line(r).arg.kind # "none"
    PROVE  /\ Belongs(r, Target(r).handle)
           /\ Chosen(r) \in Seq(0..(Len(group[Target(r).handle]) - 1)) /\ IsInjective(Chosen(r))
<1>. DEFINE o == Target(r)
            l == Line(r)
            c == o.handle
            n == Len(group[c])
<1>1. /\ l \in Statements /\ l \in AllLines /\ o \in Thing /\ ThingOK(r, o)
      /\ c # InputCopy /\ c # COMM_WORLD
  BY LineShape, TargetThing DEF InLine
<1>2. c \in DOMAIN group /\ r \in Members(c) /\ c # COMM_NULL
  BY DEF Usable, CommInv, CommsOK
<1>3. Belongs(r, c) /\ o.size = n
  BY <1>1, <1>2 DEF ThingOK, Belongs
<1>4. n \in 1..N
  BY <1>2, RankOfMember, NAssumption DEF CommInv
<1>. HIDE DEF n
<1>5. CASE l.do = "dup"
  <2>1. Chosen(r) = [i \in 1..n |-> i - 1]
    BY <1>5 DEF Chosen, n
  <2>. QED
    BY <1>3, <1>4, <2>1 DEF IsInjective, n
<1>6. CASE l.do = "create"
  <2>. DEFINE s == Inclusions(o, l.arg)
  <2>1. s \in Seq(Int)
    BY <1>1, <1>6, InclusionsType, Shapes
  <2>2. ~BadInclusions(o, s)
    BY <1>6 DEF BadArgument
  <2>. HIDE DEF s
  <2>3. (\A i \in 1..Len(s) : s[i] \in 0..(n - 1)) /\ IsInjective(s)
    BY <1>3, <2>2 DEF BadInclusions
  <2>4. Chosen(r) = s
    BY <1>6 DEF Chosen, s
  <2>5. s \in Seq(0..(n - 1))
    BY <2>1, <2>3, Narrower
  <2>. QED
    BY <1>3, <2>3, <2>4, <2>5 DEF n
<1>7. CASE l.do = "cart"
  <2>. DEFINE g == GridSize(n, l.arg)
  <2>1. g \in Nat
    <3>1. Product(l.arg.dims) \in Nat
      BY <1>1, <1>7, GridsAssumption
    <3>. QED
      BY <1>4, <3>1 DEF GridSize
  <2>2. g <= n
    BY <1>4, <1>7, <2>1 DEF BadArgument, n
  <2>3. Chosen(r) = [i \in 1..g |-> i - 1]
    BY <1>7 DEF Chosen, n
  <2>. HIDE DEF g
  <2>4. Chosen(r) \in Seq(0..(n - 1)) /\ IsInjective(Chosen(r))
    BY <1>4, <2>1, <2>2, <2>3 DEF IsInjective
  <2>. QED
    BY <1>3, <2>4 DEF n
<1>. QED
  BY <1>5, <1>6, <1>7

\* What a rank has called is a sequence, and names its next communicator.
LEMMA TurnType ==
    ASSUME CommsOK, NEW r \in Ranks, NEW c \in DOMAIN group
    PROVE  Turn(r, c) \in Nat /\ c \in Seq(Nat)
<1>1. PICK T : calls[c] \in [Ranks -> Seq(T)]
  BY DEF CommsOK
<1>2. calls[c][r] \in Seq(T)
  BY <1>1
<1>. QED
  BY <1>2, LenProperties DEF CommsOK, Turn

LEMMA MakeCommAside ==
    ASSUME LifeInv, LinesOK, CommInv, NEW r \in Ranks, MakeComm(r)
    PROVE  Aside(r)
<1>. DEFINE o == Target(r)
            l == Line(r)
<1>1. pc[r] = "run" /\ pc[r] \in InLine /\ l.do \in {"dup", "create", "cart"}
  BY DEF MakeComm, InLine
<1>2. /\ l \in Statements /\ l.to \in Names
      /\ o.handle # InputCopy /\ o.handle # COMM_WORLD
  BY <1>1, LineShape, Shapes, TargetThing DEF Own
<1>3. CASE Raise(r, {}) /\ UNCHANGED <<mpiVars, commVars>>
  BY <1>1, <1>3, RaiseAside DEF mpiVars
<1>4. CASE Rebind(r, l.to, None) /\ Proceed(r, "next")
  BY <1>1, <1>2, <1>4, NoneThing, RebindAside
<1>5. CASE Rebind(r, l.to, pyMPI_comm(r, COMM_NULL)) /\ Proceed(r, "next")
  BY <1>1, <1>2, <1>5, ConstructedThing, RebindAside DEF pyMPI_comm
<1>6. ASSUME l.do = "create" => l.arg.kind # "none", ~BadArgument(r),
             Call(r, l.do, "make"), UNCHANGED commVars
      PROVE  Aside(r)
  <2>1. CASE Misuse(r, o.handle) /\ Raise(r, {})
    BY <1>1, <1>6, <2>1, RaiseAside DEF Misuse
  <2>2. CASE Enter(r, o.handle, l.do, <<>>) /\ Proceed(r, "make")
    <3>1. /\ Belongs(r, o.handle)
          /\ Chosen(r) \in Seq(0..(Len(group[o.handle]) - 1)) /\ IsInjective(Chosen(r))
      BY <1>1, <1>6, <2>2, ChosenOK DEF Enter
    <3>2. Apart(r) /\ UNCHANGED group
      BY <1>1, <1>2, <2>2, CallApart DEF CommInv
    <3>3. Turns(r) /\ pc'[r] = "make" /\ executed' = executed
      BY <1>1, <2>2, ProceedTurns DEF InLine, Turns
    <3>4. Target(r)' = o /\ Line(r)' = l
      BY <1>6, <3>3 DEF Target, Line, commVars
    <3>5. Chosen(r)' = Chosen(r) /\ Belongs(r, o.handle)'
      BY <3>1, <3>2, <3>4 DEF Chosen, Belongs, Members
    <3>6. MakeOK(r)'
      BY <1>1, <3>1, <3>2, <3>3, <3>4, <3>5 DEF MakeOK
    <3>. QED
      BY <1>6, <3>2, <3>3, <3>6, SameObjects DEF Aside, commVars
  <2>. QED
    BY <1>6, <2>1, <2>2 DEF Call
<1>. QED
  BY <1>3, <1>4, <1>5, <1>6 DEF MakeComm

\* The ranks that are chosen are members, each once.
LEMMA IncludedOK ==
    ASSUME CommsOK, NEW c \in DOMAIN group, NEW s \in Seq(0..(Len(group[c]) - 1)), IsInjective(s)
    PROVE  Included(c, s) \in Seq(Ranks) /\ IsInjective(Included(c, s))
<1>. DEFINE n == Len(group[c])
<1>0. group[c] \in Seq(Ranks) /\ IsInjective(group[c])
  BY DEF CommsOK
<1>1. /\ group[c] \in Seq(Ranks) /\ n \in Nat /\ DOMAIN group[c] = 1..n
      /\ \A i, j \in 1..n : group[c][i] = group[c][j] => i = j
  BY ONLY <1>0, LenProperties DEF IsInjective
<1>2. Len(s) \in Nat /\ DOMAIN s = 1..Len(s) /\ \A i \in 1..Len(s) : s[i] \in 0..(n - 1)
  BY LenProperties, ElementOfSeq
<1>. HIDE DEF n
<1>3. \A i \in 1..Len(s) : s[i] + 1 \in 1..n
  BY <1>1, <1>2
<1>4. \A i \in 1..Len(s) : group[c][s[i] + 1] \in Ranks
  BY <1>1, <1>3, ElementOfSeq DEF n
<1>5. Included(c, s) \in Seq(Ranks) /\ DOMAIN Included(c, s) = 1..Len(s)
  BY <1>2, <1>4 DEF Included
<1>6. ASSUME NEW i \in 1..Len(s), NEW j \in 1..Len(s), group[c][s[i] + 1] = group[c][s[j] + 1]
      PROVE  i = j
  <2>1. s[i] + 1 = s[j] + 1
    BY <1>1, <1>3, <1>6
  <2>2. s[i] = s[j]
    BY <1>2, <2>1
  <2>. QED
    BY <1>2, <2>2 DEF IsInjective
<1>7. \A i \in 1..Len(s) : Included(c, s)[i] = group[c][s[i] + 1]
  BY DEF Included
<1>8. IsInjective(Included(c, s))
  BY ONLY <1>5, <1>6, <1>7 DEF IsInjective
<1>. QED
  BY <1>5, <1>8

LEMMA CommMadeAside ==
    ASSUME LifeInv, LinesOK, CommInv, NEW r \in Ranks, CommMade(r)
    PROVE  Aside(r)
<1>. DEFINE c     == Target(r).handle
            new   == NewComm(r, c)
            ranks == Included(c, Chosen(r))
<1>1. /\ pc[r] = "make" /\ Create(new, ranks) /\ Goto(r, "made")
      /\ UNCHANGED <<commVars, readVars>>
  BY DEF CommMade
<1>2. /\ Line(r).do \in {"dup", "create", "cart"} /\ Belongs(r, c)
      /\ Chosen(r) \in Seq(0..(Len(group[c]) - 1)) /\ IsInjective(Chosen(r)) /\ CommsOK
  BY <1>1 DEF CommInv, RankComms, MakeOK
<1>3. ranks \in Seq(Ranks) /\ IsInjective(ranks) /\ c \in DOMAIN group
  BY <1>2, IncludedOK DEF Belongs
<1>4. new \in Seq(Nat) \ {COMM_NULL} /\ new \notin {COMM_WORLD, WorldCopy, InputCopy}
  BY <1>2, <1>3, TurnType, NewName DEF Belongs, NewComm
<1>. HIDE DEF new, ranks
<1>5. Apart(r) /\ new \in DOMAIN group' /\ Kept(r)
  BY <1>1, <1>2, <1>3, <1>4, CreateApart
<1>6. Turns(r) /\ pc'[r] = "made"
  BY <1>1, GotoTurns DEF InLine, readVars, jobVars
<1>7. Target(r)' = Target(r) /\ Line(r)' = Line(r)
  BY <1>1 DEF Target, Line, commVars, readVars
<1>8. c \in DOMAIN group' /\ group'[c] = group[c] /\ calls'[c][r] = calls[c][r]
  BY <1>3, <1>5 DEF Apart, Beside, Grown, Kept
<1>9. Belongs(r, c)' /\ Chosen(r)' = Chosen(r) /\ NewComm(r, c)' = new
  BY <1>2, <1>7, <1>8 DEF Belongs, Members, Chosen, NewComm, Turn, new
<1>10. MakeOK(r)'
  BY <1>2, <1>5, <1>7, <1>8, <1>9 DEF MakeOK
<1>. QED
  BY <1>1, <1>5, <1>6, <1>10, SameObjects DEF Aside, commVars

LEMMA CommBoundAside ==
    ASSUME LifeInv, LinesOK, CommInv, NEW r \in Ranks, CommBound(r)
    PROVE  Aside(r)
<1>. DEFINE c      == Target(r).handle
            new    == NewComm(r, c)
            handle == Handle(r, new)
            o      == IF Line(r).do = "create" /\ handle = COMM_NULL THEN None ELSE pyMPI_comm(r, handle)
<1>1. pc[r] = "made" /\ Rebind(r, Line(r).to, o) /\ Proceed(r, "next")
  BY DEF CommBound
<1>2. /\ Line(r).do \in {"dup", "create", "cart"} /\ Belongs(r, c) /\ new \in DOMAIN group /\ CommsOK
  BY <1>1 DEF CommInv, RankComms, MakeOK
<1>3. Line(r).to \in Names
  BY <1>1, <1>2, LineShape, Shapes DEF Own, InLine
<1>4. new \notin {COMM_WORLD, WorldCopy, InputCopy}
  BY <1>2, TurnType, NewName DEF Belongs, NewComm
<1>. HIDE DEF new
<1>5. handle = COMM_NULL \/ Belongs(r, handle)
  BY <1>2, <1>4 DEF Handle, Belongs
<1>. HIDE DEF handle
<1>6. o \in Thing /\ ThingOK(r, o)
  BY <1>5, NoneThing, ConstructedThing DEF pyMPI_comm
<1>. HIDE DEF o
<1>. QED
  BY <1>1, <1>3, <1>6, RebindAside DEF InLine

LEMMA WrapHandleAside ==
    ASSUME LifeInv, LinesOK, CommInv, NEW r \in Ranks, WrapHandle(r)
    PROVE  Aside(r)
<1>. DEFINE c == Target(r).handle
            l == Line(r)
<1>1. pc[r] \in InLine /\ l.do = "wrap"
  BY DEF WrapHandle, InLine
<1>2. /\ l.to \in Names /\ l.persist \in BOOLEAN /\ Target(r) \in Thing /\ ThingOK(r, Target(r))
  BY <1>1, LineShape, Shapes, TargetThing DEF Own
<1>3. CASE Raise(r, {}) /\ UNCHANGED <<mpiVars, commVars>>
  BY <1>1, <1>3, RaiseAside DEF mpiVars
<1>4. CASE Misuse(r, c) /\ Raise(r, {}) /\ UNCHANGED commVars
  BY <1>1, <1>4, RaiseAside DEF Misuse
<1>5. CASE Rebind(r, l.to, CommObject(r, c, l.persist)) /\ Proceed(r, "next")
  <2>1. c = COMM_NULL \/ Belongs(r, c)
    BY <1>2 DEF ThingOK
  <2>. QED
    BY <1>1, <1>2, <1>5, <2>1, ConstructedThing, RebindAside
<1>. QED
  BY <1>3, <1>4, <1>5 DEF WrapHandle

LEMMA SetPersistentAside ==
    ASSUME LifeInv, LinesOK, CommInv, NEW r \in Ranks, SetPersistent(r)
    PROVE  Aside(r)
<1>. DEFINE l == Line(r)
            o == [object[r][l.on] EXCEPT !.persistent = l.persist]
<1>1. /\ pc[r] \in InLine /\ l.do = "persistent"
      /\ UNCHANGED <<mpiVars, pyMPI_COMM_WORLD, pyMPI_COMM_INPUT>>
  BY DEF SetPersistent, InLine
<1>2. CASE Raise(r, {}) /\ UNCHANGED object
  BY <1>1, <1>2, RaiseAside DEF mpiVars, commVars
<1>3. CASE comm_set_persistent(r, l.on, l.persist) /\ Proceed(r, "next")
  <2>1. l.on \in Names /\ l.persist \in BOOLEAN /\ Target(r) \in Thing /\ ThingOK(r, Target(r))
    BY <1>1, LineShape, Shapes, TargetThing
  <2>2. o \in Thing /\ ThingOK(r, o)
    BY <2>1 DEF Target, Thing, ThingOK, Belongs
  <2>3. object' = [object EXCEPT ![r][l.on] = o]
    BY <1>3 DEF comm_set_persistent
  <2>. HIDE DEF o
  <2>4. NewObjects(r)
    BY <2>1, <2>2, <2>3, OneObject
  <2>5. Turns(r) /\ pc'[r] = "next"
    BY <1>1, <1>3, ProceedTurns
  <2>6. Apart(r)
    BY <1>1, IdleApart DEF mpiVars, CommInv
  <2>. QED
    BY <1>1, <2>4, <2>5, <2>6 DEF Aside, MakeOK
<1>. QED
  BY <1>2, <1>3 DEF SetPersistent

LEMMA FreeCommAside ==
    ASSUME LifeInv, LinesOK, CommInv, NEW r \in Ranks, FreeComm(r)
    PROVE  Aside(r)
<1>. DEFINE l == Line(r)
            c == Target(r).handle
            o == [object[r][l.on] EXCEPT !.handle = IF Usable(r, c) THEN COMM_NULL ELSE @]
<1>1. pc[r] \in InLine /\ l.do = "free"
  BY DEF FreeComm, InLine
<1>2. CASE Raise(r, {}) /\ UNCHANGED <<mpiVars, commVars>>
  BY <1>1, <1>2, RaiseAside DEF mpiVars
<1>3. CASE /\ Call(r, "free", "next")
           /\ object' = [object EXCEPT ![r][l.on].handle = IF Usable(r, c) THEN COMM_NULL ELSE @]
           /\ UNCHANGED <<pyMPI_COMM_WORLD, pyMPI_COMM_INPUT>>
  <2>1. /\ l.on \in Names /\ Target(r) \in Thing /\ ThingOK(r, Target(r))
        /\ c # InputCopy /\ c # COMM_WORLD
    BY <1>1, LineShape, Shapes, TargetThing
  <2>2. o \in Thing /\ ThingOK(r, o)
    BY <2>1, Names4 DEF Target, Thing, ThingOK, Belongs
  <2>3. object' = [object EXCEPT ![r][l.on] = o]
    BY <1>3
  <2>. HIDE DEF o
  <2>4. NewObjects(r)
    BY <2>1, <2>2, <2>3, OneObject
  <2>5. Apart(r)
    BY <1>3, <2>1, CallApart, IdleApart DEF Call, Misuse, CommInv
  <2>6. Turns(r) /\ pc'[r] \in {"next", "leave"}
    BY <1>1, <1>3, ProceedTurns, RaiseTurns DEF Call
  <2>. QED
    BY <1>3, <2>4, <2>5, <2>6 DEF Aside, MakeOK
<1>. QED
  BY <1>2, <1>3 DEF FreeComm

-----------------------------------------------------------------------------
(***************************************************************************)
(* The input.  Rank 0's log tells where the others are: a line is a        *)
(* barrier and two broadcasts, of its size and of itself, an interrupt is  *)
(* a barrier and the broadcast of a size that says so.                     *)
(***************************************************************************)
Came      == Len(entered)
Begun(q)  == Len(executed[q])
Called(q) == Len(Log(q))
Recent(q) == Log(q)[Called(q)]      \* q's latest call

InStep(q) == Begun(q) <= Came /\ \A i \in 1..Begun(q) : executed[q][i] = entered[i]

\* The calls that the first n lines take, of every rank
Breaks(n) == Cardinality({i \in 1..n : entered[i] = Interrupt})
Asked(n)  == 3 * n - Breaks(n)

Cast(what) == [op |-> "bcast", data |-> <<what>>]

MasterReads ==
    /\ pc[0] \in Booting => Came = 0
    /\ pc[0] \in Booting \cup {"next", "read:barrier"} \cup InLine => Begun(0) = Came
    /\ pc[0] \in {"read:size", "read:line"} => Begun(0) + 1 = Came
    /\ pc[0] = "read:barrier" => Recent(0).op = "barrier" /\ mpi[0] \in {"on", "killed"}
    /\ pc[0] = "read:size" => Recent(0) = Cast(Size(entered[Came]))
    /\ pc[0] = "read:line" => entered[Came] # Interrupt /\ Recent(0) = Cast(entered[Came])

\* The broadcasts of line j + 1, as far as there are any, bring its size and it.
Brought(j) ==
    /\ Asked(j) + 2 <= Called(0) => Log(0)[Asked(j) + 2] = Cast(Size(entered[j + 1]))
    /\ entered[j + 1] # Interrupt /\ Asked(j) + 3 <= Called(0) =>
           Log(0)[Asked(j) + 3] = Cast(entered[j + 1])

LinesSent == \A j \in 0..(Came - 1) : Brought(j)

\* As long as rank 0 has the job, it has made the calls of every line.
MasterCalls ==
    /\ pc[0] \in Booting => Called(0) = 0
    /\ pc[0] \in {"next", "leave", "fini:readline"} \cup InLine =>
           Called(0) <= Asked(Came) /\ (Ready(0) => Called(0) = Asked(Came))
    /\ pc[0] = "read:barrier" => Called(0) = Asked(Came) + 1
    /\ pc[0] = "read:size" => Called(0) = Asked(Came - 1) + 2
    /\ pc[0] = "read:line" => Called(0) = Asked(Came - 1) + 3
    /\ Called(0) <= Asked(Came) + 1
    /\ LinesSent

\* There is a line for q that is no interrupt.
HasLine(q) == Begun(q) < Came /\ entered[Begun(q) + 1] # Interrupt

\* A slave that leaves has had all of its lines' calls, and of the last one's.
Left(q, k) ==
    \/ k = Asked(Begun(q))
    \/ k = Asked(Begun(q)) + 3 /\ HasLine(q) /\ k <= Called(0)

\* q has had the size of a line and made k of the line's calls.  Instead of the
\* one for the line itself it may call the barrier, in want of memory.
Sized(q, k) == Called(q) = Asked(Begun(q)) + k /\ HasLine(q) /\ Asked(Begun(q)) + 2 <= Called(0)

SlaveCalls(q) ==
    /\ pc[q] \in Booting => Called(q) = 0 /\ Begun(q) = 0
    /\ pc[q] \in {"dead"} \cup InLine => Called(q) = Asked(Begun(q))
    /\ pc[q] = "next" => Called(q) = Asked(Begun(q)) \/ Sized(q, 2)
    /\ pc[q] = "read:barrier" =>
           Recent(q).op = "barrier" /\ (Called(q) = Asked(Begun(q)) + 1 \/ Sized(q, 3))
    /\ pc[q] = "read:size" => Called(q) = Asked(Begun(q)) + 2 /\ Recent(q).op = "bcast"
    /\ pc[q] = "read:line" => Sized(q, 3) /\ Recent(q).op = "bcast"
    /\ pc[q] \in {"leave", "fini:readline"} => Left(q, Called(q))
    /\ pc[q] \in Over => Left(q, Called(q)) \/ (Recent(q).op = "free" /\ Left(q, Called(q) - 1))

\* q has made the calls of the next line, up to its size at most.
StuckSlave(q) ==
    /\ Begun(q) = Came
    /\ \/ pc[q] = "read:barrier" /\ Called(q) = Asked(Came) + 1
       \/ pc[q] = "read:size" /\ Called(q) = Asked(Came) + 2 /\ Recent(q).op = "bcast"

\* The master has given up between the barrier and the broadcast that the
\* slaves are at, and then calls what they do not.
Stuck ==
    /\ \/ pc[0] = "next" /\ mpi[0] \in {"on", "killed"} /\ Called(0) = Asked(Came) + 1
       \/ pc[0] = "read:barrier" /\ Called(0) = Asked(Came) + 2
    /\ \A q \in Ranks \ {0} : StuckSlave(q)

StreamTypes ==
    /\ entered \in Seq(AllLines) /\ LinesOK
    /\ mode = "script" => \A q \in Ranks : pc[q] \notin {"read:barrier", "read:size", "read:line"}

InputOK ==
    /\ \A q \in Ranks : InStep(q)
    /\ MasterReads
    /\ "argument" \notin faults => MasterCalls /\ \A q \in Ranks \ {0} : SlaveCalls(q)
    /\ "argument" \in faults => mode = "feeder" /\ (Ranks = {0} \/ Stuck)

StreamInv == StreamTypes /\ (mode # "script" => InputOK)

LEMMA CommandAside ==
    ASSUME LifeInv, LinesOK, CommInv, NEW r \in Ranks, NEW early \in BOOLEAN, Command(r, early)
    PROVE  Aside(r)
<1>. USE DEF InLine, Late
<1>1. CASE UserRaises(r)
  BY <1>1, RaiseTurns, ProceedTurns, PlainAside DEF UserRaises, mpiVars
<1>2. CASE Finalize(r)
  <2>1. CASE Raise(r, {}) /\ UNCHANGED mpiVars
    BY <1>2, <2>1, RaiseTurns, PlainAside DEF Finalize, mpiVars
  <2>2. CASE MPI_Finalize(r) /\ Proceed(r, "finalizing")
    BY <1>2, <2>2, ProceedTurns, PlainAside DEF Finalize, MPI_Finalize
  <2>. QED
    BY <1>2, <2>1, <2>2 DEF Finalize
<1>3. CASE FinalizeDone(r, early)
  BY <1>3, ProceedTurns, PlainAside DEF FinalizeDone, FinalizeReturns
<1>4. CASE SystemExit(r)
  <2>1. PICK where \in {"next", "leave"} : Proceed(r, where)
    BY <1>4 DEF SystemExit
  <2>. QED
    BY <1>4, <2>1, ProceedTurns, PlainAside DEF SystemExit, mpiVars
<1>5. CASE AbortJob(r)
  <2>1. CASE Raise(r, {}) /\ UNCHANGED mpiVars
    BY <1>5, <2>1, RaiseTurns, PlainAside DEF AbortJob, mpiVars
  <2>2. CASE Proceed(r, "gone") /\ UNCHANGED <<group, calls, freed>>
    BY <1>5, <2>2, ProceedTurns, PlainAside DEF AbortJob
  <2>. QED
    BY <1>5, <2>1, <2>2 DEF AbortJob
<1>6. CASE fatal_signal(r)
  BY <1>6, ProceedTurns, PlainAside DEF fatal_signal
<1>7. CASE Delete(r)
  <2>1. pc[r] \in InLine /\ Line(r).do = "del" /\ Rebind(r, Line(r).on, None) /\ Proceed(r, "next")
    BY <1>7 DEF Delete
  <2>2. Line(r).on \in Names
    BY <2>1, LineShape, Shapes
  <2>. QED
    BY <2>1, <2>2, NoneThing, RebindAside
<1>. QED
  BY <1>1, <1>2, <1>3, <1>4, <1>5, <1>6, <1>7, MakeCommAside, CommMadeAside, CommBoundAside,
     WrapHandleAside, SetPersistentAside, FreeCommAside DEF Command

LEMMA LeaveAside ==
    ASSUME LifeInv, LinesOK, CommInv, NEW r \in Ranks, NEW early \in BOOLEAN,
           Destroy(r) \/ sysmods_fini(r) \/ AtEnd(r) \/ EndFinalized(r, early)
    PROVE  Aside(r)
<1>1. CASE Destroy(r)
  <2>1. PICK name \in Names : Rebind(r, name, None)
    BY <1>1 DEF Destroy
  <2>2. Apart(r) /\ NewObjects(r) /\ UNCHANGED <<pyMPI_COMM_WORLD, pyMPI_COMM_INPUT>>
    BY <1>1, <2>1, NoneThing, RebindApart DEF Destroy, Inside
  <2>3. Turns(r) /\ pc'[r] = "leave"
    BY <1>1 DEF Destroy, Turns, readVars, jobVars
  <2>. QED
    BY <2>2, <2>3 DEF Aside, MakeOK
<1>2. CASE sysmods_fini(r)
  <2>1. PICK where \in {"fini:finalizing", "end"} : Proceed(r, where)
    BY <1>2 DEF sysmods_fini
  <2>2. UNCHANGED <<group, calls, freed, commVars>>
    BY <1>2 DEF sysmods_fini, MPI_Finalize, mpiVars
  <2>. QED
    BY <1>2, <2>1, <2>2, ProceedTurns, PlainAside DEF sysmods_fini, Over, Late
<1>3. CASE AtEnd(r)
  <2>1. PICK where \in {"end:finalizing", "gone"} : Proceed(r, where)
    BY <1>3 DEF AtEnd
  <2>2. UNCHANGED <<group, calls, freed, commVars>>
    BY <1>3 DEF AtEnd, MPI_Finalize, mpiVars
  <2>. QED
    BY <1>3, <2>1, <2>2, ProceedTurns, PlainAside DEF AtEnd, Over, Late
<1>4. CASE EndFinalized(r, early)
  <2>1. PICK where \in {"end", "gone"} : Proceed(r, where)
    BY <1>4 DEF EndFinalized
  <2>2. UNCHANGED <<group, calls, freed, commVars>>
    BY <1>4 DEF EndFinalized, FinalizeReturns
  <2>. QED
    BY <1>4, <2>1, <2>2, ProceedTurns, PlainAside DEF EndFinalized, Over, Late
<1>. QED
  BY <1>1, <1>2, <1>3, <1>4

-----------------------------------------------------------------------------
(***************************************************************************)
(* The first steps and the last ones, which change pyMPI's own handles.    *)
(***************************************************************************)
\* A step of r that leaves the program, the lines and the log of the input
Elsewhere(r) ==
    /\ \A q \in Ranks \ {r} : pc'[q] = pc[q]
    /\ UNCHANGED <<mode, entered, executed, faults>>
    /\ \A q \in Ranks : Log(q)' = Log(q)

LEMMA GotoMine ==
    ASSUME LifeInv, NEW r \in Ranks, NEW where, Goto(r, where)
    PROVE  pc'[r] = where /\ \A q \in Ranks \ {r} : pc'[q] = pc[q]
BY DEF Goto, LifeInv, Types

LEMMA InitializeComms ==
    ASSUME LifeInv, CommInv, NEW r \in Ranks, Initialize(r)
    PROVE  CommInv' /\ Elsewhere(r) /\ pc'[r] = "init"
<1>1. /\ pc[r] = "start" /\ Goto(r, "init") /\ UNCHANGED <<group, calls, freed>>
      /\ UNCHANGED <<commVars, readVars>>
  BY DEF Initialize, MPI_Init
<1>2. pc'[r] = "init" /\ \A q \in Ranks \ {r} : pc'[q] = pc[q]
  BY <1>1, GotoMine
<1>3. Apart(r)
  BY <1>1, IdleApart DEF CommInv
<1>4. HandleTypes' /\ RankComms(r)
  BY <1>1 DEF CommInv, HandleTypes, commVars
<1>5. HandlesOK(r)' /\ TurnOK(r)' /\ FreedOK(r)' /\ MakeOK(r)'
  BY <1>1, <1>2, <1>4 DEF RankComms, HandlesOK, TurnOK, FreedOK, MakeOK, Booting, Over, Late, Turn, commVars
<1>6. \A name \in Names : ThingOK(r, object[r][name])'
  BY <1>1, <1>4 DEF RankComms, ThingOK, Belongs, Members, commVars
<1>7. RankComms(r)' /\ OnlyMine(r)
  BY <1>1, <1>2, <1>5, <1>6 DEF RankComms, OnlyMine, commVars, readVars
<1>. QED
  BY <1>1, <1>2, <1>3, <1>4, <1>7, MineKeeps DEF Apart, Elsewhere, readVars, jobVars

LEMMA DupWorldComms ==
    ASSUME LifeInv, CommInv, NEW r \in Ranks, DupWorld(r)
    PROVE  CommInv' /\ Elsewhere(r) /\ pc[r] \in Booting /\ pc'[r] \in Booting
<1>1. PICK where \in {"init:dup", "init:dupInput"} :
          /\ Goto(r, where)
          /\ pc[r] = IF where = "init:dup" THEN "init" ELSE "initComm"
  BY DEF DupWorld
<1>2. Enter(r, COMM_WORLD, "dup", <<>>) /\ UNCHANGED <<commVars, readVars>>
  BY DEF DupWorld
<1>3. pc'[r] = where /\ \A q \in Ranks \ {r} : pc'[q] = pc[q]
  BY <1>1, GotoMine
<1>4. Apart(r) /\ UNCHANGED group
  BY <1>2, Names4, CallApart DEF CommInv
<1>5. Turn(r, COMM_WORLD)' = Turn(r, COMM_WORLD) + 1 /\ freed'[r] = freed[r]
  <2>1. EnteredBy(r, COMM_WORLD, "dup", <<>>)
    BY <1>2, Entered DEF CommInv
  <2>. QED
    BY <2>1 DEF EnteredBy, Turn
<1>6. HandleTypes' /\ RankComms(r)
  BY <1>2 DEF CommInv, HandleTypes, commVars
<1>7. HandlesOK(r)'
  BY <1>1, <1>2, <1>3, <1>4, <1>6 DEF RankComms, HandlesOK, Booting, Over, Late, commVars
<1>8. TurnOK(r)'
  BY <1>1, <1>3, <1>5, <1>6 DEF RankComms, TurnOK
<1>9. FreedOK(r)' /\ MakeOK(r)'
  BY <1>1, <1>3, <1>5, <1>6 DEF RankComms, FreedOK, MakeOK, Over, Late
<1>10. \A name \in Names : ThingOK(r, object[r][name])'
  BY <1>2, <1>4, <1>6 DEF RankComms, ThingOK, Belongs, Members, commVars
<1>11. RankComms(r)' /\ OnlyMine(r)
  BY <1>2, <1>3, <1>7, <1>8, <1>9, <1>10 DEF RankComms, OnlyMine, commVars, readVars
<1>. QED
  BY <1>1, <1>2, <1>3, <1>4, <1>6, <1>11, MineKeeps DEF Apart, Elsewhere, readVars, jobVars, Booting

LEMMA WorldDoneComms ==
    ASSUME LifeInv, CommInv, NEW r \in Ranks, WorldDone(r)
    PROVE  CommInv' /\ Elsewhere(r) /\ pc[r] \in Booting /\ pc'[r] \in {"initComm", "next"}
<1>. DEFINE new == NewComm(r, COMM_WORLD)
<1>1. /\ pc[r] \in {"init:dup", "init:dupInput"} /\ Create(new, group[COMM_WORLD]) /\ UNCHANGED readVars
  BY DEF WorldDone
<1>2. CommsOK /\ HandleTypes /\ RankComms(r)
  BY DEF CommInv
<1>3. new = IF pc[r] = "init:dup" THEN WorldCopy ELSE InputCopy
  BY <1>1, <1>2, NewName DEF RankComms, TurnOK, NewComm, COMM_WORLD, WorldCopy, InputCopy
<1>4. group[COMM_WORLD] = AllRanks /\ new \in Seq(Nat) \ {COMM_NULL}
  BY <1>2, <1>3, Names4 DEF CommsOK
<1>. HIDE DEF new
<1>5. Apart(r) /\ new \in DOMAIN group' /\ Kept(r) /\ freed' = freed
  BY <1>1, <1>2, <1>4, Everybody, CreateApart
<1>6. Turn(r, COMM_WORLD)' = Turn(r, COMM_WORLD)
  BY <1>2, <1>5 DEF CommsOK, Kept, Turn
<1>7. CASE pc[r] = "init:dup"
  <2>1. /\ pyMPI_COMM_WORLD' = [pyMPI_COMM_WORLD EXCEPT ![r] = WorldCopy] /\ Goto(r, "initComm")
        /\ UNCHANGED <<object, pyMPI_COMM_INPUT>>
    BY <1>3, <1>7 DEF WorldDone, new
  <2>2. pc'[r] = "initComm" /\ \A q \in Ranks \ {r} : pc'[q] = pc[q]
    BY <2>1, GotoMine
  <2>3. HandleTypes' /\ pyMPI_COMM_WORLD'[r] = WorldCopy
        /\ \A q \in Ranks \ {r} : pyMPI_COMM_WORLD'[q] = pyMPI_COMM_WORLD[q]
    BY <1>2, <2>1 DEF HandleTypes
  <2>4. HandlesOK(r)'
    BY <1>2, <1>3, <1>5, <1>7, <2>1, <2>2, <2>3 DEF RankComms, HandlesOK, Booting, Apart, Beside, Grown
  <2>5. TurnOK(r)' /\ FreedOK(r)' /\ MakeOK(r)'
    BY <1>2, <1>5, <1>6, <1>7, <2>2 DEF RankComms, TurnOK, FreedOK, MakeOK, Over, Late
  <2>6. \A name \in Names : ThingOK(r, object[r][name])'
    BY <1>2, <1>5, <2>1, ThingStays DEF RankComms, Apart, Beside
  <2>7. RankComms(r)' /\ OnlyMine(r)
    BY <1>1, <2>1, <2>2, <2>3, <2>4, <2>5, <2>6 DEF RankComms, OnlyMine, readVars
  <2>. QED
    BY <1>1, <1>5, <1>7, <2>2, <2>3, <2>7, MineKeeps DEF Apart, Elsewhere, readVars, jobVars, Booting
<1>8. CASE pc[r] = "init:dupInput"
  <2>. DEFINE o == pyMPI_comm(r, pyMPI_COMM_WORLD[r])
  <2>1. /\ pyMPI_COMM_INPUT' = [pyMPI_COMM_INPUT EXCEPT ![r] = InputCopy] /\ Goto(r, "next")
        /\ object' = [object EXCEPT ![r]["WORLD"] = o]
        /\ UNCHANGED <<pyMPI_COMM_WORLD>>
    BY <1>3, <1>8 DEF WorldDone, new
  <2>2. pc'[r] = "next" /\ \A q \in Ranks \ {r} : pc'[q] = pc[q]
    BY <2>1, GotoMine
  <2>3. pyMPI_COMM_WORLD[r] = WorldCopy /\ WorldCopy \in DOMAIN group
    BY <1>2, <1>8 DEF RankComms, HandlesOK, Over, Late
  <2>4. Belongs(r, WorldCopy)
    BY <1>2, <2>3, Names4, Everybody DEF Belongs, CommsOK, Members
  <2>5. o \in Thing /\ ThingOK(r, o)
    BY <2>3, <2>4, ConstructedThing DEF pyMPI_comm
  <2>. HIDE DEF o
  <2>6. NewObjects(r)
    BY <2>1, <2>5, OneObject DEF Names
  <2>7. HandleTypes' /\ pyMPI_COMM_INPUT'[r] = InputCopy
        /\ \A q \in Ranks \ {r} : pyMPI_COMM_INPUT'[q] = pyMPI_COMM_INPUT[q]
    BY <1>2, <2>1, <2>6 DEF HandleTypes, NewObjects
  <2>8. HandlesOK(r)'
    BY <1>2, <1>3, <1>5, <1>8, <2>1, <2>2, <2>3, <2>7 DEF RankComms, HandlesOK, Booting, Apart, Beside, Grown
  <2>9. TurnOK(r)' /\ FreedOK(r)' /\ MakeOK(r)'
    BY <1>2, <1>5, <1>6, <1>8, <2>2 DEF RankComms, TurnOK, FreedOK, MakeOK, Over, Late
  <2>10. \A name \in Names : ThingOK(r, object[r][name])'
    BY <1>2, <1>5, <2>6, ThingStays DEF NewObjects, Apart, Beside
  <2>11. RankComms(r)' /\ OnlyMine(r)
    BY <1>1, <2>1, <2>2, <2>6, <2>7, <2>8, <2>9, <2>10 DEF RankComms, OnlyMine, NewObjects, readVars
  <2>. QED
    BY <1>1, <1>5, <1>8, <2>2, <2>7, <2>11, MineKeeps DEF Apart, Elsewhere, readVars, jobVars, Booting
<1>. QED
  BY <1>1, <1>7, <1>8

\* Once MPI is initialized, it does not get ready again.
Fades(r) ==
    /\ \A q \in Ranks : Ready(q)' => Ready(q)
    /\ \A q \in Ranks \ {r} : mpi'[q] \in {mpi[q], "killed"}
    /\ \A q \in Ranks : finalizes'[q] >= finalizes[q]

LEMMA UsedFades ==
    ASSUME LifeInv, NEW r \in Ranks, MPIUsed(r)
    PROVE  Fades(r) /\ finalizes' = finalizes
<1>1. /\ \A q \in Ranks : mpi'[q] \in {mpi[q], "killed"}
      /\ finalizes' = finalizes
  BY UsedTypes
<1>2. finalizes \in [Ranks -> Nat]
  BY DEF LifeInv, Types
<1>. QED
  BY <1>1, <1>2 DEF Fades, Ready

LEMMA FinalizeFades ==
    ASSUME LifeInv, NEW r \in Ranks, Alive(r), MPI_Finalize(r)
    PROVE  Fades(r)
<1>1. finalizes \in [Ranks -> Nat]
  BY DEF LifeInv, Types
<1>2. /\ \A q \in Ranks \ {r} : mpi'[q] \in {mpi[q], "killed"}
      /\ IF Ready(r) THEN mpi'[r] = "finalizing" ELSE mpi'[r] \in {mpi[r], "killed"}
      /\ finalizes'[r] = finalizes[r] + 1
      /\ \A q \in Ranks \ {r} : finalizes'[q] = finalizes[q]
  BY FinalizeCalled
<1>. QED
  BY <1>1, <1>2 DEF Fades, Ready

LEMMA ReturnFades ==
    ASSUME LifeInv, NEW r \in Ranks, NEW early \in BOOLEAN, FinalizeReturns(r, early)
    PROVE  Fades(r)
BY DEF FinalizeReturns, Fades, Ready, LifeInv, Types

LEMMA StepFades ==
    ASSUME LifeInv, NEW r \in Ranks, NEW early \in BOOLEAN, Step(r, early), ~Initialize(r)
    PROVE  Fades(r)
<1>. Alive(r)
  BY DEF Step
<1>1. CASE Boot(r)
  BY <1>1, BootQuiet, UsedFades DEF Boot, Quiet
<1>2. CASE Read(r, early)
  <2>1. CASE \/ EnterReadline(r) \/ FeedBadArgument(r) \/ AwaitSize(r) \/ SlaveNoMemory(r)
             \/ \E l \in AllLines : ReadLine(r, l)
    BY <1>2, <2>1, ReadQuiet, UsedFades DEF Read, Quiet
  <2>2. CASE \/ SizeDone(r, early) \/ LineDone(r, early)
             \/ \E l \in AllLines : FinalizedReadline(r, l) \/ ReadScript(r, l)
    <3>1. UNCHANGED <<mpi, finalizes>>
      BY <2>2 DEF SizeDone, LineDone, FinalizedReadline, ReadScript, mpiVars, Enter
    <3>. QED
      BY <3>1 DEF Fades, Ready, LifeInv, Types
  <2>. QED
    BY <1>2, <2>1, <2>2 DEF Read
<1>3. CASE Output(r, early)
  BY <1>3, OutputQuiet, UsedFades DEF Quiet
<1>4. CASE Command(r, early)
  <2>1. CASE \/ UserRaises(r) \/ MakeComm(r) \/ CommMade(r) \/ CommBound(r) \/ WrapHandle(r)
             \/ SetPersistent(r) \/ Delete(r) \/ FreeComm(r)
    BY <2>1, CommandQuiet, UsedFades DEF Quiet
  <2>2. CASE Finalize(r)
    BY <2>2, FinalizeFades, Unused, UsedFades DEF Finalize
  <2>3. CASE FinalizeDone(r, early)
    BY <2>3, ReturnFades DEF FinalizeDone
  <2>4. CASE SystemExit(r)
    BY <2>4, Unused, UsedFades DEF SystemExit
  <2>5. CASE AbortJob(r)
    BY <2>5, Unused, UsedFades DEF AbortJob, MPIUsed
  <2>6. CASE fatal_signal(r)
    BY <2>6, UsedFades DEF fatal_signal, MPIUsed
  <2>. QED
    BY <1>4, <2>1, <2>2, <2>3, <2>4, <2>5, <2>6 DEF Command
<1>5. CASE Leave(r, early)
  <2>1. CASE Destroy(r) \/ last_wish(r) \/ readline_fini(r)
    BY <2>1, LeaveQuiet, UsedFades DEF Quiet
  <2>2. CASE sysmods_fini(r)
    BY <2>2, FinalizeFades, Unused, UsedFades DEF sysmods_fini
  <2>3. CASE AtEnd(r)
    BY <2>3, FinalizeFades, Unused, UsedFades DEF AtEnd
  <2>4. CASE EndFinalized(r, early)
    BY <2>4, ReturnFades DEF EndFinalized
  <2>. QED
    BY <1>5, <2>1, <2>2, <2>3, <2>4 DEF Leave
<1>. QED
  BY <1>1, <1>2, <1>3, <1>4, <1>5 DEF Step

-----------------------------------------------------------------------------
\* A call of r on the communicator of the input
Logged(r, op, data) ==
    /\ \A q \in Ranks \ {r} : Log(q)' = Log(q)
    /\ Called(r) \in Nat /\ Called(r)' = Called(r) + 1
    /\ Recent(r)' = [op |-> op, data |-> data]
    /\ \A k \in 1..Called(r) : Log(r)'[k] = Log(r)[k]

LEMMA InputCalled ==
    ASSUME CommInv, NEW r \in Ranks, NEW op, NEW data, Enter(r, InputCopy, op, data)
    PROVE  /\ Beside(r) /\ UNCHANGED group /\ Logged(r, op, data) /\ Ready(r)
           /\ op # "free" => freed'[r] = freed[r]
           /\ op = "free" => freed'[r] = freed[r] \cup {InputCopy}
<1>0. CommsOK' /\ Grown /\ EnteredBy(r, InputCopy, op, data) /\ DOMAIN group \subseteq Seq(Nat)
  BY Entered DEF CommInv, CommsOK
<1>1. \A q \in Ranks \ {r} : Kept(q)
  BY <1>0 DEF Kept, EnteredBy
<1>2. \A q \in Ranks : Log(q) = calls[InputCopy][q] /\ Log(q)' = calls'[InputCopy][q]
  BY <1>0 DEF EnteredBy, Log
<1>3. /\ \A q \in Ranks \ {r} : calls'[InputCopy][q] = calls[InputCopy][q]
      /\ Len(calls[InputCopy][r]) \in Nat /\ Len(calls'[InputCopy][r]) = Len(calls[InputCopy][r]) + 1
      /\ calls'[InputCopy][r][Len(calls[InputCopy][r]) + 1] = [op |-> op, data |-> data]
      /\ \A k \in 1..Len(calls[InputCopy][r]) : calls'[InputCopy][r][k] = calls[InputCopy][r][k]
  BY <1>0 DEF EnteredBy
<1>4. Logged(r, op, data)
  BY Zenon, <1>2, <1>3 DEF Logged, Called, Recent
<1>. QED
  BY <1>0, <1>1, <1>4 DEF Beside, EnteredBy

LEMMA LastWishComms ==
    ASSUME LifeInv, CommInv, NEW r \in Ranks, last_wish(r)
    PROVE  CommInv' /\ Turns(r) /\ UNCHANGED executed /\ \A q \in Ranks : Log(q)' = Log(q)
<1>1. /\ pc[r] = "leave" /\ Proceed(r, "fini:readline") /\ Release(r, pyMPI_COMM_WORLD[r])
      /\ pyMPI_COMM_WORLD' = [pyMPI_COMM_WORLD EXCEPT ![r] = COMM_NULL]
      /\ UNCHANGED <<object, pyMPI_COMM_INPUT, readVars>>
  BY DEF last_wish, Proceed
<1>2. pc'[r] = "fini:readline" /\ \A q \in Ranks \ {r} : pc'[q] = pc[q]
  BY <1>1, GotoMine DEF Proceed
<1>3. CommsOK /\ HandleTypes /\ RankComms(r)
  BY DEF CommInv
<1>4. Apart(r) /\ UNCHANGED group
  <2>1. CASE UNCHANGED <<group, calls, freed>>
    BY <1>3, <2>1, IdleApart
  <2>2. CASE Enter(r, pyMPI_COMM_WORLD[r], "free", <<>>)
    BY <1>1, <1>3, <2>2, CallApart, Names4 DEF HandleTypes
  <2>. QED
    BY <1>1, <2>1, <2>2 DEF Release, mpiVars, Misuse
<1>5. HandleTypes' /\ \A q \in Ranks \ {r} : pyMPI_COMM_WORLD'[q] = pyMPI_COMM_WORLD[q]
  BY <1>1, <1>3 DEF HandleTypes
<1>6. pyMPI_COMM_WORLD'[r] = COMM_NULL
  BY <1>1, <1>3 DEF HandleTypes
<1>7. HandlesOK(r)'
  BY <1>1, <1>2, <1>3, <1>4, <1>6, Names4 DEF RankComms, HandlesOK, Booting, Over, Late
<1>8. TurnOK(r)' /\ FreedOK(r)' /\ MakeOK(r)'
  BY <1>1, <1>2, <1>3, <1>4 DEF RankComms, TurnOK, FreedOK, MakeOK, Apart, Over, Late
<1>9. \A name \in Names : ThingOK(r, object[r][name])'
  BY <1>1, <1>3, <1>4, ThingStays DEF RankComms, Apart, Beside
<1>10. RankComms(r)' /\ OnlyMine(r)
  BY <1>1, <1>2, <1>5, <1>7, <1>8, <1>9 DEF RankComms, OnlyMine, readVars
<1>11. Turns(r)
  BY <1>1, <1>2 DEF Turns, readVars, jobVars
<1>. QED
  BY <1>1, <1>4, <1>5, <1>10, <1>11, MineKeeps DEF Apart, readVars

LEMMA ReadlineFiniComms ==
    ASSUME LifeInv, CommInv, NEW r \in Ranks, readline_fini(r)
    PROVE  /\ CommInv' /\ pc[r] = "fini:readline" /\ pc'[r] = "fini:sysmods"
           /\ \A q \in Ranks \ {r} : pc'[q] = pc[q]
           /\ UNCHANGED <<mode, entered, executed, faults>>
           /\ (\A q \in Ranks : Log(q)' = Log(q)) \/ (Logged(r, "free", <<>>) /\ Ready(r))
<1>1. /\ pc[r] = "fini:readline" /\ Proceed(r, "fini:sysmods") /\ Release(r, pyMPI_COMM_INPUT[r])
      /\ pyMPI_COMM_INPUT' = [pyMPI_COMM_INPUT EXCEPT ![r] = COMM_NULL]
      /\ UNCHANGED <<object, pyMPI_COMM_WORLD, readVars>>
  BY DEF readline_fini, Proceed
<1>2. pc'[r] = "fini:sysmods" /\ \A q \in Ranks \ {r} : pc'[q] = pc[q]
  BY <1>1, GotoMine DEF Proceed
<1>3. CommsOK /\ HandleTypes /\ RankComms(r)
  BY DEF CommInv
<1>4. pyMPI_COMM_INPUT[r] = InputCopy
  BY <1>1, <1>3 DEF RankComms, HandlesOK, Booting, Over, Late
<1>5. /\ Beside(r) /\ UNCHANGED group /\ freed'[r] \subseteq freed[r] \cup {InputCopy}
      /\ (\A q \in Ranks : Log(q)' = Log(q)) \/ (Logged(r, "free", <<>>) /\ Ready(r))
  <2>1. CASE UNCHANGED <<group, calls, freed>>
    BY <1>3, <2>1, IdleApart DEF Apart
  <2>2. CASE Enter(r, InputCopy, "free", <<>>)
    BY <2>2, InputCalled
  <2>. QED
    BY <1>1, <1>4, <2>1, <2>2 DEF Release, mpiVars, Misuse
<1>6. /\ HandleTypes' /\ pyMPI_COMM_INPUT'[r] = COMM_NULL
      /\ \A q \in Ranks \ {r} : pyMPI_COMM_INPUT'[q] = pyMPI_COMM_INPUT[q]
  BY <1>1, <1>3 DEF HandleTypes
<1>7. HandlesOK(r)'
  BY <1>1, <1>2, <1>3, <1>5, <1>6, Names4 DEF RankComms, HandlesOK, Booting, Over, Late
<1>8. TurnOK(r)' /\ FreedOK(r)' /\ MakeOK(r)'
  BY <1>1, <1>2, <1>3, <1>5, Names4 DEF RankComms, TurnOK, FreedOK, MakeOK, Over, Late
<1>9. \A name \in Names : ThingOK(r, object[r][name])'
  BY <1>1, <1>3, <1>5, ThingStays DEF RankComms, Beside
<1>10. RankComms(r)' /\ OnlyMine(r)
  BY <1>1, <1>2, <1>6, <1>7, <1>8, <1>9 DEF RankComms, OnlyMine, readVars
<1>. QED
  BY <1>1, <1>2, <1>5, <1>6, <1>10, MineKeeps DEF readVars, jobVars

\* A step of r's readline: where it goes, and what r calls
Reads(r) ==
    /\ \A q \in Ranks \ {r} : pc'[q] = pc[q] /\ executed'[q] = executed[q]
    /\ pc[r] \in Reading /\ pc'[r] \in Reading \cup {"run", "leave"}
    /\ UNCHANGED commVars

LEMMA ReadComms ==
    ASSUME CommInv, NEW r \in Ranks, Reads(r), Beside(r), UNCHANGED group, freed'[r] = freed[r]
    PROVE  CommInv'
<1>1. /\ UNCHANGED <<object, pyMPI_COMM_WORLD, pyMPI_COMM_INPUT>> /\ OnlyMine(r)
      /\ pc[r] \in Reading /\ pc'[r] \in Reading \cup {"run", "leave"}
  BY DEF Reads, commVars, OnlyMine
<1>2. CommsOK /\ HandleTypes /\ RankComms(r)
  BY DEF CommInv
<1>3. HandleTypes' /\ HandlesOK(r)'
  BY <1>1, <1>2 DEF HandleTypes, RankComms, HandlesOK, Reading, Booting, Over, Late
<1>4. TurnOK(r)' /\ FreedOK(r)' /\ MakeOK(r)'
  BY <1>1, <1>2 DEF RankComms, TurnOK, FreedOK, MakeOK, Over, Late, Reading
<1>5. \A name \in Names : ThingOK(r, object[r][name])'
  BY <1>1, <1>2, ThingStays DEF RankComms, Beside
<1>6. RankComms(r)'
  BY <1>3, <1>4, <1>5 DEF RankComms
<1>. QED
  BY <1>1, <1>3, <1>6, MineKeeps

LEMMA SilentComms ==
    ASSUME CommInv, NEW r \in Ranks, Reads(r), UNCHANGED <<group, calls, freed>>
    PROVE  CommInv' /\ \A q \in Ranks : Log(q)' = Log(q)
BY IdleApart, ReadComms DEF Apart, CommInv

LEMMA CallingComms ==
    ASSUME CommInv, NEW r \in Ranks, Reads(r), NEW op, NEW data, op # "free",
           Enter(r, InputCopy, op, data)
    PROVE  CommInv' /\ Logged(r, op, data) /\ Ready(r)
BY InputCalled, ReadComms

LEMMA Counts ==
    ASSUME CommInv, StreamInv, NEW q \in Ranks
    PROVE  Called(q) \in Nat /\ Begun(q) \in Nat /\ Came \in Nat
<1>1. Called(q) \in Nat
  <2>1. PICK T : \A c \in DOMAIN group : calls[c] \in [Ranks -> Seq(T)]
    BY DEF CommInv, CommsOK
  <2>2. Log(q) \in Seq(T)
    BY <2>1 DEF Log
  <2>. QED
    BY <2>2, LenProperties DEF Called
<1>2. Begun(q) \in Nat /\ Came \in Nat
  BY LenProperties DEF StreamInv, StreamTypes, LinesOK, Begun, Came
<1>. QED
  BY <1>1, <1>2

\* What is entered stays so.
Keeps == Came <= Came' /\ Came' \in Int /\ \A i \in 1..Came : entered'[i] = entered[i]

LEMMA NothingNew ==
    ASSUME CommInv, StreamInv, UNCHANGED entered
    PROVE  Keeps /\ Came' = Came
BY Counts, Everybody DEF Keeps, Came

\* The calls that lines take
LEMMA BreaksType == ASSUME NEW n \in Nat PROVE Breaks(n) \in Nat /\ Breaks(n) <= n
<1>1. IsFiniteSet(1..n) /\ Cardinality(1..n) = n
  BY FS_Interval
<1>. QED
  BY <1>1, FS_Subset, FS_CardinalityType DEF Breaks

LEMMA AskedType == ASSUME NEW n \in Nat PROVE Asked(n) \in Nat
BY BreaksType DEF Asked

LEMMA AskedNone == Asked(0) = 0
BY BreaksType DEF Asked

LEMMA AskedNext ==
    ASSUME NEW n \in Nat
    PROVE  Asked(n + 1) = IF entered[n + 1] = Interrupt THEN Asked(n) + 2 ELSE Asked(n) + 3
<1>. DEFINE S(m) == {i \in 1..m : entered[i] = Interrupt}
<1>1. IsFiniteSet(1..n) /\ S(n) \in SUBSET (1..n) /\ n + 1 \notin S(n)
  BY FS_Interval
<1>2. S(n + 1) = IF entered[n + 1] = Interrupt THEN S(n) \cup {n + 1} ELSE S(n)
  OBVIOUS
<1>3. Breaks(n) = Cardinality(S(n)) /\ Breaks(n + 1) = Cardinality(S(n + 1))
  BY DEF Breaks
<1>. HIDE DEF S
<1>4. IsFiniteSet(S(n))
  BY <1>1, FS_Subset
<1>5. Breaks(n + 1) = IF entered[n + 1] = Interrupt THEN Breaks(n) + 1 ELSE Breaks(n)
  BY <1>1, <1>2, <1>3, <1>4, FS_AddElement
<1>. QED
  BY <1>5, BreaksType DEF Asked

LEMMA AskedGrows ==
    ASSUME NEW m \in Nat, NEW n \in Nat, m <= n
    PROVE  Asked(m) <= Asked(n)
<1>. DEFINE S(k) == {i \in 1..k : entered[i] = Interrupt}
<1>1. /\ IsFiniteSet(1..m) /\ S(m) \in SUBSET (1..m)
      /\ IsFiniteSet((m + 1)..n) /\ Cardinality((m + 1)..n) = n - m
  <2>1. IsFiniteSet(1..m) /\ IsFiniteSet((m + 1)..n)
    BY FS_Interval
  <2>2. Cardinality((m + 1)..n) = IF m + 1 > n THEN 0 ELSE n - (m + 1) + 1
    BY FS_Interval, m + 1 \in Int
  <2>. QED
    BY <2>1, <2>2
<1>2. S(n) \in SUBSET (S(m) \cup ((m + 1)..n)) /\ S(m) \cap ((m + 1)..n) = {}
  OBVIOUS
<1>3. Breaks(m) = Cardinality(S(m)) /\ Breaks(n) = Cardinality(S(n))
  BY DEF Breaks
<1>. HIDE DEF S
<1>4. IsFiniteSet(S(m)) /\ Cardinality(S(m)) \in Nat
  BY <1>1, FS_Subset, FS_CardinalityType
<1>5. /\ IsFiniteSet(S(m) \cup ((m + 1)..n))
      /\ Cardinality(S(m) \cup ((m + 1)..n)) = Cardinality(S(m)) + (n - m)
  <2>. DEFINE T == (m + 1)..n
  <2>1. IsFiniteSet(T) /\ Cardinality(T) = n - m /\ S(m) \cap T = {}
    BY <1>1, <1>2
  <2>. HIDE DEF T
  <2>2. /\ IsFiniteSet(S(m) \cup T)
        /\ Cardinality(S(m) \cup T) = Cardinality(S(m)) + Cardinality(T) - Cardinality(S(m) \cap T)
    BY ONLY <1>4, <2>1, FS_Union
  <2>3. Cardinality(S(m) \cap T) = 0
    BY <2>1, FS_EmptySet
  <2>. QED
    BY <1>4, <2>1, <2>2, <2>3 DEF T
<1>6. Cardinality(S(n)) <= Cardinality(S(m)) + (n - m)
  BY <1>2, <1>5, FS_Subset
<1>. QED
  BY <1>3, <1>6, BreaksType DEF Asked

\* The calls of line j + 1 come before those of later lines.
LEMMA AskedBelow ==
    ASSUME NEW j \in Nat, NEW n \in Nat, j < n
    PROVE  Asked(j) + 2 <= Asked(n) /\ (entered[j + 1] # Interrupt => Asked(j) + 3 <= Asked(n))
<1>1. j + 1 \in Nat /\ j + 1 <= n
  OBVIOUS
<1>2. Asked(j + 1) <= Asked(n)
  BY <1>1, AskedGrows
<1>3. Asked(j) \in Nat /\ Asked(j + 1) \in Nat /\ Asked(n) \in Nat
  BY <1>1, AskedType
<1>. QED
  BY <1>2, <1>3, AskedNext

\* So it is in the next state.
AskedOrder ==
    /\ Asked(0) = 0
    /\ \A n \in Nat : Asked(n) \in Nat
    /\ \A m, n \in Nat : m <= n => Asked(m) <= Asked(n)
    /\ \A j, n \in Nat : j < n =>
           Asked(j) + 2 <= Asked(n) /\ (entered[j + 1] # Interrupt => Asked(j) + 3 <= Asked(n))

LEMMA AskedOrdered == AskedOrder
BY AskedNone, AskedType, AskedGrows, AskedBelow DEF AskedOrder

LEMMA AskedNextOrdered == AskedOrder'
BY AskedOrdered, PTL

LEMMA AskedStays ==
    ASSUME Keeps, Came \in Nat, NEW n \in Nat, n <= Came
    PROVE  Asked(n)' = Asked(n)
<1>1. \A i \in 1..n : entered'[i] = entered[i]
  BY DEF Keeps
<1>2. {i \in 1..n : entered'[i] = Interrupt} = {i \in 1..n : entered[i] = Interrupt}
  BY <1>1
<1>. QED
  BY <1>2 DEF Asked, Breaks, Interrupt

LEMMA LogStays ==
    ASSUME NEW q \in Ranks, Log(q)' = Log(q)
    PROVE  Called(q)' = Called(q) /\ Recent(q)' = Recent(q)
BY DEF Called, Recent

\* What the calls on the communicator of the input wait for
LEMMA InputJoined ==
    ASSUME CommInv, InputCopy \in DOMAIN group, NEW r \in Ranks, NEW early \in BOOLEAN,
           Complete(r, InputCopy, early)
    PROVE  /\ Sent(r, InputCopy) = Log(0)[Called(r)].data
           /\ Recent(r).op = "bcast" /\ r # 0 =>
                  Called(r) <= Called(0) /\ Log(0)[Called(r)].op = "bcast"
           /\ Recent(r).op = "barrier" =>
                  \A q \in Ranks : Called(r) <= Called(q) /\ Log(q)[Called(r)].op = "barrier"
<1>1. /\ \A q \in Ranks : Log(q) = calls[InputCopy][q] /\ Called(q) = Len(calls[InputCopy][q])
      /\ Turn(r, InputCopy) = Called(r) /\ Now(r, InputCopy) = Recent(r)
  BY DEF Log, Called, Turn, Now, Recent
<1>2. group[InputCopy] = AllRanks
  BY DEF CommInv, CommsOK
<1>3. Root(InputCopy) = 0 /\ Members(InputCopy) = Ranks /\ 0 \in Ranks
  BY <1>2, Everybody DEF Root, Members
<1>4. \A q \in Ranks : Joined(q, r, InputCopy) =>
          Called(r) <= Called(q) /\ Log(q)[Called(r)].op = Recent(r).op
  <2>. SUFFICES ASSUME NEW q \in Ranks, Joined(q, r, InputCopy)
                PROVE  Called(r) <= Called(q) /\ Log(q)[Called(r)].op = Recent(r).op
    OBVIOUS
  <2>1. Called(q) >= Called(r)
    BY <1>1 DEF Joined
  <2>2. Log(q)[Called(r)].op = Recent(r).op
    BY <1>1 DEF Joined
  <2>. QED
    BY <2>1, <2>2
<1>5. Recent(r).op = "barrier" => Awaited(r, InputCopy, early) = Ranks
  BY <1>1, <1>3 DEF Awaited
<1>6. Recent(r).op = "bcast" /\ r # 0 => Awaited(r, InputCopy, early) = {0}
  BY <1>1, <1>3 DEF Awaited
<1>. QED
  BY <1>1, <1>3, <1>4, <1>5, <1>6 DEF Complete, Sent

-----------------------------------------------------------------------------
LEMMA Sums ==
    ASSUME CommInv, StreamInv, NEW q \in Ranks
    PROVE  /\ Called(q) \in Nat /\ Begun(q) \in Nat /\ Came \in Nat /\ Called(0) \in Nat
           /\ Asked(Begun(q)) \in Nat /\ Asked(Came) \in Nat /\ Asked(0) = 0
BY Counts, Everybody, AskedType, AskedNone

\* What a slave has of the lines, if it begins none
LEMMA SlaveKeeps ==
    ASSUME CommInv, StreamInv, NEW q \in Ranks, InStep(q), Keeps, executed'[q] = executed[q],
           Called(0) <= Called(0)', Called(0)' \in Int
    PROVE  /\ Begun(q)' = Begun(q) /\ Asked(Begun(q))' = Asked(Begun(q))
           /\ HasLine(q) => HasLine(q)'
           /\ \A k \in Int : Left(q, k) => Left(q, k)'
           /\ \A k \in Int : Called(q)' = Called(q) /\ Sized(q, k) => Sized(q, k)'
<1>1. Begun(q)' = Begun(q) /\ Begun(q) <= Came
  BY DEF Begun, InStep
<1>2. /\ Called(q) \in Nat /\ Begun(q) \in Nat /\ Called(0) \in Nat /\ Came \in Nat
      /\ Asked(Begun(q)) \in Nat
  BY Sums
<1>3. Asked(Begun(q))' = Asked(Begun(q))
  <2>1. PICK b \in Nat : b = Begun(q)
    BY <1>2
  <2>2. Asked(b)' = Asked(b)
    BY <1>1, <1>2, <2>1, AskedStays
  <2>. QED
    BY <1>1, <2>1, <2>2
<1>4. ASSUME HasLine(q) PROVE HasLine(q)'
  <2>1. Begun(q) + 1 \in 1..Came
    BY <1>2, <1>4 DEF HasLine
  <2>2. entered'[Begun(q) + 1] = entered[Begun(q) + 1] /\ Came <= Came' /\ Came' \in Int
    BY <2>1 DEF Keeps
  <2>. QED
    BY <1>1, <1>2, <1>4, <2>2 DEF HasLine, Interrupt
<1>5. ASSUME NEW k \in Int, Left(q, k) PROVE Left(q, k)'
  BY <1>1, <1>2, <1>3, <1>4, <1>5 DEF Left
<1>6. ASSUME NEW k \in Int, Called(q)' = Called(q), Sized(q, k) PROVE Sized(q, k)'
  BY <1>1, <1>2, <1>3, <1>4, <1>6 DEF Sized
<1>. QED
  BY <1>1, <1>3, <1>4, <1>5, <1>6

LEMMA SlaveStays ==
    ASSUME CommInv, StreamInv, NEW q \in Ranks, SlaveCalls(q), InStep(q), Keeps,
           pc'[q] = pc[q], executed'[q] = executed[q], Log(q)' = Log(q), Called(0) <= Called(0)',
           Called(0)' \in Int
    PROVE  SlaveCalls(q)'
<1>1. Called(q)' = Called(q) /\ Recent(q)' = Recent(q)
  BY LogStays
<1>2. Called(q) \in Nat
  BY Sums
<1>3. /\ Begun(q)' = Begun(q) /\ Asked(Begun(q))' = Asked(Begun(q))
      /\ \A k \in Int : Left(q, k) => Left(q, k)'
      /\ \A k \in Int : Sized(q, k) => Sized(q, k)'
  BY <1>1, SlaveKeeps
<1>. QED
  BY <1>1, <1>2, <1>3 DEF SlaveCalls

LEMMA MasterStays ==
    ASSUME CommInv, StreamInv,
           pc'[0] = pc[0], executed'[0] = executed[0], entered' = entered, Log(0)' = Log(0),
           mpi'[0] \in {mpi[0], "killed"}
    PROVE  /\ MasterReads => MasterReads'
           /\ MasterCalls => MasterCalls'
<1>1. Called(0)' = Called(0) /\ Recent(0)' = Recent(0) /\ Begun(0)' = Begun(0) /\ Came' = Came
  BY LogStays, Everybody DEF Begun, Came
<1>2. MasterReads => MasterReads'
  BY <1>1 DEF MasterReads, Cast, Size, Interrupt, Eof
<1>3. Ready(0)' => Ready(0)
  BY DEF Ready
<1>4. \A n : Asked(n)' = Asked(n)
  BY DEF Asked, Breaks, Interrupt
<1>5. MasterCalls => MasterCalls'
  <2>1. LinesSent => LinesSent'
    BY <1>1, <1>4 DEF LinesSent, Brought, Cast, Size, Interrupt, Eof
  <2>2. Asked(Came)' = Asked(Came) /\ Asked(Came - 1)' = Asked(Came - 1)
    BY <1>1, <1>4
  <2>. QED
    BY <1>1, <1>3, <2>1, <2>2 DEF MasterCalls
<1>. QED
  BY <1>2, <1>5

LEMMA StreamStays ==
    ASSUME NEW q \in Ranks, InStep(q), executed'[q] = executed[q], entered' = entered
    PROVE  InStep(q)'
BY DEF InStep, Begun, Came

LEMMA CountStays ==
    ASSUME UNCHANGED entered
    PROVE  Came' = Came /\ Asked(Came)' = Asked(Came) /\ Asked(Came - 1)' = Asked(Came - 1)
<1>1. \A n : Asked(n)' = Asked(n)
  BY DEF Asked, Breaks, Interrupt
<1>. QED
  BY <1>1 DEF Came

\* The others have nothing to do with a step of r.
Others(r) ==
    /\ \A q \in Ranks \ {r} :
          /\ pc'[q] = pc[q] /\ executed'[q] = executed[q] /\ Log(q)' = Log(q)
          /\ mpi'[q] \in {mpi[q], "killed"}
    /\ UNCHANGED mode

\* A step of a slave
LEMMA SlaveStep ==
    ASSUME CommInv, StreamInv, NEW r \in Ranks \ {0}, Others(r), UNCHANGED entered,
           "argument" \in faults' <=> "argument" \in faults, StreamTypes',
           mode # "script" => InStep(r)',
           mode # "script" /\ "argument" \notin faults => SlaveCalls(r)',
           mode # "script" /\ "argument" \in faults => StuckSlave(r)'
    PROVE  StreamInv'
<1>. SUFFICES ASSUME mode # "script" PROVE InputOK'
  BY DEF StreamInv, Others
<1>1. InputOK
  BY DEF StreamInv
<1>2. 0 \in Ranks \ {r} /\ Called(0)' = Called(0) /\ Called(0) \in Nat /\ Came' = Came
  BY Everybody, LogStays, Counts DEF Others, Came
<1>3. \A q \in Ranks : InStep(q)'
  BY <1>1, StreamStays DEF InputOK, Others
<1>4. MasterReads' /\ ("argument" \notin faults => MasterCalls')
  BY <1>1, <1>2, MasterStays DEF InputOK, Others
<1>5. ASSUME "argument" \notin faults, NEW q \in Ranks \ {0} PROVE SlaveCalls(q)'
  BY <1>1, <1>2, <1>5, SlaveStays, NothingNew DEF InputOK, Others
<1>6. ASSUME "argument" \in faults PROVE mode' = "feeder" /\ Stuck'
  <2>1. mode = "feeder" /\ Stuck
    BY <1>1, <1>6 DEF InputOK
  <2>2. ASSUME NEW q \in Ranks \ {0} PROVE StuckSlave(q)'
    <3>1. CASE q = r
      BY <1>6, <3>1
    <3>2. CASE q # r
      BY <1>2, <2>1, <3>2, LogStays, CountStays DEF Stuck, StuckSlave, Others, Begun
    <3>. QED
      BY <3>1, <3>2
  <2>. QED
    BY <1>2, <2>1, <2>2, CountStays DEF Stuck, Others
<1>. QED
  BY <1>3, <1>4, <1>5, <1>6 DEF InputOK

\* A step of the master
LEMMA MasterStep ==
    ASSUME CommInv, StreamInv, Others(0), Keeps, Called(0) <= Called(0)', Called(0)' \in Int,
           StreamTypes', mode # "script" => MasterReads',
           mode # "script" => \A q \in Ranks : InStep(q)',
           mode # "script" /\ "argument" \notin faults' => "argument" \notin faults /\ MasterCalls',
           mode # "script" /\ "argument" \in faults' => mode = "feeder" /\ (Ranks = {0} \/ Stuck')
    PROVE  StreamInv'
<1>. SUFFICES ASSUME mode # "script" PROVE InputOK'
  BY DEF StreamInv, Others
<1>1. InputOK
  BY DEF StreamInv
<1>2. ASSUME "argument" \notin faults', NEW q \in Ranks \ {0} PROVE SlaveCalls(q)'
  BY <1>1, <1>2, SlaveStays DEF InputOK, Others
<1>. QED
  BY <1>2 DEF InputOK, Others

\* The log of the master grows, and the input.
LEMMA SentStays ==
    ASSUME CommInv, StreamInv, MasterCalls, Keeps, Log(0)' = Log(0)
    PROVE  LinesSent' /\ Called(0)' = Called(0) /\ Called(0) <= Asked(Came)' + 1
<1>1. /\ Called(0)' = Called(0) /\ Called(0) \in Nat /\ Came \in Nat
      /\ Called(0) <= Asked(Came) + 1 /\ LinesSent /\ Came <= Came' /\ Came' \in Nat
  BY Everybody, LogStays, Sums DEF MasterCalls, Keeps
<1>2. PICK c \in Nat : c = Came
  BY <1>1
<1>3. PICK d \in Nat : d = Came'
  BY <1>1
<1>4. \A n \in 0..c : Asked(n)' = Asked(n)
  BY <1>2, AskedStays
<1>5. \A m, n \in Nat : m <= n => Asked(m)' <= Asked(n)'
  BY AskedNextOrdered DEF AskedOrder, Interrupt
<1>6. \A n \in Nat : Asked(n) \in Nat /\ Asked(n)' \in Nat
  BY AskedType, AskedNextOrdered DEF AskedOrder, Interrupt
<1>7. ASSUME NEW j \in 0..(d - 1) PROVE Brought(j)'
  <2>1. CASE j < c
    <3>1. Brought(j)
      BY <1>1, <1>2, <2>1 DEF LinesSent
    <3>2. entered'[j + 1] = entered[j + 1] /\ Asked(j)' = Asked(j)
      BY <1>2, <1>4, <2>1 DEF Keeps
    <3>. QED
      BY <1>1, <3>1, <3>2 DEF Brought, Cast, Size, Interrupt, Eof
  <2>2. CASE j >= c
    <3>1. Asked(c)' <= Asked(j)' /\ Asked(c)' = Asked(c) /\ Called(0) <= Asked(c) + 1
      BY <1>1, <1>2, <1>4, <1>5, <2>2
    <3>. QED
      BY <1>1, <1>6, <3>1 DEF Brought
  <2>. QED
    BY <2>1, <2>2
<1>8. Called(0) <= Asked(d)' + 1
  BY <1>1, <1>2, <1>3, <1>4, <1>5, <1>6
<1>. QED
  BY <1>1, <1>3, <1>7, <1>8 DEF LinesSent

LEMMA SentGrows ==
    ASSUME CommInv, StreamInv, MasterCalls, Keeps, NEW op, NEW data, Logged(0, op, data),
           NEW k, k = Called(0) + 1,
           \A j \in 0..(Came' - 1) :
               /\ k = Asked(j)' + 2 => [op |-> op, data |-> data] = Cast(Size(entered'[j + 1]))
               /\ k = Asked(j)' + 3 /\ entered'[j + 1] # Interrupt =>
                      [op |-> op, data |-> data] = Cast(entered'[j + 1])
    PROVE  LinesSent'
<1>1. /\ Called(0) \in Nat /\ Called(0)' = k /\ Came \in Nat /\ Came' \in Nat
      /\ \A i \in 1..Called(0) : Log(0)'[i] = Log(0)[i]
      /\ Called(0) <= Asked(Came) + 1 /\ LinesSent
  BY Everybody, Sums DEF Logged, MasterCalls, Keeps
<1>2. Log(0)'[k] = [op |-> op, data |-> data]
  BY <1>1 DEF Logged, Recent
<1>3. PICK c \in Nat : c = Came
  BY <1>1
<1>4. \A n \in 0..c : Asked(n)' = Asked(n)
  BY <1>3, AskedStays
<1>5. \A m, n \in Nat : m <= n => Asked(m)' <= Asked(n)'
  BY AskedNextOrdered DEF AskedOrder, Interrupt
<1>6. \A n \in Nat : Asked(n) \in Nat /\ Asked(n)' \in Nat
  BY AskedType, AskedNextOrdered DEF AskedOrder, Interrupt
<1>7. ASSUME NEW j \in 0..(Came' - 1), NEW i \in {2, 3}, Asked(j)' + i <= Called(0)
      PROVE  /\ j < c /\ Brought(j) /\ entered'[j + 1] = entered[j + 1] /\ Asked(j)' = Asked(j)
             /\ Log(0)'[Asked(j) + i] = Log(0)[Asked(j) + i]
  <2>1. j \in Nat /\ Asked(j)' \in Nat
    BY <1>1, <1>6
  <2>2. j < c
    <3>1. ASSUME c <= j PROVE FALSE
      <4>1. Asked(c)' <= Asked(j)' /\ Asked(c)' = Asked(c) /\ Called(0) <= Asked(c) + 1
        BY <1>1, <1>3, <1>4, <1>5, <2>1, <3>1
      <4>. QED
        BY <1>1, <1>6, <1>7, <2>1, <4>1
    <3>. QED
      BY <2>1, <3>1
  <2>3. Asked(j)' = Asked(j) /\ Asked(j) + i \in 1..Called(0)
    BY <1>1, <1>4, <1>7, <2>1, <2>2
  <2>4. j \in 0..(Came - 1) /\ j + 1 \in 1..Came
    BY <1>3, <2>1, <2>2
  <2>. QED
    BY <1>1, <2>2, <2>3, <2>4 DEF LinesSent, Keeps
<1>8. ASSUME NEW j \in 0..(Came' - 1) PROVE Brought(j)'
  <2>0. Asked(j)' \in Nat
    BY <1>1, <1>6
  <2>1. ASSUME Asked(j)' + 2 <= k PROVE Log(0)'[Asked(j)' + 2] = Cast(Size(entered'[j + 1]))
    <3>1. CASE Asked(j)' + 2 = k
      BY <1>2, <3>1
    <3>2. CASE Asked(j)' + 2 <= Called(0)
      BY <1>7, <3>2 DEF Brought
    <3>. QED
      BY <1>1, <2>0, <2>1, <3>1, <3>2
  <2>2. ASSUME entered'[j + 1] # Interrupt, Asked(j)' + 3 <= k
        PROVE  Log(0)'[Asked(j)' + 3] = Cast(entered'[j + 1])
    <3>1. CASE Asked(j)' + 3 = k
      BY <1>2, <2>2, <3>1
    <3>2. CASE Asked(j)' + 3 <= Called(0)
      BY <1>7, <2>2, <3>2 DEF Brought
    <3>. QED
      BY <1>1, <2>0, <2>2, <3>1, <3>2
  <2>. QED
    BY <1>1, <2>1, <2>2 DEF Brought, Cast, Size, Interrupt, Eof
<1>. QED
  BY <1>8 DEF LinesSent

\* A call after all those of the lines
LEMMA NothingSent ==
    ASSUME CommInv, StreamInv, MasterCalls, UNCHANGED entered, NEW op, NEW data,
           Logged(0, op, data), Called(0) = Asked(Came)
    PROVE  LinesSent' /\ Called(0)' = Asked(Came)' + 1 /\ Asked(Came)' \in Nat
<1>1. /\ Called(0) \in Nat /\ Came \in Nat /\ Asked(Came) \in Nat /\ Called(0)' = Called(0) + 1
      /\ Keeps /\ Came' = Came /\ Asked(Came)' = Asked(Came)
  BY Sums, Everybody, NothingNew, CountStays DEF Logged
<1>2. PICK k \in Nat : k = Called(0) + 1
  BY <1>1
<1>3. \A j \in 0..(Came - 1) :
          k # Asked(j) + 2 /\ (entered[j + 1] # Interrupt => k # Asked(j) + 3)
  BY <1>1, <1>2, AskedBelow, AskedType
<1>4. \A j \in 0..(Came - 1) : Asked(j)' = Asked(j) /\ entered'[j + 1] = entered[j + 1]
  BY <1>1, AskedStays
<1>5. \A j \in 0..(Came' - 1) :
          /\ k = Asked(j)' + 2 => [op |-> op, data |-> data] = Cast(Size(entered'[j + 1]))
          /\ k = Asked(j)' + 3 /\ entered'[j + 1] # Interrupt =>
                 [op |-> op, data |-> data] = Cast(entered'[j + 1])
  <2>. SUFFICES ASSUME NEW j \in 0..(Came - 1)
                PROVE  k # Asked(j)' + 2 /\ (entered'[j + 1] # Interrupt => k # Asked(j)' + 3)
    BY Zenon, <1>1
  <2>. QED
    BY <1>3, <1>4
<1>. QED
  BY <1>1, <1>2, <1>5, SentGrows

\* Steps that have no part in the input
LEMMA TurnsStream ==
    ASSUME LifeInv, CommInv, StreamInv, NEW r \in Ranks, Turns(r), Fades(r),
           \A q \in Ranks : Log(q)' = Log(q)
    PROVE  StreamInv'
<1>1. /\ Others(r) /\ UNCHANGED <<mode, entered, executed>>
      /\ "argument" \in faults' <=> "argument" \in faults
      /\ \/ pc[r] \in InLine /\ pc'[r] \in InLine \cup {"next", "dead", "leave"} \cup Late
         \/ pc[r] = "leave" /\ pc'[r] \in {"leave", "fini:readline"}
         \/ pc[r] \in Over /\ pc'[r] \in Late
  BY DEF Turns, Fades, Others
<1>2. StreamTypes'
  BY <1>1 DEF StreamInv, StreamTypes, LinesOK, Others, InLine, Late
<1>3. /\ Called(r)' = Called(r) /\ Recent(r)' = Recent(r) /\ Begun(r)' = Begun(r) /\ Came' = Came
      /\ Called(0)' = Called(0) /\ 0 \in Ranks /\ Keeps /\ Asked(Came)' = Asked(Came)
  BY <1>1, LogStays, Everybody, NothingNew, CountStays DEF Begun, Came
<1>4. Called(r) \in Nat /\ Begun(r) \in Nat /\ Came \in Nat /\ Called(0) \in Nat /\ Asked(Came) \in Nat
  BY Sums
<1>5. mode # "script" => \A q \in Ranks : InStep(q)'
  BY <1>1, StreamStays DEF StreamInv, InputOK
<1>6. CASE r # 0
  <2>1. ASSUME SlaveCalls(r), InStep(r) PROVE SlaveCalls(r)'
    <3>1. /\ Asked(Begun(r))' = Asked(Begun(r)) /\ Asked(Begun(r)) \in Nat
          /\ \A k \in Int : Left(r, k) => Left(r, k)'
      BY <1>1, <1>3, <1>4, <2>1, SlaveKeeps, Sums
    <3>. QED
      BY <1>1, <1>3, <1>4, <2>1, <3>1 DEF SlaveCalls, InLine, Late, Over, Left, Booting
  <2>2. ~StuckSlave(r)
    BY <1>1 DEF StuckSlave, InLine, Over, Late
  <2>. QED
    BY <1>1, <1>2, <1>5, <1>6, <2>1, <2>2, SlaveStep DEF StreamInv, InputOK, Stuck
<1>7. CASE r = 0
  <2>1. ASSUME MasterReads PROVE MasterReads'
    BY <1>1, <1>3, <1>7, <2>1 DEF MasterReads, InLine, Late, Over, Booting
  <2>2. ASSUME MasterCalls PROVE MasterCalls'
    <3>1. Ready(0)' => Ready(0)
      BY <1>7 DEF Fades
    <3>2. /\ pc'[0] \in Booting => Called(0)' = 0
          /\ pc'[0] \in {"next", "leave", "fini:readline"} \cup InLine =>
                 Called(0)' <= Asked(Came)' /\ (Ready(0)' => Called(0)' = Asked(Came)')
          /\ pc'[0] \notin {"read:barrier", "read:size", "read:line"}
      BY <1>1, <1>3, <1>7, <2>2, <3>1 DEF MasterCalls, InLine, Late, Over, Booting
    <3>3. LinesSent' /\ Called(0)' <= Asked(Came)' + 1
      BY <1>3, <1>7, <2>2, SentStays
    <3>. QED
      BY <3>2, <3>3 DEF MasterCalls
  <2>3. ~Stuck
    BY <1>1, <1>7 DEF Stuck, InLine, Over, Late
  <2>. QED
    BY <1>1, <1>2, <1>3, <1>4, <1>5, <1>7, <2>1, <2>2, <2>3, MasterStep DEF StreamInv, InputOK
<1>. QED
  BY <1>6, <1>7

LEMMA BootStream ==
    ASSUME LifeInv, CommInv, StreamInv, NEW r \in Ranks, Elsewhere(r),
           \A q \in Ranks \ {r} : mpi'[q] \in {mpi[q], "killed"},
           pc[r] \in Booting, pc'[r] \in Booting \cup {"next"}
    PROVE  StreamInv'
<1>1. Others(r) /\ UNCHANGED <<mode, entered, executed, faults>>
  BY DEF Elsewhere, Others
<1>2. StreamTypes'
  BY <1>1 DEF StreamInv, StreamTypes, LinesOK, Others, Booting
<1>3. /\ Called(r)' = Called(r) /\ Recent(r)' = Recent(r) /\ Begun(r)' = Begun(r) /\ Came' = Came
      /\ Called(0)' = Called(0) /\ 0 \in Ranks /\ Keeps
  BY <1>1, LogStays, Everybody, NothingNew DEF Begun, Came, Elsewhere
<1>4. Called(r) \in Nat /\ Begun(r) \in Nat /\ Came \in Nat /\ Called(0) \in Nat /\ Asked(0) = 0
  BY Sums
<1>5. mode # "script" => \A q \in Ranks : InStep(q)'
  BY <1>1, StreamStays DEF StreamInv, InputOK
<1>6. CASE r # 0
  <2>1. ASSUME SlaveCalls(r) PROVE SlaveCalls(r)'
    <3>1. Called(r)' = 0 /\ Begun(r)' = 0 /\ Asked(0)' = 0
      BY <1>3, <1>4, <2>1, AskedNextOrdered DEF SlaveCalls, AskedOrder
    <3>. QED
      BY <3>1 DEF SlaveCalls, InLine, Late, Over, Booting
  <2>2. ~StuckSlave(r)
    BY DEF StuckSlave, Booting
  <2>. QED
    BY <1>1, <1>2, <1>5, <1>6, <2>1, <2>2, SlaveStep DEF StreamInv, InputOK, Stuck
<1>7. CASE r = 0
  <2>1. ASSUME MasterReads PROVE MasterReads'
    BY <1>1, <1>3, <1>7, <2>1 DEF MasterReads, InLine, Booting
  <2>2. ASSUME MasterReads, MasterCalls PROVE MasterCalls'
    <3>1. Called(0)' = 0 /\ Came' = 0 /\ Asked(0)' = 0
      BY <1>3, <1>7, <2>2, AskedNextOrdered DEF MasterCalls, MasterReads, AskedOrder
    <3>2. pc'[0] \notin {"read:barrier", "read:size", "read:line"}
      BY <1>7 DEF Booting
    <3>. QED
      BY <3>1, <3>2 DEF MasterCalls, LinesSent
  <2>3. ~Stuck
    BY <1>7 DEF Stuck, Booting
  <2>. QED
    BY <1>1, <1>2, <1>3, <1>4, <1>5, <1>7, <2>1, <2>2, <2>3, MasterStep DEF StreamInv, InputOK
<1>. QED
  BY <1>6, <1>7

LEMMA FiniStream ==
    ASSUME LifeInv, CommInv, StreamInv, NEW r \in Ranks, readline_fini(r), Fades(r)
    PROVE  StreamInv'
<1>1. /\ pc[r] = "fini:readline" /\ pc'[r] = "fini:sysmods"
      /\ \A q \in Ranks \ {r} : pc'[q] = pc[q]
      /\ UNCHANGED <<mode, entered, executed, faults>>
      /\ (\A q \in Ranks : Log(q)' = Log(q)) \/ (Logged(r, "free", <<>>) /\ Ready(r))
  BY ReadlineFiniComms
<1>2. Others(r)
  BY <1>1 DEF Others, Logged, Fades
<1>3. /\ Called(r)' = Called(r) \/ (Called(r)' = Called(r) + 1 /\ Recent(r)'.op = "free")
      /\ Begun(r)' = Begun(r) /\ Came' = Came /\ Keeps
      /\ Called(r) \in Nat /\ Begun(r) \in Nat /\ Came \in Nat /\ Called(0) \in Nat /\ Asked(Came) \in Nat
  BY <1>1, LogStays, Sums, NothingNew DEF Begun, Came, Logged
<1>4. StreamTypes' /\ (mode # "script" => \A q \in Ranks : InStep(q)')
  BY <1>1, StreamStays DEF StreamInv, StreamTypes, LinesOK, InputOK
<1>5. CASE r # 0
  <2>1. ASSUME SlaveCalls(r), InStep(r) PROVE SlaveCalls(r)'
    <3>1. Called(0)' = Called(0)
      BY <1>2, <1>5, Everybody, LogStays DEF Others
    <3>2. Left(r, Called(r))
      BY <1>1, <2>1 DEF SlaveCalls
    <3>3. Left(r, Called(r))'  \/ (Recent(r)'.op = "free" /\ Left(r, Called(r) - 1)')
      <4>1. \A k \in Int : Left(r, k) => Left(r, k)'
        BY <1>1, <1>3, <2>1, <3>1, SlaveKeeps
      <4>2. PICK k \in Nat : k = Called(r)
        BY <1>3
      <4>3. Left(r, k)' /\ k = (k + 1) - 1
        BY <3>2, <4>1, <4>2
      <4>. QED
        BY <1>3, <4>2, <4>3 DEF Left
    <3>. QED
      BY <1>1, <3>3 DEF SlaveCalls, Booting, InLine
  <2>2. ~StuckSlave(r)
    BY <1>1 DEF StuckSlave
  <2>. QED
    BY <1>1, <1>2, <1>4, <1>5, <2>1, <2>2, SlaveStep DEF StreamInv, InputOK, Stuck
<1>6. CASE r = 0
  <2>1. MasterReads'
    BY <1>1, <1>6 DEF MasterReads, InLine, Booting
  <2>2. ASSUME MasterCalls PROVE MasterCalls'
    <3>1. Called(0)' <= Asked(Came)' + 1 /\ LinesSent'
      <4>1. CASE Log(0)' = Log(0)
        BY <1>3, <2>2, <4>1, SentStays
      <4>2. CASE Logged(0, "free", <<>>) /\ Ready(0)
        <5>1. Called(0) = Asked(Came)
          BY <1>1, <1>6, <2>2, <4>2 DEF MasterCalls
        <5>. QED
          BY <1>1, <1>3, <2>2, <4>2, <5>1, NothingSent
      <4>. QED
        BY <1>1, <1>6, <4>1, <4>2
    <3>. QED
      BY <1>1, <1>6, <3>1 DEF MasterCalls, Booting, InLine
  <2>3. ~Stuck
    BY <1>1, <1>6 DEF Stuck
  <2>. QED
    BY <1>1, <1>2, <1>3, <1>4, <1>6, <2>1, <2>2, <2>3, MasterStep DEF StreamInv, InputOK
<1>. QED
  BY <1>5, <1>6

LEMMA Typed == ASSUME StreamInv PROVE entered \in Seq(AllLines) /\ LinesOK
BY DEF StreamInv, StreamTypes

LEMMA LineChosen ==
    ASSUME StreamInv, NEW l \in AllLines, Choose(l)
    PROVE  /\ entered' \in Seq(AllLines) /\ Came \in Nat /\ Came' = Came + 1
           /\ entered'[Came + 1] = l /\ \A i \in 1..Came : entered'[i] = entered[i]
<1>1. entered \in Seq(AllLines) /\ entered' = Append(entered, l)
  BY Typed DEF Choose
<1>. QED
  BY ONLY <1>1, AppendProperties, LenProperties, l \in AllLines DEF Came

LEMMA LineRun ==
    ASSUME LifeInv, StreamInv, NEW r \in Ranks, NEW l \in AllLines, Run(r, l)
    PROVE  /\ LinesOK'
           /\ \A q \in Ranks \ {r} : pc'[q] = pc[q] /\ executed'[q] = executed[q]
           /\ l = Eof => pc'[r] = "leave" /\ UNCHANGED executed
           /\ l # Eof => /\ pc'[r] = "run" /\ Begun(r) \in Nat /\ Begun(r)' = Begun(r) + 1
                         /\ executed'[r][Begun(r) + 1] = l
                         /\ \A i \in 1..Begun(r) : executed'[r][i] = executed[r][i]
<1>0. pc \in [Ranks -> Places] /\ executed \in [Ranks -> Seq(AllLines \ {Eof})]
  BY Typed DEF LifeInv, Types, LinesOK
<1>1. CASE l = Eof
  BY <1>0, <1>1 DEF Run, LinesOK
<1>2. CASE l # Eof
  <2>1. /\ pc' = [pc EXCEPT ![r] = "run"] /\ executed' = [executed EXCEPT ![r] = Append(@, l)]
        /\ executed[r] \in Seq(AllLines \ {Eof}) /\ l \in AllLines \ {Eof}
    BY <1>0, <1>2 DEF Run
  <2>2. /\ Append(executed[r], l) \in Seq(AllLines \ {Eof})
        /\ Len(Append(executed[r], l)) = Len(executed[r]) + 1 /\ Len(executed[r]) \in Nat
        /\ Append(executed[r], l)[Len(executed[r]) + 1] = l
        /\ \A i \in 1..Len(executed[r]) : Append(executed[r], l)[i] = executed[r][i]
    BY ONLY <2>1, AppendProperties, LenProperties
  <2>3. executed'[r] = Append(executed[r], l) /\ \A q \in Ranks \ {r} : executed'[q] = executed[q]
    BY <1>0, <2>1
  <2>4. LinesOK'
    BY <1>0, <2>1, <2>2 DEF LinesOK
  <2>5. pc'[r] = "run" /\ \A q \in Ranks \ {r} : pc'[q] = pc[q]
    BY <1>0, <2>1
  <2>. QED
    BY <1>2, <2>2, <2>3, <2>4, <2>5 DEF Begun
<1>. QED
  BY <1>1, <1>2

LEMMA NewInStep ==
    ASSUME CommInv, StreamInv, Keeps, NEW q \in Ranks, InStep(q), executed'[q] = executed[q]
    PROVE  InStep(q)'
<1>1. Begun(q) \in Nat /\ Came \in Nat /\ Begun(q)' = Begun(q)
  BY Counts DEF Begun
<1>. QED
  BY <1>1 DEF InStep, Keeps

LEMMA AskedMore ==
    ASSUME CommInv, StreamInv, Keeps
    PROVE  Asked(Came) <= Asked(Came)' /\ Asked(Came) \in Nat /\ Asked(Came)' \in Nat
<1>1. Came \in Nat /\ Came' \in Nat /\ Came <= Came'
  BY Sums, Everybody DEF Keeps
<1>2. PICK c \in Nat : c = Came
  BY <1>1
<1>3. PICK d \in Nat : d = Came'
  BY <1>1
<1>4. Asked(c)' = Asked(c) /\ Asked(c)' <= Asked(d)' /\ Asked(d)' \in Nat /\ Asked(c) \in Nat
  BY <1>1, <1>2, <1>3, AskedStays, AskedType, AskedNextOrdered DEF AskedOrder, Interrupt
<1>. QED
  BY <1>2, <1>3, <1>4

\* A slave's calls for the lines it has had are none of the next line's.
LEMMA Behind ==
    ASSUME CommInv, StreamInv, NEW q \in Ranks, InStep(q)
    PROVE  /\ Begun(q) # Came => Begun(q) < Came /\ Asked(Begun(q)) + 2 <= Asked(Came)
           /\ Asked(Begun(q)) <= Asked(Came)
           /\ HasLine(q) => Asked(Begun(q)) + 3 <= Asked(Came)
           /\ \A k \in Int : Left(q, k) => k <= Asked(Came)
<1>1. /\ Begun(q) \in Nat /\ Came \in Nat /\ Begun(q) <= Came
      /\ Asked(Begun(q)) \in Nat /\ Asked(Came) \in Nat
  BY Sums DEF InStep
<1>2. Begun(q) # Came => Begun(q) < Came /\ Asked(Begun(q)) + 2 <= Asked(Came)
  BY <1>1, AskedBelow
<1>3. HasLine(q) => Asked(Begun(q)) + 3 <= Asked(Came)
  BY <1>1, AskedBelow DEF HasLine
<1>. QED
  BY <1>1, <1>2, <1>3 DEF Left

LEMMA AtInput ==
    ASSUME CommInv, NEW r \in Ranks, pc[r] \in Reading
    PROVE  /\ Input(r) = InputCopy /\ InputCopy \in DOMAIN group
           /\ Ready(r) => Usable(r, InputCopy)
<1>1. CommsOK /\ RankComms(r)
  BY DEF CommInv
<1>2. pyMPI_COMM_INPUT[r] = InputCopy /\ InputCopy \in DOMAIN group
  BY <1>1 DEF RankComms, HandlesOK, Reading, Booting, Over, Late
<1>3. InputCopy \notin freed[r]
  BY <1>1 DEF RankComms, FreedOK, Reading, Over, Late
<1>4. Members(InputCopy) = Ranks
  BY <1>1, <1>2, Everybody DEF CommsOK, Members
<1>. QED
  BY <1>2, <1>3, <1>4 DEF Input, Usable

\* Past the barrier every rank waits for the line, and has done the others.
LEMMA AllWait ==
    ASSUME LifeInv, CommInv, StreamInv, pc[0] = "read:barrier", Complete(0, InputCopy, FALSE)
    PROVE  /\ \A q \in Ranks : pc[q] \in Reading /\ Begun(q) = Came
           /\ "argument" \notin faults => \A q \in Ranks \ {0} : StuckSlave(q)
           /\ "argument" \in faults => Ranks = {0}
<1>1. 0 \in Ranks /\ mode # "script" /\ InputOK
  BY Everybody DEF StreamInv, StreamTypes
<1>2. InputCopy \in DOMAIN group
  BY <1>1, AtInput DEF Reading
<1>3. Begun(0) = Came /\ Recent(0).op = "barrier"
  BY <1>1 DEF InputOK, MasterReads
<1>4. \A q \in Ranks : Called(0) <= Called(q) /\ Log(q)[Called(0)].op = "barrier"
  BY <1>1, <1>2, <1>3, InputJoined
<1>5. ASSUME "argument" \in faults PROVE Ranks = {0}
  <2>. SUFFICES ASSUME Stuck, NEW q \in Ranks \ {0} PROVE FALSE
    BY <1>1, <1>5 DEF InputOK
  <2>1. Called(0) = Asked(Came) + 2 /\ Asked(Came) \in Nat
    BY <1>1, Sums DEF Stuck
  <2>2. Called(q) = Called(0) /\ Recent(q).op = "bcast"
    BY <1>4, <2>1 DEF Stuck, StuckSlave
  <2>. QED
    BY <1>4, <2>2 DEF Recent
<1>6. ASSUME "argument" \notin faults, NEW q \in Ranks \ {0} PROVE StuckSlave(q)
  <2>1. Called(0) = Asked(Came) + 1 /\ SlaveCalls(q) /\ InStep(q)
    BY <1>1, <1>6 DEF InputOK, MasterCalls
  <2>2. /\ Called(q) \in Nat /\ Asked(Came) \in Nat /\ Asked(Begun(q)) \in Nat
        /\ Asked(Came) + 1 <= Called(q)
    BY <1>4, <2>1, Sums
  <2>3. /\ Begun(q) # Came => Asked(Begun(q)) + 2 <= Asked(Came)
        /\ Asked(Begun(q)) <= Asked(Came)
        /\ HasLine(q) => Asked(Begun(q)) + 3 <= Asked(Came)
        /\ \A k \in Int : Left(q, k) => k <= Asked(Came)
    BY <2>1, Behind
  <2>4. ~Sized(q, 2) /\ ~Sized(q, 3) /\ ~Left(q, Called(q)) /\ Asked(Begun(q)) + 0 < Called(q)
    BY <2>2, <2>3 DEF Sized
  <2>5. pc[q] \notin Booting \cup {"next", "dead", "leave", "fini:readline", "read:line"} \cup InLine
    BY <2>1, <2>2, <2>4 DEF SlaveCalls
  <2>6. pc[q] \notin Over
    <3>. SUFFICES ASSUME pc[q] \in Over PROVE FALSE
      OBVIOUS
    <3>1. Recent(q).op = "free" /\ Called(q) - 1 <= Asked(Came)
      BY <2>1, <2>2, <2>3, <2>4 DEF SlaveCalls
    <3>2. Called(q) = Called(0)
      BY <2>1, <2>2, <3>1
    <3>. QED
      BY <1>4, <3>1, <3>2 DEF Recent
  <2>7. pc[q] \in {"read:barrier", "read:size"}
    <3>1. pc[q] \in Places
      BY DEF LifeInv, Types
    <3>. QED
      BY <2>5, <2>6, <3>1 DEF Places, Early, Booting, Over
  <2>8. \/ pc[q] = "read:barrier" /\ Called(q) = Asked(Begun(q)) + 1
        \/ pc[q] = "read:size" /\ Called(q) = Asked(Begun(q)) + 2 /\ Recent(q).op = "bcast"
    BY <2>1, <2>4, <2>7 DEF SlaveCalls
  <2>9. Begun(q) = Came
    BY <2>2, <2>3, <2>8
  <2>. QED
    BY <2>8, <2>9 DEF StuckSlave
<1>7. ASSUME NEW q \in Ranks PROVE pc[q] \in Reading /\ Begun(q) = Came
  BY <1>1, <1>3, <1>5, <1>6, <1>7 DEF StuckSlave, Reading
<1>. QED
  BY <1>5, <1>6, <1>7

\* Whom the slaves wait for at a broadcast
LEMMA SlaveHears ==
    ASSUME CommInv, StreamInv, NEW r \in Ranks \ {0}, pc[r] \in {"read:size", "read:line"},
           NEW early \in BOOLEAN, Complete(r, InputCopy, early)
    PROVE  /\ "argument" \notin faults /\ SlaveCalls(r) /\ MasterCalls
           /\ Called(r) <= Called(0) /\ Log(0)[Called(r)].op = "bcast"
<1>1. 0 \in Ranks /\ mode # "script" /\ InputOK
  BY Everybody DEF StreamInv, StreamTypes
<1>2. InputCopy \in DOMAIN group
  BY AtInput DEF Reading
<1>3. Recent(r).op = "bcast"
  BY <1>1 DEF InputOK, SlaveCalls, Stuck, StuckSlave
<1>4. Called(r) <= Called(0) /\ Log(0)[Called(r)].op = "bcast"
  BY <1>2, <1>3, InputJoined
<1>5. "argument" \notin faults
  <2>. SUFFICES ASSUME Stuck PROVE FALSE
    BY <1>1 DEF InputOK
  <2>1. Called(r) = Asked(Came) + 2 /\ Asked(Came) \in Nat /\ Called(0) \in Nat
    BY <1>1, Sums DEF Stuck, StuckSlave
  <2>2. Called(0) = Called(r) /\ Recent(0).op = "barrier"
    BY <1>1, <1>4, <2>1 DEF Stuck, InputOK, MasterReads
  <2>. QED
    BY <1>4, <2>2 DEF Recent
<1>. QED
  BY <1>1, <1>4, <1>5 DEF InputOK

LEMMA SizeTells == ASSUME NEW l PROVE Size(l) = EOT <=> l = Interrupt
BY DEF Size, EOT

\* What a rank gets is the size of the next line, and then the line.
LEMMA SizeComes ==
    ASSUME CommInv, StreamInv, NEW r \in Ranks, pc[r] = "read:size",
           NEW early \in BOOLEAN, Complete(r, InputCopy, early)
    PROVE  /\ Sent(r, InputCopy) = <<Size(entered[Begun(r) + 1])>>
           /\ Begun(r) + 1 \in 1..Came /\ entered[Begun(r) + 1] \in AllLines
           /\ r # 0 => Called(r) = Asked(Begun(r)) + 2 /\ Called(r) <= Called(0)
<1>1. /\ mode # "script" /\ InputOK /\ Begun(r) \in Nat /\ Came \in Nat /\ Called(0) \in Nat
      /\ Asked(Begun(r)) \in Nat /\ Asked(Came) \in Nat
  BY Sums DEF StreamInv, StreamTypes
<1>2. Sent(r, InputCopy) = Log(0)[Called(r)].data
  BY AtInput, InputJoined DEF Reading
<1>3. /\ Sent(r, InputCopy) = <<Size(entered[Begun(r) + 1])>> /\ Begun(r) + 1 <= Came
      /\ r # 0 => Called(r) = Asked(Begun(r)) + 2 /\ Called(r) <= Called(0)
  <2>1. CASE r = 0
    BY <1>1, <1>2, <2>1 DEF InputOK, MasterReads, Recent, Cast
  <2>2. CASE r # 0
    <3>1. SlaveCalls(r) /\ MasterCalls /\ InStep(r) /\ Called(r) <= Called(0)
      BY <1>1, <2>2, SlaveHears DEF InputOK
    <3>2. Called(r) = Asked(Begun(r)) + 2 /\ Called(0) <= Asked(Came) + 1
      BY <3>1 DEF SlaveCalls, MasterCalls
    <3>3. Begun(r) \in 0..(Came - 1)
      BY <1>1, <3>1, <3>2 DEF InStep
    <3>4. Log(0)[Called(r)] = Cast(Size(entered[Begun(r) + 1]))
      BY <3>1, <3>2, <3>3 DEF MasterCalls, LinesSent, Brought
    <3>. QED
      BY <1>1, <1>2, <3>1, <3>2, <3>3, <3>4 DEF Cast
  <2>. QED
    BY <2>1, <2>2
<1>4. Begun(r) + 1 \in 1..Came
  BY <1>1, <1>3
<1>. QED
  BY <1>3, <1>4, Typed, ElementOfSeq DEF Came

LEMMA LineComes ==
    ASSUME CommInv, StreamInv, NEW r \in Ranks, pc[r] = "read:line",
           NEW early \in BOOLEAN, Complete(r, InputCopy, early)
    PROVE  /\ Sent(r, InputCopy) = <<entered[Begun(r) + 1]>>
           /\ Begun(r) + 1 \in 1..Came /\ entered[Begun(r) + 1] \in AllLines
           /\ entered[Begun(r) + 1] # Interrupt
           /\ r # 0 => Called(r) = Asked(Begun(r)) + 3 /\ Called(r) <= Called(0)
<1>1. /\ mode # "script" /\ InputOK /\ Begun(r) \in Nat /\ Came \in Nat
      /\ Called(0) \in Nat /\ Asked(Begun(r)) \in Nat
  BY Sums DEF StreamInv, StreamTypes
<1>2. Sent(r, InputCopy) = Log(0)[Called(r)].data
  BY AtInput, InputJoined DEF Reading
<1>3. /\ Sent(r, InputCopy) = <<entered[Begun(r) + 1]>> /\ Begun(r) + 1 <= Came
      /\ entered[Begun(r) + 1] # Interrupt
      /\ r # 0 => Called(r) = Asked(Begun(r)) + 3 /\ Called(r) <= Called(0)
  <2>1. CASE r = 0
    BY <1>1, <1>2, <2>1 DEF InputOK, MasterReads, Recent, Cast
  <2>2. CASE r # 0
    <3>1. SlaveCalls(r) /\ MasterCalls /\ Called(r) <= Called(0)
      BY <2>2, SlaveHears
    <3>2. Called(r) = Asked(Begun(r)) + 3 /\ HasLine(r)
      BY <3>1 DEF SlaveCalls, Sized
    <3>3. Begun(r) \in 0..(Came - 1)
      BY <1>1, <3>2 DEF HasLine
    <3>4. Log(0)[Called(r)] = Cast(entered[Begun(r) + 1])
      BY <3>1, <3>2, <3>3 DEF MasterCalls, LinesSent, Brought, HasLine
    <3>. QED
      BY <1>1, <1>2, <3>1, <3>2, <3>3, <3>4 DEF Cast, HasLine
  <2>. QED
    BY <2>1, <2>2
<1>4. Begun(r) + 1 \in 1..Came
  BY <1>1, <1>3
<1>. QED
  BY <1>3, <1>4, Typed, ElementOfSeq DEF Came

LEMMA EnterReadlineStream ==
    ASSUME LifeInv, CommInv, StreamInv, NEW r \in Ranks, Alive(r), EnterReadline(r)
    PROVE  CommInv' /\ StreamInv'
<1>1. /\ pc[r] = "next" /\ mode # "script" /\ UNCHANGED <<readVars, commVars>> /\ pc[r] \in Reading
      /\ UNCHANGED <<mode, entered, executed, faults>>
      /\ \/ Enter(r, InputCopy, "barrier", <<>>) /\ Goto(r, "read:barrier")
         \/ /\ Misuse(r, InputCopy)
            /\ Goto(r, "next") \/ (r = 0 /\ Goto(r, "leave"))
  BY AtInput DEF EnterReadline, Reading, readVars, jobVars
<1>2. InputOK /\ \A q \in Ranks : InStep(q)'
  BY <1>1, StreamStays DEF StreamInv, InputOK
<1>3. /\ Called(r) \in Nat /\ Begun(r) \in Nat /\ Came \in Nat /\ Begun(r)' = Begun(r)
      /\ Came' = Came /\ 0 \in Ranks /\ Keeps /\ Called(0) \in Nat
      /\ Asked(Came)' = Asked(Came) /\ Asked(Came) \in Nat
  BY <1>1, Sums, Everybody, NothingNew, CountStays DEF Begun
<1>4. StreamTypes'
  BY <1>1, GotoMine, Typed DEF StreamTypes, LinesOK
<1>5. CASE Enter(r, InputCopy, "barrier", <<>>) /\ Goto(r, "read:barrier")
  <2>0. Reads(r)
    BY <1>1, <1>5, GotoMine DEF Reads, Reading
  <2>1. CommInv' /\ Logged(r, "barrier", <<>>) /\ Ready(r)
    BY <2>0, <1>5, CallingComms
  <2>2. pc'[r] = "read:barrier" /\ Others(r)
    BY <1>1, <1>5, <2>1, GotoMine DEF Others, Logged, Enter
  <2>3. Called(r)' = Called(r) + 1 /\ Recent(r)'.op = "barrier" /\ mpi' = mpi
    BY <1>5, <2>1 DEF Logged, Enter
  <2>4. CASE r # 0
    <3>0. Called(0)' = Called(0)
      BY <1>3, <2>2, <2>4, LogStays DEF Others
    <3>1. ASSUME "argument" \notin faults PROVE SlaveCalls(r)'
      <4>1. SlaveCalls(r) /\ InStep(r)
        BY <1>2, <2>4, <3>1 DEF InputOK
      <4>2. /\ Asked(Begun(r))' = Asked(Begun(r)) /\ (HasLine(r) => HasLine(r)')
            /\ Asked(Begun(r)) \in Nat
        BY <1>1, <1>3, <3>0, <4>1, SlaveKeeps, Sums
      <4>3. Sized(r, 2) => Sized(r, 3)'
        BY <1>3, <2>3, <3>0, <4>2 DEF Sized
      <4>4. Called(r) = Asked(Begun(r)) => Called(r)' = Asked(Begun(r))' + 1
        BY <2>3, <4>2
      <4>. QED
        BY <1>1, <2>2, <2>3, <4>1, <4>3, <4>4 DEF SlaveCalls, Booting, InLine, Over, Late
    <3>2. ~StuckSlave(r)
      BY <1>1 DEF StuckSlave
    <3>. QED
      BY <1>1, <1>2, <1>4, <2>1, <2>2, <2>4, <3>1, <3>2, SlaveStep DEF InputOK, Stuck
  <2>5. CASE r = 0
    <3>1. MasterReads'
      BY <1>1, <1>2, <1>3, <2>1, <2>2, <2>3, <2>5 DEF InputOK, MasterReads, Ready, Booting, InLine
    <3>2. ASSUME "argument" \notin faults PROVE MasterCalls'
      <4>1. MasterCalls /\ Called(0) = Asked(Came)
        BY <1>1, <1>2, <2>1, <2>5, <3>2 DEF InputOK, MasterCalls
      <4>2. LinesSent' /\ Called(0)' = Asked(Came)' + 1 /\ Asked(Came)' \in Nat
        BY <1>1, <2>1, <2>5, <4>1, NothingSent
      <4>. QED
        BY <2>2, <2>5, <4>2 DEF MasterCalls, Booting, InLine
    <3>3. Stuck => Stuck'
      <4>1. ASSUME Stuck, NEW q \in Ranks \ {0} PROVE StuckSlave(q)'
        <5>1. StuckSlave(q) /\ pc'[q] = pc[q] /\ executed'[q] = executed[q] /\ Log(q)' = Log(q)
          BY <2>2, <2>5, <4>1 DEF Stuck, Others
        <5>2. Called(q)' = Called(q) /\ Recent(q)' = Recent(q)
          BY <5>1, LogStays
        <5>3. Begun(q)' = Begun(q) /\ Came' = Came /\ Asked(Came)' = Asked(Came)
          BY <1>3, <5>1 DEF Begun
        <5>. QED
          BY ONLY <5>1, <5>2, <5>3 DEF StuckSlave
      <4>. QED
        BY <1>1, <1>3, <2>2, <2>3, <2>5, <4>1 DEF Stuck
    <3>4. Called(0) <= Called(0)' /\ Called(0)' \in Int
      BY <1>3, <2>3, <2>5
    <3>. QED
      BY <1>1, <1>2, <1>3, <1>4, <2>1, <2>2, <2>5, <3>1, <3>2, <3>3, <3>4, MasterStep DEF InputOK
  <2>. QED
    BY <2>4, <2>5
<1>6. CASE /\ Misuse(r, InputCopy)
           /\ Goto(r, "next") \/ (r = 0 /\ Goto(r, "leave"))
  <2>0. pc'[r] \in {"next", "leave"} /\ (r # 0 => pc'[r] = "next") /\ Reads(r)
    BY <1>1, <1>6, GotoMine DEF Reads, Reading
  <2>1. CommInv' /\ \A q \in Ranks : Log(q)' = Log(q)
    BY <1>6, <2>0, SilentComms DEF Misuse
  <2>2. Others(r) /\ mpi'[r] \in {mpi[r], "killed"}
    BY <1>1, <1>6, <2>0, <2>1, MisuseUses, UsedTypes DEF Others, Reads
  <2>3. Called(r)' = Called(r) /\ Called(0)' = Called(0)
    BY <1>3, <2>1, LogStays
  <2>4. CASE r # 0
    <3>1. "argument" \notin faults => SlaveCalls(r)'
      BY <1>1, <1>2, <1>3, <2>0, <2>1, <2>3, <2>4, SlaveStays DEF InputOK
    <3>2. ~StuckSlave(r)
      BY <1>1 DEF StuckSlave
    <3>. QED
      BY <1>1, <1>2, <1>4, <2>1, <2>2, <2>4, <3>1, <3>2, SlaveStep DEF InputOK, Stuck
  <2>5. CASE r = 0
    <3>0. ~Ready(0) /\ ~Ready(0)' /\ mpi[0] # "killed"
      BY <1>1, <1>6, <2>2, <2>5, AtInput DEF Misuse, Ready, Alive
    <3>1. MasterReads'
      BY <1>1, <1>2, <1>3, <2>0, <2>5 DEF InputOK, MasterReads, Booting, InLine
    <3>2. ASSUME "argument" \notin faults PROVE MasterCalls'
      <4>1. MasterCalls /\ Called(0) <= Asked(Came)
        BY <1>1, <1>2, <2>5, <3>2 DEF InputOK, MasterCalls
      <4>2. LinesSent'
        BY <1>3, <2>1, <4>1, SentStays
      <4>. QED
        BY <1>3, <2>0, <2>3, <2>5, <3>0, <4>1, <4>2 DEF MasterCalls, Booting, InLine
    <3>3. ~Stuck
      BY <1>1, <2>5, <3>0 DEF Stuck, Ready
    <3>4. Called(0) <= Called(0)' /\ Called(0)' \in Int
      BY <1>3, <2>3
    <3>. QED
      BY <1>1, <1>2, <1>3, <1>4, <2>1, <2>2, <2>5, <3>1, <3>2, <3>3, <3>4, MasterStep DEF InputOK
  <2>. QED
    BY <2>4, <2>5
<1>. QED
  BY <1>1, <1>5, <1>6

LEMMA FinalizedReadlineStream ==
    ASSUME LifeInv, CommInv, StreamInv, NEW r \in Ranks, NEW l \in AllLines, FinalizedReadline(r, l)
    PROVE  CommInv' /\ StreamInv'
<1>1. /\ pc[r] = "next" /\ mode # "script" /\ ~Ready(r) /\ pc[r] \in Reading
      /\ UNCHANGED <<mpi, group, calls, freed, mode, faults, commVars>>
      /\ IF r = 0 THEN mode = "prompt" /\ Choose(l) /\ Run(r, l)
         ELSE Goto(r, "next") /\ UNCHANGED <<entered, executed>>
  BY DEF FinalizedReadline, Reading, jobVars, Finalized, Ready
<1>2. InputOK
  BY <1>1 DEF StreamInv
<1>3. /\ Called(r) \in Nat /\ Begun(r) \in Nat /\ Came \in Nat /\ 0 \in Ranks
      /\ Called(0) \in Nat /\ Asked(Came) \in Nat
  BY Sums, Everybody
<1>4. /\ \A q \in Ranks \ {r} : pc'[q] = pc[q] /\ executed'[q] = executed[q]
      /\ pc'[r] \in {"next", "run", "leave"} /\ LinesOK'
  BY <1>1, LineRun, GotoMine, Typed DEF LinesOK
<1>5. CommInv' /\ \A q \in Ranks : Log(q)' = Log(q)
  BY <1>1, <1>4, SilentComms DEF Reads, Reading
<1>6. Others(r) /\ Called(r)' = Called(r) /\ Called(0)' = Called(0)
  BY <1>1, <1>3, <1>4, <1>5, LogStays DEF Others
<1>7. CASE r # 0
  <2>1. pc'[r] = pc[r] /\ UNCHANGED <<executed, entered>> /\ Keeps /\ ~StuckSlave(r)
    BY <1>1, <1>7, GotoMine, NothingNew DEF StuckSlave
  <2>2. ("argument" \notin faults => SlaveCalls(r)') /\ InStep(r)'
    BY <1>2, <1>3, <1>5, <1>6, <1>7, <2>1, StreamStays, SlaveStays DEF InputOK
  <2>3. StreamTypes'
    BY <1>1, <1>4, <2>1, Typed DEF StreamTypes
  <2>. QED
    BY <1>1, <1>2, <1>5, <1>6, <1>7, <2>1, <2>2, <2>3, SlaveStep DEF InputOK, Stuck
<1>8. CASE r = 0
  <2>0. Choose(l) /\ Run(0, l) /\ "argument" \notin faults
    BY <1>1, <1>2, <1>8 DEF InputOK
  <2>1. /\ entered' \in Seq(AllLines) /\ Came' = Came + 1
        /\ entered'[Came + 1] = l /\ \A i \in 1..Came : entered'[i] = entered[i]
    BY <2>0, LineChosen
  <2>2. Keeps
    BY <1>3, <2>1 DEF Keeps
  <2>3. Begun(0) = Came /\ InStep(0)
    BY <1>1, <1>2, <1>8 DEF InputOK, MasterReads
  <2>4. InStep(0)' /\ pc'[0] \in {"run", "leave"} /\ (pc'[0] = "run" => Begun(0)' = Came')
    <3>1. CASE l = Eof
      <4>1. pc'[0] = "leave" /\ UNCHANGED executed
        BY <1>3, <2>0, <3>1, LineRun
      <4>. QED
        BY <1>3, <2>2, <2>3, <4>1, NewInStep
    <3>2. CASE l # Eof
      <4>1. /\ Begun(0)' = Begun(0) + 1 /\ executed'[0][Begun(0) + 1] = l /\ pc'[0] = "run"
            /\ \A i \in 1..Begun(0) : executed'[0][i] = executed[0][i]
        BY <1>3, <2>0, <3>2, LineRun
      <4>2. \A i \in 1..Begun(0)' : i \in 1..Begun(0) \/ i = Begun(0) + 1
        BY <1>3, <1>8, <4>1
      <4>3. Begun(0)' = Came'
        BY <2>1, <2>3, <4>1
      <4>4. ASSUME NEW i \in 1..Begun(0)' PROVE executed'[0][i] = entered'[i]
        BY <2>1, <2>3, <4>1, <4>2 DEF InStep
      <4>5. InStep(0)'
        BY <1>3, <2>1, <4>3, <4>4 DEF InStep
      <4>. QED
        BY <4>1, <4>3, <4>5
    <3>. QED
      BY <3>1, <3>2
  <2>5. \A q \in Ranks : InStep(q)'
    BY <1>2, <1>4, <1>8, <2>2, <2>4, NewInStep DEF InputOK
  <2>6. MasterReads'
    BY <2>4 DEF MasterReads, Booting, InLine
  <2>7. MasterCalls'
    <3>1. MasterCalls /\ Called(0) <= Asked(Came)
      BY <1>1, <1>2, <1>8, <2>0 DEF InputOK, MasterCalls
    <3>2. LinesSent'
      BY <1>3, <1>5, <2>2, <3>1, SentStays
    <3>3. ~Ready(0)'
      BY <1>1, <1>8 DEF Ready
    <3>4. Called(0)' <= Asked(Came)' /\ Called(0)' <= Asked(Came)' + 1
      BY <1>3, <1>6, <2>2, <3>1, AskedMore
    <3>. QED
      BY <2>4, <3>2, <3>3, <3>4 DEF MasterCalls, Booting, InLine
  <2>8. StreamTypes'
    BY <1>1, <1>4, <2>1 DEF StreamTypes
  <2>9. Called(0) <= Called(0)' /\ Called(0)' \in Int
    BY <1>3, <1>6
  <2>. QED
    BY <1>1, <1>2, <1>5, <1>6, <1>8, <2>0, <2>2, <2>5, <2>6, <2>7, <2>8, <2>9, MasterStep
<1>. QED
  BY <1>7, <1>8

LEMMA ReadLineStream ==
    ASSUME LifeInv, CommInv, StreamInv, NEW r \in Ranks, NEW l \in AllLines, ReadLine(r, l)
    PROVE  CommInv' /\ StreamInv'
<1>. DEFINE data == <<Size(l)>>
<1>1. /\ r = 0 /\ 0 \in Ranks /\ pc[0] = "read:barrier" /\ Complete(0, InputCopy, FALSE)
      /\ Choose(l) /\ Enter(0, InputCopy, "bcast", data) /\ Goto(0, "read:size")
      /\ UNCHANGED <<mode, executed, faults, commVars>>
  BY AtInput DEF ReadLine, Reading, jobVars
<1>2. InputOK /\ mode # "script"
  BY <1>1 DEF StreamInv, StreamTypes
<1>3. /\ Called(0) \in Nat /\ Begun(0) \in Nat /\ Came \in Nat /\ Begun(0)' = Begun(0)
      /\ Asked(Came) \in Nat
  BY <1>1, Sums DEF Begun
<1>4. pc'[0] = "read:size" /\ Reads(0)
  BY <1>1, GotoMine DEF Reads, Reading
<1>5. CommInv' /\ Logged(0, "bcast", data)
  BY <1>1, <1>4, CallingComms
<1>6. Others(0) /\ Called(0)' = Called(0) + 1 /\ Recent(0)' = [op |-> "bcast", data |-> data]
  BY <1>1, <1>4, <1>5 DEF Others, Reads, Logged, Enter
<1>7. /\ entered' \in Seq(AllLines) /\ Came' = Came + 1 /\ entered'[Came + 1] = l
      /\ \A i \in 1..Came : entered'[i] = entered[i]
  BY <1>1, LineChosen
<1>8. Keeps
  BY <1>3, <1>7 DEF Keeps
<1>9. \A q \in Ranks : InStep(q)'
  BY <1>1, <1>2, <1>8, NewInStep DEF InputOK
<1>10. MasterReads'
  <2>1. Recent(0)' = Cast(Size(l)) /\ entered'[Came'] = l
    BY <1>6, <1>7 DEF Cast
  <2>2. Recent(0)' = Cast(Size(entered[Came]))'
    BY <2>1 DEF Cast, Size, Interrupt, Eof
  <2>. QED
    BY <1>1, <1>2, <1>3, <1>4, <1>7, <2>2 DEF InputOK, MasterReads, Booting, InLine
<1>11. ASSUME "argument" \notin faults PROVE MasterCalls'
  <2>1. MasterCalls /\ Called(0) = Asked(Came) + 1
    BY <1>1, <1>2, <1>11 DEF InputOK, MasterCalls
  <2>2. PICK c \in Nat : c = Came
    BY <1>3
  <2>3. /\ Asked(c)' = Asked(c) /\ Asked(c + 1)' \in Nat /\ Asked(c)' + 2 <= Asked(c + 1)'
        /\ \A j \in 0..(c - 1) : Asked(j)' + 2 <= Asked(c)'
               /\ (entered'[j + 1] # Interrupt => Asked(j)' + 3 <= Asked(c)')
        /\ \A j \in 0..c : Asked(j)' \in Nat
    BY <1>3, <1>8, <2>2, AskedStays, AskedNextOrdered DEF AskedOrder, Interrupt
  <2>4. PICK k \in Nat : k = Called(0) + 1
    BY <1>3
  <2>5. /\ \A j \in 0..(c - 1) :
               k # Asked(j)' + 2 /\ (entered'[j + 1] # Interrupt => k # Asked(j)' + 3)
        /\ k = Asked(c)' + 2
    BY <1>3, <2>1, <2>2, <2>3, <2>4
  <2>6. [op |-> "bcast", data |-> data] = Cast(Size(entered'[c + 1]))
    BY <1>7, <2>2 DEF Cast
  <2>. HIDE DEF data
  <2>7. \A j \in 0..(Came' - 1) :
            /\ k = Asked(j)' + 2 => [op |-> "bcast", data |-> data] = Cast(Size(entered'[j + 1]))
            /\ k = Asked(j)' + 3 /\ entered'[j + 1] # Interrupt =>
                   [op |-> "bcast", data |-> data] = Cast(entered'[j + 1])
    <3>1. \A j \in 0..(Came' - 1) : j \in 0..(c - 1) \/ j = c
      BY <1>7, <2>2
    <3>2. k # Asked(c)' + 3
      BY <2>3, <2>5
    <3>. QED
      BY <2>5, <2>6, <3>1, <3>2
  <2>8. LinesSent'
    BY <1>5, <1>8, <2>1, <2>4, <2>7, SentGrows
  <2>9. Came' - 1 = c /\ Came' = c + 1 /\ Called(0)' = Asked(c)' + 2
    BY <1>3, <1>6, <1>7, <2>1, <2>2, <2>3
  <2>10. Called(0)' = Asked(Came - 1)' + 2 /\ Called(0)' <= Asked(Came)' + 1
    BY <2>3, <2>9
  <2>. QED
    BY <1>4, <2>8, <2>10 DEF MasterCalls, Booting, InLine
<1>12. "argument" \in faults => mode = "feeder" /\ Ranks = {0}
  BY <1>1, <1>2, AllWait DEF InputOK
<1>13. StreamTypes'
  BY <1>1, <1>2, <1>7, Typed DEF StreamTypes, LinesOK
<1>14. Called(0) <= Called(0)' /\ Called(0)' \in Int
  BY <1>3, <1>6
<1>15. "argument" \notin faults' => "argument" \notin faults
  BY <1>1
<1>. HIDE DEF data
<1>. QED
  BY <1>1, <1>5, <1>6, <1>8, <1>9, <1>10, <1>11, <1>12, <1>13, <1>14, <1>15, MasterStep

LEMMA FeedBadArgumentStream ==
    ASSUME LifeInv, CommInv, StreamInv, NEW r \in Ranks, Alive(r), FeedBadArgument(r)
    PROVE  CommInv' /\ StreamInv'
<1>1. /\ r = 0 /\ 0 \in Ranks /\ pc[0] = "read:barrier" /\ Complete(0, InputCopy, FALSE) /\ mode = "feeder"
      /\ Goto(0, "next") /\ UNCHANGED <<mpi, group, calls, freed, commVars>>
      /\ UNCHANGED <<mode, entered, executed>> /\ faults' = faults \cup {"argument"}
  BY AtInput DEF FeedBadArgument, Reading, jobVars, mpiVars
<1>2. InputOK /\ mode # "script"
  BY <1>1 DEF StreamInv, StreamTypes
<1>3. /\ Called(0) \in Nat /\ Begun(0) \in Nat /\ Came \in Nat /\ Begun(0)' = Begun(0)
      /\ Came' = Came /\ Asked(Came)' = Asked(Came) /\ Keeps
  BY <1>1, Counts, CountStays, NothingNew DEF Begun
<1>4. pc'[0] = "next" /\ Reads(0)
  BY <1>1, GotoMine DEF Reads, Reading
<1>5. CommInv' /\ \A q \in Ranks : Log(q)' = Log(q)
  BY <1>1, <1>4, SilentComms
<1>6. Others(0) /\ Called(0)' = Called(0)
  BY <1>1, <1>4, <1>5, LogStays DEF Others, Reads
<1>7. (\A q \in Ranks : InStep(q)') /\ StreamTypes'
  BY <1>1, <1>2, StreamStays, Typed DEF InputOK, StreamTypes, LinesOK
<1>8. MasterReads'
  BY <1>1, <1>2, <1>3, <1>4 DEF InputOK, MasterReads, Booting, InLine
<1>9. "argument" \in faults => Ranks = {0}
  BY <1>1, AllWait
<1>10. ASSUME "argument" \notin faults PROVE Stuck'
  <2>1. Called(0)' = Asked(Came)' + 1 /\ mpi'[0] \in {"on", "killed"}
    BY <1>1, <1>2, <1>3, <1>6, <1>10 DEF InputOK, MasterCalls, MasterReads
  <2>2. ASSUME NEW q \in Ranks \ {0} PROVE StuckSlave(q)'
    <3>1. StuckSlave(q)
      BY <1>1, <1>10, AllWait
    <3>. QED
      BY <1>3, <1>6, <3>1, LogStays DEF StuckSlave, Others, Begun
  <2>. QED
    BY <1>4, <2>1, <2>2 DEF Stuck
<1>11. Called(0) <= Called(0)' /\ Called(0)' \in Int /\ "argument" \in faults'
  BY <1>1, <1>3, <1>6
<1>. QED
  BY <1>1, <1>3, <1>5, <1>6, <1>7, <1>8, <1>9, <1>10, <1>11, MasterStep

LEMMA AwaitSizeStream ==
    ASSUME LifeInv, CommInv, StreamInv, NEW r \in Ranks, AwaitSize(r)
    PROVE  CommInv' /\ StreamInv'
<1>1. /\ r # 0 /\ 0 \in Ranks /\ pc[r] = "read:barrier" /\ Complete(r, InputCopy, FALSE)
      /\ Enter(r, InputCopy, "bcast", <<>>) /\ Goto(r, "read:size") /\ InputCopy \in DOMAIN group
      /\ UNCHANGED <<mode, entered, executed, faults, commVars>>
  BY AtInput, Everybody DEF AwaitSize, Reading, readVars, jobVars
<1>2. InputOK /\ mode # "script"
  BY <1>1 DEF StreamInv, StreamTypes
<1>3. /\ Called(r) \in Nat /\ Begun(r) \in Nat /\ Came \in Nat /\ Begun(r)' = Begun(r) /\ Came' = Came
      /\ Asked(Came)' = Asked(Came) /\ Called(0) \in Nat /\ Keeps /\ Asked(Begun(r)) \in Nat
  BY <1>1, Sums, CountStays, NothingNew DEF Begun
<1>4. pc'[r] = "read:size" /\ Reads(r)
  BY <1>1, GotoMine DEF Reads, Reading
<1>5. CommInv' /\ Logged(r, "bcast", <<>>)
  BY <1>1, <1>4, CallingComms
<1>6. Others(r) /\ Called(r)' = Called(r) + 1 /\ Recent(r)'.op = "bcast" /\ Called(0)' = Called(0)
  BY <1>1, <1>4, <1>5, LogStays DEF Others, Reads, Logged, Enter
<1>7. InStep(r)' /\ StreamTypes'
  BY <1>1, <1>2, StreamStays, Typed DEF InputOK, StreamTypes, LinesOK
<1>8. ASSUME "argument" \notin faults PROVE SlaveCalls(r)'
  <2>1. SlaveCalls(r) /\ InStep(r) /\ MasterCalls
    BY <1>1, <1>2, <1>8 DEF InputOK
  <2>2. Called(r) <= Called(0) /\ Log(0)[Called(r)].op = "barrier"
    BY <1>1, <2>1, InputJoined DEF SlaveCalls
  <2>3. ~Sized(r, 3)
    <3>. SUFFICES ASSUME Sized(r, 3) PROVE FALSE
      OBVIOUS
    <3>1. Brought(Begun(r)) /\ entered[Begun(r) + 1] # Interrupt
      BY <1>3, <2>1 DEF Sized, HasLine, MasterCalls, LinesSent
    <3>2. Called(r) = Asked(Begun(r)) + 3
      BY DEF Sized
    <3>3. Log(0)[Called(r)] = Cast(entered[Begun(r) + 1])
      BY <2>2, <3>1, <3>2 DEF Brought
    <3>. QED
      BY <2>2, <3>3 DEF Cast
  <2>4. Called(r) = Asked(Begun(r)) + 1
    BY <1>1, <2>1, <2>3 DEF SlaveCalls
  <2>5. Asked(Begun(r))' = Asked(Begun(r))
    BY <1>1, <1>3, <1>6, <2>1, SlaveKeeps
  <2>. QED
    BY <1>3, <1>4, <1>6, <2>4, <2>5 DEF SlaveCalls, Booting, InLine, Over, Late
<1>9. "argument" \in faults => StuckSlave(r)'
  <2>1. "argument" \in faults => StuckSlave(r)
    BY <1>1, <1>2 DEF InputOK, Stuck
  <2>2. Asked(Came) \in Nat
    BY Sums
  <2>. QED
    BY <1>1, <1>3, <1>4, <1>6, <2>1, <2>2 DEF StuckSlave
<1>. QED
  BY <1>1, <1>5, <1>6, <1>7, <1>8, <1>9, SlaveStep

\* A rank has the next line, and runs it, or leaves at the end of the input.
LEMMA RunLineStream ==
    ASSUME LifeInv, CommInv, StreamInv, NEW r \in Ranks, pc[r] \in Reading, mode # "script",
           NEW l, l = entered[Begun(r) + 1], Begun(r) + 1 \in 1..Came, Run(r, l),
           UNCHANGED <<mpi, group, calls, freed, mode, entered, faults, commVars>>,
           r = 0 => Begun(0) + 1 = Came /\ ~Stuck /\ (MasterCalls => Called(0) = Asked(Came)),
           r # 0 => /\ "argument" \notin faults /\ Called(r) <= Called(0)
                    /\ Called(r) = IF l = Interrupt THEN Asked(Begun(r)) + 2 ELSE Asked(Begun(r)) + 3
    PROVE  CommInv' /\ StreamInv'
<1>1. InputOK /\ 0 \in Ranks /\ l \in AllLines
  BY Everybody, Typed, ElementOfSeq DEF StreamInv, Came
<1>2. /\ Called(r) \in Nat /\ Begun(r) \in Nat /\ Came \in Nat /\ Came' = Came /\ Keeps
      /\ Called(0) \in Nat /\ Asked(Came)' = Asked(Came) /\ Asked(Begun(r)) \in Nat
      /\ Asked(Came) \in Nat
  BY Sums, <1>1, CountStays, NothingNew
<1>3. /\ LinesOK'
      /\ \A q \in Ranks \ {r} : pc'[q] = pc[q] /\ executed'[q] = executed[q]
      /\ \/ l = Eof /\ pc'[r] = "leave" /\ UNCHANGED executed
         \/ /\ pc'[r] = "run" /\ Begun(r)' = Begun(r) + 1
            /\ executed'[r][Begun(r) + 1] = l
            /\ \A i \in 1..Begun(r) : executed'[r][i] = executed[r][i]
  BY <1>1, LineRun
<1>4. CommInv' /\ \A q \in Ranks : Log(q)' = Log(q)
  BY <1>3, SilentComms DEF Reads, Reading
<1>5. Others(r) /\ Called(r)' = Called(r) /\ Called(0)' = Called(0)
  BY <1>1, <1>3, <1>4, LogStays DEF Others
<1>6. InStep(r)'
  <2>1. CASE UNCHANGED executed
    BY <1>1, <2>1, StreamStays DEF InputOK
  <2>2. CASE /\ Begun(r)' = Begun(r) + 1 /\ executed'[r][Begun(r) + 1] = l
             /\ \A i \in 1..Begun(r) : executed'[r][i] = executed[r][i]
    <3>1. \A i \in 1..Begun(r)' : i \in 1..Begun(r) \/ i = Begun(r) + 1
      BY <1>2, <2>2
    <3>2. ASSUME NEW i \in 1..Begun(r)' PROVE executed'[r][i] = entered'[i]
      BY <1>1, <2>2, <3>1 DEF InputOK, InStep
    <3>. QED
      BY <1>2, <2>2, <3>2 DEF InStep
  <2>. QED
    BY <1>3, <2>1, <2>2
<1>7. \A q \in Ranks : InStep(q)'
  BY <1>1, <1>3, <1>6, StreamStays DEF InputOK
<1>8. StreamTypes'
  BY <1>1, <1>3, Typed DEF StreamTypes
<1>9. CASE r # 0
  <2>1. CASE l = Eof /\ pc'[r] = "leave" /\ UNCHANGED executed
    <3>1. HasLine(r) /\ Left(r, Called(r))
      BY <1>2, <1>9, <2>1 DEF HasLine, Left, Interrupt, Eof
    <3>2. Left(r, Called(r))'
      BY <1>1, <1>2, <1>5, <2>1, <3>1, SlaveKeeps DEF InputOK
    <3>. QED
      BY <1>4, <1>5, <1>6, <1>8, <1>9, <2>1, <3>2, SlaveStep
      DEF SlaveCalls, Booting, InLine, Over, Late
  <2>2. CASE pc'[r] = "run" /\ Begun(r)' = Begun(r) + 1
    <3>1. PICK b \in Nat : b = Begun(r)
      BY <1>2
    <3>2. Asked(b + 1) = Called(r)
      BY <1>9, <3>1, AskedNext
    <3>3. Asked(b + 1)' = Asked(b + 1)
      BY <1>2, <3>1, AskedStays
    <3>4. Called(r)' = Asked(Begun(r))'
      BY <1>5, <2>2, <3>1, <3>2, <3>3
    <3>5. SlaveCalls(r)'
      BY <2>2, <3>4 DEF SlaveCalls, Booting, InLine, Over, Late
    <3>. QED
      BY <1>4, <1>5, <1>6, <1>8, <1>9, <3>5, SlaveStep
  <2>. QED
    BY <1>3, <2>1, <2>2
<1>10. CASE r = 0
  <2>1. MasterReads'
    BY <1>2, <1>3, <1>10 DEF MasterReads, Booting, InLine
  <2>2. ASSUME MasterCalls PROVE MasterCalls'
    <3>1. LinesSent' /\ Called(0)' = Asked(Came)'
      BY <1>2, <1>4, <1>5, <1>10, <2>2, SentStays
    <3>. QED
      BY <1>2, <1>3, <1>10, <3>1 DEF MasterCalls, Booting, InLine
  <2>3. Called(0) <= Called(0)' /\ Called(0)' \in Int
    BY <1>2, <1>5
  <2>. QED
    BY <1>1, <1>2, <1>4, <1>5, <1>7, <1>8, <1>10, <2>1, <2>2, <2>3, MasterStep DEF InputOK
<1>. QED
  BY <1>9, <1>10

\* A slave prompts again instead of waiting for the line.
LEMMA SlaveNoMemoryStream ==
    ASSUME LifeInv, CommInv, StreamInv, NEW r \in Ranks, SlaveNoMemory(r)
    PROVE  CommInv' /\ StreamInv'
<1>1. /\ r # 0 /\ 0 \in Ranks /\ pc[r] = "read:size" /\ Complete(r, InputCopy, FALSE)
      /\ Sent(r, InputCopy)[1] # EOT /\ Goto(r, "next")
      /\ UNCHANGED <<mpi, group, calls, freed, commVars, mode, entered, executed>>
      /\ "argument" \in faults' <=> "argument" \in faults
  BY AtInput, Everybody DEF SlaveNoMemory, Reading, jobVars, mpiVars
<1>2. InputOK /\ mode # "script"
  BY <1>1 DEF StreamInv, StreamTypes
<1>3. "argument" \notin faults /\ SlaveCalls(r) /\ InStep(r)
  BY <1>1, <1>2, SlaveHears DEF InputOK
<1>4. /\ Sent(r, InputCopy) = <<Size(entered[Begun(r) + 1])>> /\ Begun(r) + 1 \in 1..Came
      /\ Called(r) = Asked(Begun(r)) + 2 /\ Called(r) <= Called(0)
  BY <1>1, SizeComes
<1>5. Called(r) \in Nat /\ Begun(r) \in Nat /\ Called(0) \in Nat /\ Came \in Nat /\ Keeps
  BY <1>1, Sums, NothingNew
<1>6. Sized(r, 2)
  <2>1. Size(entered[Begun(r) + 1]) # EOT
    BY <1>1, <1>4
  <2>2. entered[Begun(r) + 1] # Interrupt
    BY <2>1, SizeTells
  <2>. QED
    BY <1>4, <1>5, <2>2 DEF Sized, HasLine
<1>7. pc'[r] = "next" /\ Reads(r)
  BY <1>1, GotoMine DEF Reads, Reading
<1>8. CommInv' /\ \A q \in Ranks : Log(q)' = Log(q)
  BY <1>1, <1>7, SilentComms
<1>9. Others(r) /\ Called(r)' = Called(r) /\ Called(0)' = Called(0)
  BY <1>1, <1>7, <1>8, LogStays DEF Others, Reads
<1>10. Sized(r, 2)'
  BY <1>1, <1>3, <1>5, <1>6, <1>9, SlaveKeeps
<1>11. InStep(r)' /\ StreamTypes'
  BY <1>1, <1>2, <1>3, StreamStays, Typed DEF StreamTypes, LinesOK
<1>12. SlaveCalls(r)'
  BY <1>7, <1>10 DEF SlaveCalls, Booting, InLine, Over, Late
<1>. QED
  BY <1>1, <1>3, <1>8, <1>9, <1>11, <1>12, SlaveStep

LEMMA SizeDoneStream ==
    ASSUME LifeInv, CommInv, StreamInv, NEW r \in Ranks, NEW early \in BOOLEAN, SizeDone(r, early)
    PROVE  CommInv' /\ StreamInv'
<1>. DEFINE data == IF r = 0 THEN <<Last(entered)>> ELSE <<>>
            l == entered[Begun(r) + 1]
<1>1. /\ pc[r] = "read:size" /\ Complete(r, InputCopy, early)
      /\ UNCHANGED <<mode, entered, faults, commVars>>
      /\ IF Sent(r, InputCopy)[1] = EOT THEN Run(r, Interrupt) /\ UNCHANGED mpiVars
         ELSE Enter(r, InputCopy, "bcast", data) /\ Goto(r, "read:line") /\ UNCHANGED executed
  BY AtInput DEF SizeDone, Reading, jobVars
<1>. HIDE DEF data
<1>2. InputOK /\ mode # "script" /\ 0 \in Ranks
  BY <1>1, Everybody DEF StreamInv, StreamTypes
<1>3. /\ Called(r) \in Nat /\ Begun(r) \in Nat /\ Came \in Nat /\ Came' = Came
      /\ Called(0) \in Nat /\ Keeps /\ Asked(Came)' = Asked(Came) /\ Asked(Came) \in Nat
      /\ Asked(Came - 1)' = Asked(Came - 1) /\ Asked(Begun(r)) \in Nat
  BY <1>1, <1>2, Sums, NothingNew, CountStays
<1>4. /\ Sent(r, InputCopy) = <<Size(l)>> /\ Begun(r) + 1 \in 1..Came /\ l \in AllLines
      /\ r # 0 => Called(r) = Asked(Begun(r)) + 2 /\ Called(r) <= Called(0)
  BY <1>1, SizeComes
<1>5. Sent(r, InputCopy)[1] = EOT <=> l = Interrupt
  BY <1>4, SizeTells
<1>6. r = 0 => Begun(0) + 1 = Came /\ ~Stuck
  BY <1>1, <1>2 DEF Stuck, InputOK, MasterReads
<1>7. r # 0 => "argument" \notin faults /\ SlaveCalls(r) /\ InStep(r)
  BY <1>1, <1>2, SlaveHears DEF InputOK
<1>8. CASE l = Interrupt
  <2>1. Run(r, l) /\ UNCHANGED <<mpi, group, calls, freed>>
    BY <1>1, <1>5, <1>8 DEF mpiVars
  <2>2. r = 0 /\ MasterCalls => Called(0) = Asked(Came)
    <3>. SUFFICES ASSUME r = 0, MasterCalls PROVE Called(0) = Asked(Came)
      OBVIOUS
    <3>1. PICK b \in Nat : b = Begun(0)
      BY <1>3
    <3>2. Asked(b + 1) = Asked(b) + 2 /\ Came = b + 1 /\ Came - 1 = b
      BY <1>3, <1>6, <1>8, <3>1, AskedNext
    <3>3. Called(0) = Asked(Came - 1) + 2
      BY <1>1 DEF MasterCalls
    <3>. QED
      BY <3>2, <3>3
  <2>. HIDE DEF l
  <2>3. l = entered[Begun(r) + 1]
    BY DEF l
  <2>. QED
    BY <1>1, <1>2, <1>4, <1>6, <1>7, <1>8, <2>1, <2>2, <2>3, RunLineStream DEF Reading
<1>9. CASE l # Interrupt
  <2>1. Enter(r, InputCopy, "bcast", data) /\ Goto(r, "read:line") /\ UNCHANGED executed
    BY <1>1, <1>5, <1>9
  <2>2. pc'[r] = "read:line" /\ Reads(r)
    BY <1>1, <2>1, GotoMine DEF Reads, Reading
  <2>3. CommInv' /\ Logged(r, "bcast", data)
    BY <2>1, <2>2, CallingComms
  <2>4. Others(r) /\ Called(r)' = Called(r) + 1 /\ Recent(r)' = [op |-> "bcast", data |-> data]
    BY <1>1, <2>1, <2>2, <2>3 DEF Others, Reads, Logged, Enter
  <2>5. (\A q \in Ranks : InStep(q)') /\ StreamTypes'
    BY <1>1, <1>2, <2>1, StreamStays, Typed DEF InputOK, StreamTypes, LinesOK
  <2>6. CASE r # 0
    <3>1. Called(0)' = Called(0)
      BY <1>2, <2>4, <2>6, LogStays DEF Others
    <3>2. HasLine(r)
      BY <1>3, <1>4, <1>9 DEF HasLine
    <3>3. /\ Asked(Begun(r))' = Asked(Begun(r)) /\ HasLine(r)'
      BY <1>3, <1>7, <2>1, <2>6, <3>1, <3>2, SlaveKeeps
    <3>4. Sized(r, 3)'
      BY <1>3, <1>4, <2>4, <2>6, <3>1, <3>3 DEF Sized
    <3>5. SlaveCalls(r)'
      BY <2>2, <2>4, <3>4 DEF SlaveCalls, Booting, InLine, Over, Late
    <3>. QED
      BY <1>1, <1>7, <2>3, <2>4, <2>5, <2>6, <3>5, SlaveStep
  <2>7. CASE r = 0
    <3>1. data = <<entered[Came]>> /\ l = entered[Came]
      BY <1>6, <2>7 DEF data, Last, Came
    <3>2. MasterReads'
      <4>1. (Recent(0) = Cast(entered[Came]))' /\ (entered[Came] # Interrupt)'
        BY <1>1, <1>3, <1>9, <2>4, <2>7, <3>1 DEF Cast, Interrupt
      <4>2. Begun(0)' + 1 = Came'
        BY <1>3, <1>6, <2>1, <2>7 DEF Begun
      <4>. QED
        BY <2>2, <2>7, <4>1, <4>2 DEF MasterReads, Booting, InLine
    <3>3. ASSUME MasterCalls PROVE MasterCalls'
      <4>1. Called(0) = Asked(Came - 1) + 2
        BY <1>1, <2>7, <3>3 DEF MasterCalls
      <4>2. PICK b \in Nat : b = Came - 1
        BY <1>3, <1>4
      <4>3. Came = b + 1 /\ Asked(b) \in Nat /\ Asked(b + 1) = Asked(b) + 3
        BY <1>3, <1>9, <3>1, <4>2, AskedNext, AskedType
      <4>4. PICK k \in Nat : k = Called(0) + 1
        BY <1>3
      <4>5. k = Asked(b) + 3 /\ k = Asked(Came)
        BY <4>1, <4>2, <4>3, <4>4
      <4>6. \A j \in 0..(b - 1) :
                k # Asked(j) + 2 /\ (entered[j + 1] # Interrupt => k # Asked(j) + 3)
        BY <4>3, <4>5, AskedBelow, AskedType
      <4>7. \A j \in 0..b : Asked(j)' = Asked(j) /\ entered'[j + 1] = entered[j + 1]
        BY <1>1, <1>3, <4>3, AskedStays
      <4>8. \A j \in 0..(Came' - 1) : j \in 0..(b - 1) \/ j = b
        BY <1>3, <4>3
      <4>9. [op |-> "bcast", data |-> data] = Cast(entered'[b + 1]) /\ k # Asked(b)' + 2
        BY <1>1, <3>1, <4>3, <4>5, <4>7 DEF Cast
      <4>10. \A j \in 0..(Came' - 1) :
                 /\ k = Asked(j)' + 2 => [op |-> "bcast", data |-> data] = Cast(Size(entered'[j + 1]))
                 /\ k = Asked(j)' + 3 /\ entered'[j + 1] # Interrupt =>
                        [op |-> "bcast", data |-> data] = Cast(entered'[j + 1])
        BY <4>6, <4>7, <4>8, <4>9
      <4>11. LinesSent'
        BY <1>3, <2>3, <2>7, <3>3, <4>4, <4>10, SentGrows
      <4>12. Called(0)' = Asked(Came - 1)' + 3 /\ Called(0)' <= Asked(Came)' + 1
        <5>1. Came' - 1 = b /\ Called(0)' = k
          BY <1>3, <2>4, <2>7, <4>3, <4>4
        <5>. QED
          BY <1>3, <4>3, <4>5, <4>7, <5>1
      <4>. QED
        BY <2>2, <2>7, <4>11, <4>12 DEF MasterCalls, Booting, InLine
    <3>4. Called(0) <= Called(0)' /\ Called(0)' \in Int
      BY <1>3, <2>4, <2>7
    <3>. QED
      BY <1>1, <1>2, <1>3, <1>6, <2>3, <2>4, <2>5, <2>7, <3>2, <3>3, <3>4, MasterStep DEF InputOK
  <2>. QED
    BY <2>6, <2>7
<1>. QED
  BY <1>8, <1>9

LEMMA LineDoneStream ==
    ASSUME LifeInv, CommInv, StreamInv, NEW r \in Ranks, NEW early \in BOOLEAN, LineDone(r, early)
    PROVE  CommInv' /\ StreamInv'
<1>1. /\ pc[r] = "read:line" /\ Complete(r, InputCopy, early) /\ Run(r, Sent(r, InputCopy)[1])
      /\ UNCHANGED <<mpi, group, calls, freed, mode, entered, faults, commVars>>
  BY AtInput DEF LineDone, Reading, jobVars, mpiVars
<1>2. PICK l : l = entered[Begun(r) + 1]
  OBVIOUS
<1>3. /\ Run(r, l) /\ Begun(r) + 1 \in 1..Came /\ l # Interrupt
      /\ r # 0 => Called(r) = Asked(Begun(r)) + 3 /\ Called(r) <= Called(0)
  BY <1>1, <1>2, LineComes
<1>4. InputOK /\ mode # "script" /\ Came \in Nat /\ Begun(r) \in Nat
  BY <1>1, Sums DEF StreamInv, StreamTypes
<1>5. r # 0 => "argument" \notin faults
  BY <1>1, SlaveHears
<1>6. r = 0 => Begun(0) + 1 = Came /\ ~Stuck
  BY <1>1, <1>4 DEF Stuck, InputOK, MasterReads
<1>7. r = 0 /\ MasterCalls => Called(0) = Asked(Came)
  <2>. SUFFICES ASSUME r = 0, MasterCalls PROVE Called(0) = Asked(Came)
    OBVIOUS
  <2>1. PICK b \in Nat : b = Begun(0)
    BY <1>4
  <2>2. Asked(b + 1) = Asked(b) + 3 /\ Came = b + 1 /\ Came - 1 = b
    BY <1>2, <1>3, <1>4, <1>6, <2>1, AskedNext
  <2>3. Called(0) = Asked(Came - 1) + 3
    BY <1>1 DEF MasterCalls
  <2>. QED
    BY <2>2, <2>3
<1>. QED
  BY <1>1, <1>2, <1>3, <1>4, <1>5, <1>6, <1>7, RunLineStream DEF Reading

LEMMA ReadScriptStream ==
    ASSUME LifeInv, CommInv, StreamInv, NEW r \in Ranks, NEW l \in AllLines, ReadScript(r, l)
    PROVE  CommInv' /\ StreamInv'
<1>1. /\ pc[r] = "next" /\ mode = "script" /\ mode' = mode /\ Run(r, l)
      /\ UNCHANGED <<group, calls, freed, commVars>>
      /\ UNCHANGED entered \/ Choose(l)
  BY DEF ReadScript, jobVars, mpiVars
<1>2. /\ LinesOK'
      /\ \A q \in Ranks \ {r} : pc'[q] = pc[q] /\ executed'[q] = executed[q]
      /\ pc'[r] \in {"run", "leave"}
  BY <1>1, LineRun
<1>3. CommInv'
  BY <1>1, <1>2, SilentComms DEF Reads, Reading
<1>4. StreamTypes'
  BY <1>1, <1>2, LineChosen, Typed DEF StreamInv, StreamTypes
<1>. QED
  BY <1>1, <1>3, <1>4 DEF StreamInv

LEMMA ReadStream ==
    ASSUME LifeInv, CommInv, StreamInv, NEW r \in Ranks, NEW early \in BOOLEAN, Alive(r), Read(r, early)
    PROVE  CommInv' /\ StreamInv'
BY EnterReadlineStream, FinalizedReadlineStream, ReadLineStream, FeedBadArgumentStream, AwaitSizeStream,
   SizeDoneStream, SlaveNoMemoryStream, LineDoneStream, ReadScriptStream DEF Read

LEMMA StepStream ==
    ASSUME LifeInv, CommInv, StreamInv, NEW r \in Ranks, NEW early \in BOOLEAN, Step(r, early)
    PROVE  CommInv' /\ StreamInv'
<1>. Alive(r) /\ LinesOK
  BY Typed DEF Step
<1>1. CASE Boot(r)
  <2>1. CASE Initialize(r)
    <3>1. \A q \in Ranks \ {r} : mpi'[q] \in {mpi[q], "killed"}
      BY <2>1 DEF Initialize, MPI_Init, LifeInv, Types
    <3>2. pc[r] = "start"
      BY <2>1 DEF Initialize
    <3>. QED
      BY <2>1, <3>1, <3>2, InitializeComms, BootStream DEF Booting
  <2>2. CASE DupWorld(r) \/ WorldDone(r)
    <3>1. Fades(r)
      BY <2>2, BootQuiet, UsedFades DEF Quiet
    <3>. QED
      BY <2>2, <3>1, DupWorldComms, WorldDoneComms, BootStream DEF Fades, Booting
  <2>. QED
    BY <1>1, <2>1, <2>2 DEF Boot
<1>2. CASE Read(r, early)
  BY <1>2, ReadStream
<1>3. CASE Output(r, early) \/ Command(r, early) \/ Leave(r, early)
  <2>1. Fades(r)
    <3>1. ~Initialize(r)
      <4>1. ASSUME Output(r, early) PROVE pc[r] # "start"
        BY <4>1, OutputAside DEF Aside, Turns, InLine, Over, Late
      <4>2. ASSUME Command(r, early) PROVE pc[r] # "start"
        BY <4>2, CommandAside DEF Aside, Turns, InLine, Over, Late
      <4>3. ASSUME Leave(r, early) PROVE pc[r] # "start"
        BY <4>3 DEF Leave, Destroy, last_wish, readline_fini, sysmods_fini, AtEnd, EndFinalized
      <4>. QED
        BY <1>3, <4>1, <4>2, <4>3 DEF Initialize
    <3>. QED
      BY <3>1, StepFades
  <2>2. CASE Aside(r)
    BY <2>1, <2>2, AsideKeeps, TurnsStream DEF Aside, Apart
  <2>3. CASE last_wish(r)
    BY <2>1, <2>3, LastWishComms, TurnsStream
  <2>4. CASE readline_fini(r)
    BY <2>1, <2>4, ReadlineFiniComms, FiniStream
  <2>. QED
    BY <1>3, <2>2, <2>3, <2>4, OutputAside, CommandAside, LeaveAside DEF Leave
<1>. QED
  BY <1>1, <1>2, <1>3 DEF Step

LEMMA StreamInitially == Init => CommInv /\ StreamInv
<1>. SUFFICES ASSUME Init PROVE CommInv /\ StreamInv
  OBVIOUS
<1>1. /\ pc = [r \in Ranks |-> "start"]
      /\ group = [c \in {COMM_WORLD} |-> [i \in 1..N |-> i - 1]]
      /\ calls = [c \in {COMM_WORLD} |-> [r \in Ranks |-> <<>>]]
      /\ freed = [r \in Ranks |-> {}]
      /\ object = [r \in Ranks |-> [n \in Names |-> None]]
      /\ pyMPI_COMM_WORLD = [r \in Ranks |-> COMM_NULL]
      /\ pyMPI_COMM_INPUT = [r \in Ranks |-> COMM_NULL]
      /\ entered = <<>> /\ executed = [r \in Ranks |-> <<>>] /\ faults = {}
  BY DEF Init, MPIInit, CommInit, ReadInit
<1>2. CommsOK
  <2>1. \A c \in DOMAIN group : group[c] = AllRanks
    BY <1>1 DEF AllRanks
  <2>2. \A c \in DOMAIN group : calls[c] \in [Ranks -> Seq({})]
    BY <1>1
  <2>. QED
    BY <1>1, <2>1, <2>2, Everybody, Names4 DEF CommsOK
<1>3. HandleTypes
  BY <1>1, NoneThing, Everybody DEF HandleTypes
<1>4. ASSUME NEW r \in Ranks PROVE RankComms(r)
  BY <1>1, NoneThing, Names4
  DEF RankComms, HandlesOK, TurnOK, FreedOK, MakeOK, Booting, Turn
<1>5. StreamTypes
  BY <1>1 DEF StreamTypes, LinesOK
<1>6. InputOK
  <2>1. \A q \in Ranks : Log(q) = <<>> /\ Called(q) = 0 /\ Begun(q) = 0 /\ Came = 0
    BY <1>1, Names4 DEF Log, Called, Begun, Came
  <2>2. \A q \in Ranks : InStep(q) /\ SlaveCalls(q)
    BY <1>1, <2>1 DEF InStep, SlaveCalls, Booting, InLine, Over, Late
  <2>3. MasterReads /\ MasterCalls
    <3>1. Asked(0) = 0 /\ Came = 0 /\ 0 \in Ranks /\ Called(0) = 0 /\ Begun(0) = 0 /\ pc[0] = "start"
      BY <1>1, <2>1, AskedNone, Everybody
    <3>2. LinesSent
      BY <3>1 DEF LinesSent
    <3>. QED
      BY <3>1, <3>2 DEF MasterReads, MasterCalls, Booting, InLine
  <2>. QED
    BY <1>1, <2>2, <2>3 DEF InputOK
<1>. QED
  BY <1>2, <1>3, <1>4, <1>5, <1>6 DEF CommInv, StreamInv

SessionInv == LifeInv /\ CommInv /\ StreamInv

LEMMA SessionAlways == Spec => []SessionInv
<1>1. SessionInv /\ [Next]_vars => SessionInv'
  <2>. SUFFICES ASSUME SessionInv, [Next]_vars PROVE SessionInv'
    OBVIOUS
  <2>1. CASE Next
    BY <2>1, StepKeeps, StepStream DEF Next, SessionInv
  <2>2. CASE UNCHANGED vars
    <3>1. /\ UNCHANGED <<pc, mpi, finalizes, group, calls, freed, misused>>
          /\ UNCHANGED <<object, pyMPI_COMM_WORLD, pyMPI_COMM_INPUT>>
          /\ UNCHANGED <<mode, pyMPI_owns_MPI, entered, executed, faults>>
          /\ UNCHANGED <<sys_exit_called, exits>>
      BY <2>2 DEF vars, mpiVars, commVars, readVars, jobVars, lifeVars
    <3>2. LifeInv'
      BY <3>1 DEF SessionInv, LifeInv, Types, RankOK, StateOK, OnceOK, EndOK, Did, Alive
    <3>3. CommInv'
      <4>1. CommInv /\ CommsOK /\ Grown /\ \A q \in Ranks : Kept(q)
        BY <3>1 DEF SessionInv, CommInv, Grown, Kept
      <4>2. CommsOK'
        BY <3>1, <4>1 DEF CommsOK
      <4>3. HandleTypes'
        BY <3>1, <4>1 DEF CommInv, HandleTypes
      <4>4. ASSUME NEW q \in Ranks PROVE RankComms(q)'
        <5>1. Kept(q)
          BY <4>1
        <5>. QED
          BY ONLY <3>1, <4>1, <5>1, OthersComms, q \in Ranks
      <4>. QED
        BY Zenon, <4>2, <4>3, <4>4 DEF CommInv
    <3>4. \A q \in Ranks : Log(q)' = Log(q) /\ Called(q)' = Called(q) /\ Recent(q)' = Recent(q)
                           /\ Begun(q)' = Begun(q) /\ Came' = Came
      BY <3>1 DEF Log, Called, Recent, Begun, Came
    <3>5. StreamTypes'
      BY <3>1 DEF SessionInv, StreamInv, StreamTypes, LinesOK
    <3>6. ASSUME InputOK PROVE InputOK'
      <4>1. 0 \in Ranks /\ CommInv /\ StreamInv /\ Called(0) \in Nat /\ Keeps
        BY <3>1, Everybody, Counts, NothingNew DEF SessionInv
      <4>2. Asked(Came)' = Asked(Came)
        BY <3>1, CountStays
      <4>3. \A q \in Ranks : InStep(q)'
        BY <3>1, <3>6, StreamStays DEF InputOK
      <4>4. MasterReads' /\ (MasterCalls => MasterCalls')
        BY <3>1, <3>4, <3>6, <4>1, MasterStays DEF InputOK
      <4>5. ASSUME "argument" \notin faults, NEW q \in Ranks \ {0} PROVE SlaveCalls(q)'
        BY <3>1, <3>4, <3>6, <4>1, <4>5, SlaveStays DEF InputOK
      <4>6. Stuck => Stuck'
        BY <3>1, <3>4, <4>1, <4>2 DEF Stuck, StuckSlave
      <4>. QED
        BY <3>1, <3>6, <4>3, <4>4, <4>5, <4>6 DEF InputOK
    <3>. QED
      BY <3>1, <3>2, <3>3, <3>5, <3>6 DEF SessionInv, StreamInv
  <2>. QED
    BY <2>1, <2>2
<1>2. Init => SessionInv
  BY LifeInitially, StreamInitially DEF SessionInv
<1>. QED
  BY <1>1, <1>2, PTL DEF Spec

-----------------------------------------------------------------------------
(***************************************************************************)
(* The session implements InputStream.  What has no part in the input only *)
(* makes ranks ready for it; ReadLine is the stream's Read, LineDone its   *)
(* Execute, as SizeDone is for an interrupt, and a rank that leaves its    *)
(* readline stops taking lines.                                            *)
(***************************************************************************)
AtReadline  == {q \in Ranks : pc[q] \in Reading}
MasterAlone == finalizes[0] > 0
InputStep   == [Stream0!Next]_(Stream0!vars)

LEMMA ScriptStep == ASSUME mode = "script", mode' = mode PROVE InputStep
BY DEF InputStep, Stream0!vars

LEMMA ReadyStep ==
    ASSUME mode # "script", mode' = mode, NEW r \in Ranks, UNCHANGED <<entered, executed>>,
           AtReadline' \in {AtReadline, AtReadline \cup {r}}, MasterAlone => MasterAlone'
    PROVE  InputStep
BY DEF InputStep, Stream0!Next, Stream0!Ready, AtReadline, MasterAlone

LEMMA StopStep ==
    ASSUME mode # "script", mode' = mode, NEW r \in Ranks, UNCHANGED <<entered, executed, finalizes>>,
           AtReadline' = AtReadline \ {r}
    PROVE  InputStep
BY DEF InputStep, Stream0!Next, Stream0!Stop, AtReadline

LEMMA ExecuteStep ==
    ASSUME mode # "script", mode' = mode, NEW r \in Ranks, UNCHANGED <<entered, finalizes>>,
           r \in AtReadline, AtReadline' = AtReadline \ {r}, Begun(r) < Came,
           executed' = [executed EXCEPT ![r] = Append(@, entered[Len(@) + 1])]
    PROVE  InputStep
BY DEF InputStep, Stream0!Next, Stream0!Execute, AtReadline, Begun, Came

LEMMA ReadStep ==
    ASSUME mode # "script", mode' = mode, NEW l \in AllLines, UNCHANGED <<executed, finalizes>>,
           entered' = Append(entered, l), AtReadline = Ranks, AtReadline' = AtReadline,
           \A q \in Ranks : executed[q] = entered
    PROVE  InputStep
BY DEF InputStep, Stream0!Next, Stream0!Read, AtReadline

LEMMA ReadAloneStep ==
    ASSUME mode # "script", mode' = mode, NEW l \in AllLines, UNCHANGED finalizes, MasterAlone,
           entered' = Append(entered, l), 0 \in AtReadline, AtReadline' = AtReadline \ {0},
           executed' \in {executed, [executed EXCEPT ![0] = Append(@, l)]}
    PROVE  InputStep
BY DEF InputStep, Stream0!Next, Stream0!ReadAlone, AtReadline, MasterAlone

\* A rank that is not at its readline
LEMMA OutsideStep ==
    ASSUME NEW r \in Ranks, pc[r] \notin Reading, \A q \in Ranks \ {r} : pc'[q] = pc[q],
           UNCHANGED <<mode, entered, executed>>, MasterAlone => MasterAlone'
    PROVE  InputStep
<1>1. AtReadline' \in {AtReadline, AtReadline \cup {r}}
  BY DEF AtReadline
<1>. QED
  BY <1>1, ScriptStep, ReadyStep

\* A rank that stays at its readline, or leaves it for no line
LEMMA InsideStep ==
    ASSUME LifeInv, NEW r \in Ranks, NEW where, Goto(r, where), pc[r] \in Reading,
           UNCHANGED <<mode, entered, executed, finalizes>>
    PROVE  InputStep
<1>1. pc'[r] = where /\ \A q \in Ranks \ {r} : pc'[q] = pc[q]
  BY GotoMine
<1>2. AtReadline' = AtReadline \/ AtReadline' = AtReadline \ {r}
  BY <1>1 DEF AtReadline
<1>3. CASE AtReadline' = AtReadline
  BY <1>3, ScriptStep, ReadyStep DEF MasterAlone
<1>. QED
  BY <1>2, <1>3, ScriptStep, StopStep

LEMMA MasterAloneStays == ASSUME LifeInv, LifeInv', NEW r \in Ranks, Fades(r), MasterAlone PROVE MasterAlone'
<1>1. 0 \in Ranks
  BY Everybody
<1>2. finalizes[0] \in Nat /\ finalizes'[0] \in Nat /\ finalizes'[0] >= finalizes[0] /\ finalizes[0] > 0
  BY <1>1 DEF MasterAlone, Fades, LifeInv, Types
<1>. QED
  BY <1>2 DEF MasterAlone

-----------------------------------------------------------------------------
LEMMA ReadLineRefines ==
    ASSUME LifeInv, CommInv, StreamInv, NEW r \in Ranks, NEW l \in AllLines, ReadLine(r, l)
    PROVE  InputStep
<1>1. /\ r = 0 /\ pc[0] = "read:barrier" /\ Complete(0, InputCopy, FALSE)
      /\ Choose(l) /\ Goto(0, "read:size")
      /\ UNCHANGED <<mode, executed, finalizes>>
  BY AtInput DEF ReadLine, Reading, jobVars, Enter
<1>2. mode # "script" /\ InputOK
  BY <1>1 DEF StreamInv, StreamTypes
<1>3. pc'[0] = "read:size" /\ \A q \in Ranks \ {0} : pc'[q] = pc[q]
  BY <1>1, GotoMine
<1>4. \A q \in Ranks : pc[q] \in Reading /\ Begun(q) = Came
  BY <1>1, AllWait
<1>5. AtReadline = Ranks /\ AtReadline' = AtReadline
  BY <1>1, <1>3, <1>4 DEF AtReadline, Reading
<1>6. ASSUME NEW q \in Ranks PROVE executed[q] = entered
  <2>1. executed[q] \in Seq(AllLines) /\ entered \in Seq(AllLines)
    BY Typed DEF LinesOK
  <2>2. Len(executed[q]) = Len(entered) /\ \A i \in 1..Len(executed[q]) : executed[q][i] = entered[i]
    BY <1>2, <1>4 DEF InputOK, InStep, Begun, Came
  <2>. QED
    BY <2>1, <2>2, SeqEqual
<1>. QED
  BY <1>1, <1>2, <1>5, <1>6, ReadStep DEF Choose

\* A rank runs the next line, or leaves.
LEMMA RunLineRefines ==
    ASSUME LifeInv, StreamInv, NEW r \in Ranks, pc[r] \in Reading, mode # "script",
           NEW l, l = entered[Begun(r) + 1], Begun(r) + 1 \in 1..Came, l \in AllLines, Run(r, l),
           UNCHANGED <<mode, entered, finalizes>>
    PROVE  InputStep
<1>1. Begun(r) \in Nat /\ Came \in Nat /\ Begun(r) < Came
  BY Typed, LenProperties DEF LinesOK, Begun, Came
<1>2. /\ \A q \in Ranks \ {r} : pc'[q] = pc[q]
      /\ \/ pc'[r] = "leave" /\ UNCHANGED executed
         \/ pc'[r] = "run" /\ executed' = [executed EXCEPT ![r] = Append(@, l)]
  BY LineRun DEF Run
<1>3. r \in AtReadline /\ AtReadline' = AtReadline \ {r}
  BY <1>2 DEF AtReadline, Reading
<1>4. executed' = [executed EXCEPT ![r] = Append(@, l)] =>
          executed' = [executed EXCEPT ![r] = Append(@, entered[Len(@) + 1])]
  BY DEF Begun
<1>. QED
  BY <1>1, <1>2, <1>3, <1>4, StopStep, ExecuteStep

LEMMA LineDoneRefines ==
    ASSUME LifeInv, CommInv, StreamInv, NEW r \in Ranks, NEW early \in BOOLEAN, LineDone(r, early)
    PROVE  InputStep
<1>1. /\ pc[r] = "read:line" /\ Complete(r, InputCopy, early) /\ Run(r, Sent(r, InputCopy)[1])
      /\ UNCHANGED <<mode, entered, finalizes>>
  BY AtInput DEF LineDone, Reading, jobVars, mpiVars
<1>2. PICK l : l = entered[Begun(r) + 1]
  OBVIOUS
<1>3. Run(r, l) /\ Begun(r) + 1 \in 1..Came /\ l \in AllLines
  BY <1>1, <1>2, LineComes
<1>4. mode # "script"
  BY <1>1 DEF StreamInv, StreamTypes
<1>. QED
  BY <1>1, <1>2, <1>3, <1>4, RunLineRefines DEF Reading

LEMMA SizeDoneRefines ==
    ASSUME LifeInv, CommInv, StreamInv, NEW r \in Ranks, NEW early \in BOOLEAN, SizeDone(r, early)
    PROVE  InputStep
<1>1. /\ pc[r] = "read:size" /\ Complete(r, InputCopy, early)
      /\ UNCHANGED <<mode, entered, finalizes>>
      /\ \/ Sent(r, InputCopy)[1] = EOT /\ Run(r, Interrupt)
         \/ Goto(r, "read:line") /\ UNCHANGED executed
  BY AtInput DEF SizeDone, Reading, jobVars, mpiVars, Enter
<1>2. PICK l : l = entered[Begun(r) + 1]
  OBVIOUS
<1>3. Sent(r, InputCopy) = <<Size(l)>> /\ Begun(r) + 1 \in 1..Came /\ l \in AllLines
  BY <1>1, <1>2, SizeComes
<1>4. mode # "script"
  BY <1>1 DEF StreamInv, StreamTypes
<1>5. CASE Sent(r, InputCopy)[1] = EOT /\ Run(r, Interrupt)
  <2>1. l = Interrupt /\ Run(r, l)
    BY <1>3, <1>5, SizeTells
  <2>. QED
    BY <1>1, <1>2, <1>3, <1>4, <2>1, RunLineRefines DEF Reading
<1>6. CASE Goto(r, "read:line") /\ UNCHANGED executed
  BY <1>1, <1>6, InsideStep DEF Reading
<1>. QED
  BY <1>1, <1>5, <1>6

LEMMA FinalizedReadlineRefines ==
    ASSUME LifeInv, CommInv, StreamInv, NEW r \in Ranks, NEW l \in AllLines, FinalizedReadline(r, l)
    PROVE  InputStep
<1>1. /\ pc[r] = "next" /\ mode # "script" /\ Finalized(r)
      /\ UNCHANGED <<mode, finalizes>>
      /\ IF r = 0 THEN Choose(l) /\ Run(r, l) ELSE Goto(r, "next") /\ UNCHANGED <<entered, executed>>
  BY DEF FinalizedReadline, jobVars
<1>2. CASE r # 0
  BY <1>1, <1>2, InsideStep DEF Reading
<1>3. CASE r = 0
  <2>1. MasterAlone
    <3>1. finalizes[0] \in Nat /\ finalizes[0] >= 1
      BY <1>1, <1>3 DEF LifeInv, Types, RankOK, StateOK, Finalized
    <3>. QED
      BY <3>1 DEF MasterAlone
  <2>2. /\ \A q \in Ranks \ {r} : pc'[q] = pc[q]
        /\ pc'[r] \in {"run", "leave"}
    BY <1>1, <1>3, LineRun
  <2>3. 0 \in AtReadline /\ AtReadline' = AtReadline \ {0}
    BY <1>1, <1>3, <2>2 DEF AtReadline, Reading
  <2>4. entered' = Append(entered, l) /\ executed' \in {executed, [executed EXCEPT ![0] = Append(@, l)]}
    BY <1>1, <1>3 DEF Choose, Run
  <2>. QED
    BY <1>1, <2>1, <2>3, <2>4, ReadAloneStep
<1>. QED
  BY <1>2, <1>3

LEMMA ReadRefines ==
    ASSUME LifeInv, CommInv, StreamInv, NEW r \in Ranks, NEW early \in BOOLEAN, Read(r, early)
    PROVE  InputStep
<1>1. CASE EnterReadline(r)
  <2>1. PICK where \in {"read:barrier", "leave", "next"} : Goto(r, where)
    BY <1>1 DEF EnterReadline
  <2>2. pc[r] \in Reading /\ UNCHANGED <<mode, entered, executed, finalizes>>
    BY <1>1 DEF EnterReadline, Reading, readVars, jobVars, Enter, Misuse
  <2>. QED
    BY <2>1, <2>2, InsideStep
<1>2. CASE FeedBadArgument(r) \/ AwaitSize(r) \/ SlaveNoMemory(r)
  <2>1. PICK where \in {"next", "read:size"} : Goto(r, where)
    BY <1>2 DEF FeedBadArgument, AwaitSize, SlaveNoMemory
  <2>2. pc[r] \in Reading /\ UNCHANGED <<mode, entered, executed, finalizes>>
    BY <1>2 DEF FeedBadArgument, AwaitSize, SlaveNoMemory, Reading, readVars, jobVars, mpiVars, Enter
  <2>. QED
    BY <2>1, <2>2, InsideStep
<1>3. ASSUME NEW l \in AllLines, ReadScript(r, l) PROVE InputStep
  BY <1>3, ScriptStep DEF ReadScript, jobVars
<1>. QED
  BY <1>1, <1>2, <1>3, ReadLineRefines, SizeDoneRefines, LineDoneRefines, FinalizedReadlineRefines
  DEF Read

LEMMA StepRefines ==
    ASSUME SessionInv, LifeInv', NEW r \in Ranks, NEW early \in BOOLEAN, Step(r, early)
    PROVE  InputStep
<1>. LifeInv /\ CommInv /\ StreamInv /\ LinesOK
  BY Typed DEF SessionInv
<1>1. CASE Read(r, early)
  BY <1>1, ReadRefines
<1>2. CASE Initialize(r)
  <2>1. Elsewhere(r) /\ pc[r] = "start" /\ UNCHANGED finalizes
    BY <1>2, InitializeComms DEF Initialize, MPI_Init
  <2>. QED
    BY <2>1, OutsideStep DEF Elsewhere, Reading, MasterAlone
<1>3. CASE Boot(r) /\ ~Initialize(r)
  <2>1. Elsewhere(r) /\ pc[r] \in Booting
    BY <1>3, DupWorldComms, WorldDoneComms DEF Boot
  <2>2. MasterAlone => MasterAlone'
    BY <1>3, StepFades, MasterAloneStays
  <2>. QED
    BY <2>1, <2>2, OutsideStep DEF Elsewhere, Reading, Booting
<1>4. CASE Output(r, early) \/ Command(r, early) \/ Leave(r, early)
  <2>1. /\ pc[r] \notin Reading /\ pc[r] # "start" /\ \A q \in Ranks \ {r} : pc'[q] = pc[q]
        /\ UNCHANGED <<mode, entered, executed>>
    <3>1. CASE Turns(r)
      BY <3>1 DEF Turns, InLine, Over, Late, Reading
    <3>2. CASE readline_fini(r)
      BY <3>2, ReadlineFiniComms DEF Reading
    <3>. QED
      BY <1>4, <3>1, <3>2, OutputAside, CommandAside, LeaveAside, LastWishComms DEF Leave, Aside
  <2>2. MasterAlone => MasterAlone'
    BY <2>1, StepFades, MasterAloneStays DEF Initialize
  <2>. QED
    BY <2>1, <2>2, OutsideStep
<1>. QED
  BY <1>1, <1>2, <1>3, <1>4 DEF Step

\* At a prompt the ranks work in step, as InputStream promises: a line is read
\* only when every rank is through with every earlier line (parallelReadline
\* and bcast_input_to_slaves, their barrier and two broadcasts).
THEOREM InputInStep == Spec => ImplementsInputStream
<1>1. Init => Stream0!Init
  <2>. SUFFICES ASSUME Init PROVE Stream0!Init
    OBVIOUS
  <2>1. /\ entered = <<>> /\ executed = [r \in Ranks |-> <<>>] /\ pc = [r \in Ranks |-> "start"]
        /\ finalizes[0] = 0
    BY Everybody DEF Init, ReadInit, MPIInit
  <2>. QED
    BY <2>1 DEF Stream0!Init, Reading
<1>2. SessionInv /\ SessionInv' /\ [Next]_vars => [Stream0!Next]_(Stream0!vars)
  <2>. SUFFICES ASSUME SessionInv, SessionInv', [Next]_vars PROVE InputStep
    BY DEF InputStep
  <2>1. CASE Next
    BY <2>1, StepRefines DEF Next, SessionInv
  <2>2. CASE UNCHANGED vars
    BY <2>2 DEF InputStep, Stream0!vars, vars, mpiVars, readVars, jobVars
  <2>. QED
    BY <2>1, <2>2
<1>. QED
  BY <1>1, <1>2, SessionAlways, PTL DEF Spec, ImplementsInputStream, Stream0!Spec

-----------------------------------------------------------------------------
(***************************************************************************)
(* The streams of output, and the rest that TypeOK says                    *)
(***************************************************************************)
Outlets == {"terminal", "file", "null"}
Faults  == {"argument", "memory", "raised", "uncaught", "misuse", "assertion"}
Syncing == {"out:sync", "out:syncBarrier"}
Outgoing == Syncing \cup {"out:collect", "out:send", "out:failed"}

\* A stream that r synchronizes
QueueOK(r) ==
    /\ pc[r] \in Syncing => Line(r).do = "queue"
    /\ pc[r] \in Outgoing /\ Line(r).do = "queue" => streams[r] # <<>>

OutTypes ==
    /\ written \in [Ranks -> 0..N]
    /\ streams \in [Ranks -> Seq(Stream)] /\ \A r \in Ranks : IsInjective(streams[r])
    /\ \E H : stream \in [Ranks -> [Stream -> [to : Outlets, held : H]]]

OutInv ==
    /\ OutTypes
    /\ mode \in {"prompt", "feeder", "script"} /\ faults \subseteq Faults
    /\ \A r \in Ranks : QueueOK(r)

\* A step of r that leaves the streams as they are, and does not begin to
\* synchronize them
Settled(r) ==
    /\ UNCHANGED <<written, streams, stream>>
    /\ mode' = mode /\ faults' \subseteq Faults
    /\ \A q \in Ranks \ {r} : pc'[q] = pc[q] /\ executed'[q] = executed[q]
    /\ pc'[r] \notin Outgoing

LEMMA SettledKeeps == ASSUME OutInv, NEW r \in Ranks, Settled(r) PROVE OutInv'
<1>1. OutTypes'
  BY DEF OutInv, OutTypes, Settled
<1>2. ASSUME NEW q \in Ranks PROVE QueueOK(q)'
  BY <1>2 DEF OutInv, Settled, Line, QueueOK, Outgoing
<1>. QED
  BY <1>1, <1>2 DEF OutInv, Settled

LEMMA GotoSettled ==
    ASSUME LifeInv, OutInv, NEW r \in Ranks, NEW where, where \notin Outgoing, Goto(r, where),
           UNCHANGED <<mode, executed, written, streams, stream>>, faults' \subseteq Faults
    PROVE  Settled(r)
BY GotoMine DEF Settled

LEMMA ProceedSettled ==
    ASSUME LifeInv, OutInv, NEW r \in Ranks, NEW where, where \notin Outgoing, Proceed(r, where),
           UNCHANGED <<written, streams, stream>>
    PROVE  Settled(r)
BY GotoSettled DEF Proceed, readVars, jobVars, OutInv

LEMMA RaiseSettled ==
    ASSUME LifeInv, OutInv, NEW r \in Ranks, NEW fault \in SUBSET Faults, Raise(r, fault),
           UNCHANGED <<written, streams, stream>>
    PROVE  Settled(r)
<1>1. faults' \subseteq Faults
  BY DEF Raise, OutInv, Faults
<1>2. PICK where \in {"leave", "next"} : Goto(r, where)
  BY DEF Raise
<1>3. where \notin Outgoing /\ UNCHANGED <<mode, executed>>
  BY DEF Outgoing, Syncing, Raise, jobVars
<1>. QED
  BY <1>1, <1>2, <1>3, GotoSettled

LEMMA CommandSettled ==
    ASSUME LifeInv, OutInv, NEW r \in Ranks, NEW early \in BOOLEAN, Command(r, early)
    PROVE  Settled(r)
<1>1. UNCHANGED <<written, streams, stream>>
  BY DEF Command, UserRaises, MakeComm, CommMade, CommBound, WrapHandle, SetPersistent, Delete,
         FreeComm, Finalize, FinalizeDone, SystemExit, AbortJob, fatal_signal, outVars
<1>2. \/ \E where \in {"next", "make", "finalizing", "leave", "gone"} : Proceed(r, where)
      \/ \E fault \in {{}, {"raised"}} : Raise(r, fault)
      \/ Goto(r, "made") /\ UNCHANGED readVars
  BY DEF Command, UserRaises, MakeComm, CommMade, CommBound, WrapHandle, SetPersistent, Delete,
         FreeComm, Finalize, FinalizeDone, SystemExit, AbortJob, fatal_signal, Call
<1>3. ASSUME NEW where \in {"next", "make", "finalizing", "leave", "gone"}, Proceed(r, where) PROVE Settled(r)
  <2>1. where \notin Outgoing
    BY DEF Outgoing, Syncing
  <2>. QED
    BY <1>1, <1>3, <2>1, ProceedSettled
<1>4. ASSUME NEW fault \in {{}, {"raised"}}, Raise(r, fault) PROVE Settled(r)
  <2>1. fault \in SUBSET Faults
    BY DEF Faults
  <2>. QED
    BY <1>1, <1>4, <2>1, RaiseSettled
<1>5. CASE Goto(r, "made") /\ UNCHANGED readVars
  BY <1>1, <1>5, GotoSettled DEF readVars, jobVars, Outgoing, Syncing, OutInv
<1>. QED
  BY <1>2, <1>3, <1>4, <1>5

LEMMA LeaveSettled ==
    ASSUME LifeInv, OutInv, NEW r \in Ranks, NEW early \in BOOLEAN, Leave(r, early)
    PROVE  Settled(r)
<1>1. UNCHANGED <<written, streams, stream, readVars>>
  BY DEF Leave, Destroy, last_wish, readline_fini, sysmods_fini, AtEnd, EndFinalized, outVars, Proceed
<1>2. CASE Destroy(r)
  BY <1>1, <1>2 DEF Destroy, Settled, readVars, jobVars, OutInv, Outgoing, Syncing
<1>3. CASE ~Destroy(r)
  <2>1. PICK where \in {"fini:readline", "fini:sysmods", "fini:finalizing", "end", "end:finalizing", "gone"} :
            Proceed(r, where)
    BY <1>3 DEF Leave, last_wish, readline_fini, sysmods_fini, AtEnd, EndFinalized
  <2>2. where \notin Outgoing
    BY DEF Outgoing, Syncing
  <2>. QED
    BY <1>1, <2>1, <2>2, ProceedSettled
<1>. QED
  BY <1>2, <1>3

LEMMA BootSettled ==
    ASSUME LifeInv, OutInv, NEW r \in Ranks, Boot(r)
    PROVE  Settled(r)
<1>1. UNCHANGED <<written, streams, stream, readVars>>
  BY DEF Boot, Initialize, DupWorld, WorldDone, outVars
<1>2. PICK where \in {"init", "init:dup", "initComm", "init:dupInput", "next"} : Goto(r, where)
  BY DEF Boot, Initialize, DupWorld, WorldDone
<1>3. where \notin Outgoing
  BY DEF Outgoing, Syncing
<1>. QED
  BY <1>1, <1>2, <1>3, GotoSettled DEF readVars, jobVars, OutInv

LEMMA ReadSettled ==
    ASSUME LifeInv, CommInv, StreamInv, OutInv, NEW r \in Ranks, NEW early \in BOOLEAN, Read(r, early)
    PROVE  Settled(r)
<1>1. UNCHANGED <<written, streams, stream, mode>>
  BY DEF Read, EnterReadline, FeedBadArgument, AwaitSize, SlaveNoMemory, SizeDone, LineDone,
         FinalizedReadline, ReadLine, ReadScript, outVars, readVars, jobVars
<1>2. faults' \subseteq Faults
  BY DEF Read, EnterReadline, FeedBadArgument, AwaitSize, SlaveNoMemory, SizeDone, LineDone,
         FinalizedReadline, ReadLine, ReadScript, readVars, OutInv, Faults
<1>3. \/ \E where \in {"next", "read:barrier", "read:size", "read:line", "leave"} :
             Goto(r, where) /\ UNCHANGED executed
      \/ \E l \in AllLines : Run(r, l)
  <2>1. CASE LineDone(r, early)
    <3>1. pc[r] = "read:line" /\ Complete(r, InputCopy, early) /\ Run(r, Sent(r, InputCopy)[1])
      BY <2>1, AtInput DEF LineDone, Reading
    <3>2. Sent(r, InputCopy) = <<entered[Begun(r) + 1]>> /\ entered[Begun(r) + 1] \in AllLines
      BY <3>1, LineComes
    <3>. QED
      BY <3>1, <3>2
  <2>2. CASE SizeDone(r, early)
    <3>1. pc[r] = "read:size" /\ Complete(r, InputCopy, early)
          /\ \/ Sent(r, InputCopy)[1] = EOT /\ Run(r, Interrupt)
             \/ Goto(r, "read:line") /\ UNCHANGED executed
      BY <2>2, AtInput DEF SizeDone, Reading
    <3>2. Sent(r, InputCopy) = <<Size(entered[Begun(r) + 1])>> /\ entered[Begun(r) + 1] \in AllLines
      BY <3>1, SizeComes
    <3>3. Sent(r, InputCopy)[1] = EOT => Interrupt \in AllLines
      BY <3>2, SizeTells
    <3>. QED
      BY <3>1, <3>3
  <2>3. CASE ~LineDone(r, early) /\ ~SizeDone(r, early)
    BY <2>3 DEF Read, EnterReadline, FeedBadArgument, AwaitSize, SlaveNoMemory,
       FinalizedReadline, ReadLine, ReadScript, readVars
  <2>. QED
    BY <2>1, <2>2, <2>3
<1>4. ASSUME NEW where \in {"next", "read:barrier", "read:size", "read:line", "leave"}, Goto(r, where),
             UNCHANGED executed
      PROVE  Settled(r)
  <2>1. where \notin Outgoing
    BY DEF Outgoing, Syncing
  <2>. QED
    BY <1>1, <1>2, <1>4, <2>1, GotoSettled
<1>5. ASSUME NEW l \in AllLines, Run(r, l) PROVE Settled(r)
  BY <1>1, <1>2, <1>5, LineRun DEF Settled, Outgoing, Syncing
<1>. QED
  BY <1>3, <1>4, <1>5

LEMMA OutKeeps ==
    ASSUME LifeInv, OutInv, OutTypes', NEW r \in Ranks, NEW where, Goto(r, where), mode' = mode,
           faults' \subseteq Faults, UNCHANGED executed, where \in Syncing => Line(r).do = "queue",
           \A q \in Ranks \ {r} : streams'[q] = streams[q],
           where \in Outgoing /\ Line(r).do = "queue" => streams'[r] # <<>>
    PROVE  OutInv'
<1>1. pc'[r] = where /\ \A q \in Ranks \ {r} : pc'[q] = pc[q]
  BY GotoMine
<1>2. ASSUME NEW q \in Ranks PROVE QueueOK(q)'
  BY <1>1, <1>2 DEF OutInv, Line, QueueOK
<1>. QED
  BY <1>2 DEF OutInv

LEMMA SameStreams == ASSUME OutInv, UNCHANGED <<written, streams, stream>> PROVE OutTypes'
BY DEF OutInv, OutTypes

LEMMA NewStream ==
    ASSUME OutInv, UNCHANGED <<written, streams>>, NEW r \in Ranks, NEW s, NEW to \in Outlets, NEW held,
           stream' = [stream EXCEPT ![r][s] = [to |-> to, held |-> held]]
    PROVE  OutTypes'
<1>1. PICK H : stream \in [Ranks -> [Stream -> [to : Outlets, held : H]]]
  BY DEF OutInv, OutTypes
<1>2. stream \in [Ranks -> [Stream -> [to : Outlets, held : H \cup {held}]]]
  BY <1>1
<1>3. stream' \in [Ranks -> [Stream -> [to : Outlets, held : H \cup {held}]]]
  BY <1>2
<1>. QED
  BY <1>3 DEF OutInv, OutTypes

LEMMA MoreHeld ==
    ASSUME OutInv, UNCHANGED <<written, streams>>, NEW r \in Ranks, NEW held,
           stream' = [stream EXCEPT ![r]["stdout"].held = held]
    PROVE  OutTypes'
<1>. DEFINE old == stream[r]["stdout"]
<1>1. PICK H : stream \in [Ranks -> [Stream -> [to : Outlets, held : H]]]
  BY DEF OutInv, OutTypes
<1>2. old.to \in Outlets /\ [old EXCEPT !.held = held] = [to |-> old.to, held |-> held]
  BY <1>1 DEF Stream
<1>3. stream' = [stream EXCEPT ![r]["stdout"] = [to |-> old.to, held |-> held]]
  BY <1>2
<1>. HIDE DEF old
<1>4. \E s, to : to \in Outlets /\ stream' = [stream EXCEPT ![r][s] = [to |-> to, held |-> held]]
  <2>. WITNESS "stdout", old.to
  <2>. QED
    BY <1>2, <1>3
<1>5. PICK s, to : to \in Outlets /\ stream' = [stream EXCEPT ![r][s] = [to |-> to, held |-> held]]
  BY ONLY <1>4
<1>6. OutInv /\ UNCHANGED <<written, streams>>
  OBVIOUS
<1>. QED
  BY ONLY <1>5, <1>6, r \in Ranks, NewStream

LEMMA OutletOf == ASSUME OutInv, NEW r \in Ranks, NEW s \in Stream PROVE stream[r][s].to \in Outlets
BY DEF OutInv, OutTypes

LEMMA StreamsOf ==
    ASSUME NEW l
    PROVE  Streams(l) \in Seq(Stream) /\ IsInjective(Streams(l)) /\ Streams(l) # <<>>
<1>1. Streams(l) \in {<<"stdout">>, <<"stderr">>, <<"stdout", "stderr">>}
  BY DEF Streams
<1>2. <<"stdout">> \in Seq(Stream) /\ IsInjective(<<"stdout">>) /\ <<"stdout">> # <<>>
  BY DEF Stream, IsInjective
<1>3. <<"stderr">> \in Seq(Stream) /\ IsInjective(<<"stderr">>) /\ <<"stderr">> # <<>>
  BY DEF Stream, IsInjective
<1>4. <<"stdout", "stderr">> \in Seq(Stream) /\ IsInjective(<<"stdout", "stderr">>)
      /\ <<"stdout", "stderr">> # <<>>
  BY DEF Stream, IsInjective
<1>. QED
  BY <1>1, <1>2, <1>3, <1>4

LEMMA TailInjective ==
    ASSUME NEW S, NEW s \in Seq(S), IsInjective(s), s # <<>>
    PROVE  Tail(s) \in Seq(S) /\ IsInjective(Tail(s))
<1>1. Tail(s) \in Seq(S) /\ Len(Tail(s)) = Len(s) - 1 /\ \A i \in 1..Len(Tail(s)) : Tail(s)[i] = s[i + 1]
  BY HeadTailProperties
<1>2. Len(s) \in Nat /\ DOMAIN s = 1..Len(s) /\ DOMAIN Tail(s) = 1..Len(Tail(s))
  BY <1>1
<1>3. ASSUME NEW i \in 1..Len(Tail(s)), NEW j \in 1..Len(Tail(s)), Tail(s)[i] = Tail(s)[j]
      PROVE  i = j
  <2>1. i + 1 \in 1..Len(s) /\ j + 1 \in 1..Len(s) /\ s[i + 1] = s[j + 1]
    BY <1>1, <1>2, <1>3
  <2>2. i + 1 = j + 1
    BY ONLY <1>2, <2>1, IsInjective(s) DEF IsInjective
  <2>. QED
    BY <2>2
<1>. QED
  BY ONLY <1>1, <1>2, <1>3 DEF IsInjective

LEMMA CollectGoes ==
    ASSUME NEW r \in Ranks, NEW texts, Collect(r, texts)
    PROVE  \E where \in {"out:collect", "out:send", "out:failed"} : Goto(r, where) /\ UNCHANGED readVars
BY DEF Collect, Proceed

LEMMA CollectOut ==
    ASSUME LifeInv, OutInv, OutTypes', NEW r \in Ranks, NEW texts, Collect(r, texts), UNCHANGED streams,
           pc[r] \in Syncing \/ Line(r).do # "queue"
    PROVE  OutInv'
<1>1. PICK where \in {"out:collect", "out:send", "out:failed"} : Goto(r, where) /\ UNCHANGED readVars
  BY CollectGoes
<1>2. where \notin Syncing /\ UNCHANGED <<mode, executed>> /\ faults' \subseteq Faults
  BY <1>1 DEF Syncing, readVars, jobVars, OutInv
<1>3. Line(r).do = "queue" => streams'[r] # <<>>
  BY DEF OutInv, QueueOK, Outgoing
<1>. QED
  BY <1>1, <1>2, <1>3, OutKeeps

LEMMA RaiseOut ==
    ASSUME LifeInv, OutInv, OutTypes', NEW r \in Ranks, NEW fault \in SUBSET Faults, Raise(r, fault),
           UNCHANGED streams
    PROVE  OutInv'
<1>1. PICK where \in {"leave", "next"} : Goto(r, where)
  BY DEF Raise
<1>2. UNCHANGED <<mode, executed>> /\ where \notin Syncing /\ where \notin Outgoing
  BY DEF Raise, jobVars, Outgoing, Syncing
<1>3. faults' \subseteq Faults
  BY DEF Raise, OutInv, Faults
<1>. QED
  BY <1>1, <1>2, <1>3, OutKeeps

LEMMA ProceedOut ==
    ASSUME LifeInv, OutInv, OutTypes', NEW r \in Ranks, NEW where, Proceed(r, where),
           where \notin Outgoing, \A q \in Ranks \ {r} : streams'[q] = streams[q]
    PROVE  OutInv'
<1>1. Goto(r, where) /\ UNCHANGED <<mode, executed>> /\ faults' \subseteq Faults
  BY DEF Proceed, readVars, jobVars, OutInv
<1>2. where \notin Syncing
  BY DEF Outgoing
<1>. QED
  BY <1>1, <1>2, OutKeeps

LEMMA OutputOut ==
    ASSUME LifeInv, CommInv, LinesOK, OutInv, NEW r \in Ranks, NEW early \in BOOLEAN, Output(r, early)
    PROVE  OutInv'
<1>1. CASE UserPrints(r)
  <2>1. OutTypes' /\ Proceed(r, "next") /\ UNCHANGED streams
    BY <1>1, MoreHeld, SameStreams DEF UserPrints
  <2>. QED
    BY <2>1, ProceedOut DEF Outgoing, Syncing
<1>2. CASE SynchronizedWrite(r)
  <2>1. OutTypes' /\ UNCHANGED streams
    <3>1. written' \in [Ranks -> 0..N]
      BY <1>2, NAssumption DEF SynchronizedWrite, OutInv, OutTypes
    <3>. QED
      BY <1>2, <3>1 DEF SynchronizedWrite, OutInv, OutTypes
  <2>2. \/ Raise(r, {}) \/ Raise(r, {"raised"}) \/ Collect(r, <<SyncText(r)>>)
    BY <1>2 DEF SynchronizedWrite
  <2>3. Line(r).do # "queue"
    BY <1>2 DEF SynchronizedWrite
  <2>4. {} \in SUBSET Faults /\ {"raised"} \in SUBSET Faults
    BY DEF Faults
  <2>. QED
    BY <2>1, <2>2, <2>3, <2>4, RaiseOut, CollectOut
<1>3. CASE CollectNext(r)
  <2>1. /\ UNCHANGED <<written, streams, stream, readVars>> /\ pc[r] = "out:collect"
        /\ UNCHANGED pc \/ Goto(r, "out:failed")
    BY <1>3 DEF CollectNext
  <2>2. PICK where \in {"out:collect", "out:failed"} : Goto(r, where)
    <3>1. pc = [pc EXCEPT ![r] = pc[r]]
      BY DEF LifeInv, Types
    <3>. QED
      BY <2>1, <3>1 DEF Goto
  <2>3. UNCHANGED <<mode, executed>> /\ faults' \subseteq Faults /\ where \notin Syncing
    BY <2>1 DEF readVars, jobVars, OutInv, Syncing
  <2>4. Line(r).do = "queue" => streams'[r] # <<>>
    BY <2>1 DEF OutInv, QueueOK, Outgoing
  <2>. QED
    BY <2>1, <2>2, <2>3, <2>4, SameStreams, OutKeeps
<1>4. CASE WriteNext(r)
  <2>1. CASE Line(r).badFile
    <3>1. Raise(r, {"raised"}) /\ UNCHANGED <<written, streams, stream>>
      BY <1>4, <2>1 DEF WriteNext
    <3>. QED
      BY <3>1, RaiseOut, SameStreams DEF Faults
  <2>2. CASE ~Line(r).badFile
    <3>1. /\ written' = [written EXCEPT ![r] = @ + 1] /\ written[r] < Target(r).size
          /\ UNCHANGED <<pc, readVars, streams, stream>>
          /\ Line(r).do = "write" /\ pc[r] \in InLine
      BY <1>4, <2>2 DEF WriteNext, CollectDone, InLine
    <3>2. Target(r).size \in 0..N
      BY <3>1, TargetThing DEF Thing
    <3>3. written[r] \in 0..N
      BY DEF OutInv, OutTypes
    <3>4. written[r] + 1 \in 0..N
      BY ONLY <3>1, <3>2, <3>3, NAssumption
    <3>5. written' \in [Ranks -> 0..N]
      BY <3>1, <3>4 DEF OutInv, OutTypes
    <3>6. OutTypes'
      BY <3>1, <3>5 DEF OutInv, OutTypes
    <3>. QED
      BY <3>1, <3>6 DEF OutInv, QueueOK, readVars, jobVars, Line
  <2>. QED
    BY <2>1, <2>2
<1>5. CASE AwaitWriting(r, early) \/ WriteFails(r) \/ WriteDone(r)
  <2>1. /\ UNCHANGED <<written, streams, stream>>
        /\ Raise(r, {"misuse"}) \/ \E where \in {"out:barrier", "next"} : Proceed(r, where)
    BY <1>5 DEF AwaitWriting, WriteFails, WriteDone, outVars
  <2>2. CASE Raise(r, {"misuse"})
    BY <2>1, <2>2, RaiseOut, SameStreams DEF Faults
  <2>3. ASSUME NEW where \in {"out:barrier", "next"}, Proceed(r, where) PROVE OutInv'
    <3>1. where \notin Outgoing
      BY DEF Outgoing, Syncing
    <3>. QED
      BY <2>1, <2>3, <3>1, ProceedOut, SameStreams
  <2>. QED
    BY <2>1, <2>2, <2>3
<1>6. CASE QueuedOutput(r)
  <2>1. CASE Raise(r, {}) /\ UNCHANGED streams
    BY <1>6, <2>1, RaiseOut, SameStreams DEF QueuedOutput
  <2>2. CASE streams' = [streams EXCEPT ![r] = Streams(Line(r))] /\ Proceed(r, "out:sync")
    <3>1. Streams(Line(r)) \in Seq(Stream) /\ IsInjective(Streams(Line(r))) /\ Streams(Line(r)) # <<>>
      BY StreamsOf
    <3>2. streams \in [Ranks -> Seq(Stream)] /\ \A q \in Ranks : IsInjective(streams[q])
      BY DEF OutInv, OutTypes
    <3>3. /\ streams' \in [Ranks -> Seq(Stream)] /\ \A q \in Ranks \ {r} : streams'[q] = streams[q]
          /\ streams'[r] # <<>> /\ \A q \in Ranks : IsInjective(streams'[q])
      BY <2>2, <3>1, <3>2
    <3>4. OutTypes' /\ Line(r).do = "queue"
      BY <1>6, <3>3 DEF QueuedOutput, OutInv, OutTypes
    <3>5. Goto(r, "out:sync") /\ UNCHANGED <<mode, executed>> /\ faults' \subseteq Faults
      BY <2>2 DEF Proceed, readVars, jobVars, OutInv
    <3>. QED
      BY <3>3, <3>4, <3>5, OutKeeps
  <2>. QED
    BY <1>6, <2>1, <2>2 DEF QueuedOutput
<1>7. CASE SystemStream(r)
  <2>. DEFINE s   == Head(streams[r])
              old == stream[r][s]
              new == Reopened(old.to, Line(r)[s])
  <2>1. pc[r] = "out:sync" /\ Line(r).do = "queue" /\ UNCHANGED <<written, streams>>
    BY <1>7 DEF SystemStream, OutInv, QueueOK, Syncing
  <2>2. \/ stream' = stream
        \/ stream' = [stream EXCEPT ![r][s] = [to |-> "terminal", held |-> <<>>]]
        \/ stream' = [stream EXCEPT ![r][s] = [to |-> new, held |-> <<>>]]
    BY <1>7 DEF SystemStream
  <2>3. Raise(r, {"raised"}) \/ Collect(r, <<>>) \/ Collect(r, Queued(old))
    BY <1>7 DEF SystemStream
  <2>4. s \in Stream
    BY <2>1, HeadTailProperties DEF OutInv, OutTypes, QueueOK, Outgoing, Syncing
  <2>. HIDE DEF s
  <2>5. Line(r)[s] \in Destinations
    <3>1. Line(r) \in Statements
      BY <2>1, LineShape DEF InLine
    <3>2. Line(r).stdout \in Destinations /\ Line(r).stderr \in Destinations
      BY <2>1, <3>1, Shapes
    <3>3. s = "stdout" \/ s = "stderr"
      BY <2>4 DEF Stream
    <3>4. CASE s = "stdout"
      BY <3>2, <3>4
    <3>5. CASE s = "stderr"
      BY <3>2, <3>5
    <3>. QED
      BY <3>3, <3>4, <3>5
  <2>6. new \in Outlets /\ "terminal" \in Outlets
    <3>1. old.to \in Outlets
      BY <2>4, OutletOf
    <3>. HIDE DEF old
    <3>. QED
      BY <2>5, <3>1 DEF Reopened, Destinations, Outlets
  <2>. HIDE DEF new
  <2>7. OutTypes'
    BY <2>1, <2>2, <2>6, NewStream, SameStreams
  <2>8. UNCHANGED streams /\ pc[r] \in Syncing /\ {"raised"} \in SUBSET Faults
    BY <2>1 DEF Syncing, Faults
  <2>. QED
    BY <2>3, <2>7, <2>8, RaiseOut, CollectOut
<1>8. CASE SyncBarrier(r, early)
  <2>1. /\ Line(r).do = "queue" /\ UNCHANGED <<mode, executed, streams>> /\ OutTypes'
        /\ pc[r] \in {"out:send", "out:collect", "out:failed"}
    BY <1>8, SameStreams DEF SyncBarrier, SendDone, CollectDone, outVars, readVars, jobVars
  <2>2. PICK where \in {"out:failedBarrier", "out:syncBarrier"} : Goto(r, where)
    BY <1>8 DEF SyncBarrier
  <2>3. faults' \subseteq Faults
    BY <1>8 DEF SyncBarrier, OutInv, readVars
  <2>4. streams[r] # <<>>
    BY <2>1 DEF OutInv, QueueOK, Outgoing
  <2>. QED
    BY <2>1, <2>2, <2>3, <2>4, OutKeeps
<1>9. CASE SyncDone(r)
  <2>. DEFINE more == Tail(streams[r])
  <2>1. /\ streams' = [streams EXCEPT ![r] = more] /\ UNCHANGED <<written, stream>>
        /\ pc[r] = "out:syncBarrier" /\ Proceed(r, IF more = <<>> THEN "next" ELSE "out:sync")
    BY <1>9 DEF SyncDone
  <2>2. streams \in [Ranks -> Seq(Stream)] /\ \A q \in Ranks : IsInjective(streams[q])
    BY DEF OutInv, OutTypes
  <2>3. Line(r).do = "queue" /\ streams[r] # <<>>
    BY <2>1 DEF OutInv, QueueOK, Outgoing, Syncing
  <2>4. more \in Seq(Stream) /\ IsInjective(more)
    BY <2>2, <2>3, TailInjective
  <2>. HIDE DEF more
  <2>5. /\ streams' \in [Ranks -> Seq(Stream)] /\ \A q \in Ranks \ {r} : streams'[q] = streams[q]
        /\ streams'[r] = more /\ \A q \in Ranks : IsInjective(streams'[q])
    BY <2>1, <2>2, <2>4
  <2>6. OutTypes'
    BY <2>1, <2>5 DEF OutInv, OutTypes
  <2>7. PICK where \in {"next", "out:sync"} : Goto(r, where) /\ (where = "out:sync" => more # <<>>)
    BY <2>1 DEF Proceed
  <2>8. UNCHANGED <<mode, executed>> /\ faults' \subseteq Faults
    BY <2>1 DEF Proceed, readVars, jobVars, OutInv
  <2>9. where = "next" => where \notin Outgoing
    BY DEF Outgoing, Syncing
  <2>. QED
    BY <2>3, <2>5, <2>6, <2>7, <2>8, <2>9, OutKeeps
<1>10. CASE SyncFails(r)
  <2>1. UNCHANGED <<written, streams, stream>>
    BY <1>10 DEF SyncFails, outVars
  <2>2. CASE Raise(r, {"misuse"})
    BY <2>1, <2>2, RaiseOut, SameStreams DEF Faults
  <2>3. CASE Goto(r, "dead") /\ faults' = faults \cup {"assertion"} /\ UNCHANGED <<jobVars, entered, executed>>
    <3>1. faults' \subseteq Faults
      BY <2>3 DEF OutInv, Faults
    <3>2. "dead" \notin Outgoing
      BY DEF Outgoing, Syncing
    <3>. QED
      BY <2>1, <2>3, <3>1, <3>2, GotoSettled, SettledKeeps DEF jobVars
  <2>. QED
    BY <1>10, <2>2, <2>3 DEF SyncFails
<1>. QED
  BY <1>1, <1>2, <1>3, <1>4, <1>5, <1>6, <1>7, <1>8, <1>9, <1>10 DEF Output

LEMMA StepOut ==
    ASSUME LifeInv, CommInv, StreamInv, OutInv, NEW r \in Ranks, NEW early \in BOOLEAN, Step(r, early)
    PROVE  OutInv'
BY OutputOut, SettledKeeps, BootSettled, ReadSettled, CommandSettled, LeaveSettled, Typed DEF Step

LEMMA OutInitially == Init => OutInv
<1>. SUFFICES ASSUME Init PROVE OutInv
  OBVIOUS
<1>1. /\ pc = [r \in Ranks |-> "start"] /\ faults = {}
      /\ written = [r \in Ranks |-> 0]
      /\ streams = [r \in Ranks |-> <<>>]
      /\ stream = [r \in Ranks |-> [s \in Stream |-> [to |-> "terminal", held |-> <<>>]]]
  BY DEF Init, ReadInit, OutInit
<1>2. mode \in {"prompt", "feeder", "script"}
  BY JobsAssumption DEF Init, ReadInit
<1>3. OutTypes
  <2>1. stream \in [Ranks -> [Stream -> [to : Outlets, held : {<<>>}]]]
    BY <1>1 DEF Outlets
  <2>2. streams \in [Ranks -> Seq(Stream)] /\ \A r \in Ranks : IsInjective(streams[r])
    BY <1>1 DEF IsInjective
  <2>3. written \in [Ranks -> 0..N]
    BY <1>1, NAssumption
  <2>. QED
    BY <2>1, <2>2, <2>3 DEF OutTypes
<1>. QED
  BY <1>1, <1>2, <1>3 DEF OutInv, QueueOK, Outgoing, Syncing

LEMMA OutAlways == Spec => []OutInv
<1>1. Init => OutInv
  BY OutInitially
<1>2. SessionInv /\ OutInv /\ [Next]_vars => OutInv'
  <2>. SUFFICES ASSUME SessionInv, OutInv, [Next]_vars PROVE OutInv'
    OBVIOUS
  <2>1. CASE Next
    BY <2>1, StepOut DEF Next, SessionInv
  <2>2. CASE UNCHANGED vars
    BY <2>2, SameStreams DEF vars, outVars, readVars, jobVars, OutInv, QueueOK, Line
  <2>. QED
    BY <2>1, <2>2
<1>. QED
  BY <1>1, <1>2, SessionAlways, PTL DEF Spec

LEMMA Above == ASSUME NEW n \in Nat PROVE Max({0, n - 1}) \in Int /\ Max({0, n - 1}) >= n - 1 /\ Max({0, n - 1}) >= 0
<1>1. \E x \in {0, n - 1} : \A y \in {0, n - 1} : x >= y
  OBVIOUS
<1>. QED
  BY <1>1 DEF Max

LEMMA ObjectTypes ==
    ASSUME CommInv, NEW r \in Ranks, NEW name \in Names
    PROVE  /\ object[r][name] \in Objects
           /\ object[r][name].rank <= Max({0, object[r][name].size - 1})
<1>. DEFINE o == object[r][name]
<1>1. o \in Thing /\ ThingOK(r, o)
  BY DEF CommInv, HandleTypes, RankComms
<1>. HIDE DEF o
<1>2. o \in [is : {"None", "communicator"}, handle : DOMAIN group \cup {COMM_NULL},
             persistent : BOOLEAN, rank : Ranks, size : 0..N]
  BY <1>1 DEF Thing, ThingOK, Belongs
<1>3. o.rank \in Nat /\ o.size \in Nat /\ (o.rank = 0 \/ o.rank < o.size)
  BY <1>1, NAssumption DEF Thing, ThingOK, Ranks
<1>4. Max({0, o.size - 1}) \in Int /\ Max({0, o.size - 1}) >= o.size - 1 /\ Max({0, o.size - 1}) >= 0
  BY <1>3, Above
<1>5. o.rank <= Max({0, o.size - 1})
  BY <1>3, <1>4
<1>. QED
  BY <1>2, <1>5 DEF Objects, o

\* A session keeps its types, and a communicator object its rank below its size.
THEOREM AlwaysTypeOK == Spec => []TypeOK
<1>1. SessionInv /\ OutInv => TypeOK
  <2>. SUFFICES ASSUME SessionInv, OutInv PROVE TypeOK
    OBVIOUS
  <2>. LifeInv /\ CommInv /\ StreamInv /\ CommsOK /\ HandleTypes
    BY DEF SessionInv, CommInv
  <2>1. pc \in [Ranks -> PCs]
    BY DEF LifeInv, Types, PCs, Places, Early, Late, InLine, Reading
  <2>2. /\ mpi \in [Ranks -> MPI_States] /\ finalizes \in [Ranks -> Nat]
        /\ sys_exit_called \in [Ranks -> BOOLEAN] /\ exits \in [Ranks -> BOOLEAN]
    BY DEF LifeInv, Types
  <2>3. DOMAIN calls = DOMAIN group
    BY DEF CommsOK
  <2>4. \A c \in DOMAIN group : Members(c) \subseteq Ranks /\ IsInjective(group[c])
    BY DEF CommsOK, Members, ToSet
  <2>5. ASSUME NEW r \in Ranks
        PROVE  /\ freed[r] \subseteq DOMAIN group
               /\ misused[r] \subseteq {"notReady", "null", "stale"}
               /\ {pyMPI_COMM_WORLD[r], pyMPI_COMM_INPUT[r]} \subseteq DOMAIN group \cup {COMM_NULL}
    <3>1. freed[r] \subseteq DOMAIN group
      BY DEF CommsOK
    <3>2. misused[r] \subseteq {"notReady", "null", "stale"}
      BY DEF LifeInv, Types, Ways
    <3>3. {pyMPI_COMM_WORLD[r], pyMPI_COMM_INPUT[r]} \subseteq DOMAIN group \cup {COMM_NULL}
      BY DEF CommInv, RankComms, HandlesOK, HandleTypes
    <3>. QED
      BY <3>1, <3>2, <3>3
  <2>6. ASSUME NEW r \in Ranks
        PROVE  /\ written[r] \in 0..N
               /\ ToSet(streams[r]) \subseteq Stream /\ IsInjective(streams[r])
               /\ \A s \in Stream : stream[r][s].to \in {"terminal", "file", "null"}
    BY OutletOf DEF OutInv, OutTypes, ToSet, Outlets
  <2>7. mode \in {"prompt", "feeder", "script"}
        /\ faults \subseteq {"argument", "memory", "raised", "uncaught", "misuse", "assertion"}
    BY DEF OutInv, Faults
  <2>8. ToSet(entered) \subseteq AllLines
    BY Typed DEF ToSet
  <2>. QED
    BY <2>1, <2>2, <2>3, <2>4, <2>5, <2>6, <2>7, <2>8, ObjectTypes DEF TypeOK
<1>. QED
  BY <1>1, SessionAlways, OutAlways, PTL

-----------------------------------------------------------------------------
(***************************************************************************)
(* Handles that are released.  A handle is new when a rank gets it, and    *)
(* only a program can make two objects of it.                              *)
(***************************************************************************)
Leaving == {"fini:readline"} \cup Over      \* last_wish has released WORLD's
Writing == {"out:sync", "out:syncBarrier", "out:collect"}      \* where a rank looks at the object again

Handles(r) == {object[r][name].handle : name \in Names}

\* The handle is one of pyMPI's, or comes of a call that r has made.
Met(r, h) ==
    \/ h \in {COMM_NULL, WorldCopy, InputCopy}
    \/ \E c \in DOMAIN group : \E k \in 0..Turn(r, c) : h = Append(c, k)

Wrapped(r, name) ==
    \E k \in 1..Len(executed[r]) : executed[r][k].do = "wrap" /\ executed[r][k].to = name

\* r has released the handle of WORLD, or of an object that may have it.
ReleasesWorld(r) ==
    \E i \in 1..Len(executed[r]) :
        /\ executed[r][i].do = "free"
        /\ \/ executed[r][i].on = "WORLD"
           \/ \E k \in 1..(i - 1) : executed[r][k].do = "wrap" /\ executed[r][k].to = executed[r][i].on

Liberty(r) == Aliased(r) \/ ReleasesWorld(r)       \* handles may be shared, or gone

\* But for WORLD's, a handle is that of one object, and not released.
Unshared(r) ==
    /\ "stale" \notin misused[r]
    /\ pc[r] \notin Leaving =>
           WorldCopy \notin freed[r] /\ \A name \in Names : object[r][name].handle \notin freed[r]
    /\ \A x, y \in Names :
           object[r][x].handle = object[r][y].handle =>
               x = y \/ object[r][x].handle \in {COMM_NULL, WorldCopy}
    /\ object[r]["WORLD"].handle \in {COMM_NULL, WorldCopy}
    /\ \A name \in Own : object[r][name].handle = WorldCopy => Wrapped(r, name)

FreshOK(r) ==
    /\ \A h \in Handles(r) \cup freed[r] : Met(r, h)
    /\ pc[r] \in {"make", "made"} => NewComm(r, Target(r).handle) \notin Handles(r) \cup freed[r]
    /\ pc[r] \in Writing => Line(r).do \in {"write", "queue"}
    /\ ~Liberty(r) => Unshared(r)

FreshInv == \A r \in Ranks : FreshOK(r)

-----------------------------------------------------------------------------
\* r goes on calling, and goes on through its lines.
Grows(r)  == \A c \in DOMAIN group : Turn(r, c) <= Turn(r, c)'
Advances(r) == Begun(r) <= Begun(r)' /\ \A i \in 1..Begun(r) : executed'[r][i] = executed[r][i]

\* A handle that pyMPI has is released by the program's doing only.
Innocent(r) ==
    /\ \A q \in Ranks \ {r} : misused'[q] = misused[q]
    /\ "stale" \in misused'[r] => "stale" \in misused[r] \/ Liberty(r)

LEMMA MetStays ==
    ASSUME CommInv, NEW r \in Ranks, Grown, CommsOK', Grows(r), NEW h, Met(r, h)
    PROVE  Met(r, h)'
<1>1. CASE h \in {COMM_NULL, WorldCopy, InputCopy}
  BY <1>1 DEF Met
<1>2. ASSUME NEW c \in DOMAIN group, NEW k \in 0..Turn(r, c), h = Append(c, k)
      PROVE  Met(r, h)'
  <2>1. c \in DOMAIN group'
    BY DEF Grown
  <2>2. Turn(r, c) \in Nat /\ Turn(r, c)' \in Nat
    BY <2>1, TurnType DEF CommInv, CommsOK, Turn
  <2>3. k \in 0..Turn(r, c)'
    BY <2>2 DEF Grows
  <2>. QED
    BY <1>2, <2>1, <2>3 DEF Met
<1>. QED
  BY <1>1, <1>2 DEF Met

LEMMA LibertyStays ==
    ASSUME LinesOK, LinesOK', NEW r \in Ranks, Advances(r)
    PROVE  /\ Liberty(r) => Liberty(r)'
           /\ \A name : Wrapped(r, name) => Wrapped(r, name)'
<1>1. Begun(r) \in Nat /\ Begun(r)' \in Nat
  BY DEF LinesOK, Begun
<1>2. \A i \in 1..Begun(r) : i \in 1..Begun(r)' /\ executed'[r][i] = executed[r][i]
                             /\ \A k \in 1..(i - 1) : k \in 1..Begun(r) /\ executed'[r][k] = executed[r][k]
  BY <1>1 DEF Advances
<1>3. Aliased(r) => Aliased(r)'
  BY <1>2, Zenon DEF Aliased, Begun
<1>5. ASSUME ReleasesWorld(r) PROVE ReleasesWorld(r)'
  <2>1. PICK i \in 1..Begun(r) :
            /\ executed[r][i].do = "free"
            /\ \/ executed[r][i].on = "WORLD"
               \/ \E k \in 1..(i - 1) : executed[r][k].do = "wrap" /\ executed[r][k].to = executed[r][i].on
    BY <1>5, Zenon DEF ReleasesWorld, Begun
  <2>2. i \in 1..Begun(r)' /\ executed'[r][i] = executed[r][i]
    BY <1>2
  <2>3. \A k \in 1..(i - 1) : executed'[r][k] = executed[r][k]
    BY <1>2
  <2>4. \/ executed'[r][i].on = "WORLD"
        \/ \E k \in 1..(i - 1) : executed'[r][k].do = "wrap" /\ executed'[r][k].to = executed'[r][i].on
    BY <2>1, <2>2, <2>3, Zenon
  <2>. QED
    BY <2>1, <2>2, <2>4, Zenon DEF ReleasesWorld, Begun
<1>4. \A name : Wrapped(r, name) => Wrapped(r, name)'
  BY <1>2, Zenon DEF Wrapped, Begun
<1>. QED
  BY <1>3, <1>4, <1>5 DEF Liberty

\* What others do is not felt.
LEMMA OthersFresh ==
    ASSUME LifeInv, CommInv, FreshInv, Grown, CommsOK', NEW q \in Ranks, Kept(q), freed'[q] = freed[q], pc'[q] = pc[q],
           object'[q] = object[q], executed'[q] = executed[q], misused'[q] = misused[q]
    PROVE  FreshOK(q)'
<1>1. FreshOK(q) /\ MakeOK(q)
  BY DEF FreshInv, CommInv, RankComms
<1>2. Grows(q)
  <2>1. \A c \in DOMAIN group : Turn(q, c)' = Turn(q, c) /\ Turn(q, c) \in Nat
    BY TurnType DEF CommInv, Kept, Turn
  <2>. QED
    BY <2>1 DEF Grows
<1>3. \A h : Met(q, h) => Met(q, h)'
  BY <1>2, MetStays
<1>4. Line(q)' = Line(q) /\ Target(q)' = Target(q) /\ Handles(q)' = Handles(q)
  BY DEF Line, Target, Handles
<1>5. pc[q] \in {"make", "made"} => NewComm(q, Target(q).handle)' = NewComm(q, Target(q).handle)
  BY <1>1, <1>4 DEF MakeOK, Belongs, NewComm, Turn, Kept
<1>6. (Liberty(q)' <=> Liberty(q)) /\ \A name : Wrapped(q, name)' <=> Wrapped(q, name)
  BY DEF Liberty, Aliased, ReleasesWorld, Wrapped
<1>7. Unshared(q) => Unshared(q)'
  BY <1>6 DEF Unshared
<1>. QED
  BY <1>1, <1>3, <1>4, <1>5, <1>6, <1>7 DEF FreshOK

LEMMA MineFresh ==
    ASSUME LifeInv, CommInv, FreshInv, NEW r \in Ranks, Beside(r), OnlyMine(r), Innocent(r), FreshOK(r)'
    PROVE  FreshInv'
<1>1. ASSUME NEW q \in Ranks \ {r} PROVE FreshOK(q)'
  <2>1. Kept(q) /\ freed'[q] = freed[q] /\ CommsOK' /\ Grown
    BY DEF Beside
  <2>2. pc'[q] = pc[q] /\ object'[q] = object[q] /\ executed'[q] = executed[q] /\ misused'[q] = misused[q]
    BY DEF OnlyMine, Innocent
  <2>. QED
    BY <2>1, <2>2, OthersFresh
<1>. QED
  BY <1>1 DEF FreshInv

-----------------------------------------------------------------------------
\* A handle that r may use as long as none is released twice
Known(r, h) ==
    \/ h \in {COMM_NULL, COMM_WORLD}
    \/ h = InputCopy /\ h \in DOMAIN group /\ pc[r] \notin Over
    \/ h = WorldCopy /\ h \in DOMAIN group /\ pc[r] \notin Leaving
    \/ h \in Handles(r) /\ pc[r] \notin Leaving

LEMMA KnownUsable ==
    ASSUME CommInv, FreshInv, NEW r \in Ranks, ~Liberty(r), Ready(r), NEW h, Known(r, h), h # COMM_NULL
    PROVE  Usable(r, h)
<1>1. /\ COMM_WORLD \in DOMAIN group /\ COMM_WORLD \notin freed[r]
      /\ InputCopy \in freed[r] => pc[r] \in Over
      /\ \A name \in Names : ThingOK(r, object[r][name])
  BY DEF CommInv, CommsOK, RankComms, FreedOK
<1>2. pc[r] \notin Leaving =>
           WorldCopy \notin freed[r] /\ \A name \in Names : object[r][name].handle \notin freed[r]
  BY DEF FreshInv, FreshOK, Unshared
<1>3. \A c \in DOMAIN group \cap {COMM_WORLD, WorldCopy, InputCopy} : r \in Members(c)
  BY Everybody DEF CommInv, CommsOK, Members
<1>4. CASE \/ h = COMM_WORLD
           \/ h = InputCopy /\ h \in DOMAIN group /\ pc[r] \notin Over
           \/ h = WorldCopy /\ h \in DOMAIN group /\ pc[r] \notin Leaving
  BY <1>1, <1>2, <1>3, <1>4 DEF Usable
<1>5. CASE h \in Handles(r) /\ pc[r] \notin Leaving
  BY <1>1, <1>2, <1>5 DEF Usable, Handles, ThingOK, Belongs
<1>. QED
  BY <1>4, <1>5 DEF Known

\* What r does with MPI, releasing nothing
Touches(r) ==
    \/ UNCHANGED <<group, calls, freed, misused>>
    \/ \E h, op, data : Enter(r, h, op, data) /\ op # "free"
    \/ \E h : Misuse(r, h) /\ Known(r, h)
    \/ UNCHANGED <<group, calls, freed>> /\ misused' = [misused EXCEPT ![r] = @ \cup {"notReady"}]
    \/ Beside(r) /\ Kept(r) /\ UNCHANGED <<freed, misused>>

LEMMA EnterGrows ==
    ASSUME CommInv, NEW r \in Ranks, NEW h, NEW op, NEW data, Enter(r, h, op, data)
    PROVE  /\ Grows(r) /\ Beside(r) /\ Innocent(r)
           /\ freed'[r] = IF op = "free" THEN freed[r] \cup {h} ELSE freed[r]
<1>1. CommsOK' /\ Grown /\ EnteredBy(r, h, op, data)
  BY Entered DEF CommInv
<1>2. \A c \in DOMAIN group : Turn(r, c) \in Nat
  BY TurnType DEF CommInv
<1>3. Grows(r)
  <2>1. ASSUME NEW c \in DOMAIN group PROVE Turn(r, c) <= Turn(r, c)'
    <3>1. CASE c = h
      BY <1>1, <1>2, <3>1 DEF EnteredBy, Turn
    <3>2. CASE c # h
      BY <1>1, <1>2, <3>2 DEF EnteredBy, Turn
    <3>. QED
      BY <3>1, <3>2
  <2>. QED
    BY <2>1 DEF Grows
<1>4. Beside(r)
  <2>1. ASSUME NEW q \in Ranks \ {r} PROVE Kept(q) /\ freed'[q] = freed[q]
    BY <1>1 DEF EnteredBy, Kept
  <2>. QED
    BY <1>1, <2>1 DEF Beside
<1>5. Innocent(r)
  BY DEF Enter, Innocent
<1>. QED
  BY <1>1, <1>3, <1>4, <1>5 DEF EnteredBy

LEMMA IdleGrows ==
    ASSUME CommInv, NEW r \in Ranks, UNCHANGED <<group, calls, freed>>
    PROVE  Grows(r) /\ Beside(r) /\ freed'[r] = freed[r]
<1>1. \A c \in DOMAIN group : Turn(r, c) \in Nat /\ Turn(r, c)' = Turn(r, c)
  BY TurnType DEF CommInv, Turn
<1>2. Beside(r)
  BY IdleApart DEF Apart, CommInv
<1>. QED
  BY <1>1, <1>2 DEF Grows

LEMMA MisuseInnocent ==
    ASSUME LifeInv, CommInv, FreshInv, NEW r \in Ranks, NEW h, Misuse(r, h), Known(r, h)
    PROVE  Innocent(r)
<1>. DEFINE how == IF ~Ready(r) THEN "notReady" ELSE IF h = COMM_NULL THEN "null" ELSE "stale"
<1>1. misused \in [Ranks -> SUBSET Ways]
  BY DEF LifeInv, Types
<1>2. ~Usable(r, h) /\ misused' = [misused EXCEPT ![r] = @ \cup {how}]
  BY Zenon DEF Misuse
<1>3. how = "stale" => Liberty(r)
  BY <1>2, KnownUsable
<1>. HIDE DEF how
<1>4. \A q \in Ranks \ {r} : misused'[q] = misused[q]
  BY <1>1, <1>2
<1>5. misused'[r] = misused[r] \cup {how}
  BY <1>1, <1>2
<1>. QED
  BY <1>3, <1>4, <1>5 DEF Innocent

LEMMA TouchesOK ==
    ASSUME LifeInv, CommInv, FreshInv, NEW r \in Ranks, Touches(r)
    PROVE  Grows(r) /\ Beside(r) /\ Innocent(r) /\ freed'[r] = freed[r]
<1>1. CASE UNCHANGED <<group, calls, freed, misused>>
  BY <1>1, IdleGrows DEF Innocent
<1>2. CASE \E h, op, data : Enter(r, h, op, data) /\ op # "free"
  BY <1>2, EnterGrows
<1>3. CASE \E h : Misuse(r, h) /\ Known(r, h)
  BY <1>3, IdleGrows, MisuseInnocent DEF Misuse
<1>4. CASE UNCHANGED <<group, calls, freed>> /\ misused' = [misused EXCEPT ![r] = @ \cup {"notReady"}]
  <2>1. Innocent(r)
    BY <1>4 DEF LifeInv, Types, Innocent
  <2>. QED
    BY <1>4, <2>1, IdleGrows
<1>5. CASE Beside(r) /\ Kept(r) /\ UNCHANGED <<freed, misused>>
  <2>1. \A c \in DOMAIN group : Turn(r, c) \in Nat /\ Turn(r, c)' = Turn(r, c)
    BY <1>5, TurnType DEF CommInv, Turn, Kept
  <2>. QED
    BY <1>5, <2>1 DEF Grows, Innocent
<1>. QED
  BY <1>1, <1>2, <1>3, <1>4, <1>5 DEF Touches

SameHandles(r) ==
    /\ \A name \in Names : object'[r][name].handle = object[r][name].handle
    /\ \A q \in Ranks \ {r} : object'[q] = object[q]

\* A step that gives r no handle, and releases none
Calm(r) ==
    /\ Touches(r) /\ SameHandles(r)
    /\ pc'[r] \in {"make", "made"} => NewComm(r, Target(r).handle)' \notin Handles(r) \cup freed[r]
    /\ pc[r] \in Leaving => pc'[r] \in Leaving
    /\ pc'[r] \in Writing => Line(r)'.do \in {"write", "queue"}
    /\ \A q \in Ranks \ {r} : pc'[q] = pc[q] /\ executed'[q] = executed[q]
    /\ LinesOK' /\ Advances(r)

LEMMA CalmFresh ==
    ASSUME LifeInv, LinesOK, CommInv, FreshInv, NEW r \in Ranks, Calm(r)
    PROVE  FreshOK(r)' /\ Beside(r) /\ Innocent(r)
<1>1. Grows(r) /\ Beside(r) /\ Innocent(r) /\ freed'[r] = freed[r] /\ CommsOK' /\ Grown
  BY TouchesOK DEF Calm, Beside
<1>2. FreshOK(r)
  BY DEF FreshInv
<1>3. \A h : Met(r, h) => Met(r, h)'
  BY <1>1, MetStays
<1>4. (Liberty(r) => Liberty(r)') /\ \A name : Wrapped(r, name) => Wrapped(r, name)'
  BY LibertyStays DEF Calm
<1>5. Handles(r)' = Handles(r)
  BY DEF Handles, Calm, SameHandles
<1>6. ASSUME ~Liberty(r)' PROVE Unshared(r)'
  <2>1. Unshared(r) /\ "stale" \notin misused'[r]
    BY <1>1, <1>2, <1>4, <1>6 DEF FreshOK, Unshared, Innocent
  <2>2. \A name \in Names : object'[r][name].handle = object[r][name].handle
    BY DEF Calm, SameHandles
  <2>3. pc'[r] \notin Leaving => pc[r] \notin Leaving
    BY DEF Calm
  <2>4. "WORLD" \in Names /\ Own \subseteq Names
    BY DEF Names, Own
  <2>. QED
    BY <1>1, <1>4, <2>1, <2>2, <2>3, <2>4 DEF Unshared
<1>. QED
  BY <1>1, <1>2, <1>3, <1>5, <1>6 DEF FreshOK, Calm

LEMMA CalmKeeps ==
    ASSUME LifeInv, LinesOK, CommInv, FreshInv, NEW r \in Ranks, Calm(r),
           UNCHANGED <<pyMPI_COMM_WORLD, pyMPI_COMM_INPUT>>
    PROVE  FreshInv'
<1>1. FreshOK(r)' /\ Beside(r) /\ Innocent(r)
  BY CalmFresh
<1>2. OnlyMine(r)
  BY DEF Calm, SameHandles, OnlyMine
<1>. QED
  BY <1>1, <1>2, MineFresh

LEMMA GotoCalm ==
    ASSUME LifeInv, LinesOK, NEW r \in Ranks, NEW where, Touches(r), Goto(r, where), UNCHANGED executed,
           UNCHANGED object \/ SameHandles(r),
           where \notin {"make", "made"}, pc[r] \in Leaving => where \in Leaving,
           where \in Writing => Line(r).do \in {"write", "queue"}
    PROVE  Calm(r)
<1>1. pc'[r] = where /\ \A q \in Ranks \ {r} : pc'[q] = pc[q]
  BY DEF Goto, LifeInv, Types
<1>2. LinesOK' /\ Advances(r) /\ Line(r)' = Line(r)
  <2>1. Begun(r) \in Nat
    BY DEF LinesOK, Begun
  <2>. QED
    BY <2>1 DEF LinesOK, Advances, Line, Begun
<1>. QED
  BY <1>1, <1>2 DEF Calm, SameHandles

LEMMA ProceedCalm ==
    ASSUME LifeInv, LinesOK, NEW r \in Ranks, NEW where, Touches(r), Proceed(r, where),
           UNCHANGED object \/ SameHandles(r),
           where \notin {"make", "made"}, pc[r] \in Leaving => where \in Leaving,
           where \in Writing => Line(r).do \in {"write", "queue"}
    PROVE  Calm(r)
BY GotoCalm DEF Proceed, readVars

LEMMA RaiseCalm ==
    ASSUME LifeInv, LinesOK, NEW r \in Ranks, NEW fault, Touches(r), Raise(r, fault),
           UNCHANGED object \/ SameHandles(r), pc[r] \notin Leaving
    PROVE  Calm(r)
<1>1. PICK where \in {"next", "leave"} : Goto(r, where)
  BY DEF Raise
<1>. QED
  BY <1>1, GotoCalm DEF Raise, Writing

-----------------------------------------------------------------------------
LEMMA RunCalm ==
    ASSUME LifeInv, StreamInv, NEW r \in Ranks, NEW l \in AllLines, Run(r, l), Touches(r), UNCHANGED object,
           pc[r] \notin Leaving
    PROVE  Calm(r)
<1>1. /\ LinesOK' /\ Begun(r) \in Nat
      /\ \A q \in Ranks \ {r} : pc'[q] = pc[q] /\ executed'[q] = executed[q]
      /\ pc'[r] \in {"leave", "run"}
  BY LineRun, Typed DEF LinesOK, Begun
<1>2. Advances(r)
  <2>1. CASE l = Eof
    BY <1>1, <2>1, LineRun DEF Advances, Begun
  <2>2. CASE l # Eof
    BY <1>1, <2>2, LineRun DEF Advances
  <2>. QED
    BY <2>1, <2>2
<1>. QED
  BY <1>1, <1>2 DEF Calm, SameHandles, Writing

LEMMA ReadFresh ==
    ASSUME LifeInv, CommInv, StreamInv, NEW r \in Ranks, NEW early \in BOOLEAN, Read(r, early)
    PROVE  Calm(r) /\ UNCHANGED <<pyMPI_COMM_WORLD, pyMPI_COMM_INPUT>>
<1>. USE DEF Leaving, Over, Late, Writing, readVars, commVars
<1>0. LinesOK
  BY Typed
<1>1. ASSUME pc[r] \in Reading
      PROVE  Input(r) = InputCopy /\ Known(r, Input(r))
  BY <1>1, AtInput DEF Known, Reading
<1>2. ASSUME NEW where, where \notin {"make", "made"} \cup Writing, Goto(r, where), pc[r] \notin Leaving,
             Touches(r), UNCHANGED <<executed, commVars>>
      PROVE  Calm(r) /\ UNCHANGED <<pyMPI_COMM_WORLD, pyMPI_COMM_INPUT>>
  BY <1>0, <1>2, GotoCalm
<1>3. ASSUME NEW l \in AllLines, Run(r, l), Touches(r), UNCHANGED commVars, pc[r] \notin Leaving
      PROVE  Calm(r) /\ UNCHANGED <<pyMPI_COMM_WORLD, pyMPI_COMM_INPUT>>
  BY <1>3, RunCalm
<1>4. ASSUME NEW h, NEW op, NEW data, Enter(r, h, op, data), op # "free" PROVE Touches(r)
  BY <1>4 DEF Touches
<1>5. ASSUME UNCHANGED mpiVars PROVE Touches(r)
  BY <1>5 DEF Touches, mpiVars
<1>7. CASE EnterReadline(r)
  <2>1. pc[r] \in Reading
    BY <1>7 DEF EnterReadline, Reading
  <2>2. Touches(r)
    BY <1>1, <1>4, <1>7, <2>1 DEF EnterReadline, Touches
  <2>. QED
    BY <1>2, <1>7, <2>2 DEF EnterReadline
<1>8. CASE FeedBadArgument(r)
  BY <1>2, <1>5, <1>8 DEF FeedBadArgument
<1>9. CASE AwaitSize(r)
  BY <1>2, <1>4, <1>9 DEF AwaitSize
<1>10. CASE SlaveNoMemory(r)
  BY <1>2, <1>5, <1>10 DEF SlaveNoMemory
<1>11. CASE SizeDone(r, early)
  <2>1. pc[r] = "read:size" /\ Complete(r, InputCopy, early) /\ UNCHANGED commVars
    BY <1>1, <1>11 DEF SizeDone, Reading
  <2>2. CASE Sent(r, InputCopy)[1] = EOT
    <3>1. Run(r, Interrupt) /\ UNCHANGED mpiVars
      BY <1>1, <1>11, <2>1, <2>2 DEF SizeDone, Reading
    <3>2. Interrupt \in AllLines
      BY <2>1, <2>2, SizeComes, SizeTells
    <3>. QED
      BY <1>3, <1>5, <2>1, <3>1, <3>2
  <2>3. CASE Sent(r, InputCopy)[1] # EOT
    <3>1. Goto(r, "read:line") /\ UNCHANGED executed
          /\ \E line : Enter(r, InputCopy, "bcast", line)
      BY <1>1, <1>11, <2>1, <2>3 DEF SizeDone, Reading
    <3>. QED
      BY <1>2, <1>4, <2>1, <3>1
  <2>. QED
    BY <2>2, <2>3
<1>12. CASE LineDone(r, early)
  <2>1. Complete(r, InputCopy, early) /\ Run(r, Sent(r, InputCopy)[1]) /\ pc[r] = "read:line"
        /\ UNCHANGED <<mpiVars, commVars>>
    BY <1>1, <1>12 DEF LineDone, Reading
  <2>2. Sent(r, InputCopy)[1] \in AllLines
    BY <2>1, LineComes
  <2>. QED
    BY <1>3, <1>5, <2>1, <2>2
<1>13. ASSUME NEW l \in AllLines, FinalizedReadline(r, l)
       PROVE  Calm(r) /\ UNCHANGED <<pyMPI_COMM_WORLD, pyMPI_COMM_INPUT>>
  <2>1. Touches(r) /\ pc[r] = "next" /\ UNCHANGED commVars
    BY <1>13 DEF FinalizedReadline, Touches
  <2>2. CASE Run(r, l)
    BY <1>3, <2>1, <2>2
  <2>3. CASE Goto(r, "next") /\ UNCHANGED executed
    BY <1>2, <2>1, <2>3
  <2>. QED
    BY <1>13, <2>2, <2>3 DEF FinalizedReadline
<1>14. ASSUME NEW l \in AllLines, ReadLine(r, l)
       PROVE  Calm(r) /\ UNCHANGED <<pyMPI_COMM_WORLD, pyMPI_COMM_INPUT>>
  BY <1>2, <1>4, <1>14 DEF ReadLine
<1>15. ASSUME NEW l \in AllLines, ReadScript(r, l)
       PROVE  Calm(r) /\ UNCHANGED <<pyMPI_COMM_WORLD, pyMPI_COMM_INPUT>>
  BY <1>3, <1>5, <1>15 DEF ReadScript
<1>. QED
  BY <1>7, <1>8, <1>9, <1>10, <1>11, <1>12, <1>13, <1>14, <1>15 DEF Read

-----------------------------------------------------------------------------
LEMMA CollectCalm ==
    ASSUME LifeInv, LinesOK, NEW r \in Ranks, NEW texts, pc[r] \in InLine, Collect(r, texts),
           UNCHANGED object, Line(r).do \in {"write", "queue"}
    PROVE  Calm(r)
<1>1. Line(r).on \in Names
  BY LineShape, Shapes
<1>2. Known(r, Target(r).handle)
  BY <1>1 DEF Known, Handles, Target, Leaving, Over, Late, InLine
<1>3. Touches(r)
  BY <1>2 DEF Collect, Touches, mpiVars
<1>4. PICK where \in {"out:collect", "out:send", "out:failed"} : Proceed(r, where)
  BY DEF Collect
<1>. QED
  BY <1>3, <1>4, ProceedCalm DEF Leaving, Over, Late, InLine

LEMMA OutputFresh ==
    ASSUME LifeInv, CommInv, StreamInv, FreshInv, NEW r \in Ranks, NEW early \in BOOLEAN, Output(r, early)
    PROVE  Calm(r) /\ UNCHANGED <<pyMPI_COMM_WORLD, pyMPI_COMM_INPUT>>
<1>. USE DEF InLine
<1>0. LinesOK /\ UNCHANGED commVars
  <2>1. LinesOK
    BY Typed
  <2>. QED
    BY <2>1, Zenon DEF Output, UserPrints, SynchronizedWrite, CollectNext, WriteNext, AwaitWriting, WriteFails,
          WriteDone, QueuedOutput, SystemStream, SyncBarrier, SyncDone, SyncFails
<1>. SUFFICES Calm(r)
  BY <1>0 DEF commVars
<1>1. ASSUME NEW where, Proceed(r, where), where \notin {"make", "made"} \cup Writing, pc[r] \in InLine, Touches(r)
      PROVE  Calm(r)
  BY <1>0, <1>1, ProceedCalm DEF Leaving, Over, Late, commVars
<1>2. ASSUME NEW where, Goto(r, where), where \notin {"make", "made"}, pc[r] \in InLine, Touches(r),
             UNCHANGED executed, where \in Writing => Line(r).do \in {"write", "queue"}
      PROVE  Calm(r)
  BY <1>0, <1>2, GotoCalm DEF Leaving, Over, Late, commVars
<1>3. ASSUME NEW fault, Raise(r, fault), pc[r] \in InLine, Touches(r)
      PROVE  Calm(r)
  BY <1>0, <1>3, RaiseCalm DEF Leaving, Over, Late, commVars
<1>4. ASSUME UNCHANGED mpiVars PROVE Touches(r)
  BY <1>4 DEF Touches, mpiVars
<1>5. ASSUME Line(r).do \in {"write", "queue"}, pc[r] \in InLine
      PROVE  Known(r, Target(r).handle)
  <2>1. Line(r).on \in Names
    BY <1>0, <1>5, LineShape, Shapes
  <2>. QED
    BY <1>5, <2>1 DEF Known, Handles, Target, Leaving, Over, Late
<1>6. pc[r] \in Writing => Line(r).do \in {"write", "queue"}
  BY DEF FreshInv, FreshOK
<1>7. CASE UserPrints(r)
  BY <1>1, <1>4, <1>7 DEF UserPrints, Writing
<1>8. CASE SynchronizedWrite(r)
  <2>1. pc[r] = "run" /\ Line(r).do = "write"
    BY <1>8 DEF SynchronizedWrite
  <2>2. CASE Collect(r, <<SyncText(r)>>)
    BY <1>0, <2>1, <2>2, CollectCalm DEF commVars
  <2>3. CASE \E fault : Raise(r, fault) /\ UNCHANGED mpiVars
    BY <1>3, <1>4, <2>1, <2>3
  <2>. QED
    BY <1>8, <2>2, <2>3 DEF SynchronizedWrite
<1>9. CASE CollectNext(r)
  <2>1. pc[r] = "out:collect" /\ UNCHANGED executed
    BY <1>9 DEF CollectNext, readVars
  <2>2. Touches(r)
    BY <1>4, <1>5, <1>6, <1>9, <2>1 DEF CollectNext, Touches, Writing
  <2>3. Goto(r, "out:failed") \/ Goto(r, "out:collect")
    BY <1>9, <2>1 DEF CollectNext, Goto, LifeInv, Types
  <2>. QED
    BY <1>2, <1>6, <2>1, <2>2, <2>3 DEF Writing
<1>10. CASE WriteNext(r)
  <2>1. pc[r] = "out:collect" /\ UNCHANGED mpiVars
    BY <1>10 DEF WriteNext, CollectDone
  <2>2. CASE Raise(r, {"raised"})
    BY <1>3, <1>4, <2>1, <2>2
  <2>3. CASE UNCHANGED <<pc, readVars>>
    <3>1. Goto(r, "out:collect") /\ UNCHANGED executed
      BY <2>1, <2>3 DEF Goto, LifeInv, Types, readVars
    <3>. QED
      BY <1>2, <1>4, <1>6, <2>1, <3>1 DEF Writing
  <2>. QED
    BY <1>10, <2>2, <2>3 DEF WriteNext
<1>11. CASE AwaitWriting(r, early)
  <2>1. pc[r] \in InLine /\ Line(r).do = "write"
    BY <1>11 DEF AwaitWriting, SendDone, CollectDone
  <2>2. Known(r, Target(r).handle)
    BY <1>5, <2>1
  <2>3. CASE Enter(r, Target(r).handle, "barrier", <<>>) /\ Proceed(r, "out:barrier")
    <3>1. Touches(r)
      BY <2>3 DEF Touches
    <3>. QED
      BY <1>1, <2>1, <2>3, <3>1 DEF Writing
  <2>4. CASE Misuse(r, Target(r).handle) /\ Raise(r, {"misuse"})
    <3>1. Touches(r)
      BY <2>2, <2>4, Zenon DEF Touches
    <3>. QED
      BY <1>3, <2>1, <2>4, <3>1
  <2>. QED
    BY <1>11, <2>3, <2>4 DEF AwaitWriting
<1>12. CASE WriteFails(r)
  BY <1>3, <1>4, <1>12 DEF WriteFails
<1>13. CASE WriteDone(r)
  BY <1>1, <1>4, <1>13 DEF WriteDone, Writing
<1>14. CASE QueuedOutput(r)
  <2>1. pc[r] = "run" /\ Line(r).do = "queue" /\ Touches(r)
    BY <1>4, <1>14 DEF QueuedOutput
  <2>2. CASE Raise(r, {})
    BY <1>3, <2>1, <2>2
  <2>3. CASE Proceed(r, "out:sync")
    BY <1>2, <2>1, <2>3 DEF Proceed, readVars
  <2>. QED
    BY <1>14, <2>2, <2>3 DEF QueuedOutput
<1>15. CASE SystemStream(r)
  <2>1. pc[r] = "out:sync" /\ Line(r).do \in {"write", "queue"}
    BY <1>6, <1>15 DEF SystemStream, Writing
  <2>2. CASE \E texts : Collect(r, texts)
    BY <1>0, <2>1, <2>2, CollectCalm DEF commVars
  <2>3. CASE Raise(r, {"raised"}) /\ UNCHANGED mpiVars
    BY <1>3, <1>4, <2>1, <2>3
  <2>. QED
    BY <1>15, <2>2, <2>3 DEF SystemStream
<1>16. CASE SyncBarrier(r, early)
  <2>1. pc[r] \in InLine /\ UNCHANGED executed
    BY <1>16 DEF SyncBarrier, SendDone, CollectDone, readVars, InLine
  <2>2. PICK where \in {"out:failedBarrier", "out:syncBarrier"} : Goto(r, where)
    BY <1>16 DEF SyncBarrier
  <2>3. Enter(r, COMM_WORLD, "barrier", <<>>) \/ Misuse(r, COMM_WORLD)
    BY <1>16 DEF SyncBarrier
  <2>4. Touches(r)
    BY <2>3 DEF Touches, Known
  <2>5. Line(r).do = "queue"
    BY <1>16 DEF SyncBarrier
  <2>. QED
    BY <1>2, <2>1, <2>2, <2>4, <2>5
<1>17. CASE SyncDone(r)
  <2>1. PICK where \in {"next", "out:sync"} : Goto(r, where) /\ UNCHANGED executed
    BY <1>17 DEF SyncDone, Proceed, readVars
  <2>2. pc[r] = "out:syncBarrier" /\ Touches(r)
    BY <1>4, <1>17 DEF SyncDone
  <2>. QED
    BY <1>2, <1>6, <2>1, <2>2 DEF Writing
<1>18. CASE SyncFails(r)
  <2>1. pc[r] = "out:failedBarrier" /\ Touches(r)
    BY <1>4, <1>18 DEF SyncFails
  <2>2. CASE Raise(r, {"misuse"})
    BY <1>3, <2>1, <2>2
  <2>3. CASE Goto(r, "dead") /\ UNCHANGED executed
    BY <1>2, <2>1, <2>3 DEF Writing
  <2>. QED
    BY <1>18, <2>2, <2>3 DEF SyncFails
<1>. QED
  BY <1>7, <1>8, <1>9, <1>10, <1>11, <1>12, <1>13, <1>14, <1>15, <1>16, <1>17, <1>18 DEF Output

-----------------------------------------------------------------------------
\* What an object may be given: no handle that another object has, but the
\* one of WORLD
Free(r, name, h) ==
    /\ h \in {COMM_NULL, WorldCopy} \/ h \notin Handles(r) \cup freed[r]
    /\ name = "WORLD" => h = COMM_NULL
    /\ name \in Own /\ h = WorldCopy => Wrapped(r, name)

LEMMA RebindFresh ==
    ASSUME LifeInv, LinesOK, CommInv, FreshInv, NEW r \in Ranks, pc[r] \in Inside, NEW name \in Names, NEW o,
           Rebind(r, name, o), UNCHANGED executed, pc'[r] \notin {"make", "made"} \cup Writing,
           Met(r, o.handle), Liberty(r) \/ Free(r, name, o.handle)
    PROVE  FreshOK(r)' /\ Innocent(r)
<1>. DEFINE h == object[r][name].handle
<1>0. /\ FreshOK(r) /\ COMM_NULL \notin freed[r] /\ pc[r] \notin Leaving
      /\ pyMPI_COMM_WORLD[r] = WorldCopy
  BY DEF FreshInv, CommInv, CommsOK, RankComms, HandlesOK, Inside, InLine, Leaving, Over, Late
<1>1. /\ object' = [object EXCEPT ![r][name] = o]
      /\ UNCHANGED mpiVars \/ (h \notin Protected(r) /\ (Enter(r, h, "free", <<>>) \/ Misuse(r, h)))
  BY DEF Rebind, comm_dealloc, comm_free
<1>2. object'[r][name] = o /\ \A x \in Names \ {name} : object'[r][x] = object[r][x]
  BY <1>1 DEF CommInv, HandleTypes
<1>3. Grows(r) /\ CommsOK' /\ Grown /\ Innocent(r)
      /\ freed'[r] \in {freed[r], freed[r] \cup ({h} \ Protected(r))}
  <2>1. CASE UNCHANGED mpiVars
    BY <2>1, IdleGrows DEF mpiVars, Beside, Innocent
  <2>2. CASE h \notin Protected(r) /\ Enter(r, h, "free", <<>>)
    <3>1. Grows(r) /\ CommsOK' /\ Grown /\ Innocent(r)
      BY <2>2, EnterGrows DEF Beside
    <3>2. freed'[r] = freed[r] \cup {h}
      BY <2>2, EnterGrows
    <3>. QED
      BY <2>2, <3>1, <3>2
  <2>3. CASE Misuse(r, h)
    <3>1. Known(r, h)
      BY <1>0 DEF Known, Handles
    <3>. QED
      BY <2>3, <3>1, IdleGrows, MisuseInnocent DEF Misuse, Beside
  <2>. QED
    BY <1>1, <2>1, <2>2, <2>3
<1>. HIDE DEF h
<1>4. \A g : Met(r, g) => Met(r, g)'
  BY <1>3, MetStays
<1>5. \A g \in Handles(r)' \cup freed'[r] : Met(r, g)'
  <2>1. \A g \in Handles(r)' : g = o.handle \/ g \in Handles(r)
    BY <1>2 DEF Handles
  <2>2. \A g \in freed'[r] : g \in freed[r] \cup Handles(r)
    BY <1>3 DEF Handles, h
  <2>3. \A g \in Handles(r) \cup freed[r] : Met(r, g)
    BY <1>0 DEF FreshOK
  <2>. QED
    BY <1>4, <2>1, <2>2, <2>3
<1>6. (Liberty(r)' <=> Liberty(r)) /\ \A x : Wrapped(r, x)' <=> Wrapped(r, x)
  BY DEF Liberty, Aliased, ReleasesWorld, Wrapped
<1>7. ASSUME ~Liberty(r)' PROVE Unshared(r)'
  <2>1. Unshared(r) /\ Free(r, name, o.handle)
    BY <1>0, <1>6, <1>7 DEF FreshOK
  <2>2. "stale" \notin misused'[r]
    BY <1>3, <1>6, <1>7, <2>1 DEF Unshared, Innocent
  <2>3. WorldCopy \in Protected(r) /\ COMM_NULL \in Protected(r)
    BY <1>0 DEF Protected
  <2>4. WorldCopy \notin freed'[r] /\ COMM_NULL \notin freed'[r]
    BY <1>0, <1>3, <2>1, <2>3 DEF Unshared
  <2>5. ASSUME NEW x \in Names PROVE object'[r][x].handle \notin freed'[r]
    <3>1. CASE x = name
      <4>1. object'[r][x].handle = o.handle
        BY <1>2, <3>1
      <4>2. o.handle \notin Handles(r) \cup freed[r] => o.handle \notin freed'[r]
        BY <1>3 DEF Handles, h
      <4>. QED
        BY <2>1, <2>4, <4>1, <4>2 DEF Free
    <3>2. CASE x # name
      <4>1. object'[r][x].handle = object[r][x].handle /\ object[r][x].handle \notin freed[r]
        BY <1>0, <1>2, <2>1, <3>2 DEF Unshared
      <4>2. object[r][x].handle = h => h \in {COMM_NULL, WorldCopy}
        BY <2>1, <3>2 DEF Unshared, h
      <4>. QED
        BY <1>3, <2>3, <4>1, <4>2
    <3>. QED
      BY <3>1, <3>2
  <2>6. ASSUME NEW x \in Names, NEW y \in Names, object'[r][x].handle = object'[r][y].handle, x # y
        PROVE  object'[r][x].handle \in {COMM_NULL, WorldCopy}
    <3>1. CASE x # name /\ y # name
      BY <1>2, <2>1, <2>6, <3>1 DEF Unshared
    <3>2. CASE x = name
      <4>1. o.handle \in Handles(r)
        BY <1>2, <2>6, <3>2 DEF Handles
      <4>. QED
        BY <1>2, <2>1, <3>2, <4>1 DEF Free
    <3>3. CASE y = name
      <4>1. o.handle \in Handles(r)
        BY <1>2, <2>6, <3>3 DEF Handles
      <4>. QED
        BY <1>2, <2>1, <2>6, <3>3, <4>1 DEF Free
    <3>. QED
      BY <3>1, <3>2, <3>3
  <2>7. object'[r]["WORLD"].handle \in {COMM_NULL, WorldCopy}
    BY <1>2, <2>1 DEF Unshared, Free, Names
  <2>8. \A x \in Own : object'[r][x].handle = WorldCopy => Wrapped(r, x)'
    BY <1>2, <1>6, <2>1 DEF Unshared, Free, Own
  <2>. QED
    BY <2>2, <2>4, <2>5, <2>6, <2>7, <2>8 DEF Unshared
<1>. QED
  BY <1>3, <1>5, <1>7 DEF FreshOK

\* A name is given up.
LEMMA NoneFree ==
    ASSUME NEW r \in Ranks, NEW name \in Names
    PROVE  Met(r, COMM_NULL) /\ Free(r, name, COMM_NULL)
BY Names4 DEF Met, Free

LEMMA AsideMine == ASSUME NEW r \in Ranks, Aside(r) PROVE Beside(r) /\ OnlyMine(r)
BY DEF Aside, Apart, Turns, NewObjects, OnlyMine

LEMMA RebindKeeps ==
    ASSUME LifeInv, LinesOK, CommInv, FreshInv, NEW r \in Ranks, pc[r] \in InLine, NEW name \in Names, NEW o,
           o \in Thing, ThingOK(r, o), Rebind(r, name, o), Proceed(r, "next"),
           Met(r, o.handle), Liberty(r) \/ Free(r, name, o.handle)
    PROVE  FreshInv'
<1>1. Aside(r)
  BY RebindAside
<1>2. pc'[r] = "next" /\ UNCHANGED executed
  BY DEF Proceed, readVars, Goto, LifeInv, Types
<1>3. FreshOK(r)' /\ Innocent(r)
  BY <1>2, RebindFresh DEF Inside, Writing
<1>. QED
  BY <1>1, <1>3, AsideMine, MineFresh

-----------------------------------------------------------------------------
\* The next communicator of c is new to r: it has not made that call before.
LEMMA NextIsNew ==
    ASSUME CommInv, FreshInv, NEW r \in Ranks, NEW c, Belongs(r, c), NEW t, t = Turn(r, c) + 1
    PROVE  Append(c, t) \notin Handles(r) \cup freed[r]
<1>1. c \in DOMAIN group /\ c \in Seq(Nat) /\ c # COMM_WORLD /\ Turn(r, c) \in Nat /\ t \in Nat
  BY TurnType DEF Belongs, CommInv
<1>2. Append(c, t) \notin {COMM_NULL, WorldCopy, InputCopy}
  BY <1>1, NewName
<1>3. ASSUME NEW b \in DOMAIN group, NEW k \in 0..Turn(r, b), Append(c, t) = Append(b, k)
      PROVE  FALSE
  <2>1. b \in Seq(Nat) /\ Turn(r, b) \in Nat /\ k \in Nat
    BY TurnType DEF CommInv
  <2>2. b = c /\ k = t
    BY ONLY <1>1, <1>3, <2>1, AppendInjective
  <2>. QED
    BY <1>1, <2>2
<1>4. ~Met(r, Append(c, t))
  BY <1>2, <1>3, Zenon DEF Met
<1>. QED
  BY <1>4 DEF FreshInv, FreshOK

LEMMA ThisMet ==
    ASSUME CommInv, FreshInv, NEW r \in Ranks, NEW c, Belongs(r, c)
    PROVE  Met(r, NewComm(r, c))
<1>1. c \in DOMAIN group /\ Turn(r, c) \in 0..Turn(r, c)
  BY TurnType DEF Belongs, CommInv
<1>. QED
  BY <1>1, Zenon DEF Met, NewComm

LEMMA CallCalm ==
    ASSUME LifeInv, LinesOK, NEW r \in Ranks, NEW where, Proceed(r, where), pc[r] \in InLine,
           Touches(r), UNCHANGED object \/ SameHandles(r), where \notin {"make", "made"} \cup Writing
    PROVE  Calm(r)
BY ProceedCalm DEF Leaving, Over, Late, InLine

LEMMA FailCalm ==
    ASSUME LifeInv, LinesOK, NEW r \in Ranks, NEW fault, Raise(r, fault), pc[r] \in InLine,
           Touches(r), UNCHANGED object \/ SameHandles(r)
    PROVE  Calm(r)
BY RaiseCalm DEF Leaving, Over, Late, InLine

LEMMA OwnKnown ==
    ASSUME LifeInv, LinesOK, NEW r \in Ranks, pc[r] \in InLine, Line(r).on \in Names
    PROVE  Target(r).handle \in Handles(r) /\ Known(r, Target(r).handle)
BY DEF Handles, Target, Known, Leaving, Over, Late, InLine

LEMMA MakeCommFresh ==
    ASSUME LifeInv, LinesOK, CommInv, FreshInv, NEW r \in Ranks, MakeComm(r)
    PROVE  FreshInv'
<1>. DEFINE o == Target(r)
            l == Line(r)
<1>1. pc[r] = "run" /\ pc[r] \in InLine /\ l.do \in {"dup", "create", "cart"}
  BY DEF MakeComm, InLine
<1>2. l \in Statements /\ l.to \in Names /\ l.on \in Names /\ o.handle # InputCopy /\ o.handle # COMM_WORLD
  BY <1>1, LineShape, Shapes, TargetThing DEF Own
<1>3. CASE Raise(r, {}) /\ UNCHANGED <<mpiVars, commVars>>
  <2>1. Touches(r)
    BY <1>3 DEF Touches, mpiVars
  <2>. QED
    BY <1>1, <1>3, <2>1, FailCalm, CalmKeeps DEF commVars
<1>4. CASE Rebind(r, l.to, None) /\ Proceed(r, "next")
  BY <1>1, <1>2, <1>4, NoneThing, NoneFree, RebindKeeps DEF None
<1>5. CASE Rebind(r, l.to, pyMPI_comm(r, COMM_NULL)) /\ Proceed(r, "next")
  <2>. DEFINE n == pyMPI_comm(r, COMM_NULL)
  <2>1. n.handle = COMM_NULL /\ n \in Thing /\ ThingOK(r, n)
    BY ConstructedThing DEF pyMPI_comm, CommObject
  <2>. HIDE DEF n
  <2>. QED
    BY <1>1, <1>2, <1>5, <2>1, NoneFree, RebindKeeps DEF n
<1>6. ASSUME l.do = "create" => l.arg.kind # "none", ~BadArgument(r),
             Call(r, l.do, "make"), UNCHANGED commVars
      PROVE  FreshInv'
  <2>1. CASE Misuse(r, o.handle) /\ Raise(r, {})
    <3>1. Touches(r)
      BY <1>1, <1>2, <2>1, OwnKnown, Zenon DEF Touches
    <3>. QED
      BY <1>1, <1>6, <2>1, <3>1, FailCalm, CalmKeeps DEF commVars
  <2>2. CASE Enter(r, o.handle, l.do, <<>>) /\ Proceed(r, "make")
    <3>1. Belongs(r, o.handle)
      BY <1>1, <1>6, <2>2, ChosenOK DEF Enter
    <3>2. EnteredBy(r, o.handle, l.do, <<>>)
      BY <2>2, Entered DEF CommInv
    <3>3. Touches(r)
      BY <1>1, <2>2 DEF Touches
    <3>4. pc'[r] = "make" /\ (\A q \in Ranks \ {r} : pc'[q] = pc[q]) /\ executed' = executed
      BY <2>2, GotoMine DEF Proceed, readVars
    <3>5. Target(r)' = o
      BY <1>6, <3>4 DEF Target, Line, commVars
    <3>6. NewComm(r, Target(r).handle)' = Append(o.handle, Turn(r, o.handle) + 1)
      BY <3>2, <3>5 DEF NewComm, Turn, EnteredBy
    <3>7. NewComm(r, Target(r).handle)' \notin Handles(r) \cup freed[r]
      BY <3>1, <3>6, NextIsNew
    <3>8. LinesOK' /\ Advances(r)
      <4>1. Begun(r) \in Nat
        BY DEF LinesOK, Begun
      <4>. QED
        BY <3>4, <4>1 DEF LinesOK, Advances, Begun
    <3>9. Calm(r)
      BY <1>1, <1>6, <3>3, <3>4, <3>7, <3>8 DEF Calm, SameHandles, commVars, Leaving, Over, Late, Writing
    <3>. QED
      BY <1>6, <3>9, CalmKeeps DEF commVars
  <2>. QED
    BY <1>6, <2>1, <2>2 DEF Call
<1>. QED
  BY <1>3, <1>4, <1>5, <1>6 DEF MakeComm

LEMMA CommMadeFresh ==
    ASSUME LifeInv, LinesOK, CommInv, FreshInv, NEW r \in Ranks, CommMade(r)
    PROVE  FreshInv'
<1>. DEFINE c   == Target(r).handle
            new == NewComm(r, c)
<1>1. /\ pc[r] = "make" /\ Goto(r, "made") /\ UNCHANGED <<commVars, readVars, freed, misused>>
      /\ Create(new, Included(c, Chosen(r)))
  BY DEF CommMade, Create
<1>2. /\ Belongs(r, c) /\ CommsOK /\ FreshOK(r)
      /\ Chosen(r) \in Seq(0..(Len(group[c]) - 1)) /\ IsInjective(Chosen(r))
  BY <1>1 DEF CommInv, RankComms, MakeOK, FreshInv
<1>3. Beside(r) /\ Kept(r)
  <2>1. /\ Included(c, Chosen(r)) \in Seq(Ranks) /\ IsInjective(Included(c, Chosen(r)))
        /\ c \in DOMAIN group
    BY <1>2, IncludedOK DEF Belongs
  <2>2. new \in Seq(Nat) \ {COMM_NULL} /\ new \notin {COMM_WORLD, WorldCopy, InputCopy}
    BY <1>2, <2>1, TurnType, NewName DEF Belongs, NewComm
  <2>. HIDE DEF new
  <2>. QED
    BY <1>1, <1>2, <2>1, <2>2, CreateApart DEF Apart
<1>4. Touches(r)
  BY <1>1, <1>3 DEF Touches
<1>5. pc'[r] = "made" /\ \A q \in Ranks \ {r} : pc'[q] = pc[q]
  BY <1>1, GotoMine
<1>6. Target(r)' = Target(r) /\ executed' = executed
  BY <1>1 DEF Target, Line, commVars, readVars
<1>7. NewComm(r, Target(r).handle)' = new
  BY <1>2, <1>3, <1>6 DEF NewComm, Turn, Kept, Belongs
<1>8. new \notin Handles(r) \cup freed[r]
  BY <1>1, <1>2 DEF FreshOK
<1>9. LinesOK' /\ Advances(r)
  <2>1. Begun(r) \in Nat
    BY DEF LinesOK, Begun
  <2>. QED
    BY <1>6, <2>1 DEF LinesOK, Advances, Begun
<1>. HIDE DEF new
<1>10. Calm(r)
  BY <1>1, <1>4, <1>5, <1>6, <1>7, <1>8, <1>9
  DEF Calm, SameHandles, commVars, Leaving, Over, Late, Writing
<1>. QED
  BY <1>1, <1>10, CalmKeeps DEF commVars

-----------------------------------------------------------------------------
LEMMA CommBoundFresh ==
    ASSUME LifeInv, LinesOK, CommInv, FreshInv, NEW r \in Ranks, CommBound(r)
    PROVE  FreshInv'
<1>. DEFINE c      == Target(r).handle
            new    == NewComm(r, c)
            handle == Handle(r, new)
            o      == IF Line(r).do = "create" /\ handle = COMM_NULL THEN None ELSE pyMPI_comm(r, handle)
<1>1. pc[r] = "made" /\ pc[r] \in InLine /\ Rebind(r, Line(r).to, o) /\ Proceed(r, "next")
  BY DEF CommBound, InLine
<1>2. /\ Line(r).do \in {"dup", "create", "cart"} /\ Belongs(r, c) /\ new \in DOMAIN group
      /\ new \notin Handles(r) \cup freed[r]
  BY <1>1 DEF CommInv, RankComms, MakeOK, FreshInv, FreshOK
<1>3. Line(r).to \in Names /\ Line(r).to # "WORLD"
  BY <1>1, <1>2, LineShape, Shapes DEF Own
<1>4. new \notin {COMM_WORLD, WorldCopy, InputCopy}
  BY <1>2, TurnType, NewName DEF Belongs, NewComm, CommInv
<1>5. Met(r, new) /\ Free(r, Line(r).to, new)
  BY <1>2, <1>3, <1>4, ThisMet DEF Free
<1>. HIDE DEF new
<1>6. handle = COMM_NULL \/ (handle = new /\ Belongs(r, handle))
  BY <1>2, <1>4 DEF Handle, Belongs
<1>. HIDE DEF handle
<1>7. o \in Thing /\ ThingOK(r, o) /\ o.handle = handle
  BY <1>6, NoneThing, ConstructedThing DEF pyMPI_comm, CommObject, None
<1>. HIDE DEF o
<1>8. Met(r, o.handle) /\ Free(r, Line(r).to, o.handle)
  BY <1>3, <1>5, <1>6, <1>7, NoneFree
<1>. QED
  BY <1>1, <1>3, <1>7, <1>8, RebindKeeps

\* The wrapped handle has another object, and may be WORLD's.
LEMMA LastLine ==
    ASSUME LifeInv, LinesOK, NEW r \in Ranks, pc[r] \in InLine
    PROVE  /\ Begun(r) \in 1..Begun(r) /\ executed[r][Begun(r)] = Line(r)
           /\ Line(r).do = "wrap" /\ Line(r).on # "WORLD" => Liberty(r)
           /\ Line(r).do = "wrap" => Wrapped(r, Line(r).to)
           /\ Line(r).do = "free" /\ (Line(r).on = "WORLD" \/ Wrapped(r, Line(r).on)) => Liberty(r)
<1>1. Begun(r) \in Nat /\ executed[r] # <<>> /\ executed[r] \in Seq(AllLines \ {Eof})
  BY DEF LinesOK, Begun, LifeInv, RankOK, StateOK
<1>2. Begun(r) \in 1..Begun(r) /\ executed[r][Begun(r)] = Line(r)
  BY <1>1, EmptySeq DEF Line, Last, Begun
<1>3. Line(r).do = "wrap" /\ Line(r).on # "WORLD" => Liberty(r)
  BY <1>2 DEF Liberty, Aliased, ReleasesWorld, Begun
<1>4. Line(r).do = "wrap" => Wrapped(r, Line(r).to)
  BY <1>2 DEF Wrapped, Begun
<1>5. ASSUME Line(r).do = "free", Line(r).on = "WORLD" \/ Wrapped(r, Line(r).on)
      PROVE  Liberty(r)
  <2>1. CASE Line(r).on = "WORLD"
    BY <1>2, <1>5, <2>1 DEF Liberty, Aliased, ReleasesWorld, Begun
  <2>2. ASSUME NEW k \in 1..Begun(r), executed[r][k].do = "wrap", executed[r][k].to = Line(r).on
        PROVE  Liberty(r)
    <3>1. k # Begun(r)
      BY <1>2, <1>5, <2>2
    <3>2. k \in 1..(Begun(r) - 1)
      BY <1>1, <3>1
    <3>. QED
      BY <1>2, <1>5, <2>2, <3>2, Zenon DEF Liberty, Aliased, ReleasesWorld, Begun
  <2>. QED
    BY <1>5, <2>1, <2>2 DEF Wrapped, Begun
<1>. QED
  BY <1>2, <1>3, <1>4, <1>5

LEMMA WrapHandleFresh ==
    ASSUME LifeInv, LinesOK, CommInv, FreshInv, NEW r \in Ranks, WrapHandle(r)
    PROVE  FreshInv'
<1>. DEFINE c == Target(r).handle
            l == Line(r)
            o == CommObject(r, c, l.persist)
<1>1. pc[r] \in InLine /\ l.do = "wrap"
  BY DEF WrapHandle, InLine
<1>2. /\ l.to \in Names /\ l.to # "WORLD" /\ l.on \in Names /\ l.persist \in BOOLEAN
      /\ Target(r) \in Thing /\ ThingOK(r, Target(r))
  BY <1>1, LineShape, Shapes, TargetThing DEF Own
<1>3. c \in Handles(r) /\ Known(r, c)
  BY <1>1, <1>2, OwnKnown
<1>4. CASE Raise(r, {}) /\ UNCHANGED <<mpiVars, commVars>>
  <2>1. Touches(r)
    BY <1>4 DEF Touches, mpiVars
  <2>. QED
    BY <1>1, <1>4, <2>1, FailCalm, CalmKeeps DEF commVars
<1>5. CASE Misuse(r, c) /\ Raise(r, {}) /\ UNCHANGED commVars
  <2>1. Touches(r)
    BY <1>3, <1>5, Zenon DEF Touches
  <2>. QED
    BY <1>1, <1>5, <2>1, FailCalm, CalmKeeps DEF commVars
<1>6. CASE Rebind(r, l.to, o) /\ Proceed(r, "next")
  <2>1. c = COMM_NULL \/ Belongs(r, c)
    BY <1>2 DEF ThingOK
  <2>2. o \in Thing /\ ThingOK(r, o) /\ o.handle = c
    BY <1>2, <2>1, ConstructedThing DEF CommObject
  <2>. HIDE DEF o
  <2>3. Met(r, c)
    BY <1>3 DEF FreshInv, FreshOK
  <2>4. ~Liberty(r) => c \in {COMM_NULL, WorldCopy}
    <3>1. ~Liberty(r) => l.on = "WORLD" /\ Unshared(r)
      BY <1>1, LastLine DEF FreshInv, FreshOK
    <3>. QED
      BY <3>1 DEF Unshared, Target
  <2>5. Liberty(r) \/ Free(r, l.to, c)
    BY <1>1, <1>2, <2>4, LastLine DEF Free
  <2>. QED
    BY <1>1, <1>2, <1>6, <2>2, <2>3, <2>5, RebindKeeps
<1>. QED
  BY <1>4, <1>5, <1>6 DEF WrapHandle

LEMMA SetPersistentFresh ==
    ASSUME LifeInv, LinesOK, CommInv, FreshInv, NEW r \in Ranks, SetPersistent(r)
    PROVE  FreshInv'
<1>. DEFINE l == Line(r)
            o == [object[r][l.on] EXCEPT !.persistent = l.persist]
<1>1. /\ pc[r] \in InLine /\ l.do = "persistent" /\ Touches(r)
      /\ UNCHANGED <<pyMPI_COMM_WORLD, pyMPI_COMM_INPUT>>
  BY DEF SetPersistent, InLine, Touches, mpiVars
<1>2. CASE Raise(r, {}) /\ UNCHANGED object
  BY <1>1, <1>2, FailCalm, CalmKeeps
<1>3. CASE comm_set_persistent(r, l.on, l.persist) /\ Proceed(r, "next")
  <2>1. l.on \in Names
    BY <1>1, LineShape, Shapes
  <2>2. object' = [object EXCEPT ![r][l.on] = o] /\ object \in [Ranks -> [Names -> Thing]]
    BY <1>3 DEF comm_set_persistent, CommInv, HandleTypes
  <2>3. object[r][l.on] \in Thing
    BY <2>1, <2>2
  <2>4. o.handle = object[r][l.on].handle
    BY <2>3 DEF Thing
  <2>. HIDE DEF o
  <2>5. SameHandles(r)
    BY <2>1, <2>2, <2>4 DEF SameHandles
  <2>. QED
    BY <1>1, <1>3, <2>5, CallCalm, CalmKeeps DEF Writing
<1>. QED
  BY <1>2, <1>3 DEF SetPersistent

-----------------------------------------------------------------------------
\* What is released was no other object's: the method free sets its own null.
LEMMA ReleasedFresh ==
    ASSUME LifeInv, LinesOK, CommInv, FreshInv, NEW r \in Ranks, pc[r] \in InLine, Line(r).do = "free",
           Line(r).on \in Names, NEW h, h = Target(r).handle, h # COMM_NULL,
           Enter(r, h, "free", <<>>), Proceed(r, "next"),
           NEW o, o.handle = COMM_NULL, object' = [object EXCEPT ![r][Line(r).on] = o]
    PROVE  FreshOK(r)' /\ Innocent(r)
<1>. DEFINE name == Line(r).on
<1>1. object'[r][name] = o /\ \A x \in Names \ {name} : object'[r][x] = object[r][x]
  BY DEF CommInv, HandleTypes
<1>2. Grows(r) /\ CommsOK' /\ Grown /\ Innocent(r) /\ freed'[r] = freed[r] \cup {h}
  <2>1. Grows(r) /\ CommsOK' /\ Grown /\ Innocent(r)
    BY EnterGrows DEF Beside
  <2>2. freed'[r] = freed[r] \cup {h}
    BY EnterGrows
  <2>. QED
    BY <2>1, <2>2
<1>3. pc'[r] = "next" /\ executed' = executed
  BY DEF Proceed, Goto, readVars, LifeInv, Types
<1>4. FreshOK(r) /\ COMM_NULL \notin freed[r] /\ pc[r] \notin Leaving
  BY DEF FreshInv, CommInv, CommsOK, InLine, Leaving, Over, Late
<1>5. h \in Handles(r) /\ h = object[r][name].handle
  BY DEF Handles, Target
<1>6. \A g \in Handles(r)' \cup freed'[r] : Met(r, g)'
  <2>1. \A g : Met(r, g) => Met(r, g)'
    BY <1>2, MetStays
  <2>2. \A g \in Handles(r)' : g = COMM_NULL \/ g \in Handles(r)
    BY <1>1 DEF Handles
  <2>3. \A g \in Handles(r) \cup freed[r] \cup {COMM_NULL} : Met(r, g)
    BY <1>4, NoneFree DEF FreshOK
  <2>. QED
    BY <1>2, <1>5, <2>1, <2>2, <2>3
<1>7. (Liberty(r)' <=> Liberty(r)) /\ \A x : Wrapped(r, x)' <=> Wrapped(r, x)
  BY <1>3 DEF Liberty, Aliased, ReleasesWorld, Wrapped
<1>8. ASSUME ~Liberty(r)' PROVE Unshared(r)'
  <2>1. Unshared(r) /\ "stale" \notin misused'[r]
    BY <1>2, <1>4, <1>7, <1>8 DEF FreshOK, Unshared, Innocent
  <2>2. name \in Own /\ ~Wrapped(r, name)
    BY <1>7, <1>8, LastLine DEF Own
  <2>3. h # WorldCopy
    BY <1>5, <2>1, <2>2 DEF Unshared
  <2>4. WorldCopy \notin freed'[r] /\ COMM_NULL \notin freed'[r]
    BY <1>2, <1>4, <2>1, <2>3 DEF Unshared
  <2>5. ASSUME NEW x \in Names PROVE object'[r][x].handle \notin freed'[r]
    <3>1. CASE x = name
      BY <1>1, <2>4, <3>1
    <3>2. CASE x # name
      <4>1. object[r][x].handle # h
        BY <1>5, <2>1, <2>3, <3>2 DEF Unshared
      <4>. QED
        BY <1>1, <1>2, <1>4, <2>1, <3>2, <4>1 DEF Unshared
    <3>. QED
      BY <3>1, <3>2
  <2>6. ASSUME NEW x \in Names, NEW y \in Names, object'[r][x].handle = object'[r][y].handle, x # y
        PROVE  object'[r][x].handle \in {COMM_NULL, WorldCopy}
    BY <1>1, <2>1, <2>6 DEF Unshared
  <2>7. object'[r]["WORLD"].handle \in {COMM_NULL, WorldCopy}
    BY <1>1, <2>1 DEF Unshared, Names
  <2>8. \A x \in Own : object'[r][x].handle = WorldCopy => Wrapped(r, x)'
    BY <1>1, <1>7, <2>1, Names4 DEF Unshared, Own
  <2>. QED
    BY <2>1, <2>4, <2>5, <2>6, <2>7, <2>8 DEF Unshared
<1>. QED
  BY <1>2, <1>3, <1>6, <1>8 DEF FreshOK, Writing

LEMMA FreeCommFresh ==
    ASSUME LifeInv, LinesOK, CommInv, FreshInv, NEW r \in Ranks, FreeComm(r)
    PROVE  FreshInv'
<1>. DEFINE l == Line(r)
            c == Target(r).handle
            o == [object[r][l.on] EXCEPT !.handle = IF Usable(r, c) THEN COMM_NULL ELSE @]
<1>1. pc[r] \in InLine /\ l.do = "free"
  BY DEF FreeComm, InLine
<1>2. l.on \in Names /\ object[r][l.on] \in Thing /\ Target(r) = object[r][l.on]
  BY <1>1, LineShape, Shapes, TargetThing DEF Target
<1>3. CASE Raise(r, {}) /\ UNCHANGED <<mpiVars, commVars>>
  <2>1. Touches(r)
    BY <1>3 DEF Touches, mpiVars
  <2>. QED
    BY <1>1, <1>3, <2>1, FailCalm, CalmKeeps DEF commVars
<1>4. CASE /\ Call(r, "free", "next") /\ c # COMM_NULL
           /\ object' = [object EXCEPT ![r][l.on].handle = IF Usable(r, c) THEN COMM_NULL ELSE @]
           /\ UNCHANGED <<pyMPI_COMM_WORLD, pyMPI_COMM_INPUT>>
  <2>1. object' = [object EXCEPT ![r][l.on] = o]
    BY <1>4
  <2>2. o.handle = IF Usable(r, c) THEN COMM_NULL ELSE c
    BY <1>2 DEF Thing
  <2>. HIDE DEF o
  <2>3. CASE Misuse(r, c) /\ Raise(r, {})
    <3>1. o.handle = object[r][l.on].handle
      BY <1>2, <2>2, <2>3 DEF Misuse
    <3>2. SameHandles(r)
      BY <1>2, <2>1, <3>1 DEF SameHandles, CommInv, HandleTypes
    <3>3. Touches(r)
      BY <1>1, <1>2, <2>3, OwnKnown, Zenon DEF Touches
    <3>. QED
      BY <1>1, <1>4, <2>3, <3>2, <3>3, FailCalm, CalmKeeps
  <2>4. CASE Enter(r, c, "free", <<>>) /\ Proceed(r, "next")
    <3>1. o.handle = COMM_NULL
      BY <2>2, <2>4 DEF Enter
    <3>2. FreshOK(r)' /\ Innocent(r)
      BY <1>1, <1>2, <1>4, <2>1, <2>4, <3>1, ReleasedFresh
    <3>. QED
      BY <3>2, FreeCommAside, AsideMine, MineFresh
  <2>. QED
    BY <1>4, <2>3, <2>4 DEF Call
<1>. QED
  BY <1>3, <1>4 DEF FreeComm

LEMMA CommandFresh ==
    ASSUME LifeInv, LinesOK, CommInv, FreshInv, NEW r \in Ranks, NEW early \in BOOLEAN, Command(r, early)
    PROVE  FreshInv'
<1>1. ASSUME pc[r] \in InLine, Touches(r), UNCHANGED commVars,
             \/ \E where : Proceed(r, where) /\ where \notin {"make", "made"} \cup Writing
             \/ \E fault : Raise(r, fault)
      PROVE  FreshInv'
  BY <1>1, CallCalm, FailCalm, CalmKeeps DEF commVars
<1>2. ASSUME UNCHANGED <<group, calls, freed, misused>> PROVE Touches(r)
  BY <1>2 DEF Touches
<1>3. CASE UserRaises(r)
  <2>1. pc[r] \in InLine /\ UNCHANGED <<group, calls, freed, misused, commVars>>
    BY <1>3 DEF UserRaises, InLine, mpiVars
  <2>2. Raise(r, {}) \/ Proceed(r, "next")
    BY <1>3 DEF UserRaises
  <2>. QED
    BY <1>1, <1>2, <2>1, <2>2 DEF Writing
<1>4. CASE Finalize(r)
  <2>1. pc[r] \in InLine /\ UNCHANGED commVars
    BY <1>4 DEF Finalize, InLine
  <2>2. UNCHANGED <<group, calls, freed, misused>>
    BY <1>4 DEF Finalize, MPI_Finalize, mpiVars
  <2>3. Proceed(r, "finalizing") \/ Raise(r, {})
    BY <1>4 DEF Finalize
  <2>. QED
    BY <1>1, <1>2, <2>1, <2>2, <2>3 DEF Writing
<1>5. CASE FinalizeDone(r, early)
  <2>1. /\ pc[r] \in InLine /\ UNCHANGED <<group, calls, freed, misused, commVars>>
        /\ Proceed(r, "next")
    BY <1>5 DEF FinalizeDone, FinalizeReturns, InLine
  <2>. QED
    BY <1>1, <1>2, <2>1 DEF Writing
<1>6. CASE SystemExit(r)
  <2>1. /\ pc[r] \in InLine /\ UNCHANGED <<group, calls, freed, misused, commVars>>
        /\ \E where \in {"next", "leave"} : Proceed(r, where)
    BY <1>6 DEF SystemExit, InLine, mpiVars
  <2>. QED
    BY <1>1, <1>2, <2>1 DEF Writing
<1>7. CASE AbortJob(r)
  <2>1. pc[r] \in InLine /\ UNCHANGED <<group, calls, freed, misused, commVars>>
    BY <1>7 DEF AbortJob, InLine, mpiVars
  <2>2. Proceed(r, "gone") \/ Raise(r, {})
    BY <1>7 DEF AbortJob
  <2>. QED
    BY <1>1, <1>2, <2>1, <2>2 DEF Writing
<1>8. CASE fatal_signal(r)
  <2>1. /\ pc[r] \in InLine /\ UNCHANGED <<group, calls, freed, misused, commVars>>
        /\ Proceed(r, "gone")
    BY <1>8 DEF fatal_signal, InLine
  <2>. QED
    BY <1>1, <1>2, <2>1 DEF Writing
<1>9. CASE Delete(r)
  <2>1. pc[r] \in InLine /\ Line(r).do = "del" /\ Rebind(r, Line(r).on, None) /\ Proceed(r, "next")
    BY <1>9 DEF Delete, InLine
  <2>2. Line(r).on \in Names
    BY <2>1, LineShape, Shapes
  <2>. QED
    BY <2>1, <2>2, NoneThing, NoneFree, RebindKeeps DEF None
<1>. QED
  BY <1>3, <1>4, <1>5, <1>6, <1>7, <1>8, <1>9, MakeCommFresh, CommMadeFresh, CommBoundFresh,
     WrapHandleFresh, SetPersistentFresh, FreeCommFresh DEF Command

-----------------------------------------------------------------------------
LEMMA ReleaseFresh ==
    ASSUME LifeInv, LinesOK, CommInv, FreshInv, NEW r \in Ranks, NEW h \in {COMM_NULL, WorldCopy, InputCopy},
           Known(r, h), Release(r, h), UNCHANGED <<object, executed>>, pc'[r] \in Leaving
    PROVE  FreshOK(r)' /\ Innocent(r) /\ Beside(r)
<1>1. Grows(r) /\ Beside(r) /\ Innocent(r) /\ freed'[r] \subseteq freed[r] \cup {h}
  <2>1. CASE UNCHANGED mpiVars
    BY <2>1, IdleGrows DEF mpiVars, Innocent
  <2>2. CASE Enter(r, h, "free", <<>>)
    <3>1. Grows(r) /\ Beside(r) /\ Innocent(r)
      BY <2>2, EnterGrows
    <3>2. freed'[r] = freed[r] \cup {h}
      BY <2>2, EnterGrows
    <3>. QED
      BY <3>1, <3>2
  <2>3. CASE Misuse(r, h)
    BY <2>3, IdleGrows, MisuseInnocent DEF Misuse
  <2>. QED
    BY <2>1, <2>2, <2>3 DEF Release
<1>2. FreshOK(r)
  BY DEF FreshInv
<1>3. \A g \in Handles(r)' \cup freed'[r] : Met(r, g)'
  <2>1. \A g : Met(r, g) => Met(r, g)'
    BY <1>1, MetStays DEF Beside
  <2>2. Handles(r)' = Handles(r) /\ Met(r, h)
    BY DEF Handles, Met
  <2>. QED
    BY <1>1, <1>2, <2>1, <2>2 DEF FreshOK
<1>4. (Liberty(r)' <=> Liberty(r)) /\ \A x : Wrapped(r, x)' <=> Wrapped(r, x)
  BY DEF Liberty, Aliased, ReleasesWorld, Wrapped
<1>5. ~Liberty(r)' => Unshared(r)'
  BY <1>1, <1>2, <1>4 DEF FreshOK, Unshared, Innocent
<1>. QED
  BY <1>1, <1>3, <1>5 DEF FreshOK, Leaving, Over, Late, Writing

LEMMA LeaveFresh ==
    ASSUME LifeInv, LinesOK, CommInv, FreshInv, NEW r \in Ranks, NEW early \in BOOLEAN, Leave(r, early)
    PROVE  FreshInv'
<1>. USE DEF Leaving, Over, Late
<1>0. HandlesOK(r)
  BY DEF CommInv, RankComms
<1>1. ASSUME NEW where \in Leaving, Proceed(r, where), UNCHANGED commVars, Touches(r)
      PROVE  FreshInv'
  <2>1. Calm(r)
    BY <1>1, ProceedCalm DEF Writing, commVars
  <2>. QED
    BY <1>1, <2>1, CalmKeeps DEF commVars
<1>2. CASE Destroy(r)
  <2>1. PICK name \in Names : Rebind(r, name, None)
    BY <1>2 DEF Destroy
  <2>2. pc[r] \in Inside /\ pc'[r] \notin {"make", "made"} \cup Writing /\ executed' = executed
    BY <1>2 DEF Destroy, Inside, Writing, readVars
  <2>3. FreshOK(r)' /\ Innocent(r)
    BY <2>1, <2>2, NoneFree, RebindFresh DEF None
  <2>. QED
    BY <1>2, <2>3, LeaveAside, AsideMine, MineFresh
<1>3. CASE last_wish(r)
  <2>1. /\ pc[r] = "leave" /\ Release(r, pyMPI_COMM_WORLD[r]) /\ Proceed(r, "fini:readline")
        /\ pyMPI_COMM_WORLD' = [pyMPI_COMM_WORLD EXCEPT ![r] = COMM_NULL]
        /\ UNCHANGED <<object, pyMPI_COMM_INPUT>>
    BY <1>3 DEF last_wish
  <2>2. pyMPI_COMM_WORLD[r] = WorldCopy /\ Known(r, WorldCopy)
    BY <1>0, <2>1 DEF HandlesOK, Known
  <2>3. pc'[r] = "fini:readline" /\ (\A q \in Ranks \ {r} : pc'[q] = pc[q]) /\ executed' = executed
    BY <2>1, GotoMine DEF Proceed, readVars
  <2>4. FreshOK(r)' /\ Innocent(r) /\ Beside(r)
    BY <2>1, <2>2, <2>3, ReleaseFresh
  <2>5. OnlyMine(r)
    BY <2>1, <2>3 DEF OnlyMine, CommInv, HandleTypes
  <2>. QED
    BY <2>4, <2>5, MineFresh
<1>4. CASE readline_fini(r)
  <2>1. /\ pc[r] = "fini:readline" /\ Release(r, pyMPI_COMM_INPUT[r]) /\ Proceed(r, "fini:sysmods")
        /\ pyMPI_COMM_INPUT' = [pyMPI_COMM_INPUT EXCEPT ![r] = COMM_NULL]
        /\ UNCHANGED <<object, pyMPI_COMM_WORLD>>
    BY <1>4 DEF readline_fini
  <2>2. pyMPI_COMM_INPUT[r] = InputCopy /\ Known(r, InputCopy)
    BY <1>0, <2>1 DEF HandlesOK, Known, Booting
  <2>3. pc'[r] = "fini:sysmods" /\ (\A q \in Ranks \ {r} : pc'[q] = pc[q]) /\ executed' = executed
    BY <2>1, GotoMine DEF Proceed, readVars
  <2>4. FreshOK(r)' /\ Innocent(r) /\ Beside(r)
    BY <2>1, <2>2, <2>3, ReleaseFresh
  <2>5. OnlyMine(r)
    BY <2>1, <2>3 DEF OnlyMine, CommInv, HandleTypes
  <2>. QED
    BY <2>4, <2>5, MineFresh
<1>5. CASE sysmods_fini(r) \/ AtEnd(r)
  <2>1. \E where \in Leaving : Proceed(r, where)
    BY <1>5 DEF sysmods_fini, AtEnd
  <2>2. MPI_Finalize(r) \/ UNCHANGED mpiVars
    BY <1>5 DEF sysmods_fini, AtEnd
  <2>3. Touches(r) /\ UNCHANGED commVars
    BY <1>5, <2>2 DEF Touches, MPI_Finalize, mpiVars, sysmods_fini, AtEnd
  <2>. QED
    BY <1>1, <2>1, <2>3
<1>6. CASE EndFinalized(r, early)
  <2>1. \E where \in Leaving : Proceed(r, where)
    BY <1>6 DEF EndFinalized
  <2>2. Touches(r) /\ UNCHANGED commVars
    BY <1>6 DEF EndFinalized, FinalizeReturns, Touches
  <2>. QED
    BY <1>1, <2>1, <2>2
<1>. QED
  BY <1>2, <1>3, <1>4, <1>5, <1>6 DEF Leave

\* WORLD gets its handle when pyMPI_init is through.
LEMMA WorldFresh ==
    ASSUME LifeInv, LinesOK, CommInv, FreshInv, NEW r \in Ranks, pc[r] = "init:dupInput", Goto(r, "next"),
           Beside(r), Kept(r), UNCHANGED <<freed, misused, executed>>,
           NEW o, o.handle = WorldCopy, object' = [object EXCEPT ![r]["WORLD"] = o]
    PROVE  FreshOK(r)'
<1>1. /\ object'[r]["WORLD"] = o /\ \A x \in Own : object'[r][x] = object[r][x]
      /\ "WORLD" \in Names /\ Own = Names \ {"WORLD"}
  BY DEF CommInv, HandleTypes, Names, Own
<1>2. pc'[r] = "next" /\ pc[r] \notin Leaving
  BY GotoMine DEF Leaving, Over, Late
<1>3. FreshOK(r)
  BY DEF FreshInv
<1>4. Grows(r) /\ CommsOK' /\ Grown
  BY TouchesOK DEF Touches, Beside
<1>5. \A g \in Handles(r)' \cup freed'[r] : Met(r, g)'
  <2>1. \A g : Met(r, g) => Met(r, g)'
    BY <1>4, MetStays
  <2>2. \A g \in Handles(r)' : g = WorldCopy \/ g \in Handles(r)
    BY <1>1 DEF Handles
  <2>3. \A g \in Handles(r) \cup freed[r] \cup {WorldCopy} : Met(r, g)
    BY <1>3 DEF FreshOK, Met
  <2>. QED
    BY <2>1, <2>2, <2>3
<1>6. (Liberty(r)' <=> Liberty(r)) /\ \A x : Wrapped(r, x)' <=> Wrapped(r, x)
  BY DEF Liberty, Aliased, ReleasesWorld, Wrapped
<1>7. ~Liberty(r)' => Unshared(r)'
  <2>1. \A x \in Names : object'[r][x].handle = IF x = "WORLD" THEN WorldCopy ELSE object[r][x].handle
    BY <1>1
  <2>. QED
    BY <1>1, <1>2, <1>3, <1>6, <2>1 DEF FreshOK, Unshared
<1>. QED
  BY <1>2, <1>5, <1>7 DEF FreshOK, Writing

LEMMA BootFresh ==
    ASSUME LifeInv, LinesOK, CommInv, FreshInv, NEW r \in Ranks, Boot(r)
    PROVE  FreshInv'
<1>. USE DEF Leaving, Over, Late
<1>1. CASE Initialize(r)
  <2>1. /\ Goto(r, "init") /\ pc[r] = "start" /\ UNCHANGED <<executed, object, pyMPI_COMM_WORLD, pyMPI_COMM_INPUT>>
        /\ Touches(r)
    BY <1>1 DEF Initialize, MPI_Init, Touches, commVars, readVars
  <2>2. Calm(r)
    BY <2>1, GotoCalm DEF Writing
  <2>. QED
    BY <2>1, <2>2, CalmKeeps
<1>2. CASE DupWorld(r)
  <2>1. /\ UNCHANGED <<executed, object, pyMPI_COMM_WORLD, pyMPI_COMM_INPUT>>
        /\ Enter(r, COMM_WORLD, "dup", <<>>)
    BY <1>2 DEF DupWorld, commVars, readVars
  <2>2. PICK where \in {"init:dup", "init:dupInput"} : Goto(r, where)
    BY <1>2 DEF DupWorld
  <2>3. Touches(r) /\ pc[r] \notin Leaving
    BY <1>2, <2>1 DEF Touches, DupWorld
  <2>4. Calm(r)
    BY <2>1, <2>2, <2>3, GotoCalm DEF Writing
  <2>. QED
    BY <2>1, <2>4, CalmKeeps
<1>3. CASE WorldDone(r)
  <2>. DEFINE new == NewComm(r, COMM_WORLD)
  <2>1. /\ pc[r] \in {"init:dup", "init:dupInput"} /\ Create(new, group[COMM_WORLD])
        /\ UNCHANGED <<executed, freed, misused>>
    BY <1>3 DEF WorldDone, Create, readVars
  <2>2. CommsOK /\ RankComms(r)
    BY DEF CommInv
  <2>3. new \in {WorldCopy, InputCopy}
    BY <2>1, <2>2, NewName DEF RankComms, TurnOK, NewComm, COMM_WORLD, WorldCopy, InputCopy
  <2>4. group[COMM_WORLD] = AllRanks /\ new \in Seq(Nat) \ {COMM_NULL}
    BY <2>2, <2>3, Names4 DEF CommsOK
  <2>. HIDE DEF new
  <2>5. Beside(r) /\ Kept(r)
    BY <2>1, <2>2, <2>4, Everybody, CreateApart DEF Apart
  <2>6. Innocent(r)
    BY <2>1 DEF Innocent
  <2>7. CASE pc[r] = "init:dup"
    <3>1. /\ pyMPI_COMM_WORLD' = [pyMPI_COMM_WORLD EXCEPT ![r] = new] /\ Goto(r, "initComm")
          /\ UNCHANGED <<object, pyMPI_COMM_INPUT>>
      BY <1>3, <2>7 DEF WorldDone, new
    <3>2. Touches(r)
      BY <2>1, <2>5 DEF Touches
    <3>3. Calm(r)
      BY <2>1, <2>7, <3>1, <3>2, GotoCalm DEF Writing
    <3>4. FreshOK(r)'
      BY <3>3, CalmFresh
    <3>5. OnlyMine(r)
      BY <2>1, <3>1, GotoMine DEF OnlyMine, CommInv, HandleTypes
    <3>. QED
      BY <2>5, <2>6, <3>4, <3>5, MineFresh
  <2>8. CASE pc[r] = "init:dupInput"
    <3>. DEFINE o == pyMPI_comm(r, pyMPI_COMM_WORLD[r])
    <3>1. /\ pyMPI_COMM_INPUT' = [pyMPI_COMM_INPUT EXCEPT ![r] = new] /\ Goto(r, "next")
          /\ object' = [object EXCEPT ![r]["WORLD"] = o]
          /\ UNCHANGED pyMPI_COMM_WORLD
      BY <1>3, <2>8 DEF WorldDone, new
    <3>2. o.handle = WorldCopy
      BY <2>2, <2>8 DEF RankComms, HandlesOK, pyMPI_comm, CommObject
    <3>. HIDE DEF o
    <3>3. FreshOK(r)'
      BY <2>1, <2>5, <2>8, <3>1, <3>2, WorldFresh
    <3>4. OnlyMine(r)
      BY <2>1, <3>1, GotoMine DEF OnlyMine, CommInv, HandleTypes
    <3>. QED
      BY <2>5, <2>6, <3>3, <3>4, MineFresh
  <2>. QED
    BY <2>1, <2>7, <2>8
<1>. QED
  BY <1>1, <1>2, <1>3 DEF Boot

LEMMA StepFresh ==
    ASSUME SessionInv, FreshInv, NEW r \in Ranks, NEW early \in BOOLEAN, Step(r, early)
    PROVE  FreshInv'
<1>1. LifeInv /\ CommInv /\ StreamInv /\ LinesOK
  BY Typed DEF SessionInv
<1>2. CASE Boot(r)
  BY <1>1, <1>2, BootFresh
<1>3. CASE Read(r, early)
  BY <1>1, <1>3, ReadFresh, CalmKeeps
<1>4. CASE Output(r, early)
  BY <1>1, <1>4, OutputFresh, CalmKeeps
<1>5. CASE Command(r, early)
  BY <1>1, <1>5, CommandFresh
<1>6. CASE Leave(r, early)
  BY <1>1, <1>6, LeaveFresh
<1>. QED
  BY <1>2, <1>3, <1>4, <1>5, <1>6 DEF Step

LEMMA FreshInitially == Init => FreshInv
<1>. SUFFICES ASSUME Init, NEW r \in Ranks PROVE FreshOK(r)
  BY DEF FreshInv
<1>1. /\ pc[r] = "start" /\ freed[r] = {} /\ misused[r] = {} /\ executed[r] = <<>>
      /\ \A name \in Names : object[r][name].handle = COMM_NULL
  BY DEF Init, MPIInit, CommInit, ReadInit, None
<1>2. \A h \in Handles(r) \cup freed[r] : Met(r, h)
  BY <1>1 DEF Handles, Met
<1>3. Unshared(r)
  BY <1>1, Names4 DEF Unshared, Names, Own
<1>. QED
  BY <1>1, <1>2, <1>3 DEF FreshOK, Writing

LEMMA FreshAlways == Spec => []FreshInv
<1>1. SessionInv /\ FreshInv /\ [Next]_vars => FreshInv'
  <2>. SUFFICES ASSUME SessionInv, FreshInv, [Next]_vars PROVE FreshInv'
    OBVIOUS
  <2>1. CASE Next
    BY <2>1, StepFresh DEF Next
  <2>2. CASE UNCHANGED vars
    <3>1. UNCHANGED <<pc, group, calls, freed, misused, object, executed>>
      BY <2>2 DEF vars, mpiVars, commVars, readVars
    <3>2. \A q \in Ranks : FreshOK(q)' <=> FreshOK(q)
      BY <3>1 DEF FreshOK, Handles, Met, Turn, NewComm, Target, Line, Liberty, Aliased, ReleasesWorld, Unshared, Wrapped
    <3>. QED
      BY <3>2 DEF FreshInv
  <2>. QED
    BY <2>1, <2>2
<1>. QED
  BY <1>1, FreshInitially, SessionAlways, PTL DEF Spec

\* pyMPI uses MPI out of its time, or a communicator that is released, only
\* when the program has finalized MPI, or has made two objects of one handle,
\* as long as no program has released the handle of WORLD, which comm_free does
\* not refuse (comm_free, comm_dealloc, last_wish).
THEOREM AlwaysMisuseIsTheProgram ==
    Spec => []((\A r \in Ranks : ~ReleasesWorld(r)) => MisuseIsTheProgram)
<1>1. FreshInv => \A r \in Ranks : "stale" \in misused[r] => Liberty(r)
  BY DEF FreshInv, FreshOK, Unshared
<1>2. UsedWhenReady /\ FreshInv => ((\A r \in Ranks : ~ReleasesWorld(r)) => MisuseIsTheProgram)
  BY <1>1 DEF MisuseIsTheProgram, Liberty
<1>. QED
  BY <1>2, AlwaysUsedWhenReady, FreshAlways, PTL
-----------------------------------------------------------------------------
(***************************************************************************)
(* Slices.  The length that comm_slice works out, with C's division, is    *)
(* the number of steps from start that stay short of stop; so a slice is   *)
(* what its bounds say, for any size, bounds and step.                     *)
(***************************************************************************)
SliceBy(step)             == IF step = Omitted THEN 1 ELSE step
SliceFrom(size, start, b) == Bound(start, IF b < 0 THEN size - 1 ELSE 0, size)
SliceTo(size, stop, b)    == Bound(stop, IF b < 0 THEN -1 ELSE size, size)
Short(i, to, b)           == IF b < 0 THEN i > to ELSE i < to
Slice(size, start, stop, step) ==
    comm_slice(size, [start |-> start, stop |-> stop, step |-> step])

LEMMA SliceUnfolded ==
    ASSUME NEW size, NEW start, NEW stop, NEW step
    PROVE  LET b    == SliceBy(step)
               from == SliceFrom(size, start, b)
               to   == SliceTo(size, stop, b)
               long == SliceLength(from, to, b)
           IN  Slice(size, start, stop, step) =
                 IF b = 0 \/ to > size \/ from >= size THEN Raises
                 ELSE IF long < 0 THEN Raises
                 ELSE [i \in 1..long |-> from + (i - 1) * b]
<1>. DEFINE x == [start |-> start, stop |-> stop, step |-> step]
<1>1. x.start = start /\ x.stop = stop /\ x.step = step
  OBVIOUS
<1>2. Slice(size, start, stop, step) = comm_slice(size, x)
  BY Zenon DEF Slice
<1>. HIDE DEF x
<1>. QED
  BY Zenon, <1>1, <1>2 DEF comm_slice, SliceBy, SliceFrom, SliceTo

LEMMA TimesMonotone ==
    ASSUME NEW x \in Int, NEW y \in Int, NEW b \in Nat, x <= y
    PROVE  x * b <= y * b
<1>1. (y - x) * b >= 0
  OBVIOUS
<1>2. (y - x) * b = y * b - x * b
  OBVIOUS
<1>. QED
  BY <1>1, <1>2

LEMMA QuotientCounts ==
    ASSUME NEW a \in Int, NEW b \in Nat \ {0}, Quotient(a, b) >= 0, NEW k \in Nat
    PROVE  k < Quotient(a, b) <=> k * b <= a - b
<1>1. CASE a >= 0
  <2>. DEFINE d == a \div b
  <2>1. d \in Nat /\ d * b <= a /\ a < d * b + b
    BY <1>1
  <2>2. Quotient(a, b) = d
    BY <1>1 DEF Quotient
  <2>3. k < d => k * b <= a - b
    <3>1. k < d => (k + 1) * b <= d * b
      BY <2>1, TimesMonotone
    <3>2. (k + 1) * b = k * b + b
      OBVIOUS
    <3>. QED
      BY <3>1, <3>2, <2>1
  <2>4. k >= d => k * b > a - b
    <3>1. k >= d => d * b <= k * b
      BY <2>1, TimesMonotone
    <3>. QED
      BY <3>1, <2>1
  <2>. QED
    BY <2>1, <2>2, <2>3, <2>4
<1>2. CASE a < 0
  <2>1. (-a) \div b \in Nat
    BY <1>2
  <2>2. Quotient(a, b) = 0
    BY <1>2, <2>1 DEF Quotient
  <2>3. k * b >= 0
    OBVIOUS
  <2>. QED
    BY <2>2, <2>3, <1>2
<1>. QED
  BY <1>1, <1>2

LEMMA SliceLengthCounts ==
    ASSUME NEW from \in Int, NEW to \in Int, NEW b \in Int \ {0}, SliceLength(from, to, b) >= 0,
           NEW k \in Nat
    PROVE  k < SliceLength(from, to, b) <=> Short(from + k * b, to, b)
<1>1. CASE b < 0
  <2>. DEFINE a == from - (to + 1) - b
  <2>1. SliceLength(from, to, b) = Quotient(a, -b) /\ a \in Int /\ -b \in Nat \ {0}
    BY <1>1 DEF SliceLength
  <2>2. k < Quotient(a, -b) <=> k * (-b) <= a - (-b)
    BY <2>1, QuotientCounts
  <2>3. k * (-b) = -(k * b) /\ k * b \in Int
    OBVIOUS
  <2>. QED
    BY <1>1, <2>1, <2>2, <2>3 DEF Short
<1>2. CASE b > 0
  <2>. DEFINE a == (to - 1) - from + b
  <2>1. SliceLength(from, to, b) = Quotient(a, b) /\ a \in Int /\ b \in Nat \ {0}
    BY <1>2 DEF SliceLength
  <2>2. k < Quotient(a, b) <=> k * b <= a - b
    BY <2>1, QuotientCounts
  <2>3. k * b \in Int
    OBVIOUS
  <2>. QED
    BY <1>2, <2>1, <2>2, <2>3 DEF Short
<1>. QED
  BY <1>1, <1>2

\* What a slice that does not raise is, whatever its bounds: every step-th
\* number from start on, up to stop, in that order.
SliceGives(size, start, stop, step) ==
    LET s    == Slice(size, start, stop, step)
        b    == SliceBy(step)
        from == SliceFrom(size, start, b)
        to   == SliceTo(size, stop, b)
    IN  /\ ToSet(s) = {i \in Int : \E k \in Nat : i = from + k * b /\ Short(i, to, b)}
        /\ b # 0 /\ from < size /\ to <= size
        /\ DOMAIN s = 1..Len(s) /\ \A i \in 1..Len(s) : s[i] = from + (i - 1) * b

LEMMA SliceMeans ==
    ASSUME NEW size \in Nat, NEW start \in Int, NEW stop \in Int, NEW step \in Int,
           Slice(size, start, stop, step) # Raises
    PROVE  SliceGives(size, start, stop, step)
<1>. DEFINE s    == Slice(size, start, stop, step)
            b    == SliceBy(step)
            from == SliceFrom(size, start, b)
            to   == SliceTo(size, stop, b)
            long == SliceLength(from, to, b)
<1>1. b \in Int /\ from \in Int /\ to \in Int
  BY DEF SliceBy, SliceFrom, SliceTo, Bound, Omitted
<1>2. s = IF b = 0 \/ to > size \/ from >= size THEN Raises
          ELSE IF long < 0 THEN Raises
          ELSE [i \in 1..long |-> from + (i - 1) * b]
  BY Zenon, SliceUnfolded
<1>. HIDE DEF s, b, from, to
<1>3. b # 0 => long \in Int
  BY <1>1, QuotientType DEF SliceLength
<1>4. b # 0 /\ long \in Nat /\ s = [i \in 1..long |-> from + (i - 1) * b]
  <2>. HIDE DEF long
  <2>. QED
    BY <1>2, <1>3 DEF s
<1>5. \A k \in Nat : k < long <=> Short(from + k * b, to, b)
  BY <1>1, <1>4, SliceLengthCounts
<1>. HIDE DEF long
<1>6. DOMAIN s = 1..long /\ \A i \in 1..long : s[i] = from + (i - 1) * b
  BY <1>4
<1>7. ToSet(s) = {i \in Int : \E k \in Nat : i = from + k * b /\ Short(i, to, b)}
  <2>1. ASSUME NEW j \in 1..long
        PROVE  s[j] \in Int /\ j - 1 \in Nat /\ s[j] = from + (j - 1) * b /\ Short(s[j], to, b)
    <3>1. j - 1 \in Nat /\ j - 1 < long
      BY <1>4
    <3>2. (j - 1) * b \in Int
      BY <3>1, <1>1
    <3>. QED
      BY <3>1, <3>2, <1>1, <1>5, <1>6
  <2>2. ASSUME NEW k \in Nat, Short(from + k * b, to, b)
        PROVE  k + 1 \in 1..long /\ s[k + 1] = from + k * b
    <3>1. k + 1 \in 1..long /\ (k + 1) - 1 = k
      BY <2>2, <1>4, <1>5
    <3>. QED
      BY <3>1, <1>6
  <2>3. ToSet(s) \subseteq {i \in Int : \E k \in Nat : i = from + k * b /\ Short(i, to, b)}
    BY <2>1, <1>6 DEF ToSet
  <2>4. ASSUME NEW i \in Int, NEW k \in Nat, i = from + k * b, Short(i, to, b)
        PROVE  i \in ToSet(s)
    BY <2>2, <2>4, <1>6 DEF ToSet
  <2>. QED
    BY <2>3, <2>4
<1>8. s \in Seq(Int)
  <2>1. \A i \in 1..long : from + (i - 1) * b \in Int
    BY <1>1
  <2>. QED
    BY ONLY <1>4, <2>1
<1>9. DOMAIN s = 1..Len(s) /\ \A i \in 1..Len(s) : s[i] = from + (i - 1) * b
  <2>1. DOMAIN s = 1..Len(s)
    BY <1>8
  <2>. QED
    BY <1>6, <2>1
<1>10. from < size /\ to <= size
  <2>1. /\ to > size => s = Raises
        /\ from >= size => s = Raises
    BY <1>2
  <2>2. s # Raises
    BY DEF s
  <2>. QED
    BY <1>1, <2>1, <2>2
<1>. QED
  BY <1>4, <1>7, <1>9, <1>10 DEF SliceGives, s, b, from, to

LEMMA QuotientNegative ==
    ASSUME NEW a \in Int, NEW b \in Nat \ {0}, Quotient(a, b) < 0
    PROVE  a < 0
<1>. SUFFICES ASSUME a >= 0 PROVE FALSE
  OBVIOUS
<1>1. a \div b \in Nat
  OBVIOUS
<1>. QED
  BY <1>1 DEF Quotient

\* A slice that raises because of its length has no number in its bounds.
LEMMA NoneShort ==
    ASSUME NEW from \in Int, NEW to \in Int, NEW b \in Int \ {0}, SliceLength(from, to, b) < 0,
           NEW k \in Nat
    PROVE  ~Short(from + k * b, to, b)
<1>1. CASE b < 0
  <2>. DEFINE a == from - (to + 1) - b
  <2>1. Quotient(a, -b) < 0 /\ a \in Int /\ -b \in Nat \ {0}
    BY <1>1 DEF SliceLength
  <2>2. a < 0
    BY <2>1, QuotientNegative
  <2>3. k * b <= 0 /\ k * b \in Int
    BY <1>1
  <2>. QED
    BY <1>1, <2>2, <2>3 DEF Short
<1>2. CASE b > 0
  <2>. DEFINE a == (to - 1) - from + b
  <2>1. Quotient(a, b) < 0 /\ a \in Int /\ b \in Nat \ {0}
    BY <1>2 DEF SliceLength
  <2>2. a < 0
    BY <2>1, QuotientNegative
  <2>3. k * b >= 0 /\ k * b \in Int
    BY <1>2
  <2>. QED
    BY <1>2, <2>2, <2>3 DEF Short
<1>. QED
  BY <1>1, <1>2

\* A slice whose bounds are those of a rank has the ranks that are a multiple of
\* its step from start on and short of stop, each once and in that order, and
\* raises only if there are none: for every size and every step (comm_slice,
\* PySlice_GetIndices).
THEOREM SliceIsItsBounds ==
    ASSUME NEW size \in Nat, NEW step \in Int \ {0},
           NEW start \in {Omitted} \cup -size..(size - 1), NEW stop \in {Omitted} \cup -size..size
    PROVE  LET b == SliceBy(step)
           IN  SliceOf(size, SliceFrom(size, start, b), SliceTo(size, stop, b), b,
                       Slice(size, start, stop, step))
<1>. DEFINE s     == Slice(size, start, stop, step)
            b     == SliceBy(step)
            from  == SliceFrom(size, start, b)
            to    == SliceTo(size, stop, b)
            long  == SliceLength(from, to, b)
            ranks == {i \in 0..(size - 1) : \E k \in 0..size : i = from + k * b /\ Short(i, to, b)}
            Meant == {i \in Int : \E k \in Nat : i = from + k * b /\ Short(i, to, b)}
<1>. SUFFICES SliceOf(size, from, to, b, s)
  OBVIOUS
<1>1. start \in Int /\ stop \in Int /\ step \in Int
  BY DEF Omitted
<1>2. b \in Int \ {0} /\ from \in Int /\ to \in -1..size
  BY <1>1 DEF SliceBy, SliceFrom, SliceTo, Bound, Omitted
<1>3. size > 0 => from \in 0..(size - 1)
  BY <1>1 DEF SliceBy, SliceFrom, Bound, Omitted
<1>4. s = IF b = 0 \/ to > size \/ from >= size THEN Raises
          ELSE IF long < 0 THEN Raises
          ELSE [i \in 1..long |-> from + (i - 1) * b]
  BY Zenon, SliceUnfolded
<1>5. SliceOf(size, from, to, b, s) <=>
          IF s = Raises THEN ranks = {}
          ELSE ToSet(s) = ranks /\ \A i \in 1..Len(s) : s[i] = from + (i - 1) * b
  <2>1. ranks = {i \in 0..(size - 1) : /\ \E k \in 0..size : i = from + k * b
                                       /\ IF b < 0 THEN i > to ELSE i < to}
    BY DEF Short
  <2>. HIDE DEF ranks, s, b, from, to
  <2>. QED
    BY Zenon, <2>1 DEF SliceOf
<1>6. s # Raises => /\ ToSet(s) = Meant /\ from < size
                    /\ \A i \in 1..Len(s) : s[i] = from + (i - 1) * b
  <2>. SUFFICES ASSUME s # Raises
                PROVE  /\ ToSet(s) = Meant /\ from < size
                       /\ \A i \in 1..Len(s) : s[i] = from + (i - 1) * b
    OBVIOUS
  <2>1. Slice(size, start, stop, step) # Raises
    OBVIOUS
  <2>2. SliceGives(size, start, stop, step)
    BY ONLY <1>1, <2>1, size \in Nat, SliceMeans
  <2>. QED
    BY Zenon, <2>2 DEF SliceGives
<1>. HIDE DEF s, b, from, to, ranks
<1>9. long \in Int
  BY <1>2, QuotientType DEF SliceLength
<1>. HIDE DEF long
<1>7. CASE s = Raises
  <2>1. CASE size = 0
    <3>1. ranks = {}
      BY <2>1 DEF ranks
    <3>. QED
      BY <1>5, <1>7, <3>1
  <2>2. CASE size > 0 /\ long < 0
    <3>1. \A k \in Nat : ~Short(from + k * b, to, b)
      BY <1>2, <2>2, NoneShort DEF long
    <3>2. ranks = {}
      BY <3>1 DEF ranks
    <3>. QED
      BY <1>5, <1>7, <3>2
  <2>3. CASE size > 0 /\ long >= 0
    <3>1. Raises = [i \in 1..long |-> from + (i - 1) * b]
      <4>1. ~(b = 0 \/ to > size \/ from >= size) /\ ~(long < 0)
        BY <1>2, <1>3, <1>9, <2>3
      <4>. QED
        BY Zenon, <1>4, <1>7, <4>1
    <3>2. 1 \in DOMAIN Raises /\ Raises[1] = -1000
      BY DEF Raises
    <3>3. Raises[1] = from + (1 - 1) * b
      BY <3>1, <3>2
    <3>. QED
      BY <1>2, <1>3, <2>3, <3>2, <3>3
  <2>. QED
    BY <1>9, <2>1, <2>2, <2>3
<1>8. CASE s # Raises
  <2>1. /\ ToSet(s) = Meant /\ from < size
        /\ \A i \in 1..Len(s) : s[i] = from + (i - 1) * b
    BY <1>6, <1>8
  <2>2. ASSUME NEW i \in Int, NEW k \in Nat, i = from + k * b, Short(i, to, b)
        PROVE  i \in 0..(size - 1) /\ k \in 0..size
    <3>1. k * b \in Int
      BY <1>2
    <3>2. CASE b > 0
      <4>1. 0 * b <= k * b /\ k * 1 <= k * b
        BY <1>2, <3>2
      <4>2. from >= 0
        BY <1>2, <1>3, <2>1, <3>2 DEF from, SliceFrom, Bound, Omitted
      <4>. QED
        BY <1>2, <2>1, <2>2, <3>1, <3>2, <4>1, <4>2 DEF Short
    <3>3. CASE b < 0
      <4>1. k * b <= 0 /\ k * b <= -k
        BY <1>2, <3>3
      <4>. QED
        BY <1>2, <2>1, <2>2, <3>1, <3>3, <4>1 DEF Short
    <3>. QED
      BY <1>2, <3>2, <3>3
  <2>3. Meant = ranks
    BY <2>2 DEF ranks
  <2>. HIDE DEF Meant
  <2>. QED
    BY Zenon, <1>5, <1>8, <2>1, <2>3
<1>. QED
  BY <1>7, <1>8

\* So it is for the sizes and bounds of SlicesRight.
THEOREM AlwaysSlicesRight == Spec => []SlicesRight
<1>1. SlicesRight
  <2>. SUFFICES ASSUME NEW size \in 0..4, NEW step \in {Omitted} \cup -5..-1 \cup 1..5,
                       NEW start \in {Omitted} \cup -size..(size - 1),
                       NEW stop \in {Omitted} \cup -size..size
                PROVE  LET by == SliceBy(step)
                       IN  SliceOf(size, SliceFrom(size, start, by), SliceTo(size, stop, by), by,
                                   Slice(size, start, stop, step))
    BY Zenon DEF SlicesRight, Slice, SliceBy, SliceFrom, SliceTo
  <2>1. size \in Nat /\ step \in Int \ {0}
    BY DEF Omitted
  <2>. QED
    BY <2>1, SliceIsItsBounds
<1>. QED
  BY <1>1, PTL
=============================================================================
