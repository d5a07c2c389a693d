----------------------------- MODULE Completion -----------------------------
(***************************************************************************)
(* The calls that look at several requests (pyMPI_comm_asynchronous.c):    *)
(* testall, testany and testsome test each request of their arguments in   *)
(* turn; waitany and waitsome do so again and again, until one of them is  *)
(* complete.  MPI goes on between two tests, the program does not.         *)
(***************************************************************************)
EXTENDS Requests

CONSTANT Polls      \* Polls[r]: the calls that the program of r makes: function and requests

PollCall == {"testall", "testany", "testsome", "waitany", "waitsome"}

ASSUME PollsAssumption ==
    \A r \in Rank : Polls[r] \subseteq PollCall \X (Seq(1..MaxRequests[r]) \ {<<>>})

VARIABLE polling    \* polling[r]: the call that r is in, if any

pollVars == <<vars, polling>>

\* The requests to look at, those left in this round, and whether one was complete
Poll == [call : PollCall, requests : Seq(Nat), left : Seq(Nat), found : BOOLEAN]

None == [call |-> "none"]

PollingTypeOK == TypeOK /\ polling \in [Rank -> Poll \cup {None}]

-----------------------------------------------------------------------------
\* The program of r calls a function with the requests ks.
StartPoll(r, call, ks) ==
    /\ Running(r) /\ polling[r] = None
    /\ \A n \in 1..Len(ks) : ks[n] <= Len(req[r]) /\ Usable(r, ks[n])
    /\ polling' = [polling EXCEPT ![r] =
                       [call |-> call, requests |-> ks, left |-> ks, found |-> FALSE]]
    /\ UNCHANGED vars

\* request_test of the next request, with its flag
TestedTrue(r, k) ==
    \/ TestSend(r, k)
    \/ TestReceive(r, k) /\ req'[r][k].message # NONE
    \/ /\ ~req[r][k].send /\ req[r][k].message # NONE
       /\ UNCHANGED <<req, crashed, taken, posted>>

SendPending(r, k) ==
    LET q == req[r][k]
    IN  q.send /\ q.buf = "active" /\ ~SendDone(r, q.peer, q.bod.index)

TestedFalse(r, k) ==
    \/ TestReceive(r, k) /\ req'[r][k].message = NONE
    \/ /\ SendPending(r, k) \/ (~req[r][k].send /\ req[r][k].message = NONE /\ ~HeaderHere(r, k))
       /\ UNCHANGED <<req, crashed, taken, posted>>

\* The end of a round: a wait that has found nothing starts another.
Continue(r, p) ==
    polling' = [polling EXCEPT ![r] =
        IF p.left # <<>> THEN p
        ELSE IF p.call \in {"waitany", "waitsome"} /\ ~p.found THEN [p EXCEPT !.left = p.requests]
        ELSE None]

\* testany and waitany return the first that is complete.
PollStep(r) ==
    /\ polling[r] # None /\ r \notin crashed
    /\ LET p == [polling[r] EXCEPT !.left = Tail(@)]
           k == Head(polling[r].left)
       IN  \/ /\ TestedTrue(r, k)
              /\ IF p.call \in {"testany", "waitany"} THEN polling' = [polling EXCEPT ![r] = None]
                 ELSE Continue(r, [p EXCEPT !.found = TRUE])
           \/ TestedFalse(r, k) /\ Continue(r, p)
    /\ UNCHANGED <<waiting, abandoned, wire>>

-----------------------------------------------------------------------------
PollInit == Init /\ polling = [r \in Rank |-> None]

PollNext ==
    \E r \in Rank :
        \/ polling[r] = None /\ Program(r) /\ UNCHANGED polling
        \/ (WaitStep(r) \/ MatchMessage(r)) /\ UNCHANGED polling
        \/ \E p \in Polls[r] : StartPoll(r, p[1], p[2])
        \/ PollStep(r)

(***************************************************************************)
(* As in FairSpec; a rank that polls gets its turn, too.                   *)
(***************************************************************************)
PollSpec ==
    /\ PollInit /\ [][PollNext]_pollVars
    /\ \A r \in Rank :
           /\ WF_pollVars(WaitStep(r) /\ UNCHANGED polling)
           /\ WF_pollVars(MatchMessage(r) /\ UNCHANGED polling)
           /\ WF_pollVars(PollStep(r))

-----------------------------------------------------------------------------
WaitsFor(r, k) == waiting[r] # <<>> /\ Head(waiting[r]) = k

Finished(r, k) == k \in 1..Len(req[r]) /\ req[r][k].message # NONE

\* r is in a waitany or waitsome that has k among its requests.
PollsFor(r, k) ==
    /\ polling[r] # None /\ polling[r].call \in {"waitany", "waitsome"}
    /\ \E n \in 1..Len(polling[r].requests) : polling[r].requests[n] = k

(***************************************************************************)
(* A wait for a receive whose header has arrived ends: isend has posted    *)
(* the body, so no step of the sender's program is needed.  The receive of *)
(* an empty string ends the process instead.  And waitany or waitsome end  *)
(* (pyMPI_comm_asynchronous.c:632, :725) when one of their requests is a   *)
(* receive whose header has arrived: its body is received, although they   *)
(* only test, and test it in turn with others.                             *)
(***************************************************************************)
BlockingCallsEnd ==
    \A r \in {q \in Rank : Receives[q] # {}} : \A k \in 1..MaxRequests[r] :
        /\ (WaitsFor(r, k) /\ HeaderHere(r, k)) ~> (Finished(r, k) \/ r \in crashed)
        /\ (PollsFor(r, k) /\ HeaderHere(r, k)) ~> (polling[r] = None \/ r \in crashed)
=============================================================================
