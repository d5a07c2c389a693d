------------------------------- MODULE Requests -------------------------------
(***************************************************************************)
(* pyMPI's nonblocking calls: isend, irecv and the request objects they    *)
(* return (pyMPI_comm_asynchronous.c, pyMPI_request.c).  A request object  *)
(* hides up to two MPI requests: descriptionRequest for the header of an   *)
(* object and bufferRequest for its body.  isend posts both at once; irecv *)
(* posts the header only, and the receive of the body is posted by the     *)
(* first test or wait that finds the header.                               *)
(*                                                                         *)
(* MPI is external.  wire[s][d] is the log of the messages s has sent d;   *)
(* posted[d] is the queue of the receives of d that no message has         *)
(* fulfilled.  MPI matches the two in its own time (MatchMessage), but in  *)
(* order: a message goes to the first posted receive that fits it, and a   *)
(* receive gets the first message of a sender that fits it.                *)
(***************************************************************************)
EXTENDS MessageProtocol, SequencesExt

CONSTANTS
    Rank, Tag,
    ANY,           \* mpi.ANY_SOURCE and mpi.ANY_TAG
    NONE,          \* no message yet (postedMessage = 0)
    EagerParts,    \* the parts MPI buffers: their sends complete at once
    Sends,         \* Sends[r]: the [obj, dest, tag] the program of r may isend
    Receives,      \* Receives[r]: the [source, tag] it may irecv
    Uses,          \* Uses[r]: what the program of r does with its requests
    MaxRequests,   \* bound: MaxRequests[r] is how many requests r creates
    Liberties      \* what programs do that others take care not to, see Liberty

(***************************************************************************)
(* "overlap": two receives that one message could fulfil are posted before *)
(* pyMPI has seen the header of the first.  "abort": a receive is          *)
(* cancelled or dropped while its message is under way.  "forget": the     *)
(* program drops its last reference to a string that it isends.            *)
(***************************************************************************)
Liberty == {"overlap", "abort", "forget"}

Use == {"test", "test_cancelled", "wait", "cancel", "drop", "forget"}

ASSUME RequestsAssumption ==
    /\ ANY \notin Rank /\ ANY \notin Tag /\ NONE \notin Object
    /\ EagerParts \subseteq {"header", "body"}
    /\ Liberties \subseteq Liberty
    /\ Uses \in [Rank -> SUBSET Use]
    /\ MaxRequests \in [Rank -> Nat]
    /\ \A r \in Rank : Sends[r] \subseteq [obj : Object, dest : Rank, tag : Tag]
    /\ \A r \in Rank : Receives[r] \subseteq [source : Rank \cup {ANY}, tag : Tag \cup {ANY}]

\* Programs that do not take the liberty keep to the condition.
Careful(liberty, condition) == liberty \in Liberties \/ condition

VARIABLES
    req,        \* req[r]: the PyMPI_Request objects r has created
    waiting,    \* waiting[r]: what the wait or waitall that r is in still waits for
    abandoned,  \* abandoned[r]: the static list abandoned_requests
    crashed,    \* the ranks that have died
    wire,       \* wire[s][d]: the MPI messages s has sent d
    taken,      \* taken[s][d]: the positions of wire[s][d] matched by receives
    posted      \* posted[d]: receives that are not fulfilled, oldest first

vars == <<req, waiting, abandoned, crashed, wire, taken, posted>>

Part == [part : {"header", "body"}, tag : Tag, obj : Object, whole : BOOLEAN]
Position == [source : Rank, index : Nat]
Status == [source : Rank \cup {ANY}, tag : Tag \cup {ANY}]
Junk == [kind |-> Garbage, bytes |-> <<>>]
Handle == {"null", "active"}

Request ==
    [send      : BOOLEAN,              \* iAmASendObject
     peer      : Rank \cup {ANY},      \* destination or source
     tag       : Tag \cup {ANY},
     desc      : Handle,               \* descriptionRequest
     buf       : Handle,               \* bufferRequest
     buffer    : BOOLEAN,              \* is buffer non-null?
     message   : Object \cup {NONE, Junk},  \* postedMessage
     status    : Status,
     hdr       : Position,             \* the header sent or matched; index 0: none
     bod       : Position,             \* the body sent or matched
     cancelled : BOOLEAN,              \* MPI has cancelled descriptionRequest
     told      : BOOLEAN,              \* test or wait called this send complete
     held      : BOOLEAN]              \* does the program refer to the object?

PostedReceive == [req : Nat, part : {"header", "body"},
                  source : Rank \cup {ANY}, tag : Tag \cup {ANY}]

TypeOK ==
    /\ req \in [Rank -> Seq(Request)]
    /\ \A r \in Rank : waiting[r] \in Seq(1..MaxRequests[r])
    /\ \A r \in Rank : abandoned[r] \in Seq(1..MaxRequests[r])
    /\ crashed \in SUBSET Rank
    /\ wire \in [Rank -> [Rank -> Seq(Part)]]
    /\ taken \in [Rank -> [Rank -> SUBSET Nat]]
    /\ posted \in [Rank -> Seq(PostedReceive)]

Nowhere == [source |-> CHOOSE r \in Rank : TRUE, index |-> 0]
NoStatus == [source |-> ANY, tag |-> ANY]   \* MPI's empty status

Init ==
    /\ req = [r \in Rank |-> <<>>]
    /\ waiting = [r \in Rank |-> <<>>]
    /\ abandoned = [r \in Rank |-> <<>>]
    /\ crashed = {}
    /\ wire = [s \in Rank |-> [d \in Rank |-> <<>>]]
    /\ taken = [s \in Rank |-> [d \in Rank |-> {}]]
    /\ posted = [d \in Rank |-> <<>>]

-----------------------------------------------------------------------------
\* MPI.

\* Can message i of s fulfil the receive p of d?
Fits(s, d, i, p) ==
    /\ i \in 1..Len(wire[s][d]) \ taken[s][d]
    /\ p.source \in {s, ANY}
    /\ p.tag \in {wire[s][d][i].tag, ANY}

\* The receive p, queued behind those of earlier, may be given message i of s.
MayTake(s, d, i, p, earlier) ==
    /\ Fits(s, d, i, p)
    /\ \A j \in 1..(i - 1) : ~Fits(s, d, j, p)
    /\ \A m \in 1..Len(earlier) : ~Fits(s, d, i, earlier[m])

Take(s, d, i) == taken' = [taken EXCEPT ![s][d] = @ \cup {i}]

MatchMessage(d) ==
    \E n \in 1..Len(posted[d]), s \in Rank : \E i \in 1..Len(wire[s][d]) :
        LET p  == posted[d][n]
            at == [source |-> s, index |-> i]
        IN  /\ MayTake(s, d, i, p, SubSeq(posted[d], 1, n - 1))
            /\ Take(s, d, i)
            /\ posted' = [posted EXCEPT ![d] = RemoveAt(@, n)]
            /\ req' = IF p.part = "header" THEN [req EXCEPT ![d][p.req].hdr = at]
                                           ELSE [req EXCEPT ![d][p.req].bod = at]
            /\ UNCHANGED <<waiting, abandoned, crashed, wire>>

\* Where the receive for a part of request k is in the queue, if it is
At(r, k, parts) ==
    {n \in 1..Len(posted[r]) : posted[r][n].req = k /\ posted[r][n].part \in parts}

\* MPI_Cancel of a receive that no message has matched: it leaves the queue.
Unpost(r, n) == posted' = [posted EXCEPT ![r] = RemoveAt(@, n)]

\* Is the MPI_Isend of the message at position i from r to d complete?
SendDone(r, d, i) == wire[r][d][i].part \in EagerParts \/ i \in taken[r][d]

MessageAt(r, pos) == wire[pos.source][r][pos.index]

\* Mutant of StatusAt: the count of the status is taken for its source.
StatusCountAt(r, pos) == [source |-> pos.index, tag |-> MessageAt(r, pos).tag]

StatusAt(r, pos) == [source |-> pos.source, tag |-> MessageAt(r, pos).tag]

ReadHeader(part) ==
    IF part.part = "header" THEN Header(part.obj)
    ELSE [message_type |-> Garbage, payload |-> <<>>, bytes_in_prefix |-> 0,
          prefix |-> <<>>, bytes_in_second_message |-> 0]

ReadBody(part) ==
    IF part.part = "body" /\ part.whole THEN part.obj.bytes ELSE <<Garbage>>

\* The object, or Junk for bytes that are no object's.
Reconstitute(r, q, body) ==
    LET o == Unpack(ReadHeader(MessageAt(r, q.hdr)), body)
    IN  IF o \in Object THEN o ELSE Junk

-----------------------------------------------------------------------------
\* The program of rank r is running and refers to request k.
Running(r) == waiting[r] = <<>> /\ r \notin crashed
Usable(r, k) == req[r][k].held /\ ~req[r][k].cancelled

Set(r, k, q) == req' = [req EXCEPT ![r][k] = q]

Isend(r, c) ==
    LET n    == Len(wire[r][c.dest])
        part(p) == [part |-> p, tag |-> c.tag, obj |-> c.obj, whole |-> TRUE]
        at(i) == [source |-> r, index |-> i]
        long == Split(c.obj)
    IN  /\ Running(r)
        /\ Len(req[r]) < MaxRequests[r]
        /\ Packable(c.obj)
        /\ req' = [req EXCEPT ![r] = Append(@,
               [send |-> TRUE, peer |-> c.dest, tag |-> c.tag, desc |-> "active",
                buf |-> IF long THEN "active" ELSE "null", buffer |-> long,
                message |-> c.obj, status |-> NoStatus, hdr |-> at(n + 1),
                bod |-> IF long THEN at(n + 2) ELSE Nowhere,
                cancelled |-> FALSE, told |-> FALSE, held |-> TRUE])]
        /\ wire' = [wire EXCEPT ![r][c.dest] =
               @ \o IF long THEN <<part("header"), part("body")>> ELSE <<part("header")>>]
        /\ UNCHANGED <<waiting, abandoned, crashed, taken, posted>>

\* Could one message fulfil both receives?
Overlap(p, q) ==
    /\ p.source = ANY \/ q.source = ANY \/ p.source = q.source
    /\ p.tag = ANY \/ q.tag = ANY \/ p.tag = q.tag

\* The receives whose header pyMPI has not seen yet.
Unseen(r) ==
    {[source |-> req[r][k].peer, tag |-> req[r][k].tag] :
        k \in {l \in 1..Len(req[r]) : ~req[r][l].send /\ req[r][l].desc = "active"
                                      /\ ~req[r][l].cancelled}}

Irecv(r, c) ==
    /\ Running(r)
    /\ Len(req[r]) < MaxRequests[r]
    /\ Careful("overlap", \A p \in Unseen(r) : ~Overlap(p, c))
    /\ req' = [req EXCEPT ![r] = Append(@,
           [send |-> FALSE, peer |-> c.source, tag |-> c.tag, desc |-> "active",
            buf |-> "null", buffer |-> FALSE, message |-> NONE, status |-> NoStatus,
            hdr |-> Nowhere, bod |-> Nowhere, cancelled |-> FALSE,
            told |-> FALSE, held |-> TRUE])]
    /\ posted' = [posted EXCEPT ![r] = Append(@,
           [req |-> Len(req[r]) + 1, part |-> "header", source |-> c.source, tag |-> c.tag])]
    /\ UNCHANGED <<waiting, abandoned, crashed, wire, taken>>

-----------------------------------------------------------------------------
(***************************************************************************)
(* request_second_message, for request q of r whose header is there.       *)
(***************************************************************************)

\* pyMPI_unpack(&header, 0) dereferences the null part2.
EmptyString(h) == h.message_type = "string" /\ h.bytes_in_prefix = 0 /\ ~HasBody(h)

HeaderOf(r, q) == ReadHeader(MessageAt(r, q.hdr))

\* The whole object was in the header.
UnpackShort(r, k, q) ==
    /\ ~HasBody(HeaderOf(r, q)) /\ ~EmptyString(HeaderOf(r, q))
    /\ Set(r, k, [q EXCEPT !.message = Reconstitute(r, q, <<>>)])
    /\ UNCHANGED <<crashed, taken, posted>>

UnpackCrash(r, q) ==
    /\ EmptyString(HeaderOf(r, q))
    /\ crashed' = crashed \cup {r}
    /\ UNCHANGED <<req, taken, posted>>

\* Mutant of BodyReceive: the body is awaited with the patterns of irecv.
BodyReceiveFromAnyone(k, q) ==
    [req |-> k, part |-> "body", source |-> q.peer, tag |-> q.tag]

\* The MPI_Irecv of the body, from where the header came.
BodyReceive(k, q) ==
    [req |-> k, part |-> "body", source |-> q.status.source, tag |-> q.status.tag]

\* Mutant of PostBodyReceive: the buffer is there, the receive is not posted.
AllocateBody(r, k, q) ==
    /\ HasBody(HeaderOf(r, q)) /\ ~q.buffer
    /\ Set(r, k, [q EXCEPT !.buffer = TRUE, !.buf = "active"])
    /\ UNCHANGED <<crashed, taken, posted>>

\* The body is to come, and its receive has not been posted yet.
PostBodyReceive(r, k, q) ==
    /\ HasBody(HeaderOf(r, q)) /\ ~q.buffer
    /\ Set(r, k, [q EXCEPT !.buffer = TRUE, !.buf = "active"])
    /\ posted' = [posted EXCEPT ![r] = Append(@, BodyReceive(k, q))]
    /\ UNCHANGED <<crashed, taken>>

\* With the body at position bod: build the object, free the buffer.
UnpackLong(r, q, status) ==
    [q EXCEPT !.buf = "null", !.buffer = FALSE, !.status = status,
              !.message = Reconstitute(r, q, ReadBody(MessageAt(r, q.bod)))]

-----------------------------------------------------------------------------
\* request_test: the attribute test, and each element of testall, testany, ...

\* MPI_Test of descriptionRequest; a null handle is complete with no status.
Seen(r, q) ==
    [q EXCEPT !.desc = "null",
              !.status = IF q.desc = "active" THEN StatusAt(r, q.hdr) ELSE NoStatus]

\* Mutant of TestSend: the header is tested in place of the body.
TestSendByHeader(r, k) ==
    LET q == req[r][k]
    IN  /\ q.send
        /\ q.desc = "active" => SendDone(r, q.peer, q.hdr.index)
        /\ Set(r, k, [q EXCEPT !.desc = "null", !.told = TRUE])
        /\ UNCHANGED <<crashed, taken, posted>>

TestSend(r, k) ==
    LET q == req[r][k]
    IN  /\ q.send
        /\ q.buf = "active" => SendDone(r, q.peer, q.bod.index)
        /\ Set(r, k, [q EXCEPT !.buf = "null", !.told = TRUE])
        /\ UNCHANGED <<crashed, taken, posted>>

\* The body has arrived, but for a test_cancelled unnoticed by MPI_Test.
TestBody(r, k, q) ==
    /\ q.buffer
    /\ q.bod.index # 0
    /\ Set(r, k, UnpackLong(r, q, IF q.buf = "null" THEN NoStatus ELSE StatusAt(r, q.bod)))
    /\ UNCHANGED <<crashed, taken, posted>>

\* The body has not: a second MPI_Test of the header has cleared the status.
TestBodyPending(r, k, q) ==
    /\ q.buffer
    /\ q.bod.index = 0
    /\ Set(r, k, q)
    /\ UNCHANGED <<crashed, taken, posted>>

\* The receive of the body is fulfilled as soon as it is posted.
TestBodyAtOnce(r, k, q) ==
    /\ HasBody(HeaderOf(r, q)) /\ ~q.buffer
    /\ \E s \in Rank : \E i \in 1..Len(wire[s][r]) :
          LET full == [q EXCEPT !.bod = [source |-> s, index |-> i]]
          IN  /\ MayTake(s, r, i, BodyReceive(k, q), posted[r])
              /\ Take(s, r, i)
              /\ Set(r, k, UnpackLong(r, full, StatusAt(r, full.bod)))
    /\ UNCHANGED <<crashed, posted>>

\* The header of receive k has arrived, its object is still to be built.
HeaderHere(r, k) ==
    ~req[r][k].send /\ req[r][k].message = NONE /\ req[r][k].hdr.index # 0

TestReceive(r, k) ==
    /\ HeaderHere(r, k)
    /\ LET q == Seen(r, req[r][k]) IN
           \/ UnpackShort(r, k, q) \/ UnpackCrash(r, q)
           \/ PostBodyReceive(r, k, q) \/ TestBodyAtOnce(r, k, q)
           \/ TestBody(r, k, q) \/ TestBodyPending(r, k, q)

\* A test that finds nothing new changes nothing.
Test(r, k) ==
    /\ Running(r) /\ Usable(r, k)
    /\ TestSend(r, k) \/ TestReceive(r, k)
    /\ UNCHANGED <<waiting, abandoned, wire>>

\* The attribute test_cancelled tests bufferRequest, and so completes it.
TestCancelled(r, k) ==
    LET q == req[r][k]
    IN  /\ Running(r) /\ Usable(r, k)
        /\ q.buf = "active"
        /\ IF q.send THEN SendDone(r, q.peer, q.bod.index) ELSE q.bod.index # 0
        /\ Set(r, k, [q EXCEPT !.buf = "null"])
        /\ UNCHANGED <<waiting, abandoned, crashed, wire, taken, posted>>

-----------------------------------------------------------------------------
(***************************************************************************)
(* request_wait and waitall, which waits for its requests one by one, in   *)
(* the order of its arguments.  The attribute message of a receive is a    *)
(* wait.                                                                   *)
(***************************************************************************)
Wait(r, ks) ==
    /\ Running(r)
    /\ \A n \in 1..Len(ks) : Usable(r, ks[n])
    /\ waiting' = [waiting EXCEPT ![r] = ks]
    /\ UNCHANGED <<req, abandoned, crashed, wire, taken, posted>>

Waited(r) == waiting' = [waiting EXCEPT ![r] = Tail(@)]

WaitSend(r, k) ==
    LET q == req[r][k]
    IN  /\ q.send
        /\ q.desc = "active" => SendDone(r, q.peer, q.hdr.index)
        /\ q.buf = "active" => SendDone(r, q.peer, q.bod.index)
        /\ Set(r, k, [q EXCEPT !.desc = "null", !.buf = "null", !.told = TRUE])
        /\ Waited(r)
        /\ UNCHANGED <<crashed, taken, posted>>

WaitMessageHere(r, k) ==
    /\ ~req[r][k].send /\ req[r][k].message # NONE
    /\ Waited(r)
    /\ UNCHANGED <<req, crashed, taken, posted>>

WaitHeader(r, k) ==
    /\ HeaderHere(r, k)
    /\ req[r][k].desc = "active"
    /\ LET q == Seen(r, req[r][k]) IN
           \/ UnpackShort(r, k, q) /\ Waited(r)
           \/ UnpackCrash(r, q) /\ UNCHANGED waiting
           \/ PostBodyReceive(r, k, q) /\ UNCHANGED waiting

WaitBody(r, k) ==
    LET q == req[r][k]
    IN  /\ HeaderHere(r, k)
        /\ q.desc = "null" /\ q.bod.index # 0
        /\ Set(r, k, UnpackLong(r, q, IF q.buf = "null" THEN q.status ELSE StatusAt(r, q.bod)))
        /\ Waited(r)
        /\ UNCHANGED <<crashed, taken, posted>>

WaitStep(r) ==
    /\ waiting[r] # <<>> /\ r \notin crashed
    /\ LET k == Head(waiting[r])
       IN  WaitSend(r, k) \/ WaitMessageHere(r, k) \/ WaitHeader(r, k) \/ WaitBody(r, k)
    /\ UNCHANGED <<abandoned, wire>>

-----------------------------------------------------------------------------
\* request_cancel of a receive; MPI implementations ignore that of a send.

Cancel(r, k) ==
    LET q == req[r][k]
        part == IF q.buffer THEN "body" ELSE "header"
    IN  /\ Running(r) /\ Usable(r, k)
        /\ ~q.send
        /\ Careful("abort", q.hdr.index = 0)
        /\ \E n \in At(r, k, {part}) : Unpost(r, n)
        /\ Set(r, k, [q EXCEPT !.cancelled = TRUE])
        /\ UNCHANGED <<waiting, abandoned, crashed, wire, taken>>

(***************************************************************************)
(* request_dealloc, when the program drops its last reference.             *)
(***************************************************************************)

\* Mutant of NothingToDo: only the body counts.
NoBodyToDo(q) == ~q.buffer /\ q.buf = "null"

NothingToDo(q) == q.desc = "null" /\ ~q.buffer /\ q.buf = "null"

DropIdle(r, k) ==
    /\ NothingToDo(req[r][k])
    /\ UNCHANGED <<abandoned, posted>>
    /\ Set(r, k, [req[r][k] EXCEPT !.held = FALSE])

DropSend(r, k) ==
    /\ ~NothingToDo(req[r][k]) /\ req[r][k].send
    /\ abandoned' = [abandoned EXCEPT ![r] = <<k>> \o @]
    /\ Set(r, k, [req[r][k] EXCEPT !.held = FALSE])
    /\ UNCHANGED posted

DropReceive(r, k) ==
    LET q == req[r][k]
    IN  /\ ~NothingToDo(q) /\ ~q.send
        /\ Careful("abort", q.hdr.index = 0)
        /\ IF At(r, k, {"header", "body"}) = {} THEN UNCHANGED posted
           ELSE \E n \in At(r, k, {"header", "body"}) : Unpost(r, n)
        /\ Set(r, k, [q EXCEPT !.held = FALSE, !.buffer = FALSE])
        /\ UNCHANGED abandoned

Drop(r, k) ==
    /\ Running(r)
    /\ req[r][k].held
    /\ DropIdle(r, k) \/ DropSend(r, k) \/ DropReceive(r, k)
    /\ UNCHANGED <<waiting, crashed, wire, taken>>

(***************************************************************************)
(* The program drops the object it sent; isend has not kept a reference.   *)
(* The bytes of a long string are the object's own: MPI reads freed memory *)
(* if it has not sent them yet.  Other bodies are copies of isend's own.   *)
(***************************************************************************)
Borrowed(q) == q.buffer /\ q.message \in Object /\ q.message.kind = "string"

Forget(r, k) ==
    LET q == req[r][k]
    IN  /\ Running(r)
        /\ q.send /\ Borrowed(q)
        /\ Careful("forget", q.told)
        /\ Set(r, k, [q EXCEPT !.message = Junk])
        /\ wire' = IF ~SendDone(r, q.peer, q.bod.index)
                   THEN [wire EXCEPT ![r][q.peer][q.bod.index].whole = FALSE]
                   ELSE wire
        /\ UNCHANGED <<waiting, abandoned, crashed, taken, posted>>

-----------------------------------------------------------------------------

\* What r may wait for: a request, or all of several (waitall).
WaitLists(r) ==
    UNION {{ks \in [1..n -> 1..Len(req[r])] : IsInjective(ks)} : n \in 1..Len(req[r])}

UseRequest(r, k) ==
    \/ "test" \in Uses[r] /\ Test(r, k)
    \/ "test_cancelled" \in Uses[r] /\ TestCancelled(r, k)
    \/ "cancel" \in Uses[r] /\ Cancel(r, k)
    \/ "drop" \in Uses[r] /\ Drop(r, k)
    \/ "forget" \in Uses[r] /\ Forget(r, k)

Program(r) ==
    \/ \E c \in Sends[r] : Isend(r, c)
    \/ \E c \in Receives[r] : Irecv(r, c)
    \/ \E k \in 1..Len(req[r]) : UseRequest(r, k)
    \/ "wait" \in Uses[r] /\ \E ks \in WaitLists(r) : Wait(r, ks)

Next == \E r \in Rank : Program(r) \/ WaitStep(r) \/ MatchMessage(r)

Spec == Init /\ [][Next]_vars

(***************************************************************************)
(* MPI matches what it can match, and a rank inside wait gets its turn.    *)
(* Programs need not go on.                                                *)
(***************************************************************************)
FairSpec ==
    /\ Spec
    /\ \A r \in Rank : WF_vars(WaitStep(r)) /\ WF_vars(MatchMessage(r))

-----------------------------------------------------------------------------

(***************************************************************************)
(* A receive that is finished holds the very object whose header it        *)
(* matched: its body was received by a second, later receive that knows it *)
(* only by source and tag, among the receives and the messages of others.  *)
(***************************************************************************)
Intact ==
    \A r \in Rank : \A k \in 1..Len(req[r]) :
        LET q == req[r][k]
        IN  ~q.send /\ q.message # NONE =>
                /\ MessageAt(r, q.hdr).part = "header"
                /\ q.message = MessageAt(r, q.hdr).obj

(***************************************************************************)
(* A split send that test or wait has called complete is complete in both  *)
(* its messages, although test looks at the second only; the program may   *)
(* let go of the object then.  (A short send has only the message that     *)
(* test does not look at: see module MCRequestClaims.)                     *)
(***************************************************************************)
ToldSplitSendIsOver ==
    \A r \in Rank : \A k \in 1..Len(req[r]) :
        LET q == req[r][k]
        IN  q.send /\ q.told /\ q.bod.index # 0 =>
                SendDone(r, q.peer, q.hdr.index) /\ SendDone(r, q.peer, q.bod.index)

(***************************************************************************)
(* The buffers of a send outlive it: when a request is dropped before both *)
(* its messages are gone, request_dealloc has kept it, once, in            *)
(* abandoned_requests.                                                     *)
(***************************************************************************)
BuffersOutlive ==
    \A r \in Rank : \A k \in 1..Len(req[r]) :
        LET q == req[r][k]
            over == /\ SendDone(r, q.peer, q.hdr.index)
                    /\ q.bod.index # 0 => SendDone(r, q.peer, q.bod.index)
        IN  q.send /\ ~q.held /\ ~over =>
                Cardinality({n \in 1..Len(abandoned[r]) : abandoned[r][n] = k}) = 1
==============================================================================
