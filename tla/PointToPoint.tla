----------------------------- MODULE PointToPoint -----------------------------
(***************************************************************************)
(* pyMPI's blocking calls send, recv and sendrecv (pyMPI_send.c,           *)
(* pyMPI_recv.c, pyMPI_comm_message.c) between the ranks of one            *)
(* communicator.  A rank is a single-threaded Python process: it is inside *)
(* at most one call, and pc says at which MPI call it waits.               *)
(*                                                                         *)
(* MPI itself is external.  wire[s][d] is the log of the MPI messages s    *)
(* has posted for d, taken[s][d] the positions d has received.  A receive  *)
(* takes the first message of the log that is not yet taken and matches    *)
(* its source and tag: messages of a pair of ranks do not overtake.        *)
(* MPI_Send returns once MPI has buffered the message, which it does for   *)
(* the parts in EagerParts, or once the message has been received.         *)
(***************************************************************************)
EXTENDS MessageProtocol

CONSTANTS
    Rank, Tag,
    ANY,           \* mpi.ANY_SOURCE and mpi.ANY_TAG
    EagerParts,    \* the parts that MPI_Send buffers instead of waiting
    Calls,         \* Calls[r]: the calls the program of rank r may make
    MaxCalls       \* bound: calls made by one rank

Call == [op : {"send", "recv", "sendrecv"}, obj : Object, dest : Rank,
         sendtag : Tag, source : Rank \cup {ANY}, recvtag : Tag \cup {ANY}]

ASSUME CallAssumption ==
    /\ ANY \notin Rank /\ ANY \notin Tag
    /\ EagerParts \subseteq {"header", "body"}
    /\ Calls \in [Rank -> SUBSET Call]
    /\ MaxCalls \in Nat
    /\ Rank # {} /\ Tag # {} /\ Object # {}

VARIABLES
    wire,       \* wire[s][d]: the MPI messages s has posted for d
    taken,      \* taken[s][d]: the positions of wire[s][d] that d has received
    pc,         \* where in a call each rank is
    call,       \* the call each rank is in, or was in last
    held,       \* held[r]: source, position and tag of the header r received last
    delivered,  \* delivered[r]: what the receives of r have returned
    made        \* made[r]: how many calls r has made

vars == <<wire, taken, pc, call, held, delivered, made>>

Part == [part : {"header", "body"}, tag : Tag, obj : Object]
PC == {"idle", "sendHeader", "sendBody", "recvHeader", "recvBody",
       "exchange", "exchanged", "exchangeBody"}
Position == [source : Rank, index : Nat, tag : Tag]
Delivery == [source : Rank, index : Nat, tag : Tag, obj : Object]

TypeOK ==
    /\ wire \in [Rank -> [Rank -> Seq(Part)]]
    /\ taken \in [Rank -> [Rank -> SUBSET Nat]]
    /\ \A s, d \in Rank : taken[s][d] \subseteq 1..Len(wire[s][d])
    /\ pc \in [Rank -> PC]
    /\ call \in [Rank -> Call]
    /\ held \in [Rank -> Position]
    /\ delivered \in [Rank -> Seq(Delivery)]
    /\ made \in [Rank -> 0..MaxCalls]

\* A rank outside any call: the C locals of the last call are gone.
IdleCall == CHOOSE c \in Call : TRUE
NoPosition == [source |-> CHOOSE r \in Rank : TRUE, index |-> 0,
               tag |-> CHOOSE t \in Tag : TRUE]

Init ==
    /\ wire = [s \in Rank |-> [d \in Rank |-> <<>>]]
    /\ taken = [s \in Rank |-> [d \in Rank |-> {}]]
    /\ pc = [r \in Rank |-> "idle"]
    /\ call = [r \in Rank |-> IdleCall]
    /\ held = [r \in Rank |-> NoPosition]
    /\ delivered = [r \in Rank |-> <<>>]
    /\ made = [r \in Rank |-> 0]

-----------------------------------------------------------------------------
\* MPI.

Post(r, c, part) ==
    wire' = [wire EXCEPT ![r][c.dest] =
                 Append(@, [part |-> part, tag |-> c.sendtag, obj |-> c.obj])]

\* The MPI_Send (or the send half of MPI_Sendrecv) of r's last message is over.
SendCompleted(r) ==
    LET last == Len(wire[r][call[r].dest])
    IN  \/ wire[r][call[r].dest][last].part \in EagerParts
        \/ last \in taken[r][call[r].dest]

Matches(s, d, i, source, tag) ==
    /\ i \in 1..Len(wire[s][d]) \ taken[s][d]
    /\ source \in {s, ANY}
    /\ tag \in {wire[s][d][i].tag, ANY}

\* A receive of d with this source and tag gets message i of s.
CanTake(s, d, i, source, tag) ==
    /\ Matches(s, d, i, source, tag)
    /\ \A j \in 1..(i - 1) : ~Matches(s, d, j, source, tag)

Take(s, d, i) == taken' = [taken EXCEPT ![s][d] = @ \cup {i}]

At(s, d, i) == [source |-> s, index |-> i, tag |-> wire[s][d][i].tag]

(***************************************************************************)
(* What a receive finds in its buffer: the two parts have different        *)
(* layouts, and each read as the other is garbage.                         *)
(***************************************************************************)
ReadHeader(part) ==
    IF part.part = "header" THEN Header(part.obj)
    ELSE [message_type |-> Garbage, payload |-> <<>>, bytes_in_prefix |-> 0,
          prefix |-> <<>>, bytes_in_second_message |-> 0]

ReadBody(part) == IF part.part = "body" THEN part.obj.bytes ELSE <<Garbage>>

-----------------------------------------------------------------------------
\* Steps the three calls share.

Begin(r, c, first) ==
    /\ pc[r] = "idle"
    /\ made[r] < MaxCalls
    /\ made' = [made EXCEPT ![r] = @ + 1]
    /\ call' = [call EXCEPT ![r] = c]
    /\ pc' = [pc EXCEPT ![r] = first]
    /\ UNCHANGED <<held, delivered>>

Return(r) ==
    /\ pc' = [pc EXCEPT ![r] = "idle"]
    /\ call' = [call EXCEPT ![r] = IdleCall]
    /\ held' = [held EXCEPT ![r] = NoPosition]

\* Unpack the header at pos and the body, and return object and status.
Deliver(r, pos, body) ==
    /\ delivered' = [delivered EXCEPT ![r] = Append(@,
           [source |-> pos.source, index |-> pos.index, tag |-> pos.tag,
            obj |-> Unpack(ReadHeader(wire[pos.source][r][pos.index]), body)])]
    /\ Return(r)

\* With the header at pos received: go and receive the body, or return.
AfterHeader(r, pos) ==
    \/ /\ HasBody(ReadHeader(wire[pos.source][r][pos.index]))
       /\ pc' = [pc EXCEPT ![r] = "recvBody"]
       /\ held' = [held EXCEPT ![r] = pos]
       /\ UNCHANGED <<call, delivered>>
    \/ /\ ~HasBody(ReadHeader(wire[pos.source][r][pos.index]))
       /\ Deliver(r, pos, <<>>)

\* Mutant of ResolvedSource: the body is awaited from the wildcard source.
UnresolvedSource(r) == call[r].source

\* The wildcards of the call are replaced by what the header's status says.
ResolvedSource(r) == IF call[r].source = ANY THEN held[r].source ELSE call[r].source
ResolvedTag(r) == IF call[r].recvtag = ANY THEN held[r].tag ELSE call[r].recvtag

\* Any call whose object cannot be pickled raises before it reaches MPI.
PackFails(r, c) ==
    /\ pc[r] = "idle" /\ made[r] < MaxCalls
    /\ c.op \in {"send", "sendrecv"}
    /\ ~Packable(c.obj)
    /\ made' = [made EXCEPT ![r] = @ + 1]
    /\ UNCHANGED <<wire, taken, pc, call, held, delivered>>

-----------------------------------------------------------------------------
\* pyMPI_send

CallSend(r, c) ==
    /\ c.op = "send" /\ Packable(c.obj)
    /\ Begin(r, c, "sendHeader")
    /\ Post(r, c, "header")
    /\ UNCHANGED taken

\* Mutant of HeaderSent: the send returns and never posts the body.
HeaderSentBodyForgotten(r) ==
    /\ pc[r] = "sendHeader"
    /\ SendCompleted(r)
    /\ Return(r)
    /\ UNCHANGED <<wire, taken, delivered, made>>

HeaderSent(r) ==
    /\ pc[r] = "sendHeader"
    /\ SendCompleted(r)
    /\ \/ /\ Split(call[r].obj)
          /\ Post(r, call[r], "body")
          /\ pc' = [pc EXCEPT ![r] = "sendBody"]
          /\ UNCHANGED <<call, held>>
       \/ /\ ~Split(call[r].obj)
          /\ Return(r)
          /\ UNCHANGED wire
    /\ UNCHANGED <<taken, delivered, made>>

BodySent(r) ==
    /\ pc[r] = "sendBody"
    /\ SendCompleted(r)
    /\ Return(r)
    /\ UNCHANGED <<wire, taken, delivered, made>>

-----------------------------------------------------------------------------
\* pyMPI_recv; the receive of the body is also the last step of sendrecv.

CallRecv(r, c) ==
    /\ c.op = "recv"
    /\ Begin(r, c, "recvHeader")
    /\ UNCHANGED <<wire, taken>>

RecvHeader(r) ==
    /\ pc[r] = "recvHeader"
    /\ \E s \in Rank : \E i \in 1..Len(wire[s][r]) :
          /\ CanTake(s, r, i, call[r].source, call[r].recvtag)
          /\ Take(s, r, i)
          /\ AfterHeader(r, At(s, r, i))
    /\ UNCHANGED <<wire, made>>

RecvBody(r) ==
    /\ pc[r] = "recvBody"
    /\ \E s \in Rank : \E i \in 1..Len(wire[s][r]) :
          /\ CanTake(s, r, i, ResolvedSource(r), ResolvedTag(r))
          /\ Take(s, r, i)
          /\ Deliver(r, held[r], ReadBody(wire[s][r][i]))
    /\ UNCHANGED <<wire, made>>

-----------------------------------------------------------------------------
\* pyMPI_message_sendrecv

\* MPI_Sendrecv of the headers: its two halves proceed independently.
CallSendrecv(r, c) ==
    /\ c.op = "sendrecv" /\ Packable(c.obj)
    /\ Begin(r, c, "exchange")
    /\ Post(r, c, "header")
    /\ UNCHANGED taken

\* Mutant of ExchangeRecv: the call's source, wildcard or not, is kept.
ExchangeRecvKeepsWildcard(r) ==
    /\ pc[r] = "exchange"
    /\ \E s \in Rank : \E i \in 1..Len(wire[s][r]) :
          /\ CanTake(s, r, i, call[r].source, call[r].recvtag)
          /\ Take(s, r, i)
          /\ held' = [held EXCEPT ![r] = [At(s, r, i) EXCEPT !.source = call[r].source]]
    /\ pc' = [pc EXCEPT ![r] = "exchanged"]
    /\ UNCHANGED <<wire, call, delivered, made>>

ExchangeRecv(r) ==
    /\ pc[r] = "exchange"
    /\ \E s \in Rank : \E i \in 1..Len(wire[s][r]) :
          /\ CanTake(s, r, i, call[r].source, call[r].recvtag)
          /\ Take(s, r, i)
          /\ held' = [held EXCEPT ![r] = At(s, r, i)]
    /\ pc' = [pc EXCEPT ![r] = "exchanged"]
    /\ UNCHANGED <<wire, call, delivered, made>>

\* The body goes out with a blocking MPI_Send before the body that comes in.
ExchangeDone(r) ==
    /\ pc[r] = "exchanged"
    /\ SendCompleted(r)
    /\ \/ /\ Split(call[r].obj)
          /\ Post(r, call[r], "body")
          /\ pc' = [pc EXCEPT ![r] = "exchangeBody"]
          /\ UNCHANGED <<call, held, delivered>>
       \/ /\ ~Split(call[r].obj)
          /\ AfterHeader(r, held[r])
          /\ UNCHANGED wire
    /\ UNCHANGED <<taken, made>>

ExchangeBodySent(r) ==
    /\ pc[r] = "exchangeBody"
    /\ SendCompleted(r)
    /\ AfterHeader(r, held[r])
    /\ UNCHANGED <<wire, taken, made>>

-----------------------------------------------------------------------------

MakeCall(r) ==
    \E c \in Calls[r] :
        PackFails(r, c) \/ CallSend(r, c) \/ CallRecv(r, c) \/ CallSendrecv(r, c)

\* The C code and MPI advance the call r is in.
Advance(r) ==
    \/ HeaderSent(r) \/ BodySent(r)
    \/ RecvHeader(r) \/ RecvBody(r)
    \/ ExchangeRecv(r) \/ ExchangeDone(r) \/ ExchangeBodySent(r)

Next == \E r \in Rank : MakeCall(r) \/ Advance(r)

Spec == Init /\ [][Next]_vars

(***************************************************************************)
(* MPI's progress rule: a call that can complete does.  Programs need not  *)
(* make further calls.                                                     *)
(***************************************************************************)
FairSpec == Spec /\ \A r \in Rank : WF_vars(Advance(r))

-----------------------------------------------------------------------------

(***************************************************************************)
(* Every object a receive returns is the very object, whole and unmixed,   *)
(* that the send which posted its header was given: the header is not the  *)
(* body of an earlier object and the body is the one of this header        *)
(* (pyMPI_recv matches the body only by the header's source and tag).      *)
(***************************************************************************)
Intact ==
    \A r \in Rank : \A k \in 1..Len(delivered[r]) :
        LET got  == delivered[r][k]
            part == wire[got.source][r][got.index]
        IN  part.part = "header" /\ got.obj = part.obj /\ got.tag = part.tag

(***************************************************************************)
(* A rank that waits for the body of an object cannot be handed anything   *)
(* else, although the body carries no mark of its own: whatever matches    *)
(* first is the message posted right after the header it holds.            *)
(***************************************************************************)
HeldBodyIsNext ==
    \A r \in Rank : pc[r] = "recvBody" =>
        \A s \in Rank : \A i \in 1..Len(wire[s][r]) :
            CanTake(s, r, i, ResolvedSource(r), ResolvedTag(r)) =>
                /\ s = held[r].source
                /\ i = held[r].index + 1
                /\ wire[s][r][i].part = "body"
                /\ wire[s][r][i].obj = wire[s][r][held[r].index].obj

(***************************************************************************)
(* Why the above holds.  The messages of one tag are taken in the order of *)
(* the log; a body directly follows its header there; and a header whose   *)
(* body is still to be taken is the one its receiver holds.                *)
(***************************************************************************)
BodyOf(header) == [part |-> "body", tag |-> header.tag, obj |-> header.obj]

HasBodyAt(s, d, i) == wire[s][d][i].part = "header" /\ Split(wire[s][d][i].obj)

Holding(r) == pc[r] \in {"recvBody", "exchanged", "exchangeBody"}

Holds(r, s, i) == Holding(r) /\ held[r].source = s /\ held[r].index = i

\* Between posting a header and posting its body.
BodyPending(r) == pc[r] \in {"sendHeader", "exchange", "exchanged"}

LastPosted(r) ==
    /\ Len(wire[r][call[r].dest]) > 0
    /\ wire[r][call[r].dest][Len(wire[r][call[r].dest])] =
           [part |-> "header", tag |-> call[r].sendtag, obj |-> call[r].obj]

BodyFollows ==
    \A s, d \in Rank : \A i \in 1..Len(wire[s][d]) :
        HasBodyAt(s, d, i) =>
            \/ /\ i + 1 \in 1..Len(wire[s][d])
               /\ wire[s][d][i + 1] = BodyOf(wire[s][d][i])
            \/ i = Len(wire[s][d]) /\ BodyPending(s) /\ call[s].dest = d

HeaderPrecedes ==
    \A s, d \in Rank : \A i \in 1..Len(wire[s][d]) :
        wire[s][d][i].part = "body" =>
            /\ i - 1 \in 1..Len(wire[s][d])
            /\ HasBodyAt(s, d, i - 1)
            /\ wire[s][d][i] = BodyOf(wire[s][d][i - 1])

PendingIsLast == \A r \in Rank : BodyPending(r) => LastPosted(r)

TakenInOrder ==
    \A s, d \in Rank : \A i \in taken[s][d] : \A j \in 1..(i - 1) :
        wire[s][d][j].tag = wire[s][d][i].tag => j \in taken[s][d]

OwedBodyIsHeld ==
    \A s, d \in Rank : \A i \in taken[s][d] :
        HasBodyAt(s, d, i) /\ i + 1 \notin taken[s][d] => Holds(d, s, i)

Received(s, d, i) ==
    \E k \in 1..Len(delivered[d]) :
        delivered[d][k].source = s /\ delivered[d][k].index = i

\* r is in the middle of receiving the object whose header is message i of s.
HeaderInHand(r, s, i) ==
    /\ i \in taken[s][r]
    /\ wire[s][r][i].part = "header"
    /\ wire[s][r][i].tag = held[r].tag
    /\ i + 1 \in taken[s][r] => ~HasBodyAt(s, r, i)
    /\ pc[r] = "recvBody" => HasBodyAt(s, r, i)
    /\ call[r].source \in {s, ANY}
    /\ call[r].recvtag \in {held[r].tag, ANY}
    /\ ~Received(s, r, i)

HeldInv ==
    \A r \in Rank : Holding(r) => HeaderInHand(r, held[r].source, held[r].index)

DeliveredIsTaken ==
    \A r \in Rank : \A k \in 1..Len(delivered[r]) :
        delivered[r][k].index \in taken[delivered[r][k].source][r]

TakenIsHeldOrDelivered ==
    \A s, d \in Rank : \A i \in taken[s][d] :
        wire[s][d][i].part = "header" => Holds(d, s, i) \/ Received(s, d, i)

WireInv == BodyFollows /\ HeaderPrecedes /\ PendingIsLast
TakenInv == TakenInOrder /\ OwedBodyIsHeld
DeliveredInv == DeliveredIsTaken /\ TakenIsHeldOrDelivered /\ Intact

IInv == TypeOK /\ WireInv /\ TakenInv /\ HeldInv /\ DeliveredInv

(***************************************************************************)
(* A receive that holds the header of an object whose sender is inside     *)
(* pyMPI_send returns: the sender cannot be waiting for anything but this  *)
(* receiver.                                                               *)
(***************************************************************************)
ReceiveFinishes ==
    \A r, s \in Rank :
        (pc[r] = "recvBody" /\ held[r].source = s /\ pc[s] \in {"sendHeader", "sendBody"})
            ~> (pc[r] = "idle")

(***************************************************************************)
(* The calls implement the object channel: position i of wire is the stamp *)
(* of the object whose header is there.                                    *)
(***************************************************************************)
Posted == [s \in Rank |-> [d \in Rank |->
    {[stamp |-> i, tag |-> wire[s][d][i].tag, obj |-> wire[s][d][i].obj] :
        i \in {j \in 1..Len(wire[s][d]) : wire[s][d][j].part = "header"}}]]

Channel == INSTANCE ObjectChannel WITH sent <- Posted

ImplementsObjectChannel == Channel!Spec
==============================================================================
