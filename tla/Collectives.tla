----------------------------- MODULE Collectives -----------------------------
(***************************************************************************)
(* pyMPI's collective calls on one communicator of N ranks                 *)
(* (pyMPI_comm_collective.c).  Every rank runs the same program, a         *)
(* sequence of collective calls.  A collective is a protocol of its own:   *)
(* bcast and gather are two MPI collectives each, one for the headers and  *)
(* one for the bodies; scatter and the reductions exchange objects by      *)
(* pyMPI_send and pyMPI_recv, with fixed tags of the program's own         *)
(* communicator, and allgather and allreduce end with a bcast.             *)
(*                                                                         *)
(* Objects travel as module ObjectChannel promises: chan[s][d] holds the   *)
(* objects s has sent d and d has not received.  MPI's own collectives are *)
(* external: joined[r] is the log of those r has called on the             *)
(* communicator, and MPI takes the n-th of every rank for the same one.    *)
(*                                                                         *)
(* MPI may, but need not, let a send return before its message is          *)
(* received, and a rank leave a collective before the others are in it.    *)
(* The parameter early of a step says that MPI does.                       *)
(***************************************************************************)
EXTENDS Integers, SequencesExt

CONSTANTS
    N,          \* the size of the communicator
    Programs    \* the sequences of calls that the ranks may run

Rank == 0..(N - 1)

Op == {"barrier", "bcast", "gather", "allgather", "scatter",
       "reduce", "allreduce", "scan", "message"}
Reduction == {"reduce", "allreduce", "scan"}

(***************************************************************************)
(* A call of all ranks.  "message" stands for send and recv: the root      *)
(* sends dest an object and dest receives from the root, with any tag.     *)
(***************************************************************************)
Call == [op     : Op,
         root   : Int,
         dest   : Rank,
         length : Nat,           \* scatter: length of the sequence
         long   : SUBSET Rank,   \* whose contributions do not fit a header
         bad    : SUBSET Rank,   \* whose contributions make the operator raise
         ground : BOOLEAN,       \* reductions: with an initial value?
         native : BOOLEAN,       \* type=float or type=int
         tree   : BOOLEAN]       \* treeorder

ASSUME CollectivesAssumption ==
    /\ N \in Nat \ {0}
    /\ Programs \subseteq Seq(Call)
    /\ \A p \in Programs : \A k \in 1..Len(p) :
           /\ p[k].op \in {"allgather", "message"} => p[k].root \in Rank
           /\ p[k].op = "message" => p[k].dest # p[k].root
           /\ p[k].native => p[k].bad = {}   \* numbers, as the type promises
           /\ p[k].ground \/ p[k].native \/ p[k].tree => p[k].op \in Reduction

VARIABLES
    program,    \* the program that all ranks run
    pc,         \* where in a call each rank is
    data,       \* data[r]: the objects r has in hand
    item,       \* item[r]: the counter of the loop that r is in
    partial,    \* partial[r]: what that loop has combined so far
    cut,        \* cut[r]: end and extras, the other locals of scatter's loop
    chan,       \* chan[s][d]: the objects under way from s to d
    joined,     \* joined[r]: the MPI collectives r has called
    returned    \* returned[r]: what the calls of r have returned

vars == <<program, pc, data, item, partial, cut, chan, joined, returned>>

-----------------------------------------------------------------------------
(***************************************************************************)
(* Values are symbolic.  The contribution of rank r to call k is <<k, r>>; *)
(* an object is a sequence of contributions, and concatenating two is the  *)
(* operator of every reduction, which tells operands and orders apart.     *)
(***************************************************************************)
Ground == -1

Value(contributions) == [is |-> "value", of |-> contributions]
One(k, r) == Value(<<<<k, r>>>>)
None      == [is |-> "none", of |-> <<>>]
Raised    == [is |-> "raised", of |-> <<>>]      \* the call raises
ErrorType == [is |-> "errorType", of |-> <<>>]   \* an exception class, as a value
Null      == [is |-> "null", of |-> <<>>]        \* a null PyObject*

Result == [is : {"value", "none", "raised", "errorType", "null"}, of : Seq(Int \X Int)]

Here(r)   == Len(returned[r]) + 1
Now(r)    == program[Here(r)]
Own(r)    == One(Here(r), r)
Root(r)   == IF Now(r).op = "allgather" THEN 0 ELSE Now(r).root
IsRoot(r) == r = Root(r)

\* Does value v overflow the header?
Long(c, v) == \E i \in 1..Len(v.of) : v.of[i][2] \in c.long

\* PyObject_CallFunction(op, x, y)
Apply(c, x, y) ==
    IF x.is = "value" /\ y.is = "value" /\ \A i \in 1..Len(y.of) : y.of[i][2] \notin c.bad
    THEN Value(x.of \o y.of)
    ELSE Raised

\* One round of a loop that combines objects; scan turns an exception into None.
Combine(c, x, y) ==
    LET v == Apply(c, x, y)
    IN  IF x = Null THEN y ELSE IF c.op = "scan" /\ v = Raised THEN None ELSE v

-----------------------------------------------------------------------------
PC == {"ready", "barrier", "native", "bcast", "bcastBody", "gather", "gatherBody",
       "collect", "collectSend", "catenate", "fold", "scan", "scanSend", "scanRecv",
       "scatter", "scatterSend", "scatterRecv", "tree", "treeSend",
       "messageSend", "messageRecv"}

CollectTag == 987
TreeTag    == 77
ScatterTag == 0
ANY_TAG    == -1

Message == [tag : {CollectTag, TreeTag, ScatterTag}, call : Nat, val : Result]
Joining == [kind : {"barrier", "native", "bcast", "bcastBody", "gather", "gatherBody"},
            root : Rank, call : Nat, val : Result]
NoCut   == [end |-> 0, extras |-> 0]

TypeOK ==
    /\ program \in Programs
    /\ pc \in [Rank -> PC]
    /\ data \in [Rank -> Seq(Result)]
    /\ item \in [Rank -> Nat]
    /\ partial \in [Rank -> Result]
    /\ cut \in [Rank -> [end : Nat, extras : Nat]]
    /\ chan \in [Rank -> [Rank -> Seq(Message)]]
    /\ joined \in [Rank -> Seq(Joining)]
    /\ returned \in [Rank -> Seq(Result)]

Init ==
    /\ program \in Programs
    /\ pc = [r \in Rank |-> "ready"]
    /\ data = [r \in Rank |-> <<>>]
    /\ item = [r \in Rank |-> 0]
    /\ partial = [r \in Rank |-> Null]
    /\ cut = [r \in Rank |-> NoCut]
    /\ chan = [s \in Rank |-> [d \in Rank |-> <<>>]]
    /\ joined = [r \in Rank |-> <<>>]
    /\ returned = [r \in Rank |-> <<>>]

-----------------------------------------------------------------------------
\* pyMPI_send and pyMPI_recv.

Send(r, d, tag, v) ==
    chan' = [chan EXCEPT ![r][d] = Append(@, [tag |-> tag, call |-> Here(r), val |-> v])]

\* The objects of one tag are received in order: r's last is received if none is left.
Sent(r, d, tag, early) ==
    early \/ \A i \in 1..Len(chan[r][d]) : chan[r][d][i].tag # tag

Fits(m, tag) == tag \in {m.tag, ANY_TAG}

\* Object i of the channel from s is what pyMPI_recv(s, tag) of d receives.
Receive(s, d, i, tag) ==
    /\ Fits(chan[s][d][i], tag)
    /\ \A j \in 1..(i - 1) : ~Fits(chan[s][d][j], tag)
    /\ chan' = [chan EXCEPT ![s][d] = RemoveAt(@, i)]

\* MPI's collectives.
Join(r, kind, v) ==
    joined' = [joined EXCEPT ![r] =
                   Append(@, [kind |-> kind, root |-> Root(r), call |-> Here(r), val |-> v])]

\* r's last collective may end: the ranks it needs, or all, have called theirs.
Over(r, needs, early) ==
    \A q \in (IF early THEN needs ELSE Rank) : Len(joined[q]) >= Len(joined[r])

\* What the ranks gave MPI in r's last collective.
Given(r, q) == joined[q][Len(joined[r])].val
AllGiven(r, n) == [q \in 1..n |-> Given(r, q - 1)]

-----------------------------------------------------------------------------
Begin(r, ops) ==
    /\ pc[r] = "ready"
    /\ Len(returned[r]) < Len(program)
    /\ Now(r).op \in ops

\* Every call that takes a root checks it before it communicates.
Valid(r) == Root(r) \in Rank

Go(r, where) == pc' = [pc EXCEPT ![r] = where]

Return(r, v) ==
    /\ returned' = [returned EXCEPT ![r] = Append(@, v)]
    /\ data' = [data EXCEPT ![r] = <<>>]
    /\ item' = [item EXCEPT ![r] = 0]
    /\ partial' = [partial EXCEPT ![r] = Null]
    /\ cut' = [cut EXCEPT ![r] = NoCut]
    /\ Go(r, "ready")

RejectRoot(r) ==
    /\ Begin(r, Op) /\ ~Valid(r)
    /\ Return(r, Raised)
    /\ UNCHANGED <<program, chan, joined>>

-----------------------------------------------------------------------------
\* pyMPI_collective_barrier

CallBarrier(r) ==
    /\ Begin(r, {"barrier"}) /\ Valid(r)
    /\ Join(r, "barrier", None)
    /\ Go(r, "barrier")
    /\ UNCHANGED <<program, data, item, partial, cut, chan, returned>>

BarrierDone(r) ==
    /\ pc[r] = "barrier"
    /\ Over(r, Rank, FALSE)
    /\ Return(r, None)
    /\ UNCHANGED <<program, chan, joined>>

-----------------------------------------------------------------------------
(***************************************************************************)
(* bcast, the static function that pyMPI_collective_bcast, allgather and   *)
(* allreduce use.  Only the root's v matters.                              *)
(***************************************************************************)
StartBcast(r, v) ==
    /\ Join(r, "bcast", v)
    /\ Go(r, "bcast")
    /\ UNCHANGED <<program, data, item, partial, cut, chan, returned>>

CallBcast(r) == Begin(r, {"bcast"}) /\ Valid(r) /\ StartBcast(r, Own(r))

\* allreduce restores at the root the exception whose type it broadcast.
ReturnBcast(r, v) ==
    Return(r, IF IsRoot(r) /\ v = ErrorType THEN Raised ELSE v)

BcastOver(r, early) == Over(r, {Root(r)}, early)

BcastDone(r, early) ==
    /\ pc[r] = "bcast"
    /\ BcastOver(r, early)
    /\ LET v == Given(r, Root(r))
       IN  \/ /\ Long(Now(r), v)
              /\ Join(r, "bcastBody", v)
              /\ Go(r, "bcastBody")
              /\ UNCHANGED <<data, item, partial, cut, returned>>
           \/ /\ ~Long(Now(r), v)
              /\ ReturnBcast(r, v)
              /\ UNCHANGED joined
    /\ UNCHANGED <<program, chan>>

BcastBodyDone(r, early) ==
    /\ pc[r] = "bcastBody"
    /\ BcastOver(r, early)
    /\ ReturnBcast(r, Given(r, Root(r)))
    /\ UNCHANGED <<program, chan, joined>>

-----------------------------------------------------------------------------
\* pyMPI_collective_gather, also the first half of allgather.

CallGather(r) ==
    /\ Begin(r, {"gather", "allgather"}) /\ Valid(r)
    /\ Join(r, "gather", Own(r))
    /\ Go(r, "gather")
    /\ UNCHANGED <<program, data, item, partial, cut, chan, returned>>

GatherOver(r, early) == Over(r, IF IsRoot(r) THEN Rank ELSE {}, early)

\* Mutant of GatherDone: ranks without a body leave out MPI_Gatherv.
GatherDoneIfLong(r, early) ==
    /\ pc[r] = "gather"
    /\ GatherOver(r, early)
    /\ IF IsRoot(r) \/ Long(Now(r), Own(r))
       THEN /\ Join(r, "gatherBody", Own(r))
            /\ Go(r, "gatherBody")
            /\ UNCHANGED <<data, item, partial, cut, returned>>
       ELSE Return(r, None) /\ UNCHANGED joined
    /\ UNCHANGED <<program, chan>>

\* MPI_Gatherv of the bodies, empty or not.
GatherDone(r, early) ==
    /\ pc[r] = "gather"
    /\ GatherOver(r, early)
    /\ Join(r, "gatherBody", Own(r))
    /\ Go(r, "gatherBody")
    /\ UNCHANGED <<program, data, item, partial, cut, chan, returned>>

GatherBodyDone(r, early) ==
    /\ pc[r] = "gatherBody"
    /\ GatherOver(r, early)
    /\ \/ /\ IsRoot(r)
          /\ data' = [data EXCEPT ![r] = AllGiven(r, N)]
          /\ partial' = [partial EXCEPT ![r] = Value(<<>>)]
          /\ Go(r, "catenate")
          /\ UNCHANGED <<program, item, cut, chan, joined, returned>>
       \/ /\ ~IsRoot(r) /\ Now(r).op = "gather"
          /\ Return(r, None)
          /\ UNCHANGED <<program, chan, joined>>
       \/ /\ ~IsRoot(r) /\ Now(r).op = "allgather"
          /\ StartBcast(r, None)

\* Unpack the next object and add it to the list; unpacking may raise.
Catenate(r) ==
    /\ pc[r] = "catenate"
    /\ item[r] < N
    /\ partial' = [partial EXCEPT ![r] = Combine(Now(r), @, data[r][item[r] + 1])]
    /\ item' = [item EXCEPT ![r] = @ + 1]
    /\ UNCHANGED <<program, pc, data, cut, chan, joined, returned>>

(***************************************************************************)
(* allgather goes on to its bcast even when gather has raised, but the     *)
(* pending exception makes that return before it calls MPI.                *)
(***************************************************************************)
GatherEnds(r) ==
    /\ pc[r] = "catenate"
    /\ item[r] = N
    /\ \/ /\ Now(r).op = "gather" \/ partial[r] = Raised
          /\ Return(r, partial[r])
          /\ UNCHANGED <<program, chan, joined>>
       \/ /\ Now(r).op = "allgather" /\ partial[r] # Raised
          /\ StartBcast(r, partial[r])

-----------------------------------------------------------------------------
(***************************************************************************)
(* pyMPI_collective_scatter.  The root cuts its sequence of length         *)
(* elements into N pieces and sends all but its own.  bad # {} stands for  *)
(* an object that cannot be cut: every rank gets None.                     *)
(***************************************************************************)
Slice(k, start, end) == Value([j \in 1..(end - start) |-> <<k, start + j - 1>>])

CallScatter(r) ==
    /\ Begin(r, {"scatter"}) /\ Valid(r)
    /\ \/ IsRoot(r) /\ Go(r, "scatter")
          /\ cut' = [cut EXCEPT ![r] = [end |-> 0, extras |-> Now(r).length % N]]
       \/ ~IsRoot(r) /\ Go(r, "scatterRecv") /\ UNCHANGED cut
    /\ UNCHANGED <<program, data, item, partial, chan, joined, returned>>

\* The next slice ends here: one element longer while there are extras.
NextEnd(r) ==
    cut[r].end + Now(r).length \div N + (IF cut[r].extras > 0 THEN 1 ELSE 0)

Piece(r) == IF Now(r).bad # {} THEN None ELSE Slice(Here(r), cut[r].end, NextEnd(r))

\* Mutant of NextCut: the extras are counted down without asking for any.
NextCutUnchecked(r) ==
    cut' = [cut EXCEPT ![r] = [end |-> NextEnd(r), extras |-> cut[r].extras - 1]]

NextCut(r) ==
    cut' = [cut EXCEPT ![r] =
                [end    |-> NextEnd(r),
                 extras |-> IF cut[r].extras > 0 THEN cut[r].extras - 1 ELSE 0]]

ScatterKeep(r) ==
    /\ pc[r] = "scatter"
    /\ item[r] = r
    /\ data' = [data EXCEPT ![r] = <<Piece(r)>>]
    /\ NextCut(r)
    /\ item' = [item EXCEPT ![r] = @ + 1]
    /\ UNCHANGED <<program, pc, partial, chan, joined, returned>>

\* Mutant of ScatterSend: the else is missing, the root sends to itself as well.
ScatterSendToAll(r) ==
    /\ pc[r] = "scatter"
    /\ item[r] \in Rank
    /\ Send(r, item[r], ScatterTag, Piece(r))
    /\ data' = IF item[r] = r THEN [data EXCEPT ![r] = <<Piece(r)>>] ELSE data
    /\ NextCut(r)
    /\ Go(r, "scatterSend")
    /\ UNCHANGED <<program, item, partial, joined, returned>>

ScatterSend(r) ==
    /\ pc[r] = "scatter"
    /\ item[r] \in Rank \ {r}
    /\ Send(r, item[r], ScatterTag, Piece(r))
    /\ NextCut(r)
    /\ Go(r, "scatterSend")
    /\ UNCHANGED <<program, data, item, partial, joined, returned>>

ScatterSent(r, early) ==
    /\ pc[r] = "scatterSend"
    /\ Sent(r, item[r], ScatterTag, early)
    /\ item' = [item EXCEPT ![r] = @ + 1]
    /\ Go(r, "scatter")
    /\ UNCHANGED <<program, data, partial, cut, chan, joined, returned>>

ScatterDone(r) ==
    /\ pc[r] = "scatter"
    /\ item[r] = N
    /\ Return(r, data[r][1])
    /\ UNCHANGED <<program, chan, joined>>

ScatterRecv(r) ==
    /\ pc[r] = "scatterRecv"
    /\ \E i \in 1..Len(chan[Root(r)][r]) :
          /\ Receive(Root(r), r, i, ScatterTag)
          /\ Return(r, chan[Root(r)][r][i].val)
    /\ UNCHANGED <<program, joined>>

-----------------------------------------------------------------------------
\* reduction, shared by reduce, allreduce and scan

UsesNative(c) == c.native /\ ~c.ground
UsesTree(c) == ~UsesNative(c) /\ c.tree /\ ~c.ground /\ c.op # "scan"

\* MPI_Reduce, MPI_Allreduce, MPI_Scan for numbers.
CallNative(r) ==
    /\ Begin(r, Reduction) /\ Valid(r) /\ UsesNative(Now(r))
    /\ Join(r, "native", Own(r))
    /\ Go(r, "native")
    /\ UNCHANGED <<program, data, item, partial, cut, chan, returned>>

\* How many ranks' numbers r's result combines.
Combines(r) ==
    CASE Now(r).op = "reduce"    -> IF IsRoot(r) THEN N ELSE 0
      [] Now(r).op = "allreduce" -> N
      [] Now(r).op = "scan"      -> r + 1

NativeDone(r, early) ==
    /\ pc[r] = "native"
    /\ Over(r, 0..(Combines(r) - 1), early)
    /\ \/ /\ Combines(r) = 0
          /\ Return(r, None)
       \/ /\ Combines(r) # 0
          /\ data' = [data EXCEPT ![r] = AllGiven(r, Combines(r))]
          /\ Go(r, "fold")
          /\ UNCHANGED <<item, partial, cut, returned>>
    /\ UNCHANGED <<program, chan, joined>>

\* pyMPI_collective: the root receives every rank's value, in rank order.
CallReduce(r) ==
    /\ Begin(r, Reduction) /\ Valid(r)
    /\ ~UsesNative(Now(r)) /\ ~UsesTree(Now(r))
    /\ \/ IsRoot(r) /\ Go(r, "collect") /\ UNCHANGED chan
       \/ ~IsRoot(r) /\ Go(r, "collectSend") /\ Send(r, Root(r), CollectTag, Own(r))
    /\ UNCHANGED <<program, data, item, partial, cut, joined, returned>>

\* Mutant of CollectFrom: values are collected as they come.
CollectFromAnyone(r) ==
    /\ pc[r] = "collect"
    /\ Len(data[r]) \in Rank \ {r}
    /\ \E s \in Rank : \E i \in 1..Len(chan[s][r]) :
          /\ Receive(s, r, i, CollectTag)
          /\ data' = [data EXCEPT ![r] = Append(@, chan[s][r][i].val)]
    /\ UNCHANGED <<program, pc, item, partial, cut, joined, returned>>

CollectFrom(r) ==
    LET s == Len(data[r])
    IN  /\ pc[r] = "collect"
        /\ s \in Rank \ {r}
        /\ \E i \in 1..Len(chan[s][r]) :
              /\ Receive(s, r, i, CollectTag)
              /\ data' = [data EXCEPT ![r] = Append(@, chan[s][r][i].val)]
        /\ UNCHANGED <<program, pc, item, partial, cut, joined, returned>>

CollectOwn(r) ==
    /\ pc[r] = "collect"
    /\ Len(data[r]) = r
    /\ data' = [data EXCEPT ![r] = Append(@, Own(r))]
    /\ UNCHANGED <<program, pc, item, partial, cut, chan, joined, returned>>

CollectSent(r, early) ==
    /\ pc[r] = "collectSend"
    /\ Sent(r, Root(r), CollectTag, early)
    /\ \/ /\ Now(r).op = "reduce"
          /\ Return(r, None)
          /\ UNCHANGED <<program, chan, joined>>
       \/ /\ Now(r).op = "allreduce"
          /\ StartBcast(r, None)
       \/ /\ Now(r).op = "scan"
          /\ Go(r, "scanRecv")
          /\ UNCHANGED <<program, data, item, partial, cut, chan, joined, returned>>

\* With all values at the root; the initial value may be null.
Collected(r) ==
    /\ pc[r] = "collect"
    /\ Len(data[r]) = N
    /\ partial' = [partial EXCEPT ![r] =
                       IF Now(r).ground THEN One(Here(r), Ground) ELSE Null]
    /\ Go(r, IF Now(r).op = "scan" THEN "scan" ELSE "fold")
    /\ UNCHANGED <<program, data, item, cut, chan, joined, returned>>

\* Python's reduce(op, data[, ground]), or MPI's reduction of the numbers.
Fold(r) ==
    /\ pc[r] = "fold"
    /\ item[r] < Len(data[r])
    /\ partial' = [partial EXCEPT ![r] = Combine(Now(r), @, data[r][item[r] + 1])]
    /\ item' = [item EXCEPT ![r] = @ + 1]
    /\ UNCHANGED <<program, pc, data, cut, chan, joined, returned>>

\* Mutant of FoldDone: an operator that raises ends allreduce at once.
FoldDoneOrRaised(r) ==
    /\ pc[r] = "fold"
    /\ item[r] = Len(data[r])
    /\ \/ /\ Now(r).op # "allreduce" \/ UsesNative(Now(r)) \/ partial[r] = Raised
          /\ Return(r, partial[r])
          /\ UNCHANGED <<program, chan, joined>>
       \/ /\ Now(r).op = "allreduce" /\ ~UsesNative(Now(r)) /\ partial[r] # Raised
          /\ StartBcast(r, partial[r])

\* allreduce publishes the result, or the type of the exception, which it defers.
FoldDone(r) ==
    /\ pc[r] = "fold"
    /\ item[r] = Len(data[r])
    /\ \/ /\ Now(r).op # "allreduce" \/ UsesNative(Now(r))
          /\ Return(r, partial[r])
          /\ UNCHANGED <<program, chan, joined>>
       \/ /\ Now(r).op = "allreduce" /\ ~UsesNative(Now(r))
          /\ StartBcast(r, IF partial[r] = Raised THEN ErrorType ELSE partial[r])

\* scan's loop: combine the next value, and send the partial result to its rank;
\* the root keeps its own, final, in the place of its value.
ScanNext(r) ==
    LET v == Combine(Now(r), partial[r], data[r][item[r] + 1])
    IN  /\ pc[r] = "scan"
        /\ item[r] < N
        /\ partial' = [partial EXCEPT ![r] = v]
        /\ \/ /\ item[r] = r
              /\ data' = [data EXCEPT ![r][r + 1] = v]
              /\ item' = [item EXCEPT ![r] = @ + 1]
              /\ UNCHANGED <<pc, chan>>
           \/ /\ item[r] # r
              /\ Send(r, item[r], CollectTag, v)
              /\ Go(r, "scanSend")
              /\ UNCHANGED <<data, item>>
        /\ UNCHANGED <<program, cut, joined, returned>>

ScanSent(r, early) ==
    /\ pc[r] = "scanSend"
    /\ Sent(r, item[r], CollectTag, early)
    /\ item' = [item EXCEPT ![r] = @ + 1]
    /\ Go(r, "scan")
    /\ UNCHANGED <<program, data, partial, cut, chan, joined, returned>>

ScanDone(r) ==
    /\ pc[r] = "scan"
    /\ item[r] = N
    /\ Return(r, data[r][r + 1])
    /\ UNCHANGED <<program, chan, joined>>

ScanRecv(r) ==
    /\ pc[r] = "scanRecv"
    /\ \E i \in 1..Len(chan[Root(r)][r]) :
          /\ Receive(Root(r), r, i, CollectTag)
          /\ Return(r, chan[Root(r)][r][i].val)
    /\ UNCHANGED <<program, joined>>

-----------------------------------------------------------------------------
(***************************************************************************)
(* Tree order.  Ranks are renumbered so that the root is 0; item[r] is the *)
(* mask of the round, and data[r] the result so far.  In the round of its  *)
(* lowest set bit a rank sends its result to the rank without that bit.    *)
(***************************************************************************)
Wrapped(r) == (r + N - Root(r)) % N
Unwrapped(r, w) == (w + Root(r)) % N
Sends(r) == (Wrapped(r) \div item[r]) % 2 = 1
TreeParent(r) == Unwrapped(r, Wrapped(r) - item[r])
HasChild(r) == Wrapped(r) + item[r] < N
TreeChild(r) == Unwrapped(r, Wrapped(r) + item[r])

NextRound(r) == item' = [item EXCEPT ![r] = 2 * @]

CallTree(r) ==
    /\ Begin(r, Reduction) /\ Valid(r) /\ UsesTree(Now(r))
    /\ data' = [data EXCEPT ![r] = <<Own(r)>>]
    /\ item' = [item EXCEPT ![r] = 1]
    /\ Go(r, "tree")
    /\ UNCHANGED <<program, partial, cut, chan, joined, returned>>

TreeSend(r) ==
    /\ pc[r] = "tree" /\ item[r] < N /\ Sends(r)
    /\ Send(r, TreeParent(r), TreeTag, data[r][1])
    /\ Go(r, "treeSend")
    /\ UNCHANGED <<program, data, item, partial, cut, joined, returned>>

TreeReceive(r) ==
    /\ pc[r] = "tree" /\ item[r] < N /\ ~Sends(r) /\ HasChild(r)
    /\ \E i \in 1..Len(chan[TreeChild(r)][r]) :
          /\ Receive(TreeChild(r), r, i, TreeTag)
          /\ LET v == Apply(Now(r), data[r][1], chan[TreeChild(r)][r][i].val)
             IN  \/ /\ v = Raised
                    /\ Return(r, Raised)
                 \/ /\ v # Raised
                    /\ data' = [data EXCEPT ![r] = <<v>>]
                    /\ NextRound(r)
                    /\ UNCHANGED <<pc, partial, cut, returned>>
    /\ UNCHANGED <<program, joined>>

TreeOrphan(r) ==
    /\ pc[r] = "tree" /\ item[r] < N /\ ~Sends(r) /\ ~HasChild(r)
    /\ NextRound(r)
    /\ UNCHANGED <<program, pc, data, partial, cut, chan, joined, returned>>

\* Past the loop, which the root leaves at its end and the others by break.
TreeDone(r, early) ==
    /\ \/ pc[r] = "tree" /\ item[r] >= N
       \/ pc[r] = "treeSend" /\ Sent(r, TreeParent(r), TreeTag, early)
    /\ \/ /\ Now(r).op = "reduce"
          /\ Return(r, IF IsRoot(r) THEN data[r][1] ELSE None)
          /\ UNCHANGED <<program, chan, joined>>
       \/ /\ Now(r).op = "allreduce"
          /\ StartBcast(r, data[r][1])

-----------------------------------------------------------------------------
\* The program's own messages, between its collectives.

Bystander(r) ==
    /\ Begin(r, {"message"}) /\ r \notin {Root(r), Now(r).dest}
    /\ Return(r, None)
    /\ UNCHANGED <<program, chan, joined>>

CallMessage(r) ==
    /\ Begin(r, {"message"})
    /\ \/ IsRoot(r) /\ Go(r, "messageSend") /\ Send(r, Now(r).dest, ScatterTag, Own(r))
       \/ r = Now(r).dest /\ Go(r, "messageRecv") /\ UNCHANGED chan
    /\ UNCHANGED <<program, data, item, partial, cut, joined, returned>>

MessageSent(r, early) ==
    /\ pc[r] = "messageSend"
    /\ Sent(r, Now(r).dest, ScatterTag, early)
    /\ Return(r, None)
    /\ UNCHANGED <<program, chan, joined>>

MessageReceived(r) ==
    /\ pc[r] = "messageRecv"
    /\ \E i \in 1..Len(chan[Root(r)][r]) :
          /\ Receive(Root(r), r, i, ANY_TAG)
          /\ Return(r, chan[Root(r)][r][i].val)
    /\ UNCHANGED <<program, joined>>

-----------------------------------------------------------------------------
Calls(r) ==
    \/ RejectRoot(r) \/ CallBarrier(r) \/ CallBcast(r) \/ CallGather(r) \/ CallScatter(r)
    \/ CallNative(r) \/ CallReduce(r) \/ CallTree(r) \/ Bystander(r) \/ CallMessage(r)

Step(r, early) ==
    \/ Calls(r)
    \/ BarrierDone(r) \/ BcastDone(r, early) \/ BcastBodyDone(r, early)
    \/ GatherDone(r, early) \/ GatherBodyDone(r, early) \/ Catenate(r) \/ GatherEnds(r)
    \/ ScatterKeep(r) \/ ScatterSend(r) \/ ScatterSent(r, early)
    \/ ScatterDone(r) \/ ScatterRecv(r)
    \/ NativeDone(r, early) \/ Fold(r) \/ FoldDone(r)
    \/ CollectFrom(r) \/ CollectOwn(r) \/ CollectSent(r, early) \/ Collected(r)
    \/ ScanNext(r) \/ ScanSent(r, early) \/ ScanDone(r) \/ ScanRecv(r)
    \/ TreeSend(r) \/ TreeReceive(r) \/ TreeOrphan(r) \/ TreeDone(r, early)
    \/ MessageSent(r, early) \/ MessageReceived(r)

Next == \E r \in Rank : \E early \in BOOLEAN : Step(r, early)

Spec == Init /\ [][Next]_vars

(***************************************************************************)
(* Every rank runs its program.  MPI owes a send only to complete when its *)
(* message has been received, and a collective when every rank is in it.   *)
(***************************************************************************)
FairSpec == Spec /\ \A r \in Rank : WF_vars(Step(r, FALSE))

-----------------------------------------------------------------------------
(***************************************************************************)
(* What the calls promise, said without their protocols: the contributions *)
(* of all ranks in rank order, whatever the root and treeorder are         *)
(* (pyMPI_comm_collective.c:931), and what becomes of them.                *)
(***************************************************************************)
Contributions(c, k, n) ==
    (IF c.ground THEN <<<<k, Ground>>>> ELSE <<>>) \o [i \in 1..n |-> <<k, i - 1>>]

\* An operator that raises does so on a right operand.
RaisesOn(c, s) == \E i \in 2..Len(s) : s[i][2] \in c.bad

Combined(c, s, otherwise) == IF RaisesOn(c, s) THEN otherwise ELSE Value(s)

AllOf(c, k) == Contributions(c, k, N)

\* The rank that gets element j of n: the first n % N ranks get one more.
Owner(n, j) ==
    LET per == n \div N
        big == (n % N) * (per + 1)
    IN  IF j < big THEN j \div (per + 1) ELSE (n % N) + (j - big) \div per

Share(c, k, r) ==
    LET mine == {j \in 0..(c.length - 1) : Owner(c.length, j) = r}
    IN  [i \in 1..Cardinality(mine) |-> <<k, Min(mine) + i - 1>>]

Promised(c, k, r) ==
    IF c.root \notin Rank THEN Raised ELSE
    CASE c.op = "barrier"   -> None
      [] c.op = "message"   -> IF r = c.dest THEN One(k, c.root) ELSE None
      [] c.op = "bcast"     -> One(k, c.root)
      [] c.op = "gather"    -> IF r # c.root THEN None
                               ELSE IF c.bad = {} THEN Value(AllOf(c, k)) ELSE Raised
      [] c.op = "allgather" -> Value(AllOf(c, k))
      [] c.op = "scatter"   -> IF c.bad = {} THEN Value(Share(c, k, r)) ELSE None
      [] c.op = "reduce"    -> IF r = c.root THEN Combined(c, AllOf(c, k), Raised) ELSE None
      [] c.op = "allreduce" -> Combined(c, AllOf(c, k), IF r = c.root THEN Raised ELSE ErrorType)
      [] c.op = "scan"      -> Combined(c, Contributions(c, k, r + 1), None)

(***************************************************************************)
(* Every call of every rank returns what it promises, whatever the other   *)
(* ranks are at: a rank that is calls ahead shares the communicator and    *)
(* the tags 987, 77 and 0 with those that are behind.  A reduction in tree *)
(* order with a root other than rank 0 is held to less: that it combines   *)
(* the contributions of all ranks, each once.  The order is not the one    *)
(* that is promised: see module MCCollectiveClaims.                        *)
(***************************************************************************)
Rotated(c) == UsesTree(c) /\ c.root # 0

Reordered(v, w) ==
    /\ v.is = "value" /\ w.is = "value"
    /\ Len(v.of) = Len(w.of) /\ ToSet(v.of) = ToSet(w.of)

ResultsRight ==
    \A r \in Rank : \A k \in 1..Len(returned[r]) :
        LET v == returned[r][k]
            w == Promised(program[k], k, r)
        IN  v = w \/ (Rotated(program[k]) /\ Reordered(v, w))

(***************************************************************************)
(* The n-th MPI collective that one rank calls is the n-th that any other  *)
(* calls, in the same call of the program and with the same root: MPI goes *)
(* by nothing but the order, and bcast and gather decide rank by rank      *)
(* whether there is a second one.                                          *)
(***************************************************************************)
CollectivesMatch ==
    \A r, q \in Rank : \A n \in 1..Len(joined[r]) :
        n <= Len(joined[q]) =>
            /\ joined[r][n].call = joined[q][n].call
            /\ joined[r][n].kind = joined[q][n].kind
            /\ joined[r][n].root = joined[q][n].root

(***************************************************************************)
(* No exception cuts a call short that ends with a bcast.  At the root of  *)
(* allgather one does (see module MCCollectiveClaims), and on              *)
(* any rank of an allreduce in tree order (pyMPI_comm_collective.c:503).   *)
(***************************************************************************)
NoneCutShort ==
    \A p \in Programs : \A k \in 1..Len(p) :
        p[k].bad # {} =>
            p[k].op # "allgather" /\ ~(p[k].op = "allreduce" /\ UsesTree(p[k]))

(***************************************************************************)
(* No object outlives the call it was sent in: its receiver is still in    *)
(* that call or has yet to make it, so that no later call with the same    *)
(* tag, nor a receive of the program, can take it.                         *)
(***************************************************************************)
MessagesAwaited ==
    \A s, d \in Rank : \A i \in 1..Len(chan[s][d]) : chan[s][d][i].call >= Here(d)

(***************************************************************************)
(* Before its i-th round, scatter's loop has dealt out the elements of i   *)
(* near equal pieces and knows how many of the longer ones are left.       *)
(***************************************************************************)
Lesser(a, b) == IF a < b THEN a ELSE b

CutRight ==
    \A r \in Rank : pc[r] = "scatter" =>
        LET n == Now(r).length
            i == item[r]
        IN  /\ cut[r].end = i * (n \div N) + Lesser(i, n % N)
            /\ cut[r].extras = (n % N) - Lesser(i, n % N)

(***************************************************************************)
(* Every rank gets to the end of the program, also where an operator       *)
(* raises, a sequence cannot be cut or an object cannot be unpacked: the   *)
(* rank at which this happens still owes the others its part.              *)
(***************************************************************************)
AllFinish == <>(\A r \in Rank : Len(returned[r]) = Len(program))
==============================================================================
