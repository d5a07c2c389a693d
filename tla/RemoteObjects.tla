--------------------------- MODULE RemoteObjects ---------------------------
(***************************************************************************)
(* Remote procedure calls (pyMPI_rco.c).  The ranks of a communicator make *)
(* a RemoteObject together and agree on a number for it.  A call on some   *)
(* of them is an isend to each, with the object's tag; a rank serves calls *)
(* in rco_housekeeping, which python's trace hook runs between the         *)
(* instructions of whatever program the rank executes.                     *)
(*                                                                         *)
(* A call that does not fit into a header travels in two parts, and its    *)
(* receive posts that of the body when the hook has found the header.      *)
(* Receives are for any source: those of objects with one communicator and *)
(* one tag take the parts of each other's calls, and bytes that are no     *)
(* header may be taken for one.  A rank that has done that is not followed *)
(* further (garbled): the hook raises whenever it runs, waits for what the *)
(* bytes announce, or the process exits.                                   *)
(*                                                                         *)
(* MPI, which matches the messages with the receives of a rank in the      *)
(* order in which these were posted, and python, which does not trace the  *)
(* hook itself, are external.                                              *)
(***************************************************************************)
EXTENDS Integers, SequencesExt, FiniteSetsExt

CONSTANTS
    N,          \* the number of ranks
    Programs,   \* each the sequence of the objects that a program makes
    Calls,      \* a destination, which is a sequence of integers or a slice, a method,
                \* which "returns", "raises" or "forwards", and has the call two parts?
    MaxCalls    \* the number of calls that programs and methods make

ASSUME NAssumption == N \in Nat \ {0}
ASSUME MaxCallsAssumption == MaxCalls \in Nat

\* A slice with a step of 0, which sends to one rank for ever, is left out.
Destination ==
    [kind : {"ranks"}, ranks : Seq(Int)]
    \cup [kind : {"slice"}, start : Int, stop : Int, step : Int \ {0}]

ASSUME CallsAssumption == Calls \subseteq Destination \X {"returns", "raises", "forwards"} \X BOOLEAN

Ranks == 0..(N - 1)

ASSUME ProgramsAssumption ==
    Programs \subseteq Seq([comm : Seq(Ranks), tag : Int, receive : SUBSET Ranks])

VARIABLES
    objects,        \* the program: its k-th object has a comm, a tag, and receive,
                    \* the ranks that wait for calls
    made,           \* made[r][k]: the number of the k-th object, 0 before it has one
    joined,         \* joined[r]: the object whose MPI_Allreduce r is in, 0 if none
    last_unique,    \* last_unique[r]: the largest number that r has given out
    sends_posted,   \* sends_posted[r]: the messages whose requests r keeps
    recvs_posted,   \* recvs_posted[r][i]: the request of the i-th object that waits
                    \* for calls: the parts received, at most two
    object_cache,   \* object_cache[r][i]: which object that is
    posted,         \* posted[r]: the positions in recvs_posted with an MPI receive that
                    \* is not fulfilled, in the order of posting
    wire,           \* wire[q]: the parts under way from q, in the order of sending
    hook,           \* hook[r]: how far rco_housekeeping is, 0 if it does not run
    pending,        \* pending[r]: the exception that the hook has left behind
    garbled,        \* the ranks that have read something else as a header or a body
    looping,        \* the ranks that count past the end of a slice, for ever
    called,         \* the calls sent: to whom, on what, which method
    executed        \* executed[r]: the calls that r has executed, on which object

progVars == <<objects, made, joined, last_unique>>
listVars == <<sends_posted, recvs_posted, object_cache, posted>>
hookVars == <<hook, pending, garbled>>
callVars == <<looping, called>>
vars == <<progVars, listVars, wire, hookVars, callVars, executed>>

Comm(k)    == objects[k].comm       \* a sequence of ranks
Members(k) == ToSet(Comm(k))
Tag(k)     == objects[k].tag

Number(r, k) == made[r][k]
Made(r, k)   == k \in DOMAIN objects /\ Number(r, k) # 0

-----------------------------------------------------------------------------
(***************************************************************************)
(* Destinations.  An integer out of range raises; a sequence is followed   *)
(* up to the first that raises; a slice counts from start until it meets   *)
(* stop, and skips what is out of range.                                   *)
(***************************************************************************)
Omitted == 1000

Bound(index, default, size) ==
    IF index = Omitted THEN default ELSE IF index < 0 THEN index + size ELSE index

SliceTargets(d, size) ==
    LET step  == IF d.step = Omitted THEN 1 ELSE d.step
        start == Bound(d.start, IF step < 0 THEN size - 1 ELSE 0, size)
        stop  == Bound(d.stop, IF step < 0 THEN -1 ELSE size, size)
        far   == IF start > stop THEN start - stop ELSE stop - start
        meets == {n \in 0..far : start + n * step = stop}
        count == IF meets # {} THEN Min(meets)
                 ELSE far + size    \* all it can send before it counts on for nothing
        sends == {n \in 0..(count - 1) : start + n * step \in 0..(size - 1)}   \* an interval
    IN  [to   |-> [n \in 1..Cardinality(sends) |-> start + (Min(sends) + n - 1) * step],
         then |-> IF meets # {} THEN "return" ELSE "loop"]

partial_message(d, size) ==
    LET bad == {i \in 1..Len(d.ranks) : d.ranks[i] \notin 0..(size - 1)}
    IN  CASE d.kind = "slice" -> SliceTargets(d, size)
          [] d.kind = "ranks" ->
               [to   |-> IF bad = {} THEN d.ranks ELSE SubSeq(d.ranks, 1, Min(bad) - 1),
                then |-> IF bad = {} THEN "return" ELSE "raise"]

-----------------------------------------------------------------------------
\* The program of rank r executes: no hook runs, and it is not in MPI.
Running(r) == hook[r] = 0 /\ joined[r] = 0 /\ r \notin looping

\* remote_init: all ranks of the communicator agree on the next number.
remote_init(r, k) ==
    /\ Running(r)
    /\ r \in Members(k) /\ made[r][k] = 0
    /\ \A j \in 1..(k - 1) : r \in Members(j) => made[r][j] # 0
    /\ joined' = [joined EXCEPT ![r] = k]
    /\ UNCHANGED <<objects, made, last_unique, listVars, wire, hookVars, callVars, executed>>

AgreedOnLeast(k) == Min({last_unique[q] : q \in Members(k)}) + 1   \* a mutant

\* MPI_Allreduce with MPI_MAX, which is over when all have joined
Agreed(k) == Max({last_unique[q] : q \in Members(k)}) + 1

\* The ranks leave it one by one: one that has left has the number already.
Unique(k) ==
    LET known == {q \in Members(k) : made[q][k] # 0}
    IN  IF known = {} THEN Agreed(k) ELSE made[CHOOSE q \in known : TRUE][k]

\* A mutant: the object is not appended to the list that the hook reads.
WaitsUncached(r, k) ==
    /\ recvs_posted' = [recvs_posted EXCEPT ![r] = Append(@, <<>>)]
    /\ posted' = [posted EXCEPT ![r] = Append(@, Len(recvs_posted[r]) + 1)]
    /\ UNCHANGED object_cache

\* One that waits for calls posts its first receive.
Waits(r, k) ==
    /\ recvs_posted' = [recvs_posted EXCEPT ![r] = Append(@, <<>>)]
    /\ object_cache' = [object_cache EXCEPT ![r] = Append(@, k)]
    /\ posted' = [posted EXCEPT ![r] = Append(@, Len(recvs_posted[r]) + 1)]

InitDone(r, k) ==
    /\ joined[r] = k /\ k # 0
    /\ \A q \in Members(k) : joined[q] = k \/ made[q][k] # 0
    /\ last_unique' = [last_unique EXCEPT ![r] = Unique(k)]
    /\ made' = [made EXCEPT ![r][k] = Unique(k)]
    /\ joined' = [joined EXCEPT ![r] = 0]
    /\ IF r \in objects[k].receive THEN Waits(r, k)
       ELSE UNCHANGED <<recvs_posted, object_cache, posted>>
    /\ UNCHANGED <<objects, sends_posted, wire, hookVars, callVars, executed>>

-----------------------------------------------------------------------------
(***************************************************************************)
(* partial_call: one isend to each destination, whose request is kept.     *)
(* That a message is the n-th of its call is not sent, nor is of what call *)
(* a part is, or that it is the second.                                    *)
(***************************************************************************)
Message(r, k, to, method, long, n) ==
    [from |-> r, to |-> to, hash |-> Number(r, k), tag |-> Tag(k), comm |-> Comm(k),
     method |-> method, long |-> long, call |-> Len(called) + 1, n |-> n, body |-> FALSE]

Body(m) == [m EXCEPT !.body = TRUE]

\* Header and body of each message, one after the other
Parts(messages, long) ==
    IF ~long THEN messages
    ELSE [p \in 1..(2 * Len(messages)) |->
             IF p % 2 = 1 THEN messages[(p + 1) \div 2] ELSE Body(messages[p \div 2])]

partial_call(r, k, d, method, long) ==
    LET where    == partial_message(d, Len(Comm(k)))
        ranks    == [n \in 1..Len(where.to) |-> Comm(k)[where.to[n] + 1]]
        messages == [n \in 1..Len(where.to) |-> Message(r, k, ranks[n], method, long, n)]
    IN  /\ wire' = [wire EXCEPT ![r] = @ \o Parts(messages, long)]
        /\ sends_posted' = [sends_posted EXCEPT ![r] = @ \cup ToSet(messages)]
        /\ called' = Append(called, [from |-> r, object |-> k, method |-> method,
                                     long |-> long, to |-> ranks])
        /\ looping' = IF where.then = "loop" THEN looping \cup {r} ELSE looping

\* obj.__remote__[destinations].method(args), which a program then calls on its
\* k-th object
Partial(call) == [destinations |-> call[1], method |-> call[2], long |-> call[3]]

Call(r, k, call) ==
    /\ Running(r)
    /\ r \in Members(k) /\ Made(r, k)
    /\ Len(called) < MaxCalls
    /\ partial_call(r, k, Partial(call).destinations, Partial(call).method, Partial(call).long)
    /\ UNCHANGED <<progVars, recvs_posted, object_cache, posted, hookVars, executed>>

-----------------------------------------------------------------------------
\* A mutant: the body is received from any source, too.
FitsAnyone(r, i, m) ==
    LET o == objects[object_cache[r][i]]
    IN  m.to = r /\ m.comm = o.comm /\ m.tag = o.tag

\* Can the MPI receive of the i-th request of r take the part m?  That of a
\* body is for where the header came from.
Fits(r, i, m) ==
    LET o == objects[object_cache[r][i]]
    IN  /\ m.to = r /\ m.comm = o.comm /\ m.tag = o.tag
        /\ recvs_posted[r][i] # <<>> => m.from = recvs_posted[r][i][1].from

\* MPI matches the next part of q to r that a receive of r can take with the
\* first receive that can take it.
Match(q, r) ==
    LET at == SelectInSeq(wire[q], LAMBDA m : \E i \in ToSet(posted[r]) : Fits(r, i, m))
    IN  /\ at # 0
        /\ LET m     == wire[q][at]
               first == SelectInSeq(posted[r], LAMBDA i : Fits(r, i, m))
           IN  /\ recvs_posted' = [recvs_posted EXCEPT ![r][posted[r][first]] = Append(@, m)]
               /\ posted' = [posted EXCEPT ![r] = RemoveAt(@, first)]
        /\ wire' = [wire EXCEPT ![q] = RemoveAt(wire[q], at)]
        /\ UNCHANGED <<progVars, sends_posted, object_cache, hookVars, callVars, executed>>

\* The hook runs between two instructions of the program, not inside of MPI.
\* It drops the requests of sends, which are true since isend (postedMessage is
\* what is sent), and does nothing if an exception of the last time is there.
rco_housekeeping(r) ==
    /\ Running(r) /\ ~pending[r] /\ r \notin garbled
    /\ hook' = [hook EXCEPT ![r] = 1]
    /\ sends_posted' = [sends_posted EXCEPT ![r] = {}]
    /\ UNCHANGED <<progVars, recvs_posted, object_cache, posted, wire, pending, garbled, callVars, executed>>

\* A mutant: the hook is over when it comes to one that is not fulfilled.
HookNextStops(r) ==
    /\ hook[r] # 0 /\ r \notin garbled
    /\ hook[r] > Len(recvs_posted[r]) \/ hook[r] \in ToSet(posted[r])
    /\ hook' = [hook EXCEPT ![r] = 0]
    /\ UNCHANGED <<progVars, listVars, wire, pending, garbled, callVars, executed>>

\* The next request of the list: MPI has nothing for it, or the last has been seen.
HookNext(r) ==
    /\ hook[r] # 0 /\ r \notin garbled
    /\ IF hook[r] > Len(recvs_posted[r]) THEN hook' = [hook EXCEPT ![r] = 0]
       ELSE hook[r] \in ToSet(posted[r]) /\ hook' = [hook EXCEPT ![r] = @ + 1]
    /\ UNCHANGED <<progVars, listVars, wire, pending, garbled, callVars, executed>>

\* The hook is at a request whose receive is fulfilled.
Fulfilled(r) ==
    /\ hook[r] # 0 /\ hook[r] <= Len(recvs_posted[r]) /\ hook[r] \notin ToSet(posted[r])
    /\ r \notin garbled

\* What it has received
Got(r) == recvs_posted[r][hook[r]]

\* The header of a call in two parts: the receive of its body is posted.
PostBody(r) ==
    /\ Fulfilled(r) /\ Len(Got(r)) = 1 /\ Got(r)[1].long /\ ~Got(r)[1].body
    /\ posted' = [posted EXCEPT ![r] = Append(@, hook[r])]
    /\ UNCHANGED <<progVars, sends_posted, recvs_posted, object_cache, wire, hookVars, callVars, executed>>

\* The parts are of one message.
Mates(h, b) == h.call = b.call /\ h.n = b.n

\* What was taken for a header is none, or what was taken for the body is not
\* the one that the header announced.
HookGarbled(r) ==
    /\ Fulfilled(r)
    /\ Got(r)[1].body \/ (Len(Got(r)) = 2 /\ ~Mates(Got(r)[1], Got(r)[2]))
    /\ garbled' = garbled \cup {r}
    /\ UNCHANGED <<progVars, listVars, wire, hook, pending, callVars, executed>>

\* A call is there: a header without a body, or with a body, which is that of
\* another call if the lengths permit.
Ready(r) ==
    /\ Fulfilled(r) /\ ~Got(r)[1].body
    /\ IF Got(r)[1].long THEN Len(Got(r)) = 2 /\ Got(r)[2].body ELSE Len(Got(r)) = 1

\* The method of the message is called on the object of that place in the list.
Execute(r, i) == executed' = [executed EXCEPT ![r] =
                     Append(@, [object |-> object_cache[r][i], message |-> Last(recvs_posted[r][i])])]

\* A mutant: the old request stays in its place.
RepostKept(r, i) == UNCHANGED <<recvs_posted, posted>>

\* A new request takes the place of the old one.
Repost(r, i) ==
    /\ recvs_posted' = [recvs_posted EXCEPT ![r][i] = <<>>]
    /\ posted' = [posted EXCEPT ![r] = Append(@, i)]

\* It may call others in turn.
MethodReturns(r) ==
    LET i == hook[r]
        m == Last(Got(r))
    IN  /\ Ready(r)
        /\ Execute(r, i)
        /\ \/ m.method = "returns" /\ UNCHANGED <<wire, sends_posted, callVars>>
           \/ /\ m.method = "forwards"
              /\ IF Len(called) < MaxCalls
                 THEN partial_call(r, object_cache[r][i], [kind |-> "ranks", ranks |-> <<0>>], "returns", FALSE)
                 ELSE UNCHANGED <<wire, sends_posted, callVars>>
        /\ Repost(r, i)
        /\ hook' = [hook EXCEPT ![r] = i + 1]
        /\ UNCHANGED <<progVars, object_cache, pending, garbled>>

\* One that raises leaves the hook, with its request where it is.  Repetitions
\* are recorded up to the bound of the model.
MethodRaises(r) ==
    /\ Ready(r) /\ Last(Got(r)).method = "raises"
    /\ IF Len(executed[r]) < MaxCalls THEN Execute(r, hook[r]) ELSE UNCHANGED executed
    /\ hook' = [hook EXCEPT ![r] = 0]
    /\ pending' = [pending EXCEPT ![r] = TRUE]
    /\ UNCHANGED <<progVars, listVars, wire, garbled, callVars>>

\* The program comes upon the exception, and goes on.
Surfaces(r) ==
    /\ pending[r]
    /\ pending' = [pending EXCEPT ![r] = FALSE]
    /\ UNCHANGED <<progVars, listVars, wire, hook, garbled, callVars, executed>>

-----------------------------------------------------------------------------
remote_new == [k \in 1..Len(objects) |-> 0]

Init ==
    /\ objects \in Programs
    /\ made = [r \in Ranks |-> remote_new]
    /\ joined = [r \in Ranks |-> 0]
    /\ last_unique = [r \in Ranks |-> 0]
    /\ sends_posted = [r \in Ranks |-> {}]
    /\ recvs_posted = [r \in Ranks |-> <<>>]
    /\ object_cache = [r \in Ranks |-> <<>>]
    /\ posted = [r \in Ranks |-> <<>>]
    /\ wire = [q \in Ranks |-> <<>>]
    /\ hook = [r \in Ranks |-> 0]
    /\ pending = [r \in Ranks |-> FALSE]
    /\ garbled = {}
    /\ looping = {}
    /\ called = <<>>
    /\ executed = [r \in Ranks |-> <<>>]

Hook(r) ==
    \/ rco_housekeeping(r) \/ HookNext(r) \/ PostBody(r) \/ HookGarbled(r)
    \/ MethodReturns(r) \/ MethodRaises(r)

Next ==
    \/ \E r \in Ranks, k \in DOMAIN objects : remote_init(r, k) \/ InitDone(r, k)
    \/ \E r \in Ranks, k \in DOMAIN objects, call \in Calls : Call(r, k, call)
    \/ \E q, r \in Ranks : Match(q, r)
    \/ \E r \in Ranks : Hook(r) \/ Surfaces(r)

(***************************************************************************)
(* MPI goes on as long as there is something to deliver or a reduction to  *)
(* leave, python runs the hook as long as the program of a rank executes,  *)
(* and the programs make their objects.                                    *)
(***************************************************************************)
Fairness ==
    /\ WF_vars(\E q, r \in Ranks : Match(q, r))
    /\ WF_vars(\E r \in Ranks, k \in DOMAIN objects : InitDone(r, k))
    /\ SF_vars(\E r \in Ranks, k \in DOMAIN objects : remote_init(r, k))
    /\ \A r \in Ranks : WF_vars(Hook(r) \/ Surfaces(r))

Spec == Init /\ [][Next]_vars /\ Fairness

-----------------------------------------------------------------------------
\* A part is one of a message that a call has sent.
Sent(m) ==
    /\ m.call \in DOMAIN called
    /\ LET c == called[m.call]
       IN  /\ m.from = c.from /\ m.method = c.method /\ m.long = c.long
           /\ m.n \in DOMAIN c.to /\ m.to = c.to[m.n]
           /\ m.hash = made[m.from][c.object]
           /\ m.comm = Comm(c.object) /\ m.tag = objects[c.object].tag
           /\ m.body => m.long

(***************************************************************************)
(* The lists of a rank stay in step: recvs_posted and object_cache, which  *)
(* the hook reads by the same index (pyMPI_rco.c:375-380), are as long,    *)
(* and every object that waits for calls has one request.  MPI has at most *)
(* one receive of each, and one of each that has received nothing.         *)
(***************************************************************************)
TypeOK ==
    /\ looping \subseteq Ranks /\ garbled \subseteq Ranks
    /\ \A r \in Ranks :
         /\ made[r] \in [DOMAIN objects -> Nat]
         /\ joined[r] \in 0..Len(objects) /\ last_unique[r] \in Nat
         /\ hook[r] \in 0..(Len(recvs_posted[r]) + 1) /\ pending[r] \in BOOLEAN
         /\ \A m \in sends_posted[r] : Sent(m) /\ m.from = r
         /\ Len(object_cache[r]) = Len(recvs_posted[r]) /\ IsInjective(object_cache[r])
         /\ ToSet(object_cache[r]) = {k \in DOMAIN objects : Made(r, k) /\ r \in objects[k].receive}
         /\ ToSet(posted[r]) \subseteq {i \in DOMAIN recvs_posted[r] : Len(recvs_posted[r][i]) < 2}
         /\ {i \in DOMAIN recvs_posted[r] : recvs_posted[r][i] = <<>>} \subseteq ToSet(posted[r])
         /\ IsInjective(posted[r])

(***************************************************************************)
(* The number of a remote object is unique (pyMPI_rco.c:471-478): the      *)
(* ranks agree on it, and no rank has two objects of one number, whichever *)
(* communicators they were made on and whoever has left the reduction.     *)
(***************************************************************************)
IdsUnique ==
    \A q, r \in Ranks, j, k \in DOMAIN objects :
        Made(q, j) /\ Made(r, k) =>
            /\ j = k => made[q][j] = made[r][k]
            /\ j # k /\ q = r => made[q][j] # made[r][k]

\* No other object of the program has the communicator and the tag of this.
Alone(k) == \A j \in DOMAIN objects \ {k} :
                objects[j].comm # objects[k].comm \/ objects[j].tag # objects[k].tag

(***************************************************************************)
(* A call is executed where it was sent, whole, once unless the method     *)
(* raises, and an object executes the calls of one caller in the order in  *)
(* which they were made.  It is the object that the call was meant for,    *)
(* and has the number in the message, which nobody compares, provided that *)
(* it has its tag for itself: with the default tag 99 (pyMPI_rco.c:485)    *)
(* any object that shares it may take the call.                            *)
(***************************************************************************)
CallsRight ==
    \A r \in Ranks : \A x \in DOMAIN executed[r] :
        LET o == executed[r][x].object
            m == executed[r][x].message
            k == called[m.call].object
        IN  /\ Sent(m) /\ m.to = r /\ (m.body <=> m.long)
            /\ Comm(o) = m.comm /\ objects[o].tag = m.tag
            /\ Alone(k) => o = k /\ m.hash = made[r][o]
            /\ \A y \in 1..(x - 1) :
                 LET d == executed[r][y]
                 IN  /\ m.method # "raises" => d.message # m
                     /\ d.object = o /\ d.message.from = m.from => d.message.call <= m.call

(***************************************************************************)
(* A request of an object that has its tag for itself gets the header of a *)
(* call, and then the body of the same (request_second_message, which      *)
(* pyMPI_rco.c:372 reaches through the request's truth), however the calls *)
(* of several ranks come in between.                                       *)
(***************************************************************************)
BodiesRight ==
    \A r \in Ranks : \A i \in DOMAIN recvs_posted[r] :
        LET got == recvs_posted[r][i]
        IN  Alone(object_cache[r][i]) /\ got # <<>> =>
                ~got[1].body /\ (Len(got) = 2 => Mates(got[1], got[2]) /\ got[2].body)

-----------------------------------------------------------------------------
Awaited(c, r) ==
    c \in DOMAIN called /\ r \in ToSet(called[c].to) /\ r \in objects[called[c].object].receive

Executed(c, r) == \E e \in ToSet(executed[r]) : e.message.call = c

\* A method that raises keeps its place in the list of r, before that of an
\* object that call c may reach.
RaisedBefore(c, r) ==
    /\ c \in DOMAIN called
    /\ \E i, j \in DOMAIN recvs_posted[r] :
         /\ i <= j /\ objects[object_cache[r][j]].comm = Comm(called[c].object)
         /\ objects[object_cache[r][j]].tag = Tag(called[c].object)
         /\ recvs_posted[r][i] # <<>> /\ Last(recvs_posted[r][i]).method = "raises"

\* Calls in two parts were made on objects that have no tag for themselves.
Muddled == \E c \in ToSet(called) : c.long /\ ~Alone(c.object)

\* Calls that a rank has yet to execute, and is not kept from
Outstanding ==
    \E c \in DOMAIN called, r \in Ranks :
        Awaited(c, r) /\ ~Executed(c, r) /\ ~RaisedBefore(c, r)

(***************************************************************************)
(* There comes a time when all calls are executed on every rank that has   *)
(* objects waiting for them (the trace hook, pyMPI_rco.c:370-397), save    *)
(* those behind a method that raises: its request keeps its place in the   *)
(* list, is served again and again, and those after it have no turn.  It   *)
(* takes that no call in two parts was made on a tag that objects share,   *)
(* and that no rank is counting past the end of a slice (:127).            *)
(***************************************************************************)
CallsExecuted == Outstanding ~> ~Outstanding \/ Muddled \/ looping # {}
=============================================================================
