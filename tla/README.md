# A verification of pyMPI, the interpreter under Pynamic

Pynamic measures dynamic linking: a Python script generates shared libraries,
and a driver imports them under pyMPI, a Python 2 interpreter in which every
process of an MPI job runs the same script. pyMPI is where the program's logic
is: it carries Python objects over MPI messages, and its calls, requests and
collectives are protocols between processes. This project models those
protocols in TLA+, checks them with TLC on small jobs, and proves the ones at
the bottom for every size of job with TLAPS.

All paths below are relative to `src/pynamic-pyMPI-2.6a1/`.

## Running it

    tlasany M.tla                         parse a module
    tlc -workers 2 -config X.cfg M        check a module with a configuration
    tlapm M_proofs.tla                    check a module of proofs

The passing runs are `MCPointToPoint`, `MCRequests`, `MCCollectives`,
`MCSession`, `MCRemoteObjects` and `MCPynamic`, a minute or two each, of
modules with the same names. The other six are runs that TLC must find violated
(see *Findings*): `MCShift`, and `MCRequestClaims`, `MCCollectiveClaims`,
`MCSessionClaims`, `MCRemoteClaims` and `MCDriverClaims`, also with modules of
the same names.

## The system

Every rank is one single-threaded process. Between ranks there is nothing but
MPI; inside a rank there is the Python program, the C extension it calls, and a
housekeeping hook that the interpreter runs between prompts.

| Component | Source | State | Operations | What makes it correct |
|---|---|---|---|---|
| Message protocol | `pyMPI_util.c`, `pyMPI_Types.h` | none: a header and an optional body per object | `pyMPI_pack`, `pyMPI_unpack` | unpack undoes pack for every kind and length; both ends agree on whether a body exists |
| Blocking point-to-point | `pyMPI_send.c`, `pyMPI_recv.c`, `pyMPI_comm_message.c` | C locals of the call in progress | `send`, `recv`, `sendrecv` | an object arrives once, whole, in order; a body is never taken for a header; a receive that has begun ends |
| Nonblocking requests | `pyMPI_comm_asynchronous.c`, `pyMPI_request.c` | request objects with two MPI requests each; the static list `abandoned_requests` | `isend`, `irecv`, `test`, `test_cancelled`, `wait`, `waitall`, `cancel`, deallocation | the right body reaches the right request; "complete" is the truth; buffers outlive their sends; waits end |
| Collectives | `pyMPI_comm_collective.c` | C locals of the call in progress | `barrier`, `bcast`, `gather`, `allgather`, `scatter`, `reduce`, `allreduce`, `scan` | results are those of all ranks in order; the ranks' MPI collectives pair up; no message is left behind; a failure at one rank does not strand the others |
| Reduction operators | `pyMPI_reductions.c` | a sorted table of MPI operations and Python functions | `register`, `compare`, `search` | bisection finds exactly what was registered |
| Parallel input | `pyMPI_readline.c`, `pyMPI_init.c` | the readline hook, the buffered line | `parallelReadline`, `bcast_input_to_slaves` | slaves get rank 0's lines, in order; end of input and failures keep the ranks' broadcasts in step |
| Interpreter life cycle | `pyMPI_init.c`, `pyMPI_main.c`, `pyMPI_initialize.c`, `pyMPI_sysmods.c`, `pyMPI_signals.c`, `pyMPI_softload.c` | who initialized MPI, whether it is finalized, hooks installed | start, `finalize`, `sys.exit`, exception hook, signals | MPI is initialized and finalized exactly once, by whoever owns it |
| Communicators | `pyMPI_comm.c`, `pyMPI_comm_misc.c`, `pyMPI_cart.c` | MPI handles, groups, the persistent flag | `create`, `dup`, `cart_create`, `free`, indexing, deallocation | handles are freed once, by their owner, and never used after |
| Remote objects | `pyMPI_rco.c` | lists of posted sends and receives | remote calls, housekeeping | each call runs its method once, in order, on the object it was made on; header and body of a call stay together |
| Synchronized output | `pyMPI_comm_io.c` | queued output per rank | `synchronizedWrite`, stream synchronization | what is queued reaches the master, once; a write has happened when it returns; nobody is left in the barrier |
| Housekeeping and pipes | `pyMPI_init.c`, `pyMPI_pipes.c` | the table of housekeeping routines | register, run, `mpi_waitpid` | every routine runs at each prompt |
| Pynamic | `so_generator.py`, `config_pynamic.py`, `examples/fractal.py` | the files written, compiled, archived and linked; the pool's tasks; how far each rank is in the driver | write, compile, configure, make; barrier, import, visit, reduce | nothing is linked before it is there; an entry calls every function of its module once; the times cover all ranks; all comes to an end |

The interactions: collectives use MPI's own collectives, and `pyMPI_send` and
`pyMPI_recv` of the blocking component; those use pack and unpack; remote
objects are built on the nonblocking requests, and housekeeping drives them;
parallel input is broadcasts on a communicator of its own, and so has to be in
step on all ranks whatever a line does on one of them; synchronized output is
messages and barriers on communicators that the program makes and frees, and on
MPI_COMM_WORLD; the way out of a session frees communicators and finalizes MPI
under whatever the program has left. Status objects, error macros, pickling,
banners, distutils glue and the stub extensions hold no protocol;
`PROJECT.json` lists them with the rest.

What is hard in it: objects travel as two messages and MPI knows nothing of
that; two ranks are free to be far apart in their programs; an exception on one
rank ends its part of a protocol that others still rely on; MPI may or may not
buffer a send; and collectives use fixed tags of the program's own
communicator. `PROJECT.json` lists each of these as a hazard at its line, with
the property that watches it.

## Modules

    MessageProtocol          pack and unpack
      PointToPoint           send, recv, sendrecv           ->  ObjectChannel
      Requests               isend, irecv, request objects
        Completion           testall ... waitsome over them
    Collectives              the collectives, over object channels and MPI
    MPIRuntime               what the interpreter itself uses of MPI
      Communicators          communicator objects
        Readline             parallel input
          SynchronizedOutput output
            Session          a session, from MPI_Init to its end  ->  InputStream
    RemoteObjects            remote calls and the hook that serves them
    Generator                writing and building the generated libraries
      Pynamic                the build, and the driver on all ranks

`->` marks what a module is shown to implement. Where a module extends another
in this list, it composes with it: its next-state relation has the other's
actions in it. Definitions that end in a mutation of another
(`CallsNextTooFar`, `AtEndUnchecked`, ...) are not used by any specification:
each is a plausible mistake that one of the properties is known to catch.

### MessageProtocol (`pyMPI_util.c:207-533`)

An object is a kind and a sequence of bytes. `Header(o)` is what `pyMPI_pack`
writes into `buffer1`: numbers go in payload slots, strings and pickles go in
the prefix when they fit and whole into a second message when they do not.
`Unpack` follows `pyMPI_unpack` branch by branch, the empty string included.
`PREFIXCHARS` is the header's capacity, 1 in the runs, so that one-byte objects
sit exactly on the boundary and two-byte objects are just over it.

### PointToPoint and ObjectChannel

`PointToPoint` has one action per stretch of code between two MPI calls.
`pc[r]` is the MPI call a rank waits at; `held[r]` is the status of the header
it received last. MPI is the log `wire[s][d]` and the set `taken[s][d]` of what
has been received: a receive takes the first message of a sender that is not
taken and matches source and tag, which is MPI's rule that messages do not
overtake. Which sends return before their message is received is the constant
`EagerParts`.

`ObjectChannel` is what programs rely on: objects, not parts, received at most
once, whole, and in order for one sender and one tag. `PointToPoint` implements
it with `sent <- Posted`, the headers on the wire.

The run `point_to_point` has two senders and a receiver, with every mixture of
wildcards, split and unsplit objects, unpicklable objects and exchanges; two
calls per rank let one object's body follow another's header, on the same tag
or on a different one. `EagerParts` is both parts: senders may run as far ahead
as they can, the worst case for a receiver.

### Requests

A request object is a record with the fields of `PyMPI_Request`: two MPI
handles, the buffer, the message posted so far, the status. `Isend` posts both
messages at once. `Irecv` posts the header only; the step of `test` or `wait`
that finds the header (`Seen`, after `request_second_message`)
posts the receive of the body. MPI matches posted receives with messages in its
own time, in the action `MatchMessage`. `waiting[r]` is the list of requests
that a `wait` or `waitall` of r has left; `waitall` takes them one at a time,
as the code does.

`Liberties` names three things that pyMPI cannot survive and leaves the program
to avoid: posting two receives that one message could fulfil before the header
of the first was seen, cancelling or dropping a receive whose
message is under way (`abort`), and letting go of a long string while it is
being sent (`forget`). The passing run takes none; `request_claims` takes the
first, which nothing in the documentation forbids. `Uses` says which operations
a program applies to its requests, and keeps the state space within reach: the
receiver of the run `requests` uses all but `forget`, one sender tests and
forgets, the other waits and drops. No part is buffered there, so a send is
complete only when its message has been matched.

### Collectives

Every rank runs the same sequence of collective calls, one action per stretch
of code between communications, and inside loops one action per round.
`joined[r]` is the log of the MPI collectives r has called: MPI pairs the n-th
of each rank, whatever they are. The number of the call that a collective or a
message belongs to (`call`) is there for the properties; no step reads it. The
exchanges of scatter and of the reductions
travel in `chan`, an object channel per pair of ranks: what `PointToPoint` has
been shown to implement stands in for it, so that an object is one message
here. `early`, a parameter of the steps that end an MPI call, is MPI's freedom
to let a send or a collective return before the others have got there.

Values are symbolic. The contribution of rank r to call k is the pair `<<k,
r>>`, an object is a sequence of contributions, and the operator of every
reduction concatenates, so a result shows what went into it, from which call,
and in which order. `bad` are the ranks whose contribution makes the operator
raise (for gather, cannot be unpickled; for scatter, an object that cannot be
sliced), `long` those whose contributions need a second message.

`Promised` is the reference definition: what each call should return at each
rank, written without protocols and in rank order, as the documentation has it;
`ResultsRight` compares. Tree order rotates the operands so that the root comes
first (`pyMPI_comm_collective.c:475`), and a non-commutative operator can tell.
Of a tree reduction whose root is not rank 0, `ResultsRight` therefore says only
that the contributions of all ranks are in it, each once; that they are not in
the order promised is what the run `collective_claims` shows.

The run has five ranks, so that in a tree one rank both receives and sends and
one is orphaned for a round; scatter gets eight elements, which five do not
divide. Its 23 programs are each call with its failures, and pairs of calls in
succession that share a tag (`scatter` and the program's own messages on tag 0;
`scan`, `reduce` and `allreduce` on 987; two trees on 77) or use MPI
collectives with different roots. Two calls are enough for interference, since
a rank in its second call meets ranks in their first, and a third call meets
the second in the same way.

### Completion

testall, testany and testsome test the requests of their argument one after the
other, each a `request_test`; waitany and waitsome do so until one is complete.
A call is a record in `polling[r]`: the requests, those left in this round, and
whether one was complete. Between two tests MPI goes on (`MatchMessage`), the
program does not. `BlockingCallsEnd` says of the waits what fairness of the poll
and of MPI gives: they end once a header has come.

### MPIRuntime, Communicators, Readline, SynchronizedOutput, Session

These five make one specification, layer by layer, because their hazards are in
how they meet: the prompt's barrier and broadcasts, the program's own
communicators, the collection of output and the end of MPI are all collective
calls of the same processes.

A communicator is named by its ancestry: the one that the k-th collective call
on `c` makes is `Append(c, k)`. So the ranks agree on its name only if their
calls agree, which is what MPI does in secret. `calls[c][r]` is the log of the
collective calls of r on c; MPI pairs the k-th of each member, and none of them
returns when they are different calls. `Usable` and `Misuse` say what a call
does when MPI is not initialized, is finalized, or the handle is released: it
returns an error or ends the job, and `misused` remembers it.

`Communicators` has the Python object: handle, persistence, rank and size.
`comm_slice` and `SliceLength` follow `PySlice_GetIndices` and C's division;
`SlicesRight` is about bounds that are those of a rank, counted from either
end, and the run `session_claims` about the others. `Protected` is the test by which
`comm_free` spares handles that are not its own.

`Readline` is `parallelReadline` and `bcast_input_to_slaves`: barrier, size,
line, each a broadcast that rank 0 may leave early. A line is a record that says
what it does; input may end anywhere. `Eof` is an empty string, with a size
like any other; no string at all is what python takes for the user's interrupt
(`Interrupt`): rank 0 broadcasts that there is none, and every rank raises and
prompts again. A slave that returns nothing by itself, for want of memory or
because MPI is finalized, prompts again too. The jobs are a prompt, a script
read by every rank, and a feeder: a program of rank 0 that passes lines on.

`SynchronizedOutput` has the two calls of `pyMPI_comm_io.c`. Each rank has an
output of its own; what the launcher of the job makes of them is outside.
`Session` has the rest of what a line may do, and the way in and out:
`pyMPI_init`, `last_wish`, `readline_fini`, `sysmods_fini`, `shutdown` and the
end of `main`. `faults` records failures inside a collective operation and
scripts that an exception ends at some ranks; an exception at a prompt is none.
`CollectivesMatch`, `OutputKept`, `ReturnMeansWritten` and `SessionEnds` say so
in their condition, since a rank that has left a collective operation leaves the
others in it.

`InputStream` is the abstract specification: a line is read only when every
rank is through with every earlier one, and then each executes it once. Session
implements it with `idle` the ranks that are somewhere in `parallelReadline`.
After MPI is finalized at rank 0 the master reads on alone; a script has no
common input, so the mapping is constant there.

The run has two ranks and lines in three places: 12 that set something up, 12
that change it, and 12 that use it or leave. Every sequence of one from each
place is checked at the prompt, by a feeder, and as a script, save those that
`MCFollows` leaves out. Three lines are what the deepest interference takes:
make, alias or free, use. Left out are output on a communicator that some ranks
are not in, the freeing of an object with WORLD's handle, `sys.exit` after
`mpi.finalize`, and a `SystemExit` that the program raises by itself (unless
`sys.exit` has been called and caught before): the code does not do there what
it says. A passing property could only be weaker than the promise; the run
`session_claims` shows all of them but the last, which *Findings* describes.

### RemoteObjects

`made[r][k]` is the number that r has for the k-th object of its program,
`last_unique[r]` the last it has given out; the reduction that makes a number
(`remote_init`, `InitDone`) is left by the ranks one by one. `partial_message`
follows the destination as the code does: a list up to the first bad index, a
slice until the counter meets `stop`, which it may step over and count for
ever. `wire[q]` holds the parts under way from q, in the order of sending, with
the receiver in each: a call whose arguments do not fit into a header (`long`)
is a header and a body. A part also has its call, its position `n` in it and
whether it is the `body`, none of which is sent. `sends_posted[r]` are the
messages whose requests r keeps: the hook drops them all, since the request of
a send is true as soon as it is posted. A request of an object is a place in
`recvs_posted[r]`, with the parts it has received, and its object the same
place in `object_cache[r]`; `posted[r]` are the places with an MPI receive, in
the order in which MPI knows them. The hook posts the receive of a body
(`PostBody`) when it finds the header, for the header's source. `hook[r]` is
the place that `rco_housekeeping` looks at; between two places others may post
and MPI may match. `pending[r]` is an exception of a method that the next call
of the hook still finds.

All receives are for any source, so those of objects that share a communicator
and a tag take the parts of each other's calls. A request that has got
something else as a header, or a body that is not of its header, is
`HookGarbled`; the rank is `garbled` from then on and does not run its hook any
more: what `pyMPI_unpack` makes of such bytes is not modelled, but that they
come together is.

The run has three programs on two ranks: an object of one rank beside one of
both on another communicator, two objects that share the default tag, and a
communicator that numbers the ranks the other way round. The calls are one in
two parts to all ranks, one in one part to a sequence with a bad index, whose
method calls in turn, and one in two parts whose method raises. Two calls
suffice for them to overtake each other, to be served by the wrong object, or
for the body of one to come between the header and the body of the other.

### Generator and Pynamic

`stage` is the main process of `so_generator.py` and `config_pynamic.py`. The
pool takes as many tasks as it has processes; a compiler that fails takes its
worker along, and the task is lost. `Stale` is what an earlier build has left
in the directory. The driver is one process per rank: four barriers, the
imports, the visits, the fractal. `mpi` says which of the three wrappers it
uses, whose barriers are different. `StackHeights` is what an entry has on the
stack: a chain of its own functions (`Own`), and on top of any of them a chain
of a utility's (`Drawn`). The run's eight command lines have pools of none to
three, no utility, a call depth of 0, an average that gives a file without
functions, and both Pythons.

## What the runs check

| Run | Properties | What they say |
|---|---|---|
| `point_to_point` | `Intact`, `HeldBodyIsNext` | every object received is the one that was sent; a receive that waits for a body can only be given the body of its header |
| | `ReceiveFinishes` | a receive that holds a header ends when its sender is inside `send` |
| | `ImplementsObjectChannel` | the two-message calls implement the object channel |
| `requests` | `Intact` | a finished irecv holds the object whose header it matched |
| | `ToldSplitSendIsOver` | a split send that `test` calls complete is complete in both messages, although `test` looks at the second only |
| | `BuffersOutlive` | a request dropped before its send is over is kept, once, in `abandoned_requests` |
| | `BlockingCallsEnd` | a wait, a waitany or a waitsome whose header has come ends without help from the sender's program |
| `collectives` | `ResultsRight` | every call of every rank returns what it promises; a tree reduction whose root is not rank 0, the values of all ranks, each once |
| | `CollectivesMatch` | the MPI collectives of the ranks pair up in call, kind and root |
| | `MessagesAwaited` | no object outlives the call it was sent in, where a later call with its tag could take it |
| | `CutRight` | scatter's running remainder deals out near equal pieces |
| | `AllFinish` | every rank gets to the end of its program |
| `session` | `SlicesRight` | a slice of a communicator whose bounds are those of a rank, from either end, has the ranks its bounds say, for every size up to 4 and steps from -5 to 5 |
| | `CollectivesMatch` | the k-th collective call on a communicator is the same call at all of its members, whatever raises at some of them |
| | `MisuseIsTheProgram` | MPI is used before or after its time, or with a released handle, only through the program's doing |
| | `FinalizedAtEnd` | every process that ends without being killed has finalized MPI, and none does it twice |
| | `ReturnMeansWritten` | when a synchronized write returns at any rank, the master has written the texts of all, in rank order |
| | `OutputKept` | what a rank prints is at every moment in some rank's output, in its file or under way, exactly once |
| | `SessionEnds` | the session ends at every rank that has not cut itself off from the input by `mpi.finalize` |
| | `ImplementsInputStream` | the prompt keeps the ranks in step |
| `remote_objects` | `IdsUnique` | ranks agree on an object's number, and no rank has one twice |
| | `CallsRight` | a call is executed where it was sent, whole, once, in order, and by its object if that has its tag for itself |
| | `BodiesRight` | the request of such an object gets a header, and then the body of the same call |
| | `CallsExecuted` | and calls are executed in the end, unless they are behind a method that raises, a call in two parts was made on a shared tag, or a rank counts past a slice |
| `pynamic` | `LibrariesThere` | what is linked is there, and is of this build |
| | `VisitsRight` | an entry calls each function of its module once, and stacks no more than the depth asked for, and as many of a utility |
| | `TimesCoverAllMpi4py` | the times cover all ranks |
| | `EverythingEnds` | build and driver end, unless a worker of the pool is lost |

And the runs that must be violated:

| Run | Property | What is said, and is not so |
|---|---|---|
| `shift` | `ShiftCompletes` | every rank gets through a ring shift by `sendrecv` |
| `request_claims` | `SomeRequestClaimHolds` | `ToldSendIsOver`: a send that `test` calls complete is complete |
| | | `OverlappingReceivesIntact`: each of two irecvs has the object whose header it matched |
| | | `NoRankCrashes`: no rank dereferences a null pointer |
| | | `ExchangeCompletes`: two ranks get through `waitall([send, receive])` |
| `collective_claims` | `SomeCollectiveClaimHolds` | `CombinedInRankOrder`: a reduction combines the values in rank order |
| | | `AllgatherEnds`: all ranks get out of an allgather that raises at its root |
| `session_claims` | `SomeSessionClaimHolds` | `HeldByMembers`: output synchronized on a communicator waits for its members only |
| | | `WorldNotFreed`: no program releases pyMPI's own copy of MPI_COMM_WORLD |
| | | `FinalizedOnce`: no process finalizes MPI twice |
| | | `SlicesAreRanks`: a slice of a communicator has only ranks of it |
| | | `SlavesCutOff`: the session of every rank ends with the input |
| `remote_claims` | `SomeRemoteClaimHolds` | `CallsProcessed`: there comes a time when all calls to a rank are executed, at a rank with objects that share a tag, or at one with a method that raises |
| | | `SlicesEnd`: a call on a slice of ranks comes to an end |
| | | `SendsKept`: `sends_posted` has the requests of all messages under way |
| `driver_claims` | `SomeDriverClaimHolds` | `TimesCoverAll`: the times of the driver for pyMPI cover all ranks |
| | | `DepthKept`: no more than the depth asked for is on the stack |

The last five check a disjunction. Each disjunct is what the code's documents
claim of every behaviour. If only one of them did hold of every behaviour, so
would the disjunction, and a behaviour that violates it refutes them all: it is
one program in which each of the claims fails in its turn. To look at one
claim alone, name it in the configuration, as an INVARIANT if it is a state
predicate, in place of the disjunction.

Each run of a process model has one type invariant besides. That of
`RemoteObjects` says that the two lists the hook reads by one index stay in
step, that of `Session` that a rank is below the size of its communicator.

**Fairness.** A rank is a process that the operating system runs, so a step of
the C code that is enabled and stays so is taken: weak fairness of each rank's
steps. In `PointToPoint`, `Requests` and `Completion` it covers the steps
inside a call or a wait, and MPI's matching, but never the making of a call: a
program may stop. `MCShift`, `MCRequestClaims` and `MCRemoteClaims` have programs
of their own; the first two ask that these do make their calls. In `Collectives` and `Session` every rank runs its program, and
the fair steps are those with `early` false: MPI owes a send completion only
once its message is received, and a collective only once all ranks have called
it, so no property relies on buffering. Nor does `Session` count on MPI ending
the job because of a wrong call, or on the user to go on with the input: `Eof`
is always possible, and a rank that prompts takes some line. In `RemoteObjects`
the trace hook runs as long as Python executes (weak fairness), and a program
makes its objects: strong fairness of `remote_init`, since the hook, which runs
in between, disables it again and again. In `Pynamic` the main process, the
pool and each rank get on.

**Deadlock** is not checked: a program may stop anywhere, and a finished one
stands still. `ReceiveFinishes`, `BlockingCallsEnd`, `AllFinish`, `SessionEnds`,
`CallsExecuted` and `EverythingEnds` say what must not get stuck.

**Bounds.** `MaxCalls` of `PointToPoint` (two calls per rank), `MaxRequests`
(two requests, one for the second sender), `PREFIXCHARS` 1, the length of the
programs of `Collectives`, the three lines of `Session` (five, of
one choice each, in `MCSessionClaims`), and `MaxCalls` of `RemoteObjects` (calls made, and methods that
raise again). There are no clocks or counters to cap.

## Findings

Six runs show the code to do something other than what it is documented to.

`shift`:

- `sendrecv` exchanges headers with `MPI_Sendrecv` and then sends its body with
  a blocking `MPI_Send` before it receives the other's
  (`pyMPI_comm_message.c:197`). A ring of ranks that shift objects too long for
  a header stands still when MPI does not buffer the bodies.

`request_claims`:

- `request_test` looks at the request of the second message only
  (`pyMPI_request.c:104`), which is null for an object that fits into a header:
  `test` calls its send complete at once (against `pyMPI_request.c:78` and
  `pyMPI_comm_asynchronous.c:49`).
- Of two irecvs for the same source and tag posted one after the other, the
  second is given the body of the first one's object as its header
  (`pyMPI_comm_asynchronous.c:165`).
- `waitall([send, receive])` waits for the send first, and the body of a receive
  is asked for only in its own turn (`pyMPI_comm_asynchronous.c:554`): two ranks
  that exchange long objects this way wait for ever.
- An irecv of the empty string dereferences a null pointer
  (`pyMPI_request.c:39`, `pyMPI_util.c:241`).

`collective_claims`:

- When the root's gather raises, the pending exception makes the broadcast that
  the others wait for in allgather return before it calls MPI
  (`pyMPI_comm_collective.c:766`, against the comments at 1381 and 1391).
- A tree reduction combines the values from the root on
  (`pyMPI_comm_collective.c:475`), allreduce too, where the documentation has
  rank order (932), non-commutative operators (938) and no root (985).

`session_claims`:

- `synchronizeQueuedOutput` of a communicator has its barrier on MPI_COMM_WORLD
  (`pyMPI_comm_io.c:130`), and its members wait for ranks that have no part in
  it (161). In the run rank 1 has a null object of `cart_create` and calls the
  method on it, and the barrier ends; with `comm_create` it has None, raises,
  and rank 0 waits for ever.
- `free` tests for MPI_COMM_WORLD and MPI_COMM_NULL, while the object that
  programs have of WORLD has the handle of pyMPI's copy
  (`pyMPI_comm_misc.c:413`, against 410).
- `pyMPI_sysmods_fini` finalizes MPI if `sys.exit` was called
  (`pyMPI_sysmods.c:192`), after `mpi.finalize()` too (against
  `pyMPI_init.c:431`).
- `comm[-5:]` of four ranks is `[-1, 0, 1, 2, 3]` (`pyMPI_comm.c:447`, against
  391).
- After `mpi.finalize()` a slave's readline returns nothing, which is an
  interrupt and not the end of the input (`pyMPI_readline.c:144`; 77 has them cut
  off): it prompts again, and its process never ends.

`remote_claims`:

- Two remote objects with the default tag and a call that needs a body: the
  other object's receive gets the body, for a header (`pyMPI_rco.c:483`, against
  328).
- A remote method that raises keeps its request in the list, and is called
  again for ever; the next call is not received (`pyMPI_rco.c:383`).
- `obj[0:2:3]` counts past 2 (`pyMPI_rco.c:127`).
- `sends_posted` is emptied whenever the hook runs, since a send request is true
  from isend on (`pyMPI_rco.c:355`, against 26).

`driver_claims`:

- The driver's wrapper for pyMPI says `actual_mpi.barrier` without parentheses
  (`so_generator.py:446`): the barriers of the driver hold nobody back, and rank
  0 reports the imports finished while others still import.
- Module functions call utility functions with a chain of their own
  (`so_generator.py:145`): twice the "maximum Pynamic call stack depth"
  (`so_generator.py:477`).

Two more cannot come after the others in one session. A master whose
synchronized write raises goes past the barrier that its slaves are in
(`pyMPI_comm_io.c:350`, against 364); the model has it (`WriteNext`), and
`faults` excuses it. A `SystemExit` that is raised without `sys.exit` ends the
process without `MPI_Finalize` (`pyMPI_sysmods.c:192`, against
`pyMPI_init.c:431`); the model has it, too, and `MCFollows` leaves it out.

Read while modelling, and not in the model: `pyMPI_asynchronous_testall`
starts its `result_flag` at 0 and takes the conjunction with it
(`pyMPI_comm_asynchronous.c:298`), so it can only say that not all are complete;
the model has what it does to the requests, not what it returns. The usage
text of the generator takes the number of modules for `<num_files> -
<avg_num_u_functions>` (`so_generator.py:487`); it is `<num_files> -
<num_utility_mods>`.

## What is proved

All theorems hold for every value of the constants that satisfies the named
assumptions (`ProtocolAssumption`, `CallAssumption`, `RequestsAssumption`,
`PollsAssumption`, `CollectivesAssumption`, `NAssumption`, `LinesAssumption`,
`JobsAssumption`, `GridsAssumption`, `ProgramsAssumption`, `OptionsAssumption`
and their like), which say no more than what kind of thing each constant is,
and in `CollectivesAssumption` and `ProgramsAssumption` which calls a program
can write.

**PointToPoint_proofs.** `RoundTrip`: unpack undoes pack. `TypeCorrect`,
`DeliveredIntact` and `OnlyItsBody` are the invariants of the run, for any
number of ranks, tags and objects, any programs, any buffering. `Intact` is not
inductive: it says nothing of what is on the wire. The inductive invariant is
`IInv`, stated in `PointToPoint`:

- `WireInv`: on the log of a pair of ranks a body follows its header at once,
  unless the header is the last message and its sender is between the two
  posts; a body has its header just before it.
- `TakenInv`: what has been taken with one tag is a prefix of what was sent
  with it; a header taken without its body is held by its receiver.
- `HeldInv`: the header a receiver holds is taken, is a header, has the tag it
  remembers, and fits the call the receiver is in.
- `DeliveredInv`: headers taken are held or delivered, and delivered intact.

From these, the first message with the held header's source and tag that is not
taken is its body: earlier ones are taken (`TakenInv`), and the next one is the
body (`WireInv`). There is a lemma for each way in which the wire or the taken
set changes, and one step per action.

`Implements` is the refinement, in the same module: the initial states map to
initial states of `ObjectChannel`; posting a header is its `Send`, the step
that delivers an object is its `Receive`, and posting or taking a body changes
nothing it sees. Order comes from `TakenInOrder`, at-most-once from `HeldInv`.

**Collectives_proofs.** `CollectivesTypeCorrect` and `ScatterCutsRight`, for
any number of ranks, programs and lengths. The inductive invariant is a type
invariant together with `LocalOK(r)` for each rank: what the locals of a call
hold at each point of it (a list that is being catenated or scanned has one
entry per rank, scatter's root has its own piece once the loop is past it, the
running remainder is what `i` rounds leave). `Good(r)` is what a step of r must
establish: the types, its own `LocalOK`, and that it left the others' locals
alone; `LocalStepGood`, `ReturnGood` and `JoinGood` reduce each action to the
few conditions that are special to it.

`CollectivesPairUp` states `CollectivesMatch`. Two ranks are not compared with
each other but each with the program: `EntryOK` says that entry n of a rank's
log is what `Follows` the entry before, which is the next round of its call
(`NextKind`) or the first of the next call that has one (`Starts`). Whether a
bcast has a second round depends on what its root sent, so `After` reads the
root's own entry of the same number; that the root has one when the round ends
is `BcastOver`, and that it is the same for all is the invariant itself, one
entry earlier (`SameNext`). `PlaceOK` says how far the log is at each place in
a call, `OpOK` which calls can be at that place. An exception would break this:
what combines to one must not be in the bodies of a gather or in a tree
(`ValuesInv`). `NoneCutShort`, the hypothesis, leaves out the programs in which
the code does let an exception end a call before its bcast: allgather with an
object that cannot be unpacked (run `collective_claims`) and allreduce in tree order
with an operator that raises. The programs of the run `collectives` satisfy it,
and TLC evaluates it there.

`MessagesAlwaysAwaited` states `MessagesAwaited`. `Edge` says who sends whom a
message in a call, by the call alone: scatter's root to all, all to the
collecting root and, for scan, back, and in tree order each number to the one
without its lowest set bit. `SentIn` and `ReceivedIn` read from a rank's place
in its call (`pc`, the loop counter, the list collected so far) which of these
it has sent and received. `Out` and `In` are then the calls whose message a
rank has sent, or received, and `TrafficInv` says that a channel holds the
messages of `Out \ In`, in the order of the calls and with the tag of each
call. So the first message with the tag a rank waits for is that of its own
call (`GetsItsOwn`), and every step sends one message of `Edge`, receives one,
or does neither and leaves nothing undone (`Traffic`). For tree order this
needs some arithmetic of the masks, which are powers of two: `ParentEdge`,
`ChildEdge`, `RoundEdges`. The hypothesis, `NoTreeRaises`, leaves out the
programs in which an operator raises in tree order: the rank that raises
returns without its other children's messages. One program of the run
`collectives` is of this kind, and keeps the invariant because the rank that
raises has no more children.

**CollectivesResults_proofs.** `ResultsAlwaysRight` states `ResultsRight`, under
both hypotheses. `MatchInv` and `AwaitInv` say which message and which MPI
collective of another rank a rank gets; `ContentsInv` adds what is in them and
in its own hands. `Carried` is the object that one rank sends another in a call,
`Published` what the root of the call's bcast gives it, `InHand` what a rank has
collected and combined at each place: the first n numbers in rank order
(`FoldedTo`, `GatheredTo`), scatter's own piece, in tree order the block of
ranks from its number on up to as many as the mask says (`Block`). `Right(r)` is
what a step of r must do for that: send, give MPI, keep or return what is right.
`GotRight` and `GivenRight` say that what comes in then is, and there is one
lemma per action. The operators need lemmas of their own: combining goes on by
one number (`FoldedNext`, `GatheredNext`), two blocks of a tree that meet make
one (`BlocksMeet`), and the pieces that scatter's running remainder cuts are the
shares that `Owner` gives each rank by division (`OwnersPiece`, `ShareIsPiece`).
`Promised` states its sequences as functions, not by filtering or folding, so
none of this takes induction over data. The invariant has the order that the
tree really has; that the result of a rotated one has the contributions of all
ranks, each once, follows from it in the last step.

**Requests_proofs.** `AlwaysTyped`, `ToldSplitSendsAreOver` and
`AbandonedOutlive`, of `PollSpec`, for any programs and whatever liberties they
take. The inductive invariant `RequestsInv` is a conjunction of three parts.
`Core` relates the requests to the wire: a split send has two neighbouring
messages of one tag, a null handle of a send says that its message is gone, a
body is never taken before its header, and only receives are posted. `Lists`
and `Polling` say that `waiting`, `abandoned` and `polling` name requests that
exist, and that a send dropped too early is in `abandoned` exactly once. Every
step only adds to the wire and to what is taken from it, and keeps what a
request is about (`Advances`), so the handlers are lemmas of their own and the
lists follow from that. `ToldSplitSendsAreOver` assumes `HeadersAreSmall`: MPI
does not buffer bodies while it holds back headers.

**RequestsIntact_proofs.** `ReceivedIntact`: `Intact` for programs that take no
liberty (`Liberties = {}`; the run `request_claims` shows what a liberty leads to). The
receive of a body is posted late, among receives the program has posted in the
meantime, and knows its message by source and tag alone. `Matching` adds to
`RequestsInv` why that is enough:

- `PairsOK`, `InOrder`: a split object is a header and the body next to it, and
  messages of one tag are taken in the order in which they were sent.
- `Owned`: the first message of a tag that is not taken is a body only when one
  receive has its header and still waits for it.
- `Apart`: before pyMPI has seen that header, no other posted receive fits the
  body, since programs do not let their receives overlap.
- `QueuesOK`: once it has, the receive of the body is in the queue ahead of all
  receives of headers that fit it too.

So a header goes to a receive of a header (`HeaderGetsHeader`) and a body to the
receive that has its header (`BodyGoesToOwner`). There is one lemma per
handler; most of them only change a receive into one that is `Alike`.

**Session_proofs.** The session, for any number of ranks, any lines and any of
the three kinds of job. Its inductive invariant has five parts, each proved on
top of those before it. Most of the forty actions have nothing to do with a
given part, and one lemma per part says that such steps keep it (`Quiet`,
`Aside`, `Turns`, `Settled`, `Calm`); one lemma per handler says what it
changes.

- `LifeInv` gives `AlwaysFinalizedAtEnd` and `AlwaysUsedWhenReady`.
  `FinalizedAtEnd` is not inductive, because `mpi.finalize`, `sysmods_fini` and
  `shutdown` take turns at MPI, each trusting what the others have left.
  `LifeInv` relates, for each rank, where it is, what MPI has been told and how
  often it was finalized: before the way out only the program has finalized it,
  once (`OnceOK`); at each place on the way out it is finalized, or the rank
  still has no claim to (`EndOK`). `AlwaysFinalizedAtEnd` has a hypothesis,
  since the code keeps the promise only then: no program exits after
  `mpi.finalize`, or raises SystemExit without `sys.exit` (`EndsItself`).
- `CommInv`: which communicators exist and who is in them, what the handles of
  pyMPI and of the program's objects may be at each place (`HandlesOK`,
  `ThingOK`), and that between the collective call that makes a communicator
  and the object it is for, its target is still what it was (`MakeOK`).
- `StreamInv` gives the refinement `InputInStep`: Session implements
  `InputStream`. No rank sees how far another is; what relates them is the log
  of collective calls on the input communicator. A line takes three calls, an
  interrupt two: `Asked(n)` is what the first n lines take. `MasterCalls` and
  `SlaveCalls` say how many calls a rank has made at each place for the lines
  it has begun, and MPI's pairing of the k-th calls turns that into "the
  slaves are through with the line before" when rank 0's barrier returns.
  `LinesSent` says which broadcast carries which line. A slave that wants
  memory and prompts again (`Sized`) is in a barrier while rank 0 is in the
  broadcast of the line, or past it and in the next barrier, which is a later
  call. Rank 0 of a feeder may give up between the barrier and the broadcast
  (a bad argument): then its next call does not pair with what the slaves are
  in, and nobody reads again (`Stuck`). After MPI is finalized or killed at
  rank 0 the slaves have left, or are where no line reaches them.
- `OutInv`: the queues of output streams. With the parts before,
  `AlwaysTypeOK`.
- `FreshInv` gives `AlwaysMisuseIsTheProgram`. A handle is new when a rank gets
  it, because its name has a turn that the rank has not had on its parent
  (`Met`); so two objects have one handle only if the program wrapped it
  (`Unshared`), and a handle that one object has released is in no other. The
  hypothesis `ReleasesWorld` leaves out programs that free WORLD or what the
  constructor made of a handle: the run `session_claims` has one.

Besides, `SliceIsItsBounds` states for all sizes, bounds and steps what
`SlicesRight` asks of a few, and `AlwaysSlicesRight` follows: the length that
`comm_slice` works out is the number of steps that stay short of `stop`, since
what C's division rounds differently is a length that is zero or raises
(`QuotientCounts`).

**CollectivesMatch of a session is not a theorem.** That ranks pair their calls
on every communicator unless a failure is recorded is not true of every choice
of lines, so it stays with TLC for those of `MCSession`. Five lines at the
prompt refute it for two ranks: give WORLD's handle the second name `d`, create
`c` of rank 0, rebind `d` to `c.dup()`, free `d`, and create again of WORLD.
The third line raises at rank 1, which has no `c`, and there `d` is still
WORLD's handle; so rank 1 frees that while rank 0 frees its own duplicate, and
their next calls on it differ. The free releases WORLD's handle, which is what
the run `session_claims` is about, and it takes more than the three lines of the
run.

**RemoteObjects_proofs.** `IdsAlwaysUnique`. Ranks leave the reduction that
makes a number one by one and may be in the next before the last has left, so
the invariant says that a rank still in it has given out no number as large as
the one to come (`LastOK`) and that one that has left has seen all the others in
it (`SeenOK`). That the maximum of finitely many numbers exists is shown from
the well-foundedness of the naturals, on a concrete set.

`ListsAlwaysInStep` and `CallsAlwaysRight` state `TypeOK` and `CallsRight`, for
any number of ranks, any programs and communicators, and destinations of any
length. The inductive invariant `CInv` adds two parts to that of the numbers.
`StateOK` is what holds of each place by itself: `Waiting(r)` are the objects
that r serves, each once in `object_cache[r]`, with a request in the same
place; a place in `posted[r]` has at most one part; and whatever part is on the
wire, in a request or executed was sent (`Sent`) and is for the tag and the
communicator of the object it is with (`Meant`); what is executed is all of its
call (`Whole`). `InOrder` relates the places to each other. Two parts are
`Alike` when the same receives may take them; `Before` is the order of sending,
by call, position, and header before body. The last part of a request and what
has been executed are `Before` all that is alike on the wire (`Follow`), no two
requests have one part last, and what has been executed is in no request any
more, unless its method raises. Both are needed: that MPI takes the first of a
kind gives the order only if what was taken earlier is known to precede it, and
each object has one receive at a time only because the lists are in step. It
holds with shared tags and long calls, too: a rank that has taken a body for a
header executes nothing more. A method that calls others sends between the
execution and the new receive, so the conditions take the three places as
parameters, and `CallSent`, `MatchOrder` and `ExecuteOrder` are composed in
`ReturnsRest`. Of `partial_message` they need only that it gives a finite list
(`TargetsList`); which ranks are in it is for TLC's run to check, as is
`BodiesRight`.

**Pynamic_proofs.** `LibrariesAlwaysThere`, `VisitsAlwaysRight` and
`TimesAlwaysCoverAll`. `BuildInv` says what is built, archived and linked at
every stage of the main process while the pool goes on; `DriverInv` what a rank
has behind it in every part of the driver, and what rank 0 knows of the others.
`VisitsRight` follows from the arithmetic of chains: function i is called by the
entry if the call depth divides i and by its predecessor if it does not; and
that a chain has at most that many functions (`ChainsEnd`), in a module and in a
utility, since among so many numbers one is the last of a chain.

**Only model-checked.** Liveness (`ReceiveFinishes`, `BlockingCallsEnd`,
`AllFinish`, `SessionEnds`, `CallsExecuted`, `EverythingEnds`) is out of this
prover's reach, as is anything that needs `ENABLED`. `OutputKept`
and `ReturnMeansWritten` rest on `SelectSeq` and on folds, whose
recursion the provers cannot unfold; `CollectivesMatch` of a session, for the
reason above.

## What is left out

Of the modelled components:

- Protocol, point-to-point, requests: NumPy and Numeric types, arguments that
  do not parse, errors from MPI (they abort the job by default), reference
  counts; what testall and its kin return; test and wait of a request that has
  been cancelled, which look at a null request that MPI calls complete
  (`pyMPI_request.c:128`, 348).
- Collectives: values that cannot be pickled (that rank returns before it calls
  MPI, and the others wait: the comment at `pyMPI_comm_collective.c:104` admits
  it); the rank pairs of MINLOC and MAXLOC; an operator that raises on an inner
  rank of a tree reduction, which strands its parent (no document promises
  otherwise, so the passing run lets only the root raise); the width of C
  integers.
- Session: `-color=`; a host program that owns MPI and calls `pyMPI_Main`;
  input hooks and the flushing of prompts; exit statuses. A rank's own free of
  a communicator is taken as collective, as MPI has it. Communicators:
  compare, hash, coordinates and shifts of a grid.
- Output: how the launcher of a job merges the outputs of its processes, and so
  whether what slaves print comes between what the master writes.
- Remote objects: calls without a destination, keyword arguments, results; a
  slice with a step of 0, which sends to one rank for ever; what a rank does
  after it has read other bytes as a header or a body; `MaxCalls` bounds how
  often a method that raises is tried again.
- Pynamic: types and arguments of the generated functions, calls across
  modules, the length of names, the seeds; `configure`'s walk over
  subdirectories; a shared library and its object file are one file.

Not modelled at all: the table of reduction operators, which is filled once and
only searched; status objects and error macros; pickling, banners, distutils
glue, configuration and build files; `mpi_waitpid`; the file and map extensions,
which are stubs. `PROJECT.json` lists them with the reasons.
