-------------------------- MODULE Collectives_proofs --------------------------
(***************************************************************************)
(* Type correctness of the collectives, that scatter's loop cuts its       *)
(* sequence right, that the ranks' MPI collectives pair up, and that no    *)
(* message outlives its call, for any number of ranks and any programs.    *)
(*                                                                         *)
(* The inductive invariant of the first two, IInv, says of each rank what  *)
(* its locals hold at each point of a call; a step of one rank leaves the  *)
(* locals of the others alone.  That of the third, MatchInv, adds LogInv,  *)
(* each rank's log of MPI collectives against its program and its place in *)
(* it, and ValuesInv, where no exception can have come.  The fourth rests  *)
(* on AwaitInv: TrafficInv says which messages are in a channel, those of  *)
(* the calls in which the sender's place is past sending and the           *)
(* receiver's not past receiving, and AtInv in which calls a rank can be   *)
(* at a place.                                                             *)
(***************************************************************************)
EXTENDS Collectives, SequenceTheorems, TLAPS

JoinedPC == {"barrier", "native", "bcast", "bcastBody", "gather", "gatherBody"}

\* The locals c of scatter's loop after it has cut i pieces off n elements.
CutAfter(n, i, c) ==
    /\ c.end = i * (n \div N) + Lesser(i, n % N)
    /\ c.extras = (n % N) - Lesser(i, n % N)

\* What the locals of r hold when it is at "where" in a call on n elements.
LocalsOK(r, n, where, objects, i, c) ==
    /\ where \in {"catenate", "scan", "scanSend"} => Len(objects) = N
    /\ where \in {"tree", "treeSend"} => Len(objects) = 1
    /\ where \in {"scatter", "scatterSend"} => (i > r => Len(objects) = 1)
    /\ where = "scatter" => i <= N /\ CutAfter(n, i, c)
    /\ where = "scatterSend" => i < N /\ i # r /\ CutAfter(n, i + 1, c)

LocalOK(r) ==
    /\ pc[r] = "ready" => item[r] = 0
    /\ pc[r] # "ready" => Len(returned[r]) < Len(program) /\ Valid(r)
    /\ pc[r] \in JoinedPC => Len(joined[r]) >= 1
    /\ pc[r] = "native" => Now(r).op \in Reduction
    /\ LocalsOK(r, Now(r).length, pc[r], data[r], item[r], cut[r])

IInv == TypeOK /\ \A r \in Rank : LocalOK(r)

\* A step of r changes nothing that the other ranks' LocalOK depends on.
Elsewhere(r) ==
    /\ program' = program
    /\ \A q \in Rank \ {r} :
           /\ pc'[q] = pc[q] /\ data'[q] = data[q] /\ item'[q] = item[q]
           /\ cut'[q] = cut[q] /\ joined'[q] = joined[q] /\ returned'[q] = returned[q]

Good(r) == TypeOK' /\ LocalOK(r)' /\ Elsewhere(r)

-----------------------------------------------------------------------------
LEMMA ValuesAreResults ==
    /\ None \in Result /\ Raised \in Result /\ ErrorType \in Result /\ Null \in Result
    /\ Value(<<>>) \in Result
    /\ \A k, r \in Int : One(k, r) \in Result
    /\ \A c, x, y : x \in Result /\ y \in Result => Combine(c, x, y) \in Result
<1>1. ASSUME NEW k \in Int, NEW r \in Int PROVE One(k, r) \in Result
  <2>1. <<<<k, r>>>> \in Seq(Int \X Int)
    OBVIOUS
  <2>. QED
    BY <2>1 DEF One, Value, Result
<1>2. ASSUME NEW c, NEW x \in Result, NEW y \in Result PROVE Combine(c, x, y) \in Result
  <2>1. x.of \o y.of \in Seq(Int \X Int)
    BY DEF Result
  <2>2. Value(x.of \o y.of) \in Result
    BY <2>1 DEF Value, Result
  <2>3. None \in Result /\ Raised \in Result
    BY DEF Raised, None, Result
  <2>. QED
    BY <2>2, <2>3 DEF Combine, Apply
<1>3. Value(<<>>) \in Result /\ None \in Result /\ Raised \in Result /\ ErrorType \in Result
      /\ Null \in Result
  BY DEF None, Raised, ErrorType, Null, Value, Result
<1>. QED
  BY <1>1, <1>2, <1>3

\* The call that a rank is in.
LEMMA NowIsCall ==
    ASSUME TypeOK, NEW r \in Rank, Len(returned[r]) < Len(program)
    PROVE  /\ Now(r) \in Call /\ Here(r) \in Nat /\ Own(r) \in Result
           /\ program[Here(r)] = Now(r)
           /\ Now(r).op \in {"allgather", "message"} => Now(r).root \in Rank
<1>1. program \in Programs /\ program \in Seq(Call) /\ returned[r] \in Seq(Result)
  BY CollectivesAssumption DEF TypeOK
<1>2. Len(program) \in Nat /\ Len(returned[r]) \in Nat
  BY <1>1, LenProperties
<1>3. Here(r) \in 1..Len(program) /\ Here(r) \in Nat
  BY <1>2 DEF Here
<1>4. Now(r) \in Call
  BY <1>1, <1>3, ElementOfSeq DEF Now
<1>5. Own(r) \in Result
  BY <1>3, ValuesAreResults DEF Own, Rank
<1>6. program[Here(r)].op \in {"allgather", "message"} => program[Here(r)].root \in Rank
  BY <1>1, <1>3, CollectivesAssumption
<1>. QED
  BY <1>3, <1>4, <1>5, <1>6 DEF Now

LEMMA RankFacts == N \in Nat /\ N > 0 /\ Rank \subseteq Nat /\ 0 \in Rank
BY CollectivesAssumption DEF Rank

\* Every action that ends a call is Return, with what it leaves of chan and joined.
LEMMA ReturnGood ==
    ASSUME TypeOK, NEW r \in Rank, NEW v \in Result, Return(r, v), program' = program,
           chan' \in [Rank -> [Rank -> Seq(Message)]],
           joined' = joined
    PROVE  Good(r)
<1>1. returned' \in [Rank -> Seq(Result)] /\ data' \in [Rank -> Seq(Result)]
  BY DEF TypeOK, Return
<1>2. item' \in [Rank -> Nat] /\ pc' \in [Rank -> PC]
  BY DEF TypeOK, Return, Go, PC
<1>3. partial' \in [Rank -> Result]
  BY ValuesAreResults DEF TypeOK, Return
<1>4. cut' \in [Rank -> [end : Nat, extras : Nat]]
  BY DEF TypeOK, Return, NoCut
<1>5. TypeOK'
  BY <1>1, <1>2, <1>3, <1>4 DEF TypeOK
<1>6. pc'[r] = "ready" /\ item'[r] = 0
  BY DEF TypeOK, Return, Go
<1>7. LocalOK(r)'
  BY <1>6 DEF LocalOK, LocalsOK, JoinedPC
<1>8. Elsewhere(r)
  BY DEF TypeOK, Elsewhere, Return, Go
<1>. QED
  BY <1>5, <1>7, <1>8 DEF Good

\* Calling an MPI collective, after which pc is its kind.
LEMMA JoinGood ==
    ASSUME TypeOK, NEW r \in Rank, NEW v \in Result, NEW kind \in JoinedPC,
           kind = "native" => Now(r).op \in Reduction,
           Join(r, kind, v), Go(r, kind), Len(returned[r]) < Len(program), Valid(r),
           UNCHANGED <<program, data, item, partial, cut, chan, returned>>
    PROVE  Good(r)
<1>. DEFINE j == [kind |-> kind, root |-> Root(r), call |-> Here(r), val |-> v]
<1>1. j \in Joining
  <2>1. Len(returned[r]) \in Nat
    BY LenProperties DEF TypeOK
  <2>. QED
    BY <2>1 DEF Valid, Here, Joining, JoinedPC
<1>2. joined[r] \in Seq(Joining)
  BY DEF TypeOK
<1>3. Append(joined[r], j) \in Seq(Joining) /\ Len(Append(joined[r], j)) >= 1
  BY <1>1, <1>2, AppendProperties, LenProperties
<1>4. joined' = [joined EXCEPT ![r] = Append(joined[r], j)]
  BY DEF Join
<1>5. joined' \in [Rank -> Seq(Joining)] /\ Len(joined'[r]) >= 1
      /\ \A q \in Rank \ {r} : joined'[q] = joined[q]
  BY <1>3, <1>4 DEF TypeOK
<1>6. pc' \in [Rank -> PC] /\ pc'[r] = kind /\ \A q \in Rank \ {r} : pc'[q] = pc[q]
  BY DEF Go, JoinedPC, PC, TypeOK
<1>7. TypeOK'
  BY <1>5, <1>6 DEF TypeOK
<1>8. Elsewhere(r)
  BY <1>5, <1>6 DEF Elsewhere
<1>9. Valid(r)' /\ (Len(returned[r]) < Len(program))' /\ Now(r)' = Now(r)
  BY DEF Valid, Root, Now, Here
<1>10. LocalOK(r)'
  BY <1>5, <1>6, <1>9 DEF LocalOK, LocalsOK, JoinedPC
<1>. QED
  BY <1>7, <1>8, <1>10 DEF Good

-----------------------------------------------------------------------------
LEMMA SendType ==
    ASSUME TypeOK, NEW r \in Rank, NEW d \in Rank, NEW v \in Result,
           NEW tag \in {CollectTag, TreeTag, ScatterTag}, Send(r, d, tag, v)
    PROVE  chan' \in [Rank -> [Rank -> Seq(Message)]]
<1>1. Len(returned[r]) \in Nat
  BY LenProperties DEF TypeOK
<1>2. [tag |-> tag, call |-> Here(r), val |-> v] \in Message
  BY <1>1 DEF Message, Here
<1>. QED
  BY SMTT(30), <1>2 DEF Send, TypeOK

LEMMA ReceiveType ==
    ASSUME TypeOK, NEW s \in Rank, NEW d \in Rank, NEW tag,
           NEW i \in 1..Len(chan[s][d]), Receive(s, d, i, tag)
    PROVE  /\ chan' \in [Rank -> [Rank -> Seq(Message)]]
           /\ chan[s][d][i].val \in Result
<1>1. chan[s][d] \in Seq(Message) /\ Len(chan[s][d]) \in Nat
  BY LenProperties DEF TypeOK
<1>2. chan[s][d][i] \in Message
  BY <1>1, ElementOfSeq
<1>3. SubSeq(chan[s][d], 1, i - 1) \in Seq(Message)
      /\ SubSeq(chan[s][d], i + 1, Len(chan[s][d])) \in Seq(Message)
  BY <1>1, SubSeqProperties
<1>4. RemoveAt(chan[s][d], i) \in Seq(Message)
  BY <1>3, ConcatProperties DEF RemoveAt
<1>. QED
  BY <1>2, <1>4 DEF Receive, TypeOK, Message

\* What r's last MPI collective gave the ranks that are in it.
LEMMA GivenType ==
    ASSUME TypeOK, NEW r \in Rank, Len(joined[r]) >= 1
    PROVE  /\ \A q \in Rank : Len(joined[q]) >= Len(joined[r]) => Given(r, q) \in Result
           /\ \A n \in 0..N : (\A q \in 0..(n - 1) : Len(joined[q]) >= Len(joined[r])) =>
                  AllGiven(r, n) \in Seq(Result) /\ Len(AllGiven(r, n)) = n
<1>1. \A q \in Rank : joined[q] \in Seq(Joining) /\ Len(joined[q]) \in Nat
  BY LenProperties DEF TypeOK
<1>2. ASSUME NEW q \in Rank, Len(joined[q]) >= Len(joined[r])
      PROVE  Given(r, q) \in Result
  <2>1. Len(joined[r]) \in 1..Len(joined[q])
    BY <1>1, <1>2
  <2>2. joined[q][Len(joined[r])] \in Joining
    BY <1>1, <2>1, ElementOfSeq
  <2>. QED
    BY <2>2 DEF Given, Joining
<1>3. ASSUME NEW n \in 0..N, \A q \in 0..(n - 1) : Len(joined[q]) >= Len(joined[r])
      PROVE  AllGiven(r, n) \in Seq(Result) /\ Len(AllGiven(r, n)) = n
  <2>1. n \in Nat
    BY <1>3, RankFacts
  <2>2. ASSUME NEW q \in 1..n PROVE Given(r, q - 1) \in Result
    <3>1. q - 1 \in Rank /\ q - 1 \in 0..(n - 1)
      BY <2>1, RankFacts DEF Rank
    <3>. QED
      BY <1>2, <1>3, <3>1
  <2>. QED
    BY <2>1, <2>2 DEF AllGiven
<1>. QED
  BY <1>2, <1>3

LEMMA LocalFacts ==
    ASSUME IInv, NEW r \in Rank, pc[r] # "ready"
    PROVE  /\ TypeOK /\ LocalOK(r) /\ Len(returned[r]) < Len(program) /\ Root(r) \in Rank
           /\ Now(r) \in Call /\ Here(r) \in Nat /\ Own(r) \in Result
           /\ data[r] \in Seq(Result) /\ item[r] \in Nat /\ partial[r] \in Result
BY NowIsCall DEF IInv, LocalOK, LocalsOK, Valid, TypeOK

\* A call begins.
LEMMA BeginFacts ==
    ASSUME IInv, NEW r \in Rank, NEW ops, Begin(r, ops)
    PROVE  /\ TypeOK /\ pc[r] = "ready" /\ item[r] = 0
           /\ Len(returned[r]) < Len(program)
           /\ Now(r) \in Call /\ Here(r) \in Nat /\ Own(r) \in Result
           /\ Now(r).op \in {"allgather", "message"} => Now(r).root \in Rank
BY NowIsCall DEF IInv, LocalOK, LocalsOK, Begin

-----------------------------------------------------------------------------
LEMMA StartBcastGood ==
    ASSUME TypeOK, NEW r \in Rank, NEW v \in Result, StartBcast(r, v),
           Len(returned[r]) < Len(program), Root(r) \in Rank
    PROVE  Good(r)
BY JoinGood DEF StartBcast, JoinedPC, Valid

LEMMA CallsGood ==
    ASSUME IInv, NEW r \in Rank,
           RejectRoot(r) \/ CallBarrier(r) \/ CallBcast(r) \/ CallGather(r)
           \/ CallNative(r) \/ Bystander(r)
    PROVE  Good(r)
<1>1. CASE RejectRoot(r)
  BY <1>1, BeginFacts, ReturnGood, ValuesAreResults DEF RejectRoot, TypeOK
<1>2. CASE CallBarrier(r)
  BY <1>2, BeginFacts, JoinGood, ValuesAreResults DEF CallBarrier, JoinedPC
<1>3. CASE CallBcast(r)
  BY <1>3, BeginFacts, StartBcastGood DEF CallBcast, Valid
<1>4. CASE CallGather(r)
  BY <1>4, BeginFacts, JoinGood DEF CallGather, JoinedPC
<1>5. CASE CallNative(r)
  BY <1>5, BeginFacts, JoinGood DEF CallNative, Begin, JoinedPC
<1>6. CASE Bystander(r)
  BY <1>6, BeginFacts, ReturnGood, ValuesAreResults DEF Bystander, TypeOK
<1>. QED
  BY <1>1, <1>2, <1>3, <1>4, <1>5, <1>6

\* Nothing but pc and chan changes when a call starts with a message.
LEMMA MoveGood ==
    ASSUME IInv, NEW r \in Rank, NEW where \in PC \ (JoinedPC \cup
               {"ready", "catenate", "scan", "scanSend", "tree", "treeSend", "scatter", "scatterSend"}),
           Go(r, where), Len(returned[r]) < Len(program), Valid(r),
           chan' \in [Rank -> [Rank -> Seq(Message)]],
           UNCHANGED <<program, data, item, partial, cut, joined, returned>>
    PROVE  Good(r)
<1>1. pc' \in [Rank -> PC] /\ pc'[r] = where /\ \A q \in Rank \ {r} : pc'[q] = pc[q]
  BY DEF IInv, TypeOK, Go
<1>2. TypeOK'
  BY <1>1 DEF IInv, TypeOK
<1>3. Valid(r)' /\ (Len(returned[r]) < Len(program))'
  BY DEF Valid, Root, Now, Here
<1>4. LocalOK(r)'
  BY <1>1, <1>3 DEF LocalOK, LocalsOK, JoinedPC
<1>5. Elsewhere(r)
  BY <1>1 DEF Elsewhere
<1>. QED
  BY <1>2, <1>4, <1>5 DEF Good

LEMMA ReceivingCallsGood ==
    ASSUME IInv, NEW r \in Rank, CallReduce(r) \/ CallMessage(r)
    PROVE  Good(r)
<1>1. CASE CallReduce(r)
  <2>1. Root(r) \in Rank /\ Valid(r)
    BY <1>1 DEF CallReduce, Valid
  <2>2. TypeOK /\ Len(returned[r]) < Len(program) /\ Own(r) \in Result
    BY <1>1, BeginFacts DEF CallReduce
  <2>3. CASE IsRoot(r) /\ Go(r, "collect") /\ UNCHANGED chan
    BY <1>1, <2>1, <2>2, <2>3, MoveGood DEF CallReduce, TypeOK, PC, JoinedPC
  <2>4. CASE ~IsRoot(r) /\ Go(r, "collectSend") /\ Send(r, Root(r), CollectTag, Own(r))
    <3>1. chan' \in [Rank -> [Rank -> Seq(Message)]]
      BY <2>1, <2>2, <2>4, SendType
    <3>. QED
      BY <1>1, <2>1, <2>2, <2>4, <3>1, MoveGood DEF CallReduce, PC, JoinedPC
  <2>. QED
    BY <1>1, <2>3, <2>4 DEF CallReduce
<1>2. CASE CallMessage(r)
  <2>1. Begin(r, {"message"}) /\ Now(r).op = "message"
    BY <1>2 DEF CallMessage, Begin
  <2>2. TypeOK /\ Len(returned[r]) < Len(program) /\ Own(r) \in Result /\ Now(r).dest \in Rank
        /\ Valid(r)
    BY <2>1, BeginFacts DEF Call, Valid, Root
  <2>3. CASE IsRoot(r) /\ Go(r, "messageSend") /\ Send(r, Now(r).dest, ScatterTag, Own(r))
    <3>1. chan' \in [Rank -> [Rank -> Seq(Message)]]
      BY <2>2, <2>3, SendType
    <3>. QED
      BY <1>2, <2>2, <2>3, <3>1, MoveGood DEF CallMessage, PC, JoinedPC
  <2>4. CASE r = Now(r).dest /\ Go(r, "messageRecv") /\ UNCHANGED chan
    BY <1>2, <2>2, <2>4, MoveGood DEF CallMessage, TypeOK, PC, JoinedPC
  <2>. QED
    BY <1>2, <2>3, <2>4 DEF CallMessage
<1>. QED
  BY <1>1, <1>2

-----------------------------------------------------------------------------
LEMMA BcastOverGives ==
    ASSUME IInv, NEW r \in Rank, NEW early, pc[r] \in {"bcast", "bcastBody"}, BcastOver(r, early)
    PROVE  Given(r, Root(r)) \in Result
<1>1. Root(r) \in Rank /\ Len(joined[r]) >= 1 /\ TypeOK
  BY LocalFacts DEF LocalOK, LocalsOK, JoinedPC
<1>2. Len(joined[Root(r)]) >= Len(joined[r])
  BY <1>1 DEF BcastOver, Over
<1>. QED
  BY <1>1, <1>2, GivenType

LEMMA ReturnBcastGood ==
    ASSUME TypeOK, NEW r \in Rank, NEW v \in Result, ReturnBcast(r, v),
           UNCHANGED <<program, chan, joined>>
    PROVE  Good(r)
BY ReturnGood, ValuesAreResults DEF ReturnBcast, TypeOK

LEMMA BarrierAndBcastGood ==
    ASSUME IInv, NEW r \in Rank, NEW early,
           BarrierDone(r) \/ BcastDone(r, early) \/ BcastBodyDone(r, early)
    PROVE  Good(r)
<1>1. CASE BarrierDone(r)
  BY <1>1, ReturnGood, ValuesAreResults DEF BarrierDone, IInv, TypeOK
<1>2. CASE BcastDone(r, early)
  <2>. DEFINE v == Given(r, Root(r))
  <2>1. pc[r] = "bcast" /\ BcastOver(r, early) /\ UNCHANGED <<program, chan>>
    BY <1>2 DEF BcastDone
  <2>2. v \in Result /\ TypeOK /\ Len(returned[r]) < Len(program) /\ Valid(r)
    BY <2>1, BcastOverGives, LocalFacts DEF Valid
  <2>3. CASE Join(r, "bcastBody", v) /\ Go(r, "bcastBody")
             /\ UNCHANGED <<data, item, partial, cut, returned>>
    BY <2>1, <2>2, <2>3, JoinGood DEF JoinedPC
  <2>4. CASE ReturnBcast(r, v) /\ UNCHANGED joined
    BY <2>1, <2>2, <2>4, ReturnBcastGood
  <2>. QED
    BY <1>2, <2>3, <2>4 DEF BcastDone
<1>3. CASE BcastBodyDone(r, early)
  BY <1>3, BcastOverGives, ReturnBcastGood DEF BcastBodyDone, IInv
<1>. QED
  BY <1>1, <1>2, <1>3

LEMMA GatherGood ==
    ASSUME IInv, NEW r \in Rank, NEW early,
           GatherDone(r, early) \/ GatherBodyDone(r, early) \/ Catenate(r) \/ GatherEnds(r)
    PROVE  Good(r)
<1>1. CASE GatherDone(r, early)
  BY <1>1, LocalFacts, JoinGood DEF GatherDone, JoinedPC, Valid
<1>2. CASE GatherBodyDone(r, early)
  <2>1. pc[r] = "gatherBody" /\ GatherOver(r, early)
    BY <1>2 DEF GatherBodyDone
  <2>2. TypeOK /\ Len(returned[r]) < Len(program) /\ Root(r) \in Rank /\ Len(joined[r]) >= 1
    BY <2>1, LocalFacts DEF LocalOK, LocalsOK, JoinedPC
  <2>3. CASE /\ IsRoot(r)
             /\ data' = [data EXCEPT ![r] = AllGiven(r, N)]
             /\ partial' = [partial EXCEPT ![r] = Value(<<>>)]
             /\ Go(r, "catenate")
             /\ UNCHANGED <<program, item, cut, chan, joined, returned>>
    <3>1. \A q \in 0..(N - 1) : Len(joined[q]) >= Len(joined[r])
      BY <2>1, <2>3 DEF GatherOver, Over, Rank
    <3>2. AllGiven(r, N) \in Seq(Result) /\ Len(AllGiven(r, N)) = N
      <4>1. N \in 0..N
        BY RankFacts
      <4>. QED
        BY <2>2, <3>1, <4>1, GivenType
    <3>3. data' \in [Rank -> Seq(Result)] /\ Len(data'[r]) = N
          /\ \A q \in Rank \ {r} : data'[q] = data[q]
      BY <2>2, <2>3, <3>2 DEF TypeOK
    <3>4. partial' \in [Rank -> Result]
      BY <2>2, <2>3, ValuesAreResults DEF TypeOK
    <3>5. pc' \in [Rank -> PC] /\ pc'[r] = "catenate" /\ \A q \in Rank \ {r} : pc'[q] = pc[q]
      BY <2>2, <2>3 DEF TypeOK, Go, PC
    <3>6. TypeOK'
      BY <2>2, <2>3, <3>3, <3>4, <3>5 DEF TypeOK
    <3>7. Valid(r)' /\ (Len(returned[r]) < Len(program))'
      BY <2>2, <2>3 DEF Valid, Root, Now, Here
    <3>8. LocalOK(r)'
      BY <3>3, <3>5, <3>7 DEF LocalOK, LocalsOK, JoinedPC
    <3>9. Elsewhere(r)
      BY <2>3, <3>3, <3>5 DEF Elsewhere
    <3>. QED
      BY <3>6, <3>8, <3>9 DEF Good
  <2>4. CASE Return(r, None) /\ UNCHANGED <<program, chan, joined>>
    BY <2>2, <2>4, ReturnGood, ValuesAreResults DEF TypeOK
  <2>5. CASE StartBcast(r, None)
    BY <2>2, <2>5, StartBcastGood, ValuesAreResults
  <2>. QED
    BY <1>2, <2>3, <2>4, <2>5 DEF GatherBodyDone
<1>3. CASE Catenate(r)
  <2>1. pc[r] = "catenate" /\ item[r] < N
    BY <1>3 DEF Catenate
  <2>2. TypeOK /\ LocalOK(r) /\ data[r] \in Seq(Result) /\ Len(data[r]) = N
        /\ item[r] \in Nat /\ partial[r] \in Result
    BY <2>1, LocalFacts DEF LocalOK, LocalsOK
  <2>3. data[r][item[r] + 1] \in Result
    BY <2>1, <2>2, ElementOfSeq, RankFacts
  <2>4. partial' \in [Rank -> Result]
    BY <1>3, <2>2, <2>3, ValuesAreResults DEF Catenate, TypeOK
  <2>5. item' \in [Rank -> Nat] /\ \A q \in Rank \ {r} : item'[q] = item[q]
    BY <1>3, <2>2 DEF Catenate, TypeOK
  <2>6. UNCHANGED <<program, pc, data, cut, chan, joined, returned>>
    BY <1>3 DEF Catenate
  <2>7. TypeOK'
    BY <2>2, <2>4, <2>5, <2>6 DEF TypeOK
  <2>8. LocalOK(r)'
    BY <2>1, <2>2, <2>6 DEF LocalOK, LocalsOK, Valid, Root, Now, Here, JoinedPC
  <2>. QED
    BY <2>5, <2>6, <2>7, <2>8 DEF Good, Elsewhere
<1>4. CASE GatherEnds(r)
  <2>1. pc[r] = "catenate"
    BY <1>4 DEF GatherEnds
  <2>2. TypeOK /\ Len(returned[r]) < Len(program) /\ Root(r) \in Rank /\ partial[r] \in Result
    BY <2>1, LocalFacts
  <2>3. CASE Return(r, partial[r]) /\ UNCHANGED <<program, chan, joined>>
    BY <2>2, <2>3, ReturnGood DEF TypeOK
  <2>4. CASE StartBcast(r, partial[r])
    BY <2>2, <2>4, StartBcastGood
  <2>. QED
    BY <1>4, <2>3, <2>4 DEF GatherEnds
<1>. QED
  BY <1>1, <1>2, <1>3, <1>4

-----------------------------------------------------------------------------
\* A step inside a call changes where r is, its objects, its counter, what it
\* has combined and its cut; the others may look on.
LEMMA LocalStepGood ==
    ASSUME TypeOK, NEW r \in Rank, Len(returned[r]) < Len(program), Valid(r),
           NEW where \in PC \ (JoinedPC \cup {"ready"}),
           NEW objects \in Seq(Result), NEW i \in Nat, NEW v \in Result,
           NEW c \in [end : Nat, extras : Nat],
           pc' = [pc EXCEPT ![r] = where], data' = [data EXCEPT ![r] = objects],
           item' = [item EXCEPT ![r] = i], partial' = [partial EXCEPT ![r] = v],
           cut' = [cut EXCEPT ![r] = c],
           chan' \in [Rank -> [Rank -> Seq(Message)]],
           UNCHANGED <<program, joined, returned>>,
           LocalsOK(r, Now(r).length, where, objects, i, c)
    PROVE  Good(r)
<1>1. TypeOK'
  BY DEF TypeOK
<1>2. /\ pc'[r] = where /\ data'[r] = objects /\ item'[r] = i /\ cut'[r] = c
      /\ \A q \in Rank \ {r} : pc'[q] = pc[q] /\ data'[q] = data[q] /\ item'[q] = item[q]
                               /\ cut'[q] = cut[q]
  BY DEF TypeOK
<1>3. Valid(r)' /\ (Len(returned[r]) < Len(program))' /\ Now(r)' = Now(r)
  BY DEF Valid, Root, Now, Here
<1>4. LocalsOK(r, Now(r).length, pc[r], data[r], item[r], cut[r])'
  BY <1>2, <1>3 DEF LocalsOK, CutAfter
<1>5. LocalOK(r)'
  BY <1>2, <1>3, <1>4 DEF LocalOK, JoinedPC
<1>6. Elsewhere(r)
  BY <1>2 DEF Elsewhere
<1>. QED
  BY <1>1, <1>5, <1>6 DEF Good

-----------------------------------------------------------------------------
\* The arithmetic of scatter's loop.
LEMMA CutAdvances ==
    ASSUME NEW n \in Nat, NEW i \in 0..(N - 1), NEW c \in [end : Nat, extras : Nat],
           CutAfter(n, i, c)
    PROVE  LET end == c.end + n \div N + (IF c.extras > 0 THEN 1 ELSE 0)
               d == [end |-> end, extras |-> IF c.extras > 0 THEN c.extras - 1 ELSE 0]
           IN  /\ d \in [end : Nat, extras : Nat]
               /\ CutAfter(n, i + 1, d)
<1>. DEFINE end == c.end + n \div N + (IF c.extras > 0 THEN 1 ELSE 0)
            d == [end |-> end, extras |-> IF c.extras > 0 THEN c.extras - 1 ELSE 0]
<1>1. n \div N \in Nat /\ n % N \in Nat /\ i \in Nat
  BY RankFacts
<1>2. PICK per \in Nat, left \in Nat : per = n \div N /\ left = n % N
  BY <1>1
<1>3. (i + 1) * per = i * per + per
  BY <1>1
<1>4. i * per \in Nat
  BY <1>1
<1>5. c.end = i * per + Lesser(i, left) /\ c.extras = left - Lesser(i, left)
  BY <1>2 DEF CutAfter
<1>6. d \in [end : Nat, extras : Nat]
  BY <1>2
<1>7. d.end = (i + 1) * per + Lesser(i + 1, left) /\ d.extras = left - Lesser(i + 1, left)
  BY <1>1, <1>2, <1>3, <1>4, <1>5 DEF Lesser
<1>. QED
  BY <1>2, <1>6, <1>7 DEF CutAfter

LEMMA SliceIsResult ==
    ASSUME NEW k \in Nat, NEW start \in Nat, NEW end \in Nat, end >= start
    PROVE  Slice(k, start, end) \in Result
<1>1. end - start \in Nat
  OBVIOUS
<1>2. [j \in 1..(end - start) |-> <<k, start + j - 1>>] \in Seq(Int \X Int)
  BY <1>1
<1>. QED
  BY <1>2 DEF Slice, Value, Result

\* One round of scatter's loop at the root.
LEMMA RoundFacts ==
    ASSUME IInv, NEW r \in Rank, pc[r] = "scatter", item[r] \in Rank, NextCut(r)
    PROVE  /\ Piece(r) \in Result
           /\ \E c \in [end : Nat, extras : Nat] :
                  /\ cut' = [cut EXCEPT ![r] = c]
                  /\ CutAfter(Now(r).length, item[r] + 1, c)
<1>. DEFINE c == cut[r]
            d == [end    |-> NextEnd(r),
                  extras |-> IF c.extras > 0 THEN c.extras - 1 ELSE 0]
<1>1. TypeOK /\ LocalOK(r) /\ Now(r) \in Call /\ Here(r) \in Nat
  BY LocalFacts
<1>2. c \in [end : Nat, extras : Nat] /\ Now(r).length \in Nat
      /\ item[r] \in 0..(N - 1) /\ CutAfter(Now(r).length, item[r], c)
  BY <1>1 DEF TypeOK, LocalOK, LocalsOK, Call, Rank
<1>3. d \in [end : Nat, extras : Nat] /\ CutAfter(Now(r).length, item[r] + 1, d)
  BY <1>2, CutAdvances DEF NextEnd
<1>4. NextEnd(r) \in Nat /\ NextEnd(r) >= c.end
  BY <1>2, RankFacts DEF NextEnd
<1>5. Piece(r) \in Result
  BY <1>1, <1>2, <1>4, SliceIsResult, ValuesAreResults DEF Piece
<1>6. cut' = [cut EXCEPT ![r] = d]
  BY DEF NextCut
<1>. QED
  BY <1>3, <1>5, <1>6

\* What a step inside a call leaves alone it may be said to set as it was.
LEMMA AsItWas ==
    ASSUME TypeOK, NEW r \in Rank
    PROVE  /\ pc = [pc EXCEPT ![r] = pc[r]] /\ data = [data EXCEPT ![r] = data[r]]
           /\ item = [item EXCEPT ![r] = item[r]]
           /\ partial = [partial EXCEPT ![r] = partial[r]] /\ cut = [cut EXCEPT ![r] = cut[r]]
BY DEF TypeOK

LEMMA LocalTypes ==
    ASSUME TypeOK, NEW r \in Rank
    PROVE  /\ data[r] \in Seq(Result) /\ item[r] \in Nat /\ partial[r] \in Result
           /\ cut[r] \in [end : Nat, extras : Nat] /\ joined[r] \in Seq(Joining)
           /\ chan \in [Rank -> [Rank -> Seq(Message)]]
BY DEF TypeOK

LEMMA ScatterGood ==
    ASSUME IInv, NEW r \in Rank, NEW early,
           CallScatter(r) \/ ScatterKeep(r) \/ ScatterSend(r) \/ ScatterSent(r, early)
    PROVE  Good(r)
<1>1. CASE CallScatter(r)
  <2>1. TypeOK /\ item[r] = 0 /\ Len(returned[r]) < Len(program) /\ Valid(r)
        /\ Now(r).length \in Nat
    BY <1>1, BeginFacts DEF CallScatter, Call
  <2>2. UNCHANGED <<program, data, item, partial, chan, joined, returned>>
    BY <1>1 DEF CallScatter
  <2>3. CASE IsRoot(r) /\ Go(r, "scatter")
             /\ cut' = [cut EXCEPT ![r] = [end |-> 0, extras |-> Now(r).length % N]]
    <3>. DEFINE c == [end |-> 0, extras |-> Now(r).length % N]
    <3>1. Now(r).length \div N \in Nat /\ Now(r).length % N \in Nat
      BY <2>1, RankFacts
    <3>2. c \in [end : Nat, extras : Nat]
      BY <3>1
    <3>3. 0 * (Now(r).length \div N) = 0
      BY <3>1
    <3>4. CutAfter(Now(r).length, 0, c)
      BY <3>1, <3>3 DEF CutAfter, Lesser
    <3>5. r \in Nat /\ N \in Nat
      BY RankFacts
    <3>6. LocalsOK(r, Now(r).length, "scatter", data[r], item[r], c)
      BY <2>1, <3>4, <3>5 DEF LocalsOK
    <3>7. pc' = [pc EXCEPT ![r] = "scatter"] /\ "scatter" \in PC \ (JoinedPC \cup {"ready"})
      BY <2>3 DEF Go, PC, JoinedPC
    <3>8. cut' = [cut EXCEPT ![r] = c]
      BY <2>3
    <3>9. /\ data' = [data EXCEPT ![r] = data[r]] /\ item' = [item EXCEPT ![r] = item[r]]
          /\ partial' = [partial EXCEPT ![r] = partial[r]]
          /\ chan' \in [Rank -> [Rank -> Seq(Message)]]
      BY <2>1, <2>2, AsItWas, LocalTypes
    <3>10. data[r] \in Seq(Result) /\ item[r] \in Nat /\ partial[r] \in Result
      BY <2>1, LocalTypes
    <3>. HIDE DEF c
    <3>. QED
      BY <2>1, <2>2, <3>2, <3>6, <3>7, <3>8, <3>9, <3>10, LocalStepGood
  <2>4. CASE ~IsRoot(r) /\ Go(r, "scatterRecv") /\ UNCHANGED cut
    BY <2>1, <2>2, <2>4, LocalTypes, MoveGood DEF PC, JoinedPC
  <2>. QED
    BY <1>1, <2>3, <2>4 DEF CallScatter
<1>2. CASE ScatterKeep(r)
  <2>1. pc[r] = "scatter" /\ item[r] = r /\ NextCut(r) /\ item[r] \in Rank
    BY <1>2 DEF ScatterKeep
  <2>2. /\ TypeOK /\ Len(returned[r]) < Len(program) /\ Valid(r) /\ item[r] \in Nat
        /\ Piece(r) \in Result
    BY <2>1, LocalFacts, RoundFacts DEF Valid
  <2>3. PICK c \in [end : Nat, extras : Nat] :
            cut' = [cut EXCEPT ![r] = c] /\ CutAfter(Now(r).length, item[r] + 1, c)
    BY <2>1, RoundFacts
  <2>4. <<Piece(r)>> \in Seq(Result) /\ Len(<<Piece(r)>>) = 1
    BY <2>2
  <2>5. item[r] + 1 \in Nat /\ item[r] + 1 <= N
    BY <2>1, <2>2, RankFacts DEF Rank
  <2>6. LocalsOK(r, Now(r).length, "scatter", <<Piece(r)>>, item[r] + 1, c)
    BY <2>3, <2>4, <2>5 DEF LocalsOK
  <2>7. /\ data' = [data EXCEPT ![r] = <<Piece(r)>>] /\ item' = [item EXCEPT ![r] = item[r] + 1]
        /\ UNCHANGED <<program, pc, partial, chan, joined, returned>>
    BY <1>2 DEF ScatterKeep
  <2>8. pc' = [pc EXCEPT ![r] = "scatter"] /\ "scatter" \in PC \ (JoinedPC \cup {"ready"})
    BY <2>1, <2>2, <2>7, AsItWas DEF PC, JoinedPC
  <2>. QED
    BY <2>2, <2>3, <2>4, <2>5, <2>6, <2>7, <2>8, AsItWas, LocalTypes, LocalStepGood
<1>3. CASE ScatterSend(r)
  <2>1. pc[r] = "scatter" /\ item[r] \in Rank \ {r} /\ NextCut(r)
    BY <1>3 DEF ScatterSend
  <2>2. /\ TypeOK /\ LocalOK(r) /\ Len(returned[r]) < Len(program) /\ Valid(r)
        /\ item[r] \in Nat /\ Piece(r) \in Result
    BY <2>1, LocalFacts, RoundFacts DEF Valid
  <2>3. PICK c \in [end : Nat, extras : Nat] :
            cut' = [cut EXCEPT ![r] = c] /\ CutAfter(Now(r).length, item[r] + 1, c)
    BY <2>1, RoundFacts
  <2>4. item[r] < N
    BY <2>1, RankFacts DEF Rank
  <2>5. LocalsOK(r, Now(r).length, "scatterSend", data[r], item[r], c)
    BY <2>1, <2>2, <2>3, <2>4 DEF LocalOK, LocalsOK
  <2>6. chan' \in [Rank -> [Rank -> Seq(Message)]]
    BY <1>3, <2>1, <2>2, SendType DEF ScatterSend
  <2>7. /\ pc' = [pc EXCEPT ![r] = "scatterSend"]
        /\ UNCHANGED <<program, data, item, partial, joined, returned>>
        /\ "scatterSend" \in PC \ (JoinedPC \cup {"ready"})
    BY <1>3 DEF ScatterSend, Go, PC, JoinedPC
  <2>8. data' = [data EXCEPT ![r] = data[r]] /\ item' = [item EXCEPT ![r] = item[r]]
        /\ partial' = [partial EXCEPT ![r] = partial[r]]
    BY <2>2, <2>7, AsItWas
  <2>9. data[r] \in Seq(Result) /\ partial[r] \in Result
    BY <2>2, LocalTypes
  <2>. QED
    BY <2>2, <2>3, <2>5, <2>6, <2>7, <2>8, <2>9, LocalStepGood
<1>4. CASE ScatterSent(r, early)
  <2>1. pc[r] = "scatterSend"
    BY <1>4 DEF ScatterSent
  <2>2. /\ TypeOK /\ LocalOK(r) /\ Len(returned[r]) < Len(program) /\ Valid(r) /\ item[r] \in Nat
    BY <2>1, LocalFacts DEF Valid
  <2>3. item[r] < N /\ item[r] # r /\ (item[r] > r => Len(data[r]) = 1)
        /\ CutAfter(Now(r).length, item[r] + 1, cut[r])
    BY <2>1, <2>2 DEF LocalOK, LocalsOK
  <2>4. item[r] + 1 \in Nat /\ item[r] + 1 <= N /\ (item[r] + 1 > r => item[r] > r)
    BY <2>2, <2>3, RankFacts
  <2>5. LocalsOK(r, Now(r).length, "scatter", data[r], item[r] + 1, cut[r])
    BY <2>3, <2>4 DEF LocalsOK
  <2>6. /\ pc' = [pc EXCEPT ![r] = "scatter"] /\ item' = [item EXCEPT ![r] = item[r] + 1]
        /\ UNCHANGED <<program, data, partial, cut, chan, joined, returned>>
        /\ "scatter" \in PC \ (JoinedPC \cup {"ready"})
    BY <1>4 DEF ScatterSent, Go, PC, JoinedPC
  <2>7. data' = [data EXCEPT ![r] = data[r]] /\ cut' = [cut EXCEPT ![r] = cut[r]]
        /\ partial' = [partial EXCEPT ![r] = partial[r]]
    BY <2>2, <2>6, AsItWas
  <2>8. /\ data[r] \in Seq(Result) /\ partial[r] \in Result
        /\ cut[r] \in [end : Nat, extras : Nat] /\ chan' \in [Rank -> [Rank -> Seq(Message)]]
    BY <2>2, <2>6, LocalTypes
  <2>. QED
    BY <2>2, <2>4, <2>5, <2>6, <2>7, <2>8, LocalStepGood
<1>. QED
  BY <1>1, <1>2, <1>3, <1>4

\* scatter returns.
LEMMA ScatterReturnsGood ==
    ASSUME IInv, NEW r \in Rank, ScatterDone(r) \/ ScatterRecv(r)
    PROVE  Good(r)
<1>1. CASE ScatterDone(r)
  <2>1. pc[r] = "scatter" /\ item[r] = N /\ N > r
    BY <1>1, RankFacts DEF ScatterDone, Rank
  <2>2. TypeOK /\ data[r] \in Seq(Result) /\ Len(data[r]) = 1
    BY <2>1, LocalFacts DEF LocalOK, LocalsOK
  <2>3. data[r][1] \in Result
    BY <2>2, ElementOfSeq
  <2>. QED
    BY <1>1, <2>2, <2>3, ReturnGood, LocalTypes DEF ScatterDone
<1>2. CASE ScatterRecv(r)
  <2>1. TypeOK /\ Root(r) \in Rank
    BY <1>2, LocalFacts DEF ScatterRecv
  <2>2. PICK i \in 1..Len(chan[Root(r)][r]) :
            Receive(Root(r), r, i, ScatterTag) /\ Return(r, chan[Root(r)][r][i].val)
    BY <1>2 DEF ScatterRecv
  <2>3. /\ chan' \in [Rank -> [Rank -> Seq(Message)]]
        /\ chan[Root(r)][r][i].val \in Result
    BY <2>1, <2>2, ReceiveType
  <2>. QED
    BY <1>2, <2>1, <2>2, <2>3, ReturnGood DEF ScatterRecv
<1>. QED
  BY <1>1, <1>2

-----------------------------------------------------------------------------
LEMMA NativeGood ==
    ASSUME IInv, NEW r \in Rank, NEW early, NativeDone(r, early)
    PROVE  Good(r)
<1>1. pc[r] = "native" /\ Over(r, 0..(Combines(r) - 1), early)
      /\ UNCHANGED <<program, chan, joined>>
  BY DEF NativeDone
<1>2. TypeOK /\ LocalOK(r) /\ Len(returned[r]) < Len(program) /\ Valid(r)
      /\ Now(r).op \in Reduction /\ Len(joined[r]) >= 1
  BY <1>1, LocalFacts DEF LocalOK, JoinedPC, Valid
<1>3. Combines(r) \in 0..N
  BY <1>2, RankFacts DEF Combines, Reduction, Rank
<1>4. CASE Combines(r) = 0 /\ Return(r, None)
  BY <1>1, <1>2, <1>4, ReturnGood, LocalTypes, ValuesAreResults
<1>5. CASE /\ data' = [data EXCEPT ![r] = AllGiven(r, Combines(r))]
           /\ Go(r, "fold")
           /\ UNCHANGED <<item, partial, cut, returned>>
  <2>1. \A q \in 0..(Combines(r) - 1) : Len(joined[q]) >= Len(joined[r])
    BY <1>1, <1>3, RankFacts DEF Over, Rank
  <2>2. AllGiven(r, Combines(r)) \in Seq(Result)
    BY <1>2, <1>3, <2>1, GivenType
  <2>3. pc' = [pc EXCEPT ![r] = "fold"] /\ "fold" \in PC \ (JoinedPC \cup {"ready"})
    BY <1>5 DEF Go, PC, JoinedPC
  <2>4. /\ item' = [item EXCEPT ![r] = item[r]] /\ cut' = [cut EXCEPT ![r] = cut[r]]
        /\ partial' = [partial EXCEPT ![r] = partial[r]]
    BY <1>2, <1>5, AsItWas
  <2>5. /\ item[r] \in Nat /\ partial[r] \in Result
        /\ cut[r] \in [end : Nat, extras : Nat] /\ chan' \in [Rank -> [Rank -> Seq(Message)]]
    BY <1>1, <1>2, LocalTypes
  <2>6. LocalsOK(r, Now(r).length, "fold", AllGiven(r, Combines(r)), item[r], cut[r])
    BY DEF LocalsOK
  <2>. QED
    BY <1>1, <1>2, <1>5, <2>2, <2>3, <2>4, <2>5, <2>6, LocalStepGood
<1>. QED
  BY <1>4, <1>5 DEF NativeDone

LEMMA FoldGood ==
    ASSUME IInv, NEW r \in Rank, Fold(r) \/ FoldDone(r) \/ Collected(r)
    PROVE  Good(r)
<1>1. CASE Fold(r)
  <2>1. pc[r] = "fold" /\ item[r] < Len(data[r])
        /\ UNCHANGED <<program, pc, data, cut, chan, joined, returned>>
    BY <1>1 DEF Fold
  <2>2. TypeOK /\ Len(returned[r]) < Len(program) /\ Valid(r) /\ data[r] \in Seq(Result)
        /\ item[r] \in Nat /\ partial[r] \in Result
    BY <2>1, LocalFacts DEF Valid
  <2>3. item[r] + 1 \in 1..Len(data[r]) /\ item[r] + 1 \in Nat
    BY <2>1, <2>2, LenProperties
  <2>. DEFINE v == Combine(Now(r), partial[r], data[r][item[r] + 1])
  <2>4. v \in Result
    BY <2>2, <2>3, ElementOfSeq, ValuesAreResults
  <2>5. partial' = [partial EXCEPT ![r] = v] /\ item' = [item EXCEPT ![r] = item[r] + 1]
    BY <1>1 DEF Fold
  <2>6. pc' = [pc EXCEPT ![r] = "fold"] /\ data' = [data EXCEPT ![r] = data[r]]
        /\ cut' = [cut EXCEPT ![r] = cut[r]]
    BY <2>1, <2>2, AsItWas
  <2>7. cut[r] \in [end : Nat, extras : Nat] /\ chan' \in [Rank -> [Rank -> Seq(Message)]]
        /\ "fold" \in PC \ (JoinedPC \cup {"ready"})
    BY <2>1, <2>2, LocalTypes DEF PC, JoinedPC
  <2>8. LocalsOK(r, Now(r).length, "fold", data[r], item[r] + 1, cut[r])
    BY DEF LocalsOK
  <2>. HIDE DEF v
  <2>. QED
    BY <2>1, <2>2, <2>3, <2>4, <2>5, <2>6, <2>7, <2>8, LocalStepGood
<1>2. CASE FoldDone(r)
  <2>1. TypeOK /\ Len(returned[r]) < Len(program) /\ Root(r) \in Rank /\ partial[r] \in Result
    BY <1>2, LocalFacts DEF FoldDone
  <2>2. CASE Return(r, partial[r]) /\ UNCHANGED <<program, chan, joined>>
    BY <2>1, <2>2, ReturnGood, LocalTypes
  <2>3. CASE StartBcast(r, IF partial[r] = Raised THEN ErrorType ELSE partial[r])
    BY <2>1, <2>3, StartBcastGood, ValuesAreResults
  <2>. QED
    BY <1>2, <2>2, <2>3 DEF FoldDone
<1>3. CASE Collected(r)
  <2>. DEFINE where == IF Now(r).op = "scan" THEN "scan" ELSE "fold"
              v == IF Now(r).ground THEN One(Here(r), Ground) ELSE Null
  <2>1. pc[r] = "collect" /\ Len(data[r]) = N
        /\ UNCHANGED <<program, data, item, cut, chan, joined, returned>>
    BY <1>3 DEF Collected
  <2>2. TypeOK /\ Len(returned[r]) < Len(program) /\ Valid(r) /\ data[r] \in Seq(Result)
        /\ item[r] \in Nat /\ Here(r) \in Nat
    BY <2>1, LocalFacts DEF Valid
  <2>3. v \in Result
    BY <2>2, ValuesAreResults DEF Ground
  <2>4. pc' = [pc EXCEPT ![r] = where] /\ partial' = [partial EXCEPT ![r] = v]
    BY <1>3 DEF Collected, Go
  <2>5. where \in {"scan", "fold"} /\ where \in PC \ (JoinedPC \cup {"ready"})
    BY DEF PC, JoinedPC
  <2>6. data' = [data EXCEPT ![r] = data[r]] /\ item' = [item EXCEPT ![r] = item[r]]
        /\ cut' = [cut EXCEPT ![r] = cut[r]]
    BY <2>1, <2>2, AsItWas
  <2>7. cut[r] \in [end : Nat, extras : Nat] /\ chan' \in [Rank -> [Rank -> Seq(Message)]]
    BY <2>1, <2>2, LocalTypes
  <2>. HIDE DEF where, v
  <2>8. LocalsOK(r, Now(r).length, where, data[r], item[r], cut[r])
    BY <2>1, <2>5 DEF LocalsOK
  <2>. QED
    BY <2>1, <2>2, <2>3, <2>4, <2>5, <2>6, <2>7, <2>8, LocalStepGood
<1>. QED
  BY <1>1, <1>2, <1>3

\* The root adds an object to those that it has collected.
LEMMA CollectGood ==
    ASSUME IInv, NEW r \in Rank, CollectFrom(r) \/ CollectOwn(r)
    PROVE  Good(r)
<1>1. pc[r] = "collect" /\ UNCHANGED <<program, pc, item, partial, cut, joined, returned>>
  BY DEF CollectFrom, CollectOwn
<1>2. TypeOK /\ Len(returned[r]) < Len(program) /\ Valid(r) /\ data[r] \in Seq(Result)
      /\ item[r] \in Nat /\ partial[r] \in Result /\ Own(r) \in Result
  BY <1>1, LocalFacts DEF Valid
<1>3. \E v \in Result : data' = [data EXCEPT ![r] = Append(data[r], v)]
                       /\ chan' \in [Rank -> [Rank -> Seq(Message)]]
  <2>1. CASE CollectFrom(r)
    <3>1. Len(data[r]) \in Rank
      BY <2>1 DEF CollectFrom
    <3>2. PICK i \in 1..Len(chan[Len(data[r])][r]) :
              /\ Receive(Len(data[r]), r, i, CollectTag)
              /\ data' = [data EXCEPT ![r] = Append(@, chan[Len(data[r])][r][i].val)]
      BY <2>1 DEF CollectFrom
    <3>. QED
      BY <1>2, <3>1, <3>2, ReceiveType
  <2>2. CASE CollectOwn(r)
    BY <1>2, <2>2, LocalTypes DEF CollectOwn
  <2>. QED
    BY <2>1, <2>2
<1>4. PICK v \in Result : data' = [data EXCEPT ![r] = Append(data[r], v)]
                        /\ chan' \in [Rank -> [Rank -> Seq(Message)]]
  BY <1>3
<1>5. Append(data[r], v) \in Seq(Result)
  BY <1>2, AppendProperties
<1>6. pc' = [pc EXCEPT ![r] = "collect"] /\ item' = [item EXCEPT ![r] = item[r]]
      /\ partial' = [partial EXCEPT ![r] = partial[r]] /\ cut' = [cut EXCEPT ![r] = cut[r]]
  BY <1>1, <1>2, AsItWas
<1>7. cut[r] \in [end : Nat, extras : Nat] /\ "collect" \in PC \ (JoinedPC \cup {"ready"})
  BY <1>2, LocalTypes DEF PC, JoinedPC
<1>8. LocalsOK(r, Now(r).length, "collect", Append(data[r], v), item[r], cut[r])
  BY DEF LocalsOK
<1>. DEFINE objects == Append(data[r], v)
<1>9. data' = [data EXCEPT ![r] = objects] /\ objects \in Seq(Result)
      /\ LocalsOK(r, Now(r).length, "collect", objects, item[r], cut[r])
      /\ chan' \in [Rank -> [Rank -> Seq(Message)]]
  BY <1>4, <1>5, <1>8
<1>. HIDE DEF objects
<1>. QED
  BY <1>1, <1>2, <1>6, <1>7, <1>9, LocalStepGood

LEMMA CollectSentGood ==
    ASSUME IInv, NEW r \in Rank, NEW early, CollectSent(r, early)
    PROVE  Good(r)
<1>1. TypeOK /\ Len(returned[r]) < Len(program) /\ Root(r) \in Rank /\ Valid(r)
  BY LocalFacts DEF CollectSent, Valid
<1>2. CASE Return(r, None) /\ UNCHANGED <<program, chan, joined>>
  BY <1>1, <1>2, ReturnGood, LocalTypes, ValuesAreResults
<1>3. CASE StartBcast(r, None)
  BY <1>1, <1>3, StartBcastGood, ValuesAreResults
<1>4. CASE Go(r, "scanRecv")
           /\ UNCHANGED <<program, data, item, partial, cut, chan, joined, returned>>
  BY <1>1, <1>4, LocalTypes, MoveGood DEF PC, JoinedPC
<1>. QED
  BY <1>2, <1>3, <1>4 DEF CollectSent

LEMMA ScanNextGood ==
    ASSUME IInv, NEW r \in Rank, ScanNext(r)
    PROVE  Good(r)
<1>. DEFINE v == Combine(Now(r), partial[r], data[r][item[r] + 1])
            objects == [data[r] EXCEPT ![r + 1] = v]
<1>1. /\ pc[r] = "scan" /\ item[r] < N /\ partial' = [partial EXCEPT ![r] = v]
      /\ UNCHANGED <<program, cut, joined, returned>>
  BY DEF ScanNext
<1>2. TypeOK /\ Len(returned[r]) < Len(program) /\ Valid(r) /\ data[r] \in Seq(Result)
      /\ Len(data[r]) = N /\ item[r] \in Nat /\ partial[r] \in Result
  BY <1>1, LocalFacts DEF Valid, LocalOK, LocalsOK
<1>3. item[r] + 1 \in 1..N /\ item[r] + 1 \in Nat /\ item[r] \in Rank
      /\ r + 1 \in 1..N
  BY <1>1, <1>2, RankFacts DEF Rank
<1>4. v \in Result
  BY <1>2, <1>3, ElementOfSeq, ValuesAreResults
<1>. HIDE DEF v
<1>5. objects \in Seq(Result) /\ Len(objects) = N
  BY <1>2, <1>3, <1>4, ExceptSeq
<1>6. /\ cut[r] \in [end : Nat, extras : Nat] /\ cut' = [cut EXCEPT ![r] = cut[r]]
      /\ {"scan", "scanSend"} \subseteq PC \ (JoinedPC \cup {"ready"})
  BY <1>1, <1>2, LocalTypes, AsItWas DEF PC, JoinedPC
<1>7. CASE /\ data' = [data EXCEPT ![r][r + 1] = v]
           /\ item' = [item EXCEPT ![r] = @ + 1]
           /\ UNCHANGED <<pc, chan>>
  <2>1. data' = [data EXCEPT ![r] = objects] /\ item' = [item EXCEPT ![r] = item[r] + 1]
        /\ pc' = [pc EXCEPT ![r] = "scan"] /\ chan' \in [Rank -> [Rank -> Seq(Message)]]
    BY <1>1, <1>2, <1>7, LocalTypes, AsItWas
  <2>. HIDE DEF objects
  <2>2. LocalsOK(r, Now(r).length, "scan", objects, item[r] + 1, cut[r])
    BY <1>5 DEF LocalsOK
  <2>. QED
    BY <1>1, <1>2, <1>3, <1>4, <1>5, <1>6, <2>1, <2>2, LocalStepGood
<1>8. CASE /\ Send(r, item[r], CollectTag, v)
           /\ Go(r, "scanSend")
           /\ UNCHANGED <<data, item>>
  <2>1. chan' \in [Rank -> [Rank -> Seq(Message)]]
    BY <1>2, <1>3, <1>4, <1>8, SendType
  <2>2. data' = [data EXCEPT ![r] = data[r]] /\ item' = [item EXCEPT ![r] = item[r]]
        /\ pc' = [pc EXCEPT ![r] = "scanSend"]
    BY <1>2, <1>8, AsItWas DEF Go
  <2>3. LocalsOK(r, Now(r).length, "scanSend", data[r], item[r], cut[r])
    BY <1>2 DEF LocalsOK
  <2>. QED
    BY <1>1, <1>2, <1>4, <1>6, <2>1, <2>2, <2>3, LocalStepGood
<1>. QED
  BY <1>7, <1>8 DEF ScanNext, v

LEMMA ScanGood ==
    ASSUME IInv, NEW r \in Rank, NEW early, ScanSent(r, early) \/ ScanDone(r) \/ ScanRecv(r)
    PROVE  Good(r)
<1>1. CASE ScanSent(r, early)
  <2>1. /\ pc[r] = "scanSend"
        /\ UNCHANGED <<program, data, partial, cut, chan, joined, returned>>
    BY <1>1 DEF ScanSent
  <2>2. TypeOK /\ Len(returned[r]) < Len(program) /\ Valid(r) /\ data[r] \in Seq(Result)
        /\ Len(data[r]) = N /\ item[r] \in Nat /\ partial[r] \in Result
    BY <2>1, LocalFacts DEF Valid, LocalOK, LocalsOK
  <2>3. /\ data' = [data EXCEPT ![r] = data[r]] /\ cut' = [cut EXCEPT ![r] = cut[r]]
        /\ partial' = [partial EXCEPT ![r] = partial[r]]
    BY <2>1, <2>2, AsItWas
  <2>4. /\ item' = [item EXCEPT ![r] = item[r] + 1] /\ item[r] + 1 \in Nat
        /\ pc' = [pc EXCEPT ![r] = "scan"] /\ "scan" \in PC \ (JoinedPC \cup {"ready"})
    BY <1>1, <2>2 DEF ScanSent, Go, PC, JoinedPC
  <2>5. cut[r] \in [end : Nat, extras : Nat] /\ chan' \in [Rank -> [Rank -> Seq(Message)]]
    BY <2>1, <2>2, LocalTypes
  <2>6. LocalsOK(r, Now(r).length, "scan", data[r], item[r] + 1, cut[r])
    BY <2>2 DEF LocalsOK
  <2>. QED
    BY <2>1, <2>2, <2>3, <2>4, <2>5, <2>6, LocalStepGood
<1>2. CASE ScanDone(r)
  <2>1. pc[r] = "scan" /\ r + 1 \in 1..N
    BY <1>2, RankFacts DEF ScanDone, Rank
  <2>2. TypeOK /\ data[r] \in Seq(Result) /\ Len(data[r]) = N
    BY <2>1, LocalFacts DEF LocalOK, LocalsOK
  <2>3. data[r][r + 1] \in Result
    BY <2>1, <2>2, ElementOfSeq
  <2>. QED
    BY <1>2, <2>2, <2>3, ReturnGood, LocalTypes DEF ScanDone
<1>3. CASE ScanRecv(r)
  <2>1. TypeOK /\ Root(r) \in Rank
    BY <1>3, LocalFacts DEF ScanRecv
  <2>2. PICK i \in 1..Len(chan[Root(r)][r]) :
            Receive(Root(r), r, i, CollectTag) /\ Return(r, chan[Root(r)][r][i].val)
    BY <1>3 DEF ScanRecv
  <2>3. /\ chan' \in [Rank -> [Rank -> Seq(Message)]]
        /\ chan[Root(r)][r][i].val \in Result
    BY <2>1, <2>2, ReceiveType
  <2>. QED
    BY <1>3, <2>1, <2>2, <2>3, ReturnGood DEF ScanRecv
<1>. QED
  BY <1>1, <1>2, <1>3

LEMMA MessageGood ==
    ASSUME IInv, NEW r \in Rank, NEW early, MessageSent(r, early) \/ MessageReceived(r)
    PROVE  Good(r)
<1>1. CASE MessageSent(r, early)
  BY <1>1, ReturnGood, LocalTypes, ValuesAreResults DEF MessageSent, IInv
<1>2. CASE MessageReceived(r)
  <2>1. TypeOK /\ Root(r) \in Rank
    BY <1>2, LocalFacts DEF MessageReceived
  <2>2. PICK i \in 1..Len(chan[Root(r)][r]) :
            Receive(Root(r), r, i, ANY_TAG) /\ Return(r, chan[Root(r)][r][i].val)
    BY <1>2 DEF MessageReceived
  <2>3. /\ chan' \in [Rank -> [Rank -> Seq(Message)]]
        /\ chan[Root(r)][r][i].val \in Result
    BY <2>1, <2>2, ReceiveType
  <2>. QED
    BY <1>2, <2>1, <2>2, <2>3, ReturnGood DEF MessageReceived
<1>. QED
  BY <1>1, <1>2

-----------------------------------------------------------------------------
LEMMA TreeRanks ==
    ASSUME NEW r \in Rank, Root(r) \in Rank, item[r] \in Nat
    PROVE  TreeParent(r) \in Rank /\ TreeChild(r) \in Rank
<1>1. \A a \in Int : a % N \in Rank
  BY RankFacts DEF Rank
<1>2. r \in Int /\ N \in Int /\ Root(r) \in Int
  BY RankFacts DEF Rank
<1>3. Wrapped(r) \in Rank
  <2>1. r + N - Root(r) \in Int
    BY <1>2
  <2>. QED
    BY <1>1, <2>1 DEF Wrapped
<1>4. Wrapped(r) \in Int
  BY <1>3, RankFacts DEF Rank
<1>5. Wrapped(r) - item[r] + Root(r) \in Int /\ Wrapped(r) + item[r] + Root(r) \in Int
  BY <1>2, <1>4
<1>. QED
  BY <1>1, <1>5 DEF TreeParent, TreeChild, Unwrapped

LEMMA TreeMovesGood ==
    ASSUME IInv, NEW r \in Rank, CallTree(r) \/ TreeSend(r) \/ TreeOrphan(r)
    PROVE  Good(r)
<1>1. CASE CallTree(r)
  <2>1. TypeOK /\ Len(returned[r]) < Len(program) /\ Valid(r) /\ Own(r) \in Result
    BY <1>1, BeginFacts DEF CallTree
  <2>2. <<Own(r)>> \in Seq(Result) /\ Len(<<Own(r)>>) = 1
    BY <2>1
  <2>3. /\ data' = [data EXCEPT ![r] = <<Own(r)>>] /\ item' = [item EXCEPT ![r] = 1]
        /\ pc' = [pc EXCEPT ![r] = "tree"] /\ "tree" \in PC \ (JoinedPC \cup {"ready"})
        /\ UNCHANGED <<program, partial, cut, chan, joined, returned>>
    BY <1>1 DEF CallTree, Go, PC, JoinedPC
  <2>4. partial' = [partial EXCEPT ![r] = partial[r]] /\ cut' = [cut EXCEPT ![r] = cut[r]]
    BY <2>1, <2>3, AsItWas
  <2>5. /\ partial[r] \in Result /\ cut[r] \in [end : Nat, extras : Nat]
        /\ chan' \in [Rank -> [Rank -> Seq(Message)]]
    BY <2>1, <2>3, LocalTypes
  <2>6. LocalsOK(r, Now(r).length, "tree", <<Own(r)>>, 1, cut[r])
    BY <2>2 DEF LocalsOK
  <2>. QED
    BY <2>1, <2>2, <2>3, <2>4, <2>5, <2>6, LocalStepGood
<1>2. CASE TreeSend(r)
  <2>1. pc[r] = "tree"
    BY <1>2 DEF TreeSend
  <2>2. TypeOK /\ Len(returned[r]) < Len(program) /\ Root(r) \in Rank /\ Valid(r)
        /\ data[r] \in Seq(Result) /\ Len(data[r]) = 1 /\ item[r] \in Nat
        /\ partial[r] \in Result
    BY <2>1, LocalFacts DEF Valid, LocalOK, LocalsOK
  <2>3. data[r][1] \in Result /\ TreeParent(r) \in Rank
    BY <2>2, ElementOfSeq, TreeRanks
  <2>4. chan' \in [Rank -> [Rank -> Seq(Message)]]
    BY <1>2, <2>2, <2>3, SendType DEF TreeSend
  <2>5. /\ pc' = [pc EXCEPT ![r] = "treeSend"] /\ "treeSend" \in PC \ (JoinedPC \cup {"ready"})
        /\ UNCHANGED <<program, data, item, partial, cut, joined, returned>>
    BY <1>2 DEF TreeSend, Go, PC, JoinedPC
  <2>6. /\ data' = [data EXCEPT ![r] = data[r]] /\ item' = [item EXCEPT ![r] = item[r]]
        /\ partial' = [partial EXCEPT ![r] = partial[r]] /\ cut' = [cut EXCEPT ![r] = cut[r]]
    BY <2>2, <2>5, AsItWas
  <2>7. cut[r] \in [end : Nat, extras : Nat]
    BY <2>2, LocalTypes
  <2>8. LocalsOK(r, Now(r).length, "treeSend", data[r], item[r], cut[r])
    BY <2>2 DEF LocalsOK
  <2>. QED
    BY ZenonT(60), <2>2, <2>4, <2>5, <2>6, <2>7, <2>8, LocalStepGood
<1>3. CASE TreeOrphan(r)
  <2>1. pc[r] = "tree" /\ UNCHANGED <<program, pc, data, partial, cut, chan, joined, returned>>
    BY <1>3 DEF TreeOrphan
  <2>2. TypeOK /\ Len(returned[r]) < Len(program) /\ Valid(r) /\ data[r] \in Seq(Result)
        /\ Len(data[r]) = 1 /\ item[r] \in Nat /\ partial[r] \in Result
    BY <2>1, LocalFacts DEF Valid, LocalOK, LocalsOK
  <2>3. item' = [item EXCEPT ![r] = 2 * item[r]] /\ 2 * item[r] \in Nat
    BY <1>3, <2>2 DEF TreeOrphan, NextRound
  <2>4. /\ data' = [data EXCEPT ![r] = data[r]] /\ pc' = [pc EXCEPT ![r] = "tree"]
        /\ partial' = [partial EXCEPT ![r] = partial[r]] /\ cut' = [cut EXCEPT ![r] = cut[r]]
    BY <2>1, <2>2, AsItWas
  <2>5. cut[r] \in [end : Nat, extras : Nat] /\ chan' \in [Rank -> [Rank -> Seq(Message)]]
        /\ "tree" \in PC \ (JoinedPC \cup {"ready"})
    BY <2>1, <2>2, LocalTypes DEF PC, JoinedPC
  <2>6. LocalsOK(r, Now(r).length, "tree", data[r], 2 * item[r], cut[r])
    BY <2>2 DEF LocalsOK
  <2>. QED
    BY <2>1, <2>2, <2>3, <2>4, <2>5, <2>6, LocalStepGood
<1>. QED
  BY <1>1, <1>2, <1>3

LEMMA ApplyIsResult ==
    ASSUME NEW c, NEW x \in Result, NEW y \in Result
    PROVE  Apply(c, x, y) \in Result
<1>1. x.of \o y.of \in Seq(Int \X Int)
  BY DEF Result
<1>. QED
  BY <1>1 DEF Apply, Value, Raised, Result

LEMMA TreeReceiveGood ==
    ASSUME IInv, NEW r \in Rank, TreeReceive(r)
    PROVE  Good(r)
<1>1. pc[r] = "tree" /\ UNCHANGED <<program, joined>>
  BY DEF TreeReceive
<1>2. TypeOK /\ Len(returned[r]) < Len(program) /\ Root(r) \in Rank /\ Valid(r)
      /\ data[r] \in Seq(Result) /\ Len(data[r]) = 1 /\ item[r] \in Nat /\ partial[r] \in Result
  BY <1>1, LocalFacts DEF Valid, LocalOK, LocalsOK
<1>3. TreeChild(r) \in Rank /\ data[r][1] \in Result
  BY <1>2, TreeRanks, ElementOfSeq
<1>4. PICK i \in 1..Len(chan[TreeChild(r)][r]) :
          /\ Receive(TreeChild(r), r, i, TreeTag)
          /\ LET w == Apply(Now(r), data[r][1], chan[TreeChild(r)][r][i].val)
             IN  \/ /\ w = Raised
                    /\ Return(r, Raised)
                 \/ /\ w # Raised
                    /\ data' = [data EXCEPT ![r] = <<w>>]
                    /\ NextRound(r)
                    /\ UNCHANGED <<pc, partial, cut, returned>>
  BY DEF TreeReceive
<1>5. /\ chan' \in [Rank -> [Rank -> Seq(Message)]]
      /\ chan[TreeChild(r)][r][i].val \in Result
  BY <1>2, <1>3, <1>4, ReceiveType
<1>. DEFINE v == Apply(Now(r), data[r][1], chan[TreeChild(r)][r][i].val)
<1>6. v \in Result
  BY <1>3, <1>5, ApplyIsResult
<1>7. CASE Return(r, Raised)
  BY <1>1, <1>2, <1>5, <1>7, ReturnGood, ValuesAreResults
<1>8. CASE /\ data' = [data EXCEPT ![r] = <<v>>]
           /\ NextRound(r)
           /\ UNCHANGED <<pc, partial, cut, returned>>
  <2>. HIDE DEF v
  <2>1. <<v>> \in Seq(Result) /\ Len(<<v>>) = 1
    BY <1>6
  <2>2. item' = [item EXCEPT ![r] = 2 * item[r]] /\ 2 * item[r] \in Nat
    BY <1>2, <1>8 DEF NextRound
  <2>3. /\ pc' = [pc EXCEPT ![r] = "tree"] /\ "tree" \in PC \ (JoinedPC \cup {"ready"})
        /\ partial' = [partial EXCEPT ![r] = partial[r]] /\ cut' = [cut EXCEPT ![r] = cut[r]]
    BY <1>1, <1>2, <1>8, AsItWas DEF PC, JoinedPC
  <2>4. cut[r] \in [end : Nat, extras : Nat]
    BY <1>2, LocalTypes
  <2>5. LocalsOK(r, Now(r).length, "tree", <<v>>, 2 * item[r], cut[r])
    BY <2>1 DEF LocalsOK
  <2>. QED
    BY ZenonT(60), <1>1, <1>2, <1>5, <1>8, <2>1, <2>2, <2>3, <2>4, <2>5, LocalStepGood
<1>. QED
  BY <1>4, <1>7, <1>8

LEMMA TreeDoneGood ==
    ASSUME IInv, NEW r \in Rank, NEW early, TreeDone(r, early)
    PROVE  Good(r)
<1>1. pc[r] \in {"tree", "treeSend"}
  BY DEF TreeDone
<1>2. TypeOK /\ Len(returned[r]) < Len(program) /\ Root(r) \in Rank
      /\ data[r] \in Seq(Result) /\ Len(data[r]) = 1
  BY <1>1, LocalFacts DEF LocalOK, LocalsOK
<1>3. data[r][1] \in Result
  BY <1>2, ElementOfSeq
<1>4. CASE /\ Return(r, IF IsRoot(r) THEN data[r][1] ELSE None)
           /\ UNCHANGED <<program, chan, joined>>
  BY <1>2, <1>3, <1>4, ReturnGood, LocalTypes, ValuesAreResults
<1>5. CASE StartBcast(r, data[r][1])
  BY <1>2, <1>3, <1>5, StartBcastGood
<1>. QED
  BY <1>4, <1>5 DEF TreeDone

-----------------------------------------------------------------------------
LEMMA StepGood ==
    ASSUME IInv, NEW r \in Rank, NEW early \in BOOLEAN, Step(r, early)
    PROVE  Good(r)
<1>1. CASE Calls(r)
  BY <1>1, CallsGood, ReceivingCallsGood, ScatterGood, TreeMovesGood DEF Calls
<1>2. CASE BarrierDone(r) \/ BcastDone(r, early) \/ BcastBodyDone(r, early)
  BY <1>2, BarrierAndBcastGood
<1>3. CASE GatherDone(r, early) \/ GatherBodyDone(r, early) \/ Catenate(r) \/ GatherEnds(r)
  BY <1>3, GatherGood
<1>4. CASE ScatterKeep(r) \/ ScatterSend(r) \/ ScatterSent(r, early)
           \/ ScatterDone(r) \/ ScatterRecv(r)
  BY <1>4, ScatterGood, ScatterReturnsGood
<1>5. CASE NativeDone(r, early) \/ Fold(r) \/ FoldDone(r)
  BY <1>5, NativeGood, FoldGood
<1>6. CASE CollectFrom(r) \/ CollectOwn(r) \/ CollectSent(r, early) \/ Collected(r)
  BY <1>6, CollectGood, CollectSentGood, FoldGood
<1>7. CASE ScanNext(r) \/ ScanSent(r, early) \/ ScanDone(r) \/ ScanRecv(r)
  BY <1>7, ScanNextGood, ScanGood
<1>8. CASE TreeSend(r) \/ TreeReceive(r) \/ TreeOrphan(r) \/ TreeDone(r, early)
  BY <1>8, TreeMovesGood, TreeReceiveGood, TreeDoneGood
<1>9. CASE MessageSent(r, early) \/ MessageReceived(r)
  BY <1>9, MessageGood
<1>. QED
  BY <1>1, <1>2, <1>3, <1>4, <1>5, <1>6, <1>7, <1>8, <1>9 DEF Step

\* The ranks that do not take the step keep their part of the invariant.
LEMMA OthersKeepTheirs ==
    ASSUME NEW r \in Rank, NEW q \in Rank \ {r}, LocalOK(q), Elsewhere(r)
    PROVE  LocalOK(q)'
<1>1. /\ program' = program /\ pc'[q] = pc[q] /\ data'[q] = data[q] /\ item'[q] = item[q]
      /\ cut'[q] = cut[q] /\ joined'[q] = joined[q] /\ returned'[q] = returned[q]
  BY DEF Elsewhere
<1>2. Now(q)' = Now(q) /\ Valid(q)' = Valid(q)
  BY <1>1 DEF Valid, Root, Now, Here
<1>3. LocalsOK(q, Now(q).length, pc[q], data[q], item[q], cut[q])'
  BY <1>1, <1>2 DEF LocalOK, LocalsOK, CutAfter
<1>. QED
  BY <1>1, <1>2, <1>3 DEF LocalOK

LEMMA InitInv == Init => IInv
<1>. SUFFICES ASSUME Init PROVE IInv
  OBVIOUS
<1>1. \A r \in Rank : pc[r] = "ready" /\ item[r] = 0
  BY DEF Init
<1>2. TypeOK
  BY ValuesAreResults DEF Init, TypeOK, PC, NoCut
<1>3. \A r \in Rank : LocalOK(r)
  BY <1>1 DEF LocalOK, LocalsOK, JoinedPC
<1>. QED
  BY <1>2, <1>3 DEF IInv

LEMMA NextInv == IInv /\ [Next]_vars => IInv'
<1>. SUFFICES ASSUME IInv, [Next]_vars PROVE IInv'
  OBVIOUS
<1>1. CASE UNCHANGED vars
  BY <1>1 DEF vars, IInv, TypeOK, LocalOK, LocalsOK, CutAfter, Valid, Root, Now, Here
<1>2. CASE Next
  <2>1. PICK r \in Rank : Good(r)
    BY <1>2, StepGood DEF Next
  <2>2. ASSUME NEW q \in Rank PROVE LocalOK(q)'
    BY <2>1, OthersKeepTheirs DEF Good, IInv
  <2>. QED
    BY <2>1, <2>2 DEF Good, IInv
<1>. QED
  BY <1>1, <1>2

-----------------------------------------------------------------------------
(***************************************************************************)
(* The ranks' locals, the messages and the results keep their types: no    *)
(* loop of pyMPI_comm_collective.c indexes past what it has collected.     *)
(***************************************************************************)
THEOREM CollectivesTypeCorrect == Spec => []TypeOK
<1>1. IInv => TypeOK
  BY DEF IInv
<1>. QED
  BY <1>1, InitInv, NextInv, PTL DEF Spec

(***************************************************************************)
(* However many ranks there are and however long the sequence is, scatter  *)
(* (pyMPI_comm_collective.c:845-881) starts round i with i near equal      *)
(* pieces dealt out, and so the pieces neither overlap nor leave a gap,    *)
(* and the last ends where the sequence does.                              *)
(***************************************************************************)
THEOREM ScatterCutsRight == Spec => []CutRight
<1>1. IInv => CutRight
  BY DEF IInv, LocalOK, LocalsOK, CutAfter, CutRight
<1>. QED
  BY <1>1, InitInv, NextInv, PTL DEF Spec
-----------------------------------------------------------------------------
(***************************************************************************)
(* The MPI collectives of a call.  The ranks' logs pair up because each    *)
(* entry determines the next, given what the root of a bcast has put in    *)
(* its own entry of the same number.                                       *)
(***************************************************************************)
RootOf(c) == IF c.op = "allgather" THEN 0 ELSE c.root

\* The first collective of call c, and the one that follows one of some kind.
FirstKind(c) ==
    IF RootOf(c) \notin Rank THEN "none"
    ELSE IF c.op \in {"barrier", "bcast"} THEN c.op
    ELSE IF c.op \in {"gather", "allgather"} THEN "gather"
    ELSE IF c.op \in Reduction /\ UsesNative(c) THEN "native"
    ELSE IF c.op = "allreduce" THEN "bcast"
    ELSE "none"

NextKind(c, kind, long) ==
    IF kind = "bcast" /\ long THEN "bcastBody"
    ELSE IF kind = "gather" THEN "gatherBody"
    ELSE IF kind = "gatherBody" /\ c.op = "allgather" THEN "bcast"
    ELSE "none"

\* What follows entry n of r's log in the same call.
After(r, n) ==
    LET e == joined[r][n]
    IN  NextKind(program[e.call], e.kind, Long(program[e.call], joined[e.root][n].val))

\* None of the calls from j to k, both excluded, calls MPI.
NoneBetween(j, k) == \A i \in (j + 1)..(k - 1) : FirstKind(program[i]) = "none"

Starts(j, k, kind) ==
    k > j /\ kind = FirstKind(program[k]) /\ kind # "none" /\ NoneBetween(j, k)

\* Collective "kind" of call k may come next after the first n of r.
Follows(r, n, k, kind) ==
    IF n = 0 THEN Starts(0, k, kind)
    ELSE IF After(r, n) # "none" THEN k = joined[r][n].call /\ kind = After(r, n)
    ELSE Starts(joined[r][n].call, k, kind)

EntryOK(r, n) ==
    LET e == joined[r][n]
    IN  /\ e.call \in 1..Len(program)
        /\ e.root = RootOf(program[e.call])
        /\ Follows(r, n - 1, e.call, e.kind)
        /\ e.kind = "bcast" /\ (n < Len(joined[r]) \/ pc[r] # "bcast") =>
               n <= Len(joined[e.root])

\* r's log has all collectives of the calls before k, and none of a later call.
UpTo(r, k) ==
    LET m == Len(joined[r])
    IN  IF m = 0 THEN NoneBetween(0, k)
        ELSE joined[r][m].call < k /\ After(r, m) = "none" /\ NoneBetween(joined[r][m].call, k)

\* The last collective of r is this one, of the call r is in.
LastIs(r, kind) ==
    LET m == Len(joined[r])
    IN  m > 0 /\ joined[r][m].call = Here(r) /\ joined[r][m].kind = kind

PlaceOK(r) ==
    CASE pc[r] \in JoinedPC -> LastIs(r, pc[r])
      [] pc[r] = "catenate" -> LastIs(r, "gatherBody")
      [] pc[r] = "fold" /\ UsesNative(Now(r)) -> LastIs(r, "native")
      [] OTHER -> UpTo(r, Here(r))

\* The calls in which a rank can be at "where".
OpsAt(where) ==
    CASE where \in {"ready", "barrier", "bcast", "bcastBody"} -> Op
      [] where \in {"native", "collect", "collectSend", "fold", "tree", "treeSend"} -> Reduction
      [] where \in {"scan", "scanSend", "scanRecv"} -> {"scan"}
      [] where \in {"gather", "gatherBody", "catenate"} -> {"gather", "allgather"}
      [] where \in {"scatter", "scatterSend", "scatterRecv"} -> {"scatter"}
      [] where \in {"messageSend", "messageRecv"} -> {"message"}

ByMessages == {"collect", "collectSend", "scan", "scanSend", "scanRecv", "tree", "treeSend"}

OpOK(r) ==
    pc[r] # "ready" =>
        /\ Now(r).op \in OpsAt(pc[r])
        /\ pc[r] = "native" => UsesNative(Now(r))
        /\ pc[r] \in ByMessages => ~UsesNative(Now(r))
        /\ pc[r] \in {"tree", "treeSend"} => UsesTree(Now(r))

\* Nothing that a gather collects or a tree combines is an exception.
IsValue(v) == v.is = "value"

TreeValue(r) == pc[r] \in {"tree", "treeSend"} => IsValue(data[r][1])

CatenateValues(r) ==
    pc[r] = "catenate" /\ Now(r).bad = {} =>
        IsValue(partial[r]) /\ \A i \in 1..N : IsValue(data[r][i])

ChanValues ==
    \A s, d \in Rank : \A i \in 1..Len(chan[s][d]) :
        chan[s][d][i].tag = TreeTag => IsValue(chan[s][d][i].val)

LogValues ==
    \A r \in Rank : \A n \in 1..Len(joined[r]) :
        joined[r][n].kind = "gatherBody" => IsValue(joined[r][n].val)

ValuesInv == ChanValues /\ LogValues /\ \A r \in Rank : TreeValue(r) /\ CatenateValues(r)

LogInv ==
    /\ CollectivesMatch
    /\ \A r \in Rank : \A n \in 1..Len(joined[r]) : EntryOK(r, n)
    /\ \A r \in Rank : PlaceOK(r) /\ OpOK(r)

-----------------------------------------------------------------------------
LEMMA LogTypes ==
    ASSUME TypeOK, NEW r \in Rank
    PROVE  /\ joined[r] \in Seq(Joining) /\ Len(joined[r]) \in Nat
           /\ \A n \in 1..Len(joined[r]) : joined[r][n] \in Joining
           /\ \A n \in 1..Len(joined[r]) : joined[r][n].root \in Rank /\ joined[r][n].call \in Nat
           /\ Len(returned[r]) \in Nat /\ Here(r) \in Nat /\ Here(r) > 0
<1>1. joined[r] \in Seq(Joining) /\ returned[r] \in Seq(Result)
  BY DEF TypeOK
<1>2. Len(joined[r]) \in Nat /\ Len(returned[r]) \in Nat
  BY <1>1, LenProperties
<1>3. \A n \in 1..Len(joined[r]) : joined[r][n] \in Joining
  BY <1>1, ElementOfSeq
<1>4. \A n \in 1..Len(joined[r]) : joined[r][n].root \in Rank /\ joined[r][n].call \in Nat
  BY <1>3 DEF Joining
<1>. QED
  BY <1>1, <1>2, <1>3, <1>4 DEF Here

\* How a rank gets on to the next collective or the next call.
LEMMA StartsCall ==
    ASSUME TypeOK, NEW r \in Rank, UpTo(r, Here(r)), FirstKind(Now(r)) # "none"
    PROVE  Follows(r, Len(joined[r]), Here(r), FirstKind(Now(r)))
BY LogTypes DEF UpTo, Follows, Starts, Now

LEMMA NoneBetweenGrows ==
    ASSUME NEW j \in Nat, NEW k \in Nat, NoneBetween(j, k), FirstKind(program[k]) = "none"
    PROVE  NoneBetween(j, k + 1)
BY DEF NoneBetween

LEMMA SkipsCall ==
    ASSUME TypeOK, NEW r \in Rank, UpTo(r, Here(r)), FirstKind(Now(r)) = "none"
    PROVE  UpTo(r, Here(r) + 1)
<1>1. Here(r) \in Nat /\ FirstKind(program[Here(r)]) = "none" /\ Len(joined[r]) \in Nat
  BY LogTypes DEF Now
<1>2. CASE Len(joined[r]) = 0
  BY <1>1, <1>2, NoneBetweenGrows DEF UpTo
<1>3. CASE Len(joined[r]) # 0
  <2>1. joined[r][Len(joined[r])].call \in Nat
    BY <1>1, <1>3, LogTypes
  <2>. QED
    BY <1>1, <1>3, <2>1, NoneBetweenGrows DEF UpTo
<1>. QED
  BY <1>2, <1>3

LEMMA EndsCall ==
    ASSUME TypeOK, NEW r \in Rank, NEW kind, LastIs(r, kind), After(r, Len(joined[r])) = "none"
    PROVE  UpTo(r, Here(r) + 1)
BY LogTypes DEF LastIs, UpTo, NoneBetween

LEMMA GoesOn ==
    ASSUME TypeOK, NEW r \in Rank, NEW kind, LastIs(r, kind),
           NEW next, After(r, Len(joined[r])) = next, next # "none"
    PROVE  Follows(r, Len(joined[r]), Here(r), next)
BY LogTypes DEF LastIs, Follows

LEMMA AfterLast ==
    ASSUME TypeOK, NEW r \in Rank, NEW kind, LastIs(r, kind),
           \A n \in 1..Len(joined[r]) : EntryOK(r, n)
    PROVE  /\ joined[r][Len(joined[r])].root = Root(r)
           /\ After(r, Len(joined[r])) = NextKind(Now(r), kind, Long(Now(r), Given(r, Root(r))))
<1>1. Len(joined[r]) \in 1..Len(joined[r])
  BY LogTypes DEF LastIs
<1>2. joined[r][Len(joined[r])].root = RootOf(program[Here(r)])
  BY <1>1 DEF EntryOK, LastIs
<1>3. joined[r][Len(joined[r])].root = Root(r)
  BY <1>2 DEF RootOf, Root, Now
<1>. QED
  BY <1>3 DEF After, LastIs, Given, Now

\* Two ranks whose logs agree so far go on alike.
Agree(r, q, n) ==
    /\ joined[r][n].call = joined[q][n].call /\ joined[r][n].kind = joined[q][n].kind
    /\ joined[r][n].root = joined[q][n].root /\ joined[r][n].call \in Nat

LEMMA SameNext ==
    ASSUME NEW r \in Rank, NEW q \in Rank, NEW n \in Nat, n > 0 => Agree(r, q, n),
           NEW j \in Nat, NEW k \in Nat, NEW jkind, NEW kkind,
           Follows(r, n, j, jkind), Follows(q, n, k, kkind)
    PROVE  j = k /\ jkind = kkind
<1>1. ASSUME NEW i \in Nat, Starts(i, j, jkind), Starts(i, k, kkind)
      PROVE  j = k /\ jkind = kkind
  BY <1>1 DEF Starts, NoneBetween
<1>2. CASE n = 0
  BY <1>1, <1>2 DEF Follows
<1>3. CASE n > 0
  <2>1. After(r, n) = After(q, n)
    BY <1>3 DEF After, Agree
  <2>. QED
    BY <1>1, <1>3, <2>1 DEF Follows, Agree
<1>. QED
  BY <1>2, <1>3

-----------------------------------------------------------------------------
(***************************************************************************)
(* The logs only grow, and an entry stays right when they do.              *)
(***************************************************************************)
Grown ==
    \A q \in Rank :
        /\ Len(joined'[q]) >= Len(joined[q])
        /\ \A n \in 1..Len(joined[q]) : joined'[q][n] = joined[q][n]

\* The root of the bcast that r is about to leave has called it.
Served(r) == pc[r] = "bcast" => Len(joined[r]) <= Len(joined[Root(r)])

LEMMA AfterStays ==
    ASSUME TypeOK, NEW r \in Rank, NEW n \in 1..Len(joined[r]), program' = program, Grown,
           joined[r][n].kind = "bcast" => n <= Len(joined[joined[r][n].root])
    PROVE  After(r, n)' = After(r, n)
<1>1. joined[r][n].root \in Rank /\ n \in Nat /\ n >= 1
  BY LogTypes
<1>2. joined'[r][n] = joined[r][n]
  BY DEF Grown
<1>3. CASE joined[r][n].kind # "bcast"
  BY <1>2, <1>3 DEF After, NextKind
<1>4. CASE joined[r][n].kind = "bcast"
  <2>. DEFINE s == joined[r][n].root
  <2>1. n \in 1..Len(joined[s])
    BY <1>1, <1>4, LogTypes
  <2>2. joined'[s][n] = joined[s][n]
    BY <1>1, <2>1 DEF Grown
  <2>. QED
    BY <1>2, <2>2 DEF After, Long
<1>. QED
  BY <1>3, <1>4

LEMMA FollowsStays ==
    ASSUME TypeOK, NEW r \in Rank, NEW n \in 0..Len(joined[r]), program' = program, Grown,
           n > 0 => (joined[r][n].kind = "bcast" => n <= Len(joined[joined[r][n].root])),
           NEW k, NEW kind, Follows(r, n, k, kind)
    PROVE  Follows(r, n, k, kind)'
<1>1. CASE n = 0
  BY <1>1 DEF Follows, Starts, NoneBetween
<1>2. CASE n > 0
  <2>1. n \in 1..Len(joined[r])
    BY <1>2, LogTypes
  <2>2. After(r, n)' = After(r, n) /\ joined'[r][n] = joined[r][n]
    BY <1>2, <2>1, AfterStays DEF Grown
  <2>. QED
    BY <1>2, <2>2 DEF Follows, Starts, NoneBetween
<1>. QED
  BY <1>1, <1>2, LogTypes

\* A bcast that its rank has left, or is about to leave, has been called by its root.
LEMMA BcastsServed ==
    ASSUME TypeOK, LogInv, NEW r \in Rank, NEW n \in 1..Len(joined[r]),
           joined[r][n].kind = "bcast",
           n < Len(joined[r]) \/ pc[r] # "bcast" \/ Served(r)
    PROVE  n <= Len(joined[joined[r][n].root])
<1>1. EntryOK(r, n) /\ PlaceOK(r)
  BY DEF LogInv
<1>2. CASE n < Len(joined[r]) \/ pc[r] # "bcast"
  BY <1>1, <1>2 DEF EntryOK
<1>3. CASE n = Len(joined[r]) /\ pc[r] = "bcast" /\ Served(r)
  <2>1. LastIs(r, "bcast")
    BY <1>1, <1>3 DEF PlaceOK, JoinedPC
  <2>2. joined[r][n].root = Root(r)
    BY <1>3, <2>1, AfterLast DEF LogInv
  <2>. QED
    BY <1>3, <2>2 DEF Served
<1>. QED
  BY <1>2, <1>3, LogTypes

\* The entries that were there stay right when r takes a step.
LEMMA EntriesStay ==
    ASSUME TypeOK, LogInv, NEW r \in Rank, program' = program, Grown,
           \A q \in Rank \ {r} : joined'[q] = joined[q] /\ pc'[q] = pc[q],
           Served(r) \/ (joined'[r] = joined[r] /\ pc'[r] = pc[r]),
           NEW q \in Rank, NEW n \in 1..Len(joined[q])
    PROVE  EntryOK(q, n)'
<1>. DEFINE e == joined[q][n]
<1>1. EntryOK(q, n) /\ joined'[q][n] = e /\ n \in Nat /\ n >= 1 /\ e.root \in Rank /\ e.call \in Nat
      /\ Len(joined[q]) \in Nat
  BY LogTypes DEF LogInv, Grown
<1>2. e.kind = "bcast" /\ (n < Len(joined'[q]) \/ pc'[q] # "bcast") => n <= Len(joined'[e.root])
  <2>. SUFFICES ASSUME e.kind = "bcast", n < Len(joined'[q]) \/ pc'[q] # "bcast"
                PROVE  n <= Len(joined'[e.root])
    OBVIOUS
  <2>1. n < Len(joined[q]) \/ pc[q] # "bcast" \/ Served(q)
    OBVIOUS
  <2>2. n <= Len(joined[e.root])
    BY <2>1, BcastsServed
  <2>3. Len(joined[e.root]) <= Len(joined'[e.root])
    BY <1>1 DEF Grown
  <2>4. Len(joined[e.root]) \in Nat
    BY <1>1, LogTypes
  <2>5. e.root = r \/ joined'[e.root] = joined[e.root]
    BY <1>1
  <2>. QED
    BY <1>1, <2>2, <2>3, <2>4, <2>5
<1>3. Follows(q, n - 1, e.call, e.kind)'
  <2>1. n - 1 \in 0..Len(joined[q]) /\ n - 1 < Len(joined[q])
    BY <1>1
  <2>2. n - 1 > 0 => n - 1 \in 1..Len(joined[q])
    BY <1>1
  <2>3. n - 1 > 0 /\ joined[q][n - 1].kind = "bcast" =>
            n - 1 <= Len(joined[joined[q][n - 1].root])
    BY <2>1, <2>2, BcastsServed
  <2>4. Follows(q, n - 1, e.call, e.kind)
    BY <1>1 DEF EntryOK
  <2>5. PICK c, kind : c = e.call /\ kind = e.kind
    OBVIOUS
  <2>6. Follows(q, n - 1, c, kind)
    BY <2>4, <2>5
  <2>7. Follows(q, n - 1, c, kind)'
    BY <2>1, <2>3, <2>6, FollowsStays
  <2>8. n - 1 > 0 => joined'[q][n - 1] = joined[q][n - 1]
    BY <2>2 DEF Grown
  <2>. QED
    BY <1>1, <2>5, <2>7
<1>4. e.call \in 1..Len(program) /\ e.root = RootOf(program[e.call])
  BY <1>1 DEF EntryOK
<1>. QED
  BY <1>1, <1>2, <1>3, <1>4 DEF EntryOK

\* So does where the other ranks are in their calls.
LEMMA OthersPlaces ==
    ASSUME TypeOK, LogInv, NEW r \in Rank, program' = program, Grown,
           NEW q \in Rank \ {r}, joined'[q] = joined[q], pc'[q] = pc[q],
           returned'[q] = returned[q]
    PROVE  PlaceOK(q)' /\ OpOK(q)'
<1>1. PlaceOK(q) /\ OpOK(q)
  BY DEF LogInv
<1>2. Here(q)' = Here(q) /\ Now(q)' = Now(q)
  BY DEF Here, Now
<1>3. LastIs(q, pc[q])' = LastIs(q, pc[q]) /\ LastIs(q, "gatherBody")' = LastIs(q, "gatherBody")
      /\ LastIs(q, "native")' = LastIs(q, "native")
  BY <1>2 DEF LastIs
<1>4. ASSUME UpTo(q, Here(q)), pc[q] # "bcast"
      PROVE  UpTo(q, Here(q))'
  <2>1. CASE Len(joined[q]) = 0
    BY <1>2, <1>4, <2>1 DEF UpTo, NoneBetween
  <2>2. CASE Len(joined[q]) # 0
    <3>1. Len(joined[q]) \in 1..Len(joined[q])
      BY <2>2, LogTypes
    <3>2. After(q, Len(joined[q]))' = After(q, Len(joined[q]))
      BY <1>4, <3>1, BcastsServed, AfterStays
    <3>. QED
      BY <1>2, <1>4, <2>2, <3>2 DEF UpTo, NoneBetween
  <2>. QED
    BY <2>1, <2>2
<1>5. PlaceOK(q)'
  BY <1>1, <1>2, <1>3, <1>4 DEF PlaceOK, JoinedPC
<1>6. OpOK(q)'
  BY <1>1, <1>2 DEF OpOK
<1>. QED
  BY <1>5, <1>6

-----------------------------------------------------------------------------
(***************************************************************************)
(* A step keeps the logs in order when it calls a collective that may come *)
(* next, when it returns from a call none of whose collectives is left,    *)
(* and when it leaves r's log alone.                                       *)
(***************************************************************************)
LEMMA Appended ==
    ASSUME NEW S, NEW s \in Seq(S), NEW x \in S
    PROVE  /\ Len(s) \in Nat /\ Len(Append(s, x)) = Len(s) + 1 /\ Append(s, x)[Len(s) + 1] = x
           /\ \A n \in 1..Len(s) : Append(s, x)[n] = s[n]
OBVIOUS

\* r's log gets the entry e, which may come next.
LEMMA AddedLog ==
    ASSUME TypeOK, LogInv, NEW r \in Rank, NEW m \in Nat, m = Len(joined[r]), NEW e \in Joining,
           Len(joined'[r]) = m + 1, joined'[r][m + 1] = e, Grown, program' = program,
           \A q \in Rank \ {r} : /\ joined'[q] = joined[q] /\ pc'[q] = pc[q]
                                 /\ returned'[q] = returned[q],
           pc'[r] = e.kind, returned'[r] = returned[r],
           e.kind \in JoinedPC, e.call = Here(r), e.call \in 1..Len(program),
           e.root = RootOf(program[e.call]), Served(r), Follows(r, m, e.call, e.kind),
           Now(r).op \in OpsAt(e.kind), e.kind = "native" => UsesNative(Now(r))
    PROVE  LogInv'
<1>1. ASSUME NEW q \in Rank, NEW n \in 1..Len(joined[q]) PROVE EntryOK(q, n)'
  BY EntriesStay
<1>2. Here(r)' = Here(r) /\ Now(r)' = Now(r)
  BY DEF Here, Now
<1>3. m > 0 => m \in 1..Len(joined[r])
  OBVIOUS
<1>4. EntryOK(r, m + 1)'
  <2>1. m > 0 /\ joined[r][m].kind = "bcast" => m <= Len(joined[joined[r][m].root])
    BY <1>3, BcastsServed
  <2>2. Follows(r, m, e.call, e.kind)'
    BY <2>1, FollowsStays
  <2>3. (m + 1) - 1 = m /\ ~(m + 1 < Len(joined'[r]))
    OBVIOUS
  <2>. QED
    BY <2>2, <2>3 DEF EntryOK
<1>5. ASSUME NEW q \in Rank, NEW n \in 1..Len(joined'[q]) PROVE EntryOK(q, n)'
  <2>1. CASE q = r
    <3>1. n \in 1..Len(joined[r]) \/ n = m + 1
      BY <1>5, <2>1
    <3>. QED
      BY <1>1, <1>4, <2>1, <3>1
  <2>2. CASE q # r
    BY <1>1, <1>5, <2>2
  <2>. QED
    BY <2>1, <2>2
<1>6. ASSUME NEW q \in Rank \ {r} PROVE PlaceOK(q)' /\ OpOK(q)'
  BY <1>6, OthersPlaces
<1>7. PlaceOK(r)'
  <2>1. LastIs(r, e.kind)'
    BY <1>2 DEF LastIs
  <2>2. pc'[r] \in JoinedPC /\ LastIs(r, pc[r])'
    BY <2>1
  <2>. QED
    BY <2>2 DEF PlaceOK, JoinedPC
<1>8. OpOK(r)'
  BY <1>2 DEF OpOK, JoinedPC, ByMessages
<1>. DEFINE Same(a, b) == a.call = b.call /\ a.kind = b.kind /\ a.root = b.root
<1>9. ASSUME NEW q \in Rank \ {r}, m + 1 <= Len(joined[q])
      PROVE  Same(joined[q][m + 1], e)
  <2>. PICK f : f = joined[q][m + 1]
    OBVIOUS
  <2>1. m + 1 \in 1..Len(joined[q]) /\ (m + 1) - 1 = m
    BY <1>9, LogTypes
  <2>2. EntryOK(q, m + 1) /\ f.call \in Nat
    BY <2>1, LogTypes DEF LogInv
  <2>3. Follows(q, m, f.call, f.kind) /\ f.root = RootOf(program[f.call])
    BY <2>1, <2>2 DEF EntryOK
  <2>4. m > 0 => Agree(r, q, m)
    <3>1. Len(joined[q]) \in Nat
      BY Zenon, LogTypes
    <3>2. m <= Len(joined[q])
      BY ONLY <1>9, <3>1, m \in Nat
    <3>3. CollectivesMatch
      BY Zenon DEF LogInv
    <3>4. m > 0 => joined[r][m].call \in Nat
      BY Zenon, <1>3, LogTypes
    <3>5. q \in Rank
      OBVIOUS
    <3>. QED
      BY ONLY <1>3, <3>2, <3>3, <3>4, <3>5, r \in Rank DEF CollectivesMatch, Agree
  <2>5. e.call \in Nat
    BY DEF Joining
  <2>6. f.call = e.call /\ f.kind = e.kind
    BY <2>2, <2>3, <2>4, <2>5, SameNext
  <2>7. f.root = e.root
    BY <2>3, <2>6
  <2>. QED
    BY <2>6, <2>7
<1>10. CollectivesMatch'
  <2>1. \A p, q \in Rank : \A n \in 1..Len(joined[p]) :
            n <= Len(joined[q]) => Same(joined[p][n], joined[q][n])
    <3>1. CollectivesMatch
      BY DEF LogInv
    <3>. QED
      BY <3>1 DEF CollectivesMatch
  <2>2. \A a, b : Same(a, b) => Same(b, a)
    OBVIOUS
  <2>3. Same(e, e)
    OBVIOUS
  <2>. HIDE DEF Same
  <2>4. ASSUME NEW p \in Rank, NEW q \in Rank, NEW n \in 1..Len(joined'[p]),
               n <= Len(joined'[q])
        PROVE  Same(joined'[p][n], joined'[q][n])
    <3>1. Len(joined[p]) \in Nat /\ Len(joined[q]) \in Nat /\ n \in Nat /\ n >= 1
      BY <2>4, LogTypes
    <3>2. CASE n <= Len(joined[p]) /\ n <= Len(joined[q])
      <4>1. n \in 1..Len(joined[p]) /\ n \in 1..Len(joined[q])
        BY <3>1, <3>2
      <4>2. joined'[p][n] = joined[p][n] /\ joined'[q][n] = joined[q][n]
        BY <4>1 DEF Grown
      <4>. QED
        BY <2>1, <3>2, <4>1, <4>2
    <3>3. CASE n > m /\ (p = r \/ q = r)
      <4>1. n = m + 1
        BY <2>4, <3>1, <3>3
      <4>2. CASE p = r /\ q = r
        BY <2>3, <4>1, <4>2
      <4>3. CASE p = r /\ q # r
        BY <1>9, <2>2, <2>4, <4>1, <4>3
      <4>4. CASE p # r /\ q = r
        BY <1>9, <2>4, <3>1, <4>1, <4>4
      <4>. QED
        BY <3>3, <4>2, <4>3, <4>4
    <3>. QED
      BY <2>4, <3>1, <3>2, <3>3
  <2>. QED
    BY <2>4 DEF CollectivesMatch, Same
<1>. QED
  BY <1>5, <1>6, <1>7, <1>8, <1>10 DEF LogInv

LEMMA JoinLog ==
    ASSUME TypeOK, LogInv, NEW r \in Rank, NEW v \in Result, NEW kind \in JoinedPC,
           Join(r, kind, v), Go(r, kind), program' = program, returned' = returned,
           Here(r) \in 1..Len(program), Root(r) \in Rank, Served(r),
           Follows(r, Len(joined[r]), Here(r), kind),
           Now(r).op \in OpsAt(kind), kind = "native" => UsesNative(Now(r))
    PROVE  LogInv'
<1>1. PICK e : e = [kind |-> kind, root |-> Root(r), call |-> Here(r), val |-> v]
  OBVIOUS
<1>2. e \in Joining /\ e.kind = kind /\ e.root = Root(r) /\ e.call = Here(r)
  BY <1>1, LogTypes DEF Joining, JoinedPC
<1>3. joined' = [joined EXCEPT ![r] = Append(joined[r], e)] /\ pc' = [pc EXCEPT ![r] = kind]
  BY <1>1 DEF Join, Go
<1>4. joined[r] \in Seq(Joining)
  BY LogTypes
<1>5. joined'[r] = Append(joined[r], e) /\ pc'[r] = kind
      /\ \A q \in Rank \ {r} : joined'[q] = joined[q] /\ pc'[q] = pc[q]
  BY <1>3 DEF TypeOK
<1>6. PICK m \in Nat : m = Len(joined[r])
  BY LogTypes
<1>7. Len(joined'[r]) = m + 1 /\ joined'[r][m + 1] = e
      /\ \A n \in 1..m : joined'[r][n] = joined[r][n]
  BY <1>2, <1>4, <1>5, <1>6, Appended
<1>8. Grown
  <2>1. ASSUME NEW q \in Rank
        PROVE  /\ Len(joined'[q]) >= Len(joined[q])
               /\ \A n \in 1..Len(joined[q]) : joined'[q][n] = joined[q][n]
    <3>1. CASE q = r
      BY <1>6, <1>7, <3>1
    <3>2. CASE q # r
      <4>1. Len(joined[q]) \in Nat
        BY LogTypes
      <4>. QED
        BY <1>5, <3>2, <4>1
    <3>. QED
      BY <3>1, <3>2
  <2>. QED
    BY <2>1 DEF Grown
<1>9. e.root = RootOf(program[e.call])
  BY <1>2 DEF Root, RootOf, Now
<1>. QED
  BY <1>2, <1>5, <1>6, <1>7, <1>8, <1>9, AddedLog

LEMMA StayLog ==
    ASSUME TypeOK, LogInv, NEW r \in Rank, program' = program, joined' = joined,
           \A q \in Rank \ {r} : pc'[q] = pc[q] /\ returned'[q] = returned[q],
           Served(r) \/ pc'[r] = pc[r], PlaceOK(r)', OpOK(r)'
    PROVE  LogInv'
<1>1. Grown
  BY LogTypes DEF Grown
<1>2. \A q \in Rank : \A n \in 1..Len(joined'[q]) : EntryOK(q, n)'
  BY <1>1, EntriesStay
<1>3. ASSUME NEW q \in Rank \ {r} PROVE PlaceOK(q)' /\ OpOK(q)'
  BY <1>1, OthersPlaces
<1>4. CollectivesMatch'
  BY DEF LogInv, CollectivesMatch
<1>. QED
  BY <1>2, <1>3, <1>4 DEF LogInv

LEMMA ReturnLog ==
    ASSUME TypeOK, LogInv, NEW r \in Rank, NEW v, Return(r, v), program' = program,
           joined' = joined, Served(r), UpTo(r, Here(r) + 1)
    PROVE  LogInv'
<1>1. /\ pc'[r] = "ready" /\ returned'[r] = Append(returned[r], v)
      /\ \A q \in Rank \ {r} : pc'[q] = pc[q] /\ returned'[q] = returned[q]
  BY DEF Return, Go, TypeOK
<1>2. returned[r] \in Seq(Result)
  BY DEF TypeOK
<1>3. Len(returned'[r]) = Len(returned[r]) + 1
  BY <1>1, <1>2
<1>4. Here(r)' = Here(r) + 1
  BY <1>3 DEF Here
<1>5. UpTo(r, Here(r))'
  BY <1>4 DEF UpTo, After, NoneBetween
<1>6. PlaceOK(r)' /\ OpOK(r)'
  BY <1>1, <1>5 DEF PlaceOK, OpOK, JoinedPC
<1>. QED
  BY <1>1, <1>6, StayLog

\* A step inside a call that changes no log and not what it says of r.
LEMMA MoveLog ==
    ASSUME TypeOK, LogInv, NEW r \in Rank, NEW where,
           pc' = [pc EXCEPT ![r] = where], UNCHANGED <<program, joined, returned>>,
           pc[r] \notin JoinedPC \cup {"catenate"},
           pc[r] = "fold" => ~UsesNative(Now(r)),
           where \notin JoinedPC \cup {"catenate", "ready"},
           where \in {"fold"} \cup ByMessages => ~UsesNative(Now(r)),
           where \in {"tree", "treeSend"} => UsesTree(Now(r)),
           Now(r).op \in OpsAt(where)
    PROVE  LogInv'
<1>1. pc'[r] = where /\ \A q \in Rank \ {r} : pc'[q] = pc[q] /\ returned'[q] = returned[q]
  BY DEF TypeOK
<1>2. Here(r)' = Here(r) /\ Now(r)' = Now(r)
  BY DEF Here, Now
<1>3. UpTo(r, Here(r))
  BY DEF LogInv, PlaceOK
<1>4. UpTo(r, Here(r))'
  BY <1>2, <1>3 DEF UpTo, After, NoneBetween
<1>5. PlaceOK(r)' /\ OpOK(r)'
  BY <1>1, <1>2, <1>4 DEF PlaceOK, OpOK, JoinedPC
<1>6. Served(r)
  BY DEF Served, JoinedPC
<1>. QED
  BY <1>1, <1>5, <1>6, StayLog

\* A step that leaves r where it was.
LEMMA SameLog ==
    ASSUME TypeOK, LogInv, NEW r \in Rank, UNCHANGED <<program, pc, joined, returned>>
    PROVE  LogInv'
<1>1. PlaceOK(r) /\ OpOK(r) /\ Here(r)' = Here(r) /\ Now(r)' = Now(r)
  BY DEF LogInv, Here, Now
<1>2. PlaceOK(r)' /\ OpOK(r)'
  BY <1>1 DEF PlaceOK, OpOK, LastIs, UpTo, After, NoneBetween
<1>. QED
  BY <1>2, StayLog

-----------------------------------------------------------------------------
(***************************************************************************)
(* Every step is one of these.                                             *)
(***************************************************************************)
LEMMA CallFacts ==
    ASSUME IInv, LogInv, NEW r \in Rank, Len(returned[r]) < Len(program)
    PROVE  /\ TypeOK /\ Here(r) \in 1..Len(program) /\ Now(r) \in Call
           /\ PlaceOK(r) /\ OpOK(r) /\ RootOf(Now(r)) = Root(r)
<1>1. TypeOK /\ Len(returned[r]) \in Nat /\ PlaceOK(r) /\ OpOK(r)
  BY LogTypes DEF IInv, LogInv
<1>2. program \in Seq(Call) /\ Len(program) \in Nat
  BY <1>1, CollectivesAssumption, LenProperties DEF TypeOK
<1>. QED
  BY <1>1, <1>2, NowIsCall DEF Here, RootOf, Root

\* The same, where a call begins and inside one.
LEMMA InCall ==
    ASSUME IInv, LogInv, NEW r \in Rank, pc[r] # "ready"
    PROVE  /\ TypeOK /\ Here(r) \in 1..Len(program) /\ Now(r) \in Call /\ Root(r) \in Rank
           /\ PlaceOK(r) /\ Now(r).op \in OpsAt(pc[r]) /\ RootOf(Now(r)) = Root(r)
BY LocalFacts, CallFacts DEF OpOK

LEMMA AtReady ==
    ASSUME IInv, LogInv, NEW r \in Rank, NEW ops, Begin(r, ops)
    PROVE  /\ TypeOK /\ Here(r) \in 1..Len(program) /\ Now(r) \in Call /\ Now(r).op \in Op
           /\ Now(r).op \in ops /\ Own(r) \in Result /\ RootOf(Now(r)) = Root(r)
           /\ pc[r] = "ready" /\ UpTo(r, Here(r))
BY BeginFacts, CallFacts DEF Begin, PlaceOK, JoinedPC, Call

\* A call that is in no collective of its own.
LEMMA QuietPlace ==
    ASSUME LogInv, NEW r \in Rank, pc[r] \notin JoinedPC \cup {"catenate"},
           pc[r] = "fold" => ~UsesNative(Now(r))
    PROVE  UpTo(r, Here(r))
BY DEF LogInv, PlaceOK

LEMMA StartsLog ==
    ASSUME IInv, LogInv, NEW r \in Rank, NEW v \in Result, NEW kind \in JoinedPC,
           Join(r, kind, v), Go(r, kind), program' = program, returned' = returned,
           TypeOK, Here(r) \in 1..Len(program), Root(r) \in Rank,
           pc[r] # "bcast", UpTo(r, Here(r)), FirstKind(Now(r)) = kind,
           Now(r).op \in OpsAt(kind), kind = "native" => UsesNative(Now(r))
    PROVE  LogInv'
<1>1. Follows(r, Len(joined[r]), Here(r), kind)
  BY StartsCall DEF JoinedPC
<1>2. Served(r)
  BY DEF Served
<1>. QED
  BY <1>1, <1>2, JoinLog

LEMMA SkipsLog ==
    ASSUME LogInv, NEW r \in Rank, NEW v, TypeOK, Return(r, v), program' = program,
           joined' = joined, pc[r] # "bcast", UpTo(r, Here(r)), FirstKind(Now(r)) = "none"
    PROVE  LogInv'
<1>1. UpTo(r, Here(r) + 1) /\ Served(r)
  BY SkipsCall DEF Served
<1>. QED
  BY <1>1, ReturnLog

\* What comes after the last collective of a rank.
LEMMA LastFacts ==
    ASSUME LogInv, NEW r \in Rank, TypeOK, NEW kind \in JoinedPC \ {"bcast"}, LastIs(r, kind)
    PROVE  After(r, Len(joined[r])) =
               IF kind = "gather" THEN "gatherBody"
               ELSE IF kind = "gatherBody" /\ Now(r).op = "allgather" THEN "bcast" ELSE "none"
<1>1. After(r, Len(joined[r])) = NextKind(Now(r), kind, Long(Now(r), Given(r, Root(r))))
  BY AfterLast DEF LogInv
<1>. QED
  BY <1>1 DEF NextKind, JoinedPC

LEMMA EndsLog ==
    ASSUME LogInv, NEW r \in Rank, NEW v, TypeOK, Return(r, v), program' = program,
           joined' = joined, pc[r] # "bcast", NEW kind \in JoinedPC \ {"bcast", "gather"},
           LastIs(r, kind), kind = "gatherBody" => Now(r).op # "allgather"
    PROVE  LogInv'
<1>1. After(r, Len(joined[r])) = "none"
  BY LastFacts
<1>2. UpTo(r, Here(r) + 1) /\ Served(r)
  BY <1>1, EndsCall DEF Served
<1>. QED
  BY <1>2, ReturnLog

LEMMA GoesOnLog ==
    ASSUME IInv, LogInv, NEW r \in Rank, NEW v \in Result, NEW kind \in JoinedPC, NEW last,
           Join(r, kind, v), Go(r, kind), program' = program, returned' = returned,
           TypeOK, Here(r) \in 1..Len(program), Root(r) \in Rank, Served(r),
           LastIs(r, last), After(r, Len(joined[r])) = kind,
           Now(r).op \in OpsAt(kind), kind # "native"
    PROVE  LogInv'
<1>1. Follows(r, Len(joined[r]), Here(r), kind)
  BY GoesOn DEF JoinedPC
<1>. QED
  BY <1>1, JoinLog

LEMMA BeginningsLog ==
    ASSUME IInv, LogInv, NEW r \in Rank,
           \/ RejectRoot(r) \/ CallBarrier(r) \/ CallBcast(r) \/ CallGather(r) \/ CallNative(r)
           \/ Bystander(r)
    PROVE  LogInv'
<1>1. CASE RejectRoot(r)
  <2>1. FirstKind(Now(r)) = "none"
    BY <1>1, AtReady DEF RejectRoot, Valid, FirstKind
  <2>. QED
    BY <1>1, <2>1, AtReady, SkipsLog DEF RejectRoot
<1>2. CASE CallBarrier(r)
  <2>1. FirstKind(Now(r)) = "barrier" /\ Root(r) \in Rank
    BY <1>2, AtReady DEF CallBarrier, Valid, FirstKind
  <2>2. "barrier" \in JoinedPC /\ OpsAt("barrier") = Op
    BY DEF OpsAt, JoinedPC
  <2>. QED
    BY <1>2, <2>1, <2>2, AtReady, StartsLog, ValuesAreResults DEF CallBarrier
<1>3. CASE CallBcast(r)
  <2>1. FirstKind(Now(r)) = "bcast" /\ Root(r) \in Rank
    BY <1>3, AtReady DEF CallBcast, Valid, FirstKind
  <2>2. "bcast" \in JoinedPC /\ OpsAt("bcast") = Op
    BY DEF OpsAt, JoinedPC
  <2>. QED
    BY <1>3, <2>1, <2>2, AtReady, StartsLog DEF CallBcast, StartBcast
<1>4. CASE CallGather(r)
  <2>1. FirstKind(Now(r)) = "gather" /\ Root(r) \in Rank
    BY <1>4, AtReady DEF CallGather, Valid, FirstKind
  <2>2. "gather" \in JoinedPC /\ OpsAt("gather") = {"gather", "allgather"}
    BY DEF OpsAt, JoinedPC
  <2>. QED
    BY <1>4, <2>1, <2>2, AtReady, StartsLog DEF CallGather
<1>5. CASE CallNative(r)
  <2>1. FirstKind(Now(r)) = "native" /\ Root(r) \in Rank /\ UsesNative(Now(r))
    BY <1>5, AtReady DEF CallNative, Valid, FirstKind, Reduction
  <2>2. "native" \in JoinedPC /\ OpsAt("native") = Reduction
    BY DEF OpsAt, JoinedPC
  <2>. QED
    BY <1>5, <2>1, <2>2, AtReady, StartsLog DEF CallNative
<1>6. CASE Bystander(r)
  <2>1. FirstKind(Now(r)) = "none"
    BY <1>6, AtReady DEF Bystander, FirstKind, Reduction
  <2>. QED
    BY <1>6, <2>1, AtReady, SkipsLog DEF Bystander
<1>. QED
  BY <1>1, <1>2, <1>3, <1>4, <1>5, <1>6

LEMMA MessageCallsLog ==
    ASSUME IInv, LogInv, NEW r \in Rank,
           CallScatter(r) \/ CallReduce(r) \/ CallTree(r) \/ CallMessage(r)
    PROVE  LogInv'
<1>. DEFINE Moves(where) ==
                /\ pc' = [pc EXCEPT ![r] = where]
                /\ Now(r).op \in OpsAt(where)
                /\ where \in {"fold"} \cup ByMessages => ~UsesNative(Now(r))
                /\ where \in {"tree", "treeSend"} => UsesTree(Now(r))
                /\ where \notin JoinedPC \cup {"catenate", "ready"}
<1>1. UNCHANGED <<program, joined, returned>> /\ pc[r] = "ready" /\ TypeOK
  BY AtReady DEF CallScatter, CallReduce, CallTree, CallMessage
<1>2. \E where : Moves(where)
  <2>1. CASE CallScatter(r)
    <3>1. Moves("scatter") \/ Moves("scatterRecv")
      BY <2>1, AtReady DEF CallScatter, Go, OpsAt, ByMessages, JoinedPC
    <3>. QED
      BY <3>1
  <2>2. CASE CallReduce(r)
    <3>1. Moves("collect") \/ Moves("collectSend")
      BY <2>2, AtReady DEF CallReduce, Go, OpsAt, ByMessages, JoinedPC
    <3>. QED
      BY <3>1
  <2>3. CASE CallTree(r)
    <3>1. Moves("tree")
      BY <2>3, AtReady DEF CallTree, Go, OpsAt, ByMessages, JoinedPC, UsesTree
    <3>. QED
      BY <3>1
  <2>4. CASE CallMessage(r)
    <3>1. Moves("messageSend") \/ Moves("messageRecv")
      BY <2>4, AtReady DEF CallMessage, Go, OpsAt, ByMessages, JoinedPC
    <3>. QED
      BY <3>1
  <2>. QED
    BY <2>1, <2>2, <2>3, <2>4
<1>3. PICK where : Moves(where)
  BY <1>2
<1>4. pc[r] \notin JoinedPC \cup {"catenate"} /\ pc[r] # "fold"
  BY <1>1 DEF JoinedPC
<1>. QED
  BY <1>1, <1>3, <1>4, MoveLog

LEMMA BarrierAndBcastLog ==
    ASSUME IInv, LogInv, NEW r \in Rank, NEW early,
           BarrierDone(r) \/ BcastDone(r, early) \/ BcastBodyDone(r, early)
    PROVE  LogInv'
<1>1. CASE BarrierDone(r)
  <2>1. TypeOK /\ pc[r] = "barrier" /\ LastIs(r, "barrier")
    BY <1>1, InCall DEF BarrierDone, PlaceOK, JoinedPC
  <2>. QED
    BY <1>1, <2>1, EndsLog DEF BarrierDone, JoinedPC
<1>2. CASE BcastDone(r, early)
  <2>. DEFINE v == Given(r, Root(r))
  <2>1. TypeOK /\ pc[r] = "bcast" /\ LastIs(r, "bcast") /\ Root(r) \in Rank
        /\ Here(r) \in 1..Len(program) /\ BcastOver(r, early) /\ Now(r).op \in Op
        /\ program' = program
    BY <1>2, InCall DEF BcastDone, PlaceOK, JoinedPC, Call
  <2>2. Served(r)
    <3>1. Len(joined[Root(r)]) >= Len(joined[r])
      BY <2>1 DEF BcastOver, Over
    <3>. QED
      BY <2>1, <3>1, LogTypes DEF Served
  <2>3. After(r, Len(joined[r])) = NextKind(Now(r), "bcast", Long(Now(r), v))
    BY <2>1, AfterLast DEF LogInv
  <2>4. CASE /\ Long(Now(r), v) /\ Join(r, "bcastBody", v) /\ Go(r, "bcastBody")
             /\ returned' = returned
    <3>1. After(r, Len(joined[r])) = "bcastBody" /\ "bcastBody" \in JoinedPC
          /\ OpsAt("bcastBody") = Op
      BY <2>3, <2>4 DEF NextKind, JoinedPC, OpsAt
    <3>2. v \in Result
      BY <2>1, BcastOverGives
    <3>. QED
      BY <2>1, <2>2, <2>4, <3>1, <3>2, GoesOnLog
  <2>5. CASE ~Long(Now(r), v) /\ ReturnBcast(r, v) /\ joined' = joined
    <3>1. After(r, Len(joined[r])) = "none"
      BY <2>3, <2>5 DEF NextKind
    <3>2. UpTo(r, Here(r) + 1)
      BY <2>1, <3>1, EndsCall
    <3>. QED
      BY <2>1, <2>2, <2>5, <3>2, ReturnLog DEF ReturnBcast
  <2>. QED
    BY <1>2, <2>4, <2>5 DEF BcastDone
<1>3. CASE BcastBodyDone(r, early)
  <2>1. TypeOK /\ pc[r] = "bcastBody" /\ LastIs(r, "bcastBody")
    BY <1>3, InCall DEF BcastBodyDone, PlaceOK, JoinedPC
  <2>. QED
    BY <1>3, <2>1, EndsLog DEF BcastBodyDone, ReturnBcast, JoinedPC
<1>. QED
  BY <1>1, <1>2, <1>3

\* allgather and allreduce go on with a bcast.
LEMMA BcastFollowsLog ==
    ASSUME IInv, LogInv, NEW r \in Rank, NEW v \in Result, StartBcast(r, v), pc[r] # "ready",
           NEW kind \in JoinedPC, LastIs(r, kind), After(r, Len(joined[r])) = "bcast",
           pc[r] # "bcast"
    PROVE  LogInv'
<1>1. TypeOK /\ Here(r) \in 1..Len(program) /\ Root(r) \in Rank /\ Now(r).op \in Op
  BY InCall DEF Call
<1>2. "bcast" \in JoinedPC /\ OpsAt("bcast") = Op /\ Served(r)
  BY DEF JoinedPC, OpsAt, Served
<1>. QED
  BY <1>1, <1>2, GoesOnLog DEF StartBcast

LEMMA BcastStartsLog ==
    ASSUME IInv, LogInv, NEW r \in Rank, NEW v \in Result, StartBcast(r, v), pc[r] # "ready",
           UpTo(r, Here(r)), Now(r).op = "allreduce", ~UsesNative(Now(r)), pc[r] # "bcast"
    PROVE  LogInv'
<1>1. TypeOK /\ Here(r) \in 1..Len(program) /\ Root(r) \in Rank /\ Now(r).op \in Op
      /\ RootOf(Now(r)) = Root(r)
  BY InCall DEF Call
<1>2. "bcast" \in JoinedPC /\ OpsAt("bcast") = Op
  BY DEF JoinedPC, OpsAt
<1>3. FirstKind(Now(r)) = "bcast"
  BY <1>1 DEF FirstKind
<1>. QED
  BY <1>1, <1>2, <1>3, StartsLog DEF StartBcast

LEMMA GatherLog ==
    ASSUME IInv, LogInv, ValuesInv, NoneCutShort, NEW r \in Rank, NEW early,
           GatherDone(r, early) \/ GatherBodyDone(r, early) \/ Catenate(r) \/ GatherEnds(r)
    PROVE  LogInv'
<1>1. CASE GatherDone(r, early)
  <2>1. /\ TypeOK /\ pc[r] = "gather" /\ LastIs(r, "gather") /\ Root(r) \in Rank
        /\ Here(r) \in 1..Len(program) /\ Now(r).op \in {"gather", "allgather"}
        /\ Own(r) \in Result
    BY <1>1, InCall, LocalFacts DEF GatherDone, PlaceOK, JoinedPC, OpsAt
  <2>2. "gatherBody" \in JoinedPC /\ OpsAt("gatherBody") = {"gather", "allgather"} /\ Served(r)
        /\ "gather" \in JoinedPC
    BY <2>1 DEF JoinedPC, OpsAt, Served
  <2>3. After(r, Len(joined[r])) = "gatherBody"
    BY <2>1, <2>2, LastFacts
  <2>. QED
    BY <1>1, <2>1, <2>2, <2>3, GoesOnLog DEF GatherDone
<1>2. CASE GatherBodyDone(r, early)
  <2>1. /\ TypeOK /\ pc[r] = "gatherBody" /\ LastIs(r, "gatherBody")
        /\ Now(r).op \in {"gather", "allgather"} /\ "gatherBody" \in JoinedPC
    BY <1>2, InCall DEF GatherBodyDone, PlaceOK, JoinedPC, OpsAt
  <2>2. CASE Go(r, "catenate") /\ UNCHANGED <<program, joined, returned>>
    <3>1. pc'[r] = "catenate" /\ \A q \in Rank \ {r} : pc'[q] = pc[q]
      BY <2>1, <2>2 DEF Go, TypeOK
    <3>2. LastIs(r, "gatherBody")' /\ Now(r)' = Now(r)
      BY <2>1, <2>2 DEF LastIs, Here, Now
    <3>3. PlaceOK(r)' /\ OpOK(r)'
      BY <2>1, <3>1, <3>2 DEF PlaceOK, OpOK, JoinedPC, OpsAt, ByMessages
    <3>4. Served(r)
      BY <2>1 DEF Served
    <3>. QED
      BY <2>1, <2>2, <3>1, <3>3, <3>4, StayLog
  <2>3. CASE Now(r).op = "gather" /\ Return(r, None) /\ UNCHANGED <<program, chan, joined>>
    BY <2>1, <2>3, EndsLog
  <2>4. CASE Now(r).op = "allgather" /\ StartBcast(r, None)
    <3>1. After(r, Len(joined[r])) = "bcast"
      BY <2>1, <2>4, LastFacts
    <3>. QED
      BY <2>1, <2>4, <3>1, BcastFollowsLog, ValuesAreResults
  <2>. QED
    BY <1>2, <2>2, <2>3, <2>4 DEF GatherBodyDone
<1>3. CASE Catenate(r)
  BY <1>3, SameLog DEF Catenate, IInv
<1>4. CASE GatherEnds(r)
  <2>1. /\ TypeOK /\ pc[r] = "catenate" /\ LastIs(r, "gatherBody") /\ partial[r] \in Result
        /\ Now(r).op \in {"gather", "allgather"} /\ "gatherBody" \in JoinedPC
        /\ Here(r) \in 1..Len(program)
    BY <1>4, InCall, LocalFacts DEF GatherEnds, PlaceOK, JoinedPC, OpsAt
  <2>2. Now(r).op = "allgather" => partial[r] # Raised
    <3>1. Now(r).op = "allgather" => Now(r).bad = {}
      BY <2>1 DEF NoneCutShort, TypeOK, Now
    <3>2. Now(r).bad = {} => IsValue(partial[r])
      BY <2>1 DEF ValuesInv, CatenateValues
    <3>. QED
      BY <3>1, <3>2 DEF IsValue, Raised
  <2>3. CASE Now(r).op = "gather" /\ Return(r, partial[r]) /\ UNCHANGED <<program, chan, joined>>
    BY <2>1, <2>3, EndsLog
  <2>4. CASE Now(r).op = "allgather" /\ StartBcast(r, partial[r])
    <3>1. After(r, Len(joined[r])) = "bcast"
      BY <2>1, <2>4, LastFacts
    <3>. QED
      BY <2>1, <2>4, <3>1, BcastFollowsLog
  <2>. QED
    BY <1>4, <2>1, <2>2, <2>3, <2>4 DEF GatherEnds
<1>. QED
  BY <1>1, <1>2, <1>3, <1>4

\* A step inside a call that has called no MPI collective so far.
LEMMA Inside ==
    ASSUME IInv, LogInv, NEW r \in Rank, pc[r] \notin JoinedPC \cup {"catenate", "ready"},
           pc[r] = "fold" => ~UsesNative(Now(r))
    PROVE  /\ TypeOK /\ UpTo(r, Here(r)) /\ OpOK(r) /\ Root(r) \in Rank
           /\ Now(r).op \in OpsAt(pc[r])
           /\ ~UsesNative(Now(r)) /\ Now(r).op \in {"reduce", "scan", "scatter", "message"} =>
                  FirstKind(Now(r)) = "none"
           /\ Now(r).op \in {"scatter", "message"} => FirstKind(Now(r)) = "none"
<1>1. \A c : /\ c.op \notin {"barrier", "bcast", "gather", "allgather", "allreduce"}
             /\ ~(c.op \in Reduction /\ UsesNative(c))
             => FirstKind(c) = "none"
  BY DEF FirstKind
<1>. QED
  BY <1>1, InCall, QuietPlace DEF LogInv, Reduction

LEMMA ScatterLog ==
    ASSUME IInv, LogInv, NEW r \in Rank, NEW early,
           \/ ScatterKeep(r) \/ ScatterSend(r) \/ ScatterSent(r, early)
           \/ ScatterDone(r) \/ ScatterRecv(r)
    PROVE  LogInv'
<1>1. pc[r] \in {"scatter", "scatterSend", "scatterRecv"}
  BY DEF ScatterKeep, ScatterSend, ScatterSent, ScatterDone, ScatterRecv
<1>2. /\ TypeOK /\ UpTo(r, Here(r)) /\ Now(r).op = "scatter" /\ FirstKind(Now(r)) = "none"
      /\ pc[r] \notin JoinedPC \cup {"catenate", "fold"}
  BY <1>1, Inside DEF JoinedPC, OpsAt
<1>3. CASE ScatterKeep(r)
  BY <1>2, <1>3, SameLog DEF ScatterKeep
<1>4. CASE ScatterSend(r)
  BY <1>2, <1>4, MoveLog DEF ScatterSend, Go, JoinedPC, OpsAt, ByMessages
<1>5. CASE ScatterSent(r, early)
  BY <1>2, <1>5, MoveLog DEF ScatterSent, Go, JoinedPC, OpsAt, ByMessages
<1>6. CASE \E v : Return(r, v) /\ UNCHANGED <<program, joined>>
  BY <1>2, <1>6, SkipsLog DEF JoinedPC
<1>7. ScatterDone(r) \/ ScatterRecv(r) => \E v : Return(r, v) /\ UNCHANGED <<program, joined>>
  BY DEF ScatterDone, ScatterRecv
<1>. QED
  BY <1>3, <1>4, <1>5, <1>6, <1>7

LEMMA NativeAndFoldLog ==
    ASSUME IInv, LogInv, NEW r \in Rank, NEW early,
           NativeDone(r, early) \/ Fold(r) \/ FoldDone(r)
    PROVE  LogInv'
<1>1. CASE NativeDone(r, early)
  <2>1. /\ TypeOK /\ pc[r] = "native" /\ LastIs(r, "native") /\ "native" \in JoinedPC
        /\ UsesNative(Now(r)) /\ Now(r).op \in Reduction /\ OpsAt("fold") = Reduction
        /\ UNCHANGED <<program, joined>>
    BY <1>1, InCall DEF NativeDone, PlaceOK, JoinedPC, OpsAt, LogInv, OpOK
  <2>2. CASE Return(r, None)
    BY <2>1, <2>2, EndsLog
  <2>3. CASE Go(r, "fold") /\ returned' = returned
    <3>1. pc'[r] = "fold" /\ \A q \in Rank \ {r} : pc'[q] = pc[q]
      BY <2>1, <2>3 DEF Go, TypeOK
    <3>2. LastIs(r, "native")' /\ Now(r)' = Now(r)
      BY <2>1, <2>3 DEF LastIs, Here, Now
    <3>3. PlaceOK(r)' /\ OpOK(r)'
      BY <2>1, <3>1, <3>2 DEF PlaceOK, OpOK, JoinedPC, ByMessages
    <3>4. Served(r)
      BY <2>1 DEF Served
    <3>. QED
      BY <2>1, <2>3, <3>1, <3>3, <3>4, StayLog
  <2>. QED
    BY <1>1, <2>2, <2>3 DEF NativeDone
<1>2. CASE Fold(r)
  BY <1>2, SameLog DEF Fold, IInv
<1>3. CASE FoldDone(r)
  <2>1. /\ TypeOK /\ pc[r] = "fold" /\ Now(r).op \in Reduction /\ PlaceOK(r)
        /\ partial[r] \in Result /\ ErrorType \in Result
    BY <1>3, InCall, LocalFacts, ValuesAreResults DEF FoldDone, OpsAt
  <2>2. CASE UsesNative(Now(r))
    <3>1. LastIs(r, "native") /\ "native" \in JoinedPC
      BY <2>1, <2>2 DEF PlaceOK, JoinedPC
    <3>2. Return(r, partial[r]) /\ UNCHANGED <<program, joined>>
      BY <1>3, <2>2 DEF FoldDone
    <3>. QED
      BY <2>1, <3>1, <3>2, EndsLog
  <2>3. CASE ~UsesNative(Now(r))
    <3>1. UpTo(r, Here(r))
          /\ (Now(r).op \in {"reduce", "scan"} => FirstKind(Now(r)) = "none")
      BY <2>1, <2>3, Inside DEF JoinedPC
    <3>2. CASE Now(r).op # "allreduce"
      <4>1. Return(r, partial[r]) /\ UNCHANGED <<program, joined>>
        BY <1>3, <3>2 DEF FoldDone
      <4>. QED
        BY <2>1, <3>1, <3>2, <4>1, SkipsLog DEF Reduction
    <3>3. CASE Now(r).op = "allreduce"
      <4>1. StartBcast(r, IF partial[r] = Raised THEN ErrorType ELSE partial[r])
        BY <1>3, <2>3, <3>3 DEF FoldDone
      <4>. QED
        BY <2>1, <2>3, <3>1, <3>3, <4>1, BcastStartsLog
    <3>. QED
      BY <3>2, <3>3
  <2>. QED
    BY <2>2, <2>3
<1>. QED
  BY <1>1, <1>2, <1>3

LEMMA CollectLog ==
    ASSUME IInv, LogInv, NEW r \in Rank, NEW early,
           CollectFrom(r) \/ CollectOwn(r) \/ CollectSent(r, early) \/ Collected(r)
    PROVE  LogInv'
<1>1. pc[r] \in {"collect", "collectSend"}
  BY DEF CollectFrom, CollectOwn, CollectSent, Collected
<1>2. /\ TypeOK /\ UpTo(r, Here(r)) /\ Now(r).op \in Reduction /\ ~UsesNative(Now(r))
      /\ (Now(r).op \in {"reduce", "scan"} => FirstKind(Now(r)) = "none")
      /\ pc[r] \notin JoinedPC \cup {"catenate", "fold", "ready"}
  BY <1>1, Inside DEF JoinedPC, OpsAt, OpOK, ByMessages
<1>3. CASE CollectFrom(r) \/ CollectOwn(r)
  BY <1>2, <1>3, SameLog DEF CollectFrom, CollectOwn
<1>4. CASE CollectSent(r, early)
  <2>1. CASE Now(r).op = "reduce" /\ Return(r, None) /\ UNCHANGED <<program, chan, joined>>
    BY <1>2, <2>1, SkipsLog DEF JoinedPC
  <2>2. CASE Now(r).op = "allreduce" /\ StartBcast(r, None)
    BY <1>2, <2>2, BcastStartsLog, ValuesAreResults DEF JoinedPC
  <2>3. CASE /\ Now(r).op = "scan" /\ Go(r, "scanRecv")
             /\ UNCHANGED <<program, data, item, partial, cut, chan, joined, returned>>
    BY <1>2, <2>3, MoveLog DEF Go, JoinedPC, OpsAt
  <2>. QED
    BY <1>4, <2>1, <2>2, <2>3 DEF CollectSent
<1>5. CASE Collected(r)
  <2>1. UNCHANGED <<program, joined, returned>>
    BY <1>5 DEF Collected
  <2>2. CASE Now(r).op = "scan"
    <3>1. pc' = [pc EXCEPT ![r] = "scan"]
      BY <1>5, <2>2 DEF Collected, Go
    <3>. QED
      BY <1>2, <2>1, <2>2, <3>1, MoveLog DEF JoinedPC, OpsAt
  <2>3. CASE Now(r).op # "scan"
    <3>1. pc' = [pc EXCEPT ![r] = "fold"]
      BY <1>5, <2>3 DEF Collected, Go
    <3>. QED
      BY <1>2, <2>1, <3>1, MoveLog DEF JoinedPC, OpsAt
  <2>. QED
    BY <2>2, <2>3
<1>. QED
  BY <1>3, <1>4, <1>5

LEMMA ScanLog ==
    ASSUME IInv, LogInv, NEW r \in Rank, NEW early,
           ScanNext(r) \/ ScanSent(r, early) \/ ScanDone(r) \/ ScanRecv(r)
    PROVE  LogInv'
<1>1. pc[r] \in {"scan", "scanSend", "scanRecv"}
  BY DEF ScanNext, ScanSent, ScanDone, ScanRecv
<1>2. /\ TypeOK /\ UpTo(r, Here(r)) /\ Now(r).op = "scan" /\ ~UsesNative(Now(r))
      /\ FirstKind(Now(r)) = "none" /\ pc[r] \notin JoinedPC \cup {"catenate", "fold"}
  BY <1>1, Inside DEF JoinedPC, OpsAt, OpOK, ByMessages
<1>3. CASE ScanNext(r)
  <2>1. UNCHANGED <<program, joined, returned>>
        /\ (UNCHANGED pc \/ pc' = [pc EXCEPT ![r] = "scanSend"])
    BY <1>3 DEF ScanNext, Go
  <2>2. CASE UNCHANGED pc
    BY <1>2, <2>1, <2>2, SameLog
  <2>3. CASE pc' = [pc EXCEPT ![r] = "scanSend"]
    BY <1>2, <2>1, <2>3, MoveLog DEF JoinedPC, OpsAt
  <2>. QED
    BY <2>1, <2>2, <2>3
<1>4. CASE ScanSent(r, early)
  BY <1>2, <1>4, MoveLog DEF ScanSent, Go, JoinedPC, OpsAt
<1>5. CASE \E v : Return(r, v) /\ UNCHANGED <<program, joined>>
  BY <1>2, <1>5, SkipsLog DEF JoinedPC
<1>6. ScanDone(r) \/ ScanRecv(r) => \E v : Return(r, v) /\ UNCHANGED <<program, joined>>
  BY DEF ScanDone, ScanRecv
<1>. QED
  BY <1>3, <1>4, <1>5, <1>6

LEMMA RaisedOrValue ==
    ASSUME NEW c, NEW x, NEW y
    PROVE  /\ Apply(c, x, y) # Raised => IsValue(Apply(c, x, y))
           /\ IsValue(x) /\ IsValue(y) /\ c.bad = {} => IsValue(Apply(c, x, y))
           /\ ~IsValue(Raised) /\ \A k, q : IsValue(One(k, q))
           /\ \A s : IsValue(Value(s))
BY DEF Apply, IsValue, Value, Raised, One

LEMMA TreeLog ==
    ASSUME IInv, LogInv, ValuesInv, NoneCutShort, NEW r \in Rank, NEW early,
           TreeSend(r) \/ TreeReceive(r) \/ TreeOrphan(r) \/ TreeDone(r, early)
    PROVE  LogInv'
<1>1. pc[r] \in {"tree", "treeSend"}
  BY DEF TreeSend, TreeReceive, TreeOrphan, TreeDone
<1>2. /\ TypeOK /\ UpTo(r, Here(r)) /\ Now(r).op \in Reduction /\ ~UsesNative(Now(r))
      /\ UsesTree(Now(r)) /\ Here(r) \in 1..Len(program)
      /\ (Now(r).op \in {"reduce", "scan"} => FirstKind(Now(r)) = "none")
      /\ pc[r] \notin JoinedPC \cup {"catenate", "fold", "ready"}
  BY <1>1, Inside, InCall DEF JoinedPC, OpsAt, OpOK, ByMessages
<1>3. CASE TreeSend(r)
  BY <1>2, <1>3, MoveLog DEF TreeSend, Go, JoinedPC, OpsAt
<1>4. CASE TreeOrphan(r)
  BY <1>2, <1>4, SameLog DEF TreeOrphan
<1>5. CASE TreeReceive(r)
  <2>1. PICK i \in 1..Len(chan[TreeChild(r)][r]) :
            /\ Receive(TreeChild(r), r, i, TreeTag)
            /\ LET w == Apply(Now(r), data[r][1], chan[TreeChild(r)][r][i].val)
               IN  \/ /\ w = Raised
                      /\ Return(r, Raised)
                   \/ /\ w # Raised
                      /\ data' = [data EXCEPT ![r] = <<w>>]
                      /\ NextRound(r)
                      /\ UNCHANGED <<pc, partial, cut, returned>>
    BY <1>5 DEF TreeReceive
  <2>. DEFINE w == Apply(Now(r), data[r][1], chan[TreeChild(r)][r][i].val)
  <2>2. UNCHANGED <<program, joined>>
    BY <1>5 DEF TreeReceive
  <2>3. CASE w = Raised /\ Return(r, Raised)
    <3>1. IsValue(data[r][1]) /\ IsValue(chan[TreeChild(r)][r][i].val)
      <4>1. TreeChild(r) \in Rank
        BY <1>2, InCall, LocalFacts, TreeRanks
      <4>2. chan[TreeChild(r)][r][i].tag = TreeTag
        BY <2>1 DEF Receive, Fits, TreeTag, ANY_TAG
      <4>. QED
        BY <1>1, <2>1, <4>1, <4>2 DEF ValuesInv, TreeValue, ChanValues
    <3>2. Now(r).bad # {}
      BY <2>3, <3>1, RaisedOrValue
    <3>3. Now(r).op # "allreduce"
      BY <1>2, <3>2 DEF NoneCutShort, TypeOK, Now
    <3>4. FirstKind(Now(r)) = "none"
      BY <1>2, <3>3 DEF Reduction
    <3>. QED
      BY <1>2, <2>2, <2>3, <3>4, SkipsLog DEF JoinedPC
  <2>4. CASE UNCHANGED <<pc, partial, cut, returned>>
    BY <1>2, <2>2, <2>4, SameLog
  <2>. QED
    BY <2>1, <2>3, <2>4
<1>6. CASE TreeDone(r, early)
  <2>1. CASE /\ Now(r).op = "reduce" /\ UNCHANGED <<program, chan, joined>>
             /\ Return(r, IF IsRoot(r) THEN data[r][1] ELSE None)
    BY <1>2, <2>1, SkipsLog DEF JoinedPC
  <2>2. CASE Now(r).op = "allreduce" /\ StartBcast(r, data[r][1])
    <3>1. data[r] \in Seq(Result) /\ Len(data[r]) = 1
      BY <1>1, <1>2, LocalFacts DEF LocalOK, LocalsOK
    <3>2. data[r][1] \in Result
      BY <3>1, ElementOfSeq
    <3>. QED
      BY <1>2, <2>2, <3>2, BcastStartsLog DEF JoinedPC
  <2>. QED
    BY <1>6, <2>1, <2>2 DEF TreeDone
<1>. QED
  BY <1>3, <1>4, <1>5, <1>6

LEMMA MessageLog ==
    ASSUME IInv, LogInv, NEW r \in Rank, NEW early, MessageSent(r, early) \/ MessageReceived(r)
    PROVE  LogInv'
<1>1. pc[r] \in {"messageSend", "messageRecv"}
  BY DEF MessageSent, MessageReceived
<1>2. /\ TypeOK /\ UpTo(r, Here(r)) /\ FirstKind(Now(r)) = "none" /\ pc[r] # "bcast"
  BY <1>1, Inside DEF JoinedPC, OpsAt
<1>3. \E v : Return(r, v) /\ UNCHANGED <<program, joined>>
  BY DEF MessageSent, MessageReceived
<1>. QED
  BY <1>2, <1>3, SkipsLog

LEMMA StepLog ==
    ASSUME IInv, LogInv, ValuesInv, NoneCutShort, NEW r \in Rank, NEW early \in BOOLEAN,
           Step(r, early)
    PROVE  LogInv'
BY BeginningsLog, MessageCallsLog, BarrierAndBcastLog, GatherLog, ScatterLog, NativeAndFoldLog,
   CollectLog, ScanLog, TreeLog, MessageLog DEF Step, Calls

-----------------------------------------------------------------------------
(***************************************************************************)
(* Exceptions stay out of the messages of a tree and the objects of a      *)
(* gather.  First what a step does to the channels, the logs and pc.       *)
(***************************************************************************)
ChanStep(r) ==
    \/ chan' = chan
    \/ \E d \in Rank : \E tag, v : Send(r, d, tag, v) /\ (tag # TreeTag \/ IsValue(v))
    \/ \E s, d \in Rank : \E tag : \E i \in 1..Len(chan[s][d]) : Receive(s, d, i, tag)

LogStep(r) ==
    \/ joined' = joined
    \/ \E kind, v : Join(r, kind, v) /\ (kind # "gatherBody" \/ IsValue(v))

Plain(r) == pc'[r] \notin {"tree", "treeSend", "catenate"}

LEMMA Places ==
    ASSUME TypeOK, NEW r \in Rank
    PROVE  /\ \A where : Go(r, where) => pc'[r] = where
           /\ \A v : Return(r, v) => pc'[r] = "ready" /\ partial' = [partial EXCEPT ![r] = Null]
           /\ \A v : StartBcast(r, v) =>
                  /\ pc'[r] = "bcast" /\ UNCHANGED <<partial, chan>> /\ Join(r, "bcast", v)
BY DEF Go, Return, StartBcast, TypeOK

LEMMA CallsStep ==
    ASSUME IInv, NEW r \in Rank, Calls(r)
    PROVE  ChanStep(r) /\ LogStep(r) /\ (Plain(r) \/ CallTree(r))
<1>1. CASE RejectRoot(r) \/ Bystander(r)
  BY <1>1, Places DEF RejectRoot, Bystander, ChanStep, LogStep, Plain, IInv
<1>2. CASE CallBarrier(r) \/ CallBcast(r) \/ CallGather(r) \/ CallNative(r)
  <2>1. \E kind \in {"barrier", "bcast", "gather", "native"} : \E v :
            Join(r, kind, v) /\ pc'[r] = kind /\ chan' = chan
    BY <1>2, Places DEF CallBarrier, CallBcast, CallGather, CallNative, IInv
  <2>. QED
    BY <2>1 DEF ChanStep, LogStep, Plain
<1>3. CASE CallScatter(r)
  <2>1. (Go(r, "scatter") \/ Go(r, "scatterRecv")) /\ chan' = chan /\ joined' = joined
    BY <1>3 DEF CallScatter
  <2>. QED
    BY <2>1, Places DEF ChanStep, LogStep, Plain, IInv
<1>4. CASE CallReduce(r)
  <2>1. /\ Root(r) \in Rank /\ CollectTag # TreeTag /\ joined' = joined
        /\ \/ Go(r, "collect") /\ chan' = chan
           \/ Go(r, "collectSend") /\ Send(r, Root(r), CollectTag, Own(r))
    BY <1>4 DEF CallReduce, Valid, CollectTag, TreeTag
  <2>. QED
    BY <2>1, Places DEF ChanStep, LogStep, Plain, IInv
<1>5. CASE CallTree(r)
  BY <1>5 DEF CallTree, ChanStep, LogStep
<1>6. CASE CallMessage(r)
  <2>1. Now(r).dest \in Rank /\ ScatterTag # TreeTag
    BY <1>6, BeginFacts DEF CallMessage, Call, ScatterTag, TreeTag
  <2>2. /\ joined' = joined
        /\ \/ Go(r, "messageRecv") /\ chan' = chan
           \/ Go(r, "messageSend") /\ Send(r, Now(r).dest, ScatterTag, Own(r))
    BY <1>6 DEF CallMessage
  <2>. QED
    BY <2>1, <2>2, Places DEF ChanStep, LogStep, Plain, IInv
<1>. QED
  BY <1>1, <1>2, <1>3, <1>4, <1>5, <1>6 DEF Calls

LEMMA BarrierBcastGatherStep ==
    ASSUME IInv, NEW r \in Rank, NEW early,
           \/ BarrierDone(r) \/ BcastDone(r, early) \/ BcastBodyDone(r, early)
           \/ GatherDone(r, early) \/ GatherBodyDone(r, early) \/ Catenate(r) \/ GatherEnds(r)
    PROVE  ChanStep(r) /\ LogStep(r) /\ (Plain(r) \/ GatherBodyDone(r, early) \/ Catenate(r))
<1>1. CASE BarrierDone(r) \/ BcastBodyDone(r, early)
  BY <1>1, Places DEF BarrierDone, BcastBodyDone, ReturnBcast, ChanStep, LogStep, Plain, IInv
<1>2. CASE BcastDone(r, early)
  BY <1>2, Places DEF BcastDone, ReturnBcast, ChanStep, LogStep, Plain, IInv
<1>3. CASE GatherDone(r, early)
  <2>1. IsValue(Own(r))
    BY RaisedOrValue DEF Own
  <2>. QED
    BY <1>3, <2>1, Places DEF GatherDone, ChanStep, LogStep, Plain, IInv
<1>4. CASE GatherBodyDone(r, early)
  BY <1>4, Places DEF GatherBodyDone, ChanStep, LogStep, IInv
<1>5. CASE Catenate(r)
  BY <1>5 DEF Catenate, ChanStep, LogStep
<1>6. CASE GatherEnds(r)
  BY <1>6, Places DEF GatherEnds, ChanStep, LogStep, Plain, IInv
<1>. QED
  BY <1>1, <1>2, <1>3, <1>4, <1>5, <1>6

LEMMA ScatterStep ==
    ASSUME IInv, NEW r \in Rank, NEW early,
           \/ ScatterKeep(r) \/ ScatterSend(r) \/ ScatterSent(r, early)
           \/ ScatterDone(r) \/ ScatterRecv(r)
    PROVE  ChanStep(r) /\ LogStep(r) /\ Plain(r)
<1>1. CASE ScatterKeep(r) \/ ScatterSent(r, early) \/ ScatterDone(r)
  BY <1>1, Places DEF ScatterKeep, ScatterSent, ScatterDone, ChanStep, LogStep, Plain, IInv
<1>2. CASE ScatterSend(r)
  BY <1>2, Places DEF ScatterSend, ChanStep, LogStep, Plain, IInv, ScatterTag, TreeTag
<1>3. CASE ScatterRecv(r)
  <2>1. Root(r) \in Rank
    BY <1>3, LocalFacts DEF ScatterRecv
  <2>. QED
    BY <1>3, <2>1, Places DEF ScatterRecv, ChanStep, LogStep, Plain, IInv
<1>. QED
  BY <1>1, <1>2, <1>3

LEMMA ReductionStep ==
    ASSUME IInv, NEW r \in Rank, NEW early,
           \/ NativeDone(r, early) \/ Fold(r) \/ FoldDone(r)
           \/ CollectFrom(r) \/ CollectOwn(r) \/ CollectSent(r, early) \/ Collected(r)
    PROVE  ChanStep(r) /\ LogStep(r) /\ Plain(r)
<1>1. CASE NativeDone(r, early) \/ Fold(r) \/ CollectOwn(r) \/ Collected(r)
  BY <1>1, Places DEF NativeDone, Fold, CollectOwn, Collected, ChanStep, LogStep, Plain, IInv
<1>2. CASE FoldDone(r) \/ CollectSent(r, early)
  BY <1>2, Places DEF FoldDone, CollectSent, ChanStep, LogStep, Plain, IInv
<1>3. CASE CollectFrom(r)
  BY <1>3 DEF CollectFrom, ChanStep, LogStep, Plain
<1>. QED
  BY <1>1, <1>2, <1>3

LEMMA ScanStep ==
    ASSUME IInv, NEW r \in Rank, NEW early,
           ScanNext(r) \/ ScanSent(r, early) \/ ScanDone(r) \/ ScanRecv(r)
    PROVE  ChanStep(r) /\ LogStep(r) /\ Plain(r)
<1>1. CASE ScanNext(r)
  <2>1. item[r] \in Rank
    BY <1>1, LocalFacts, RankFacts DEF ScanNext, Rank
  <2>2. chan' = chan \/ \E v : Send(r, item[r], CollectTag, v)
    BY <1>1 DEF ScanNext
  <2>3. ChanStep(r)
    BY <2>1, <2>2 DEF ChanStep, CollectTag, TreeTag
  <2>4. pc[r] = "scan" /\ (pc' = pc \/ Go(r, "scanSend")) /\ joined' = joined
    BY <1>1 DEF ScanNext
  <2>. QED
    BY <2>3, <2>4, Places DEF LogStep, Plain, IInv
<1>2. CASE ScanSent(r, early) \/ ScanDone(r)
  BY <1>2, Places DEF ScanSent, ScanDone, ChanStep, LogStep, Plain, IInv
<1>3. CASE ScanRecv(r)
  <2>1. Root(r) \in Rank
    BY <1>3, LocalFacts DEF ScanRecv
  <2>. QED
    BY <1>3, <2>1, Places DEF ScanRecv, ChanStep, LogStep, Plain, IInv
<1>. QED
  BY <1>1, <1>2, <1>3

LEMMA TreeStep ==
    ASSUME IInv, NEW r \in Rank, TreeValue(r), NEW early,
           TreeSend(r) \/ TreeReceive(r) \/ TreeOrphan(r) \/ TreeDone(r, early)
    PROVE  ChanStep(r) /\ LogStep(r) /\ (Plain(r) \/ TreeSend(r) \/ TreeReceive(r) \/ TreeOrphan(r))
<1>1. pc[r] \in {"tree", "treeSend"}
  BY DEF TreeSend, TreeReceive, TreeOrphan, TreeDone
<1>2. TreeParent(r) \in Rank /\ TreeChild(r) \in Rank /\ IsValue(data[r][1])
  BY <1>1, LocalFacts, TreeRanks DEF TreeValue
<1>3. CASE TreeSend(r)
  BY <1>2, <1>3 DEF TreeSend, ChanStep, LogStep
<1>4. CASE TreeReceive(r)
  BY <1>2, <1>4 DEF TreeReceive, ChanStep, LogStep
<1>5. CASE TreeOrphan(r)
  BY <1>5 DEF TreeOrphan, ChanStep, LogStep
<1>6. CASE TreeDone(r, early)
  BY <1>6, Places DEF TreeDone, ChanStep, LogStep, Plain, IInv
<1>. QED
  BY <1>3, <1>4, <1>5, <1>6

LEMMA MessageStep ==
    ASSUME IInv, NEW r \in Rank, NEW early, MessageSent(r, early) \/ MessageReceived(r)
    PROVE  ChanStep(r) /\ LogStep(r) /\ Plain(r)
<1>1. CASE MessageSent(r, early)
  BY <1>1, Places DEF MessageSent, ChanStep, LogStep, Plain, IInv
<1>2. CASE MessageReceived(r)
  <2>1. Root(r) \in Rank
    BY <1>2, LocalFacts DEF MessageReceived
  <2>. QED
    BY <1>2, <2>1, Places DEF MessageReceived, ChanStep, LogStep, Plain, IInv
<1>. QED
  BY <1>1, <1>2

LEMMA StepShape ==
    ASSUME IInv, NEW r \in Rank, TreeValue(r), NEW early \in BOOLEAN, Step(r, early)
    PROVE  /\ ChanStep(r) /\ LogStep(r)
           /\ \/ Plain(r) \/ CallTree(r) \/ TreeSend(r) \/ TreeReceive(r) \/ TreeOrphan(r)
              \/ GatherBodyDone(r, early) \/ Catenate(r)
BY CallsStep, BarrierBcastGatherStep, ScatterStep, ReductionStep, ScanStep, TreeStep, MessageStep
   DEF Step

\* Of what the ranks have combined so far a step changes r's own only.
PartialStep(r) == \A q \in Rank \ {r} : partial'[q] = partial[q]

LEMMA PartialElsewhere ==
    ASSUME TypeOK, NEW r \in Rank, NEW early, Step(r, early)
    PROVE  PartialStep(r)
<1>1. ASSUME partial' = partial PROVE PartialStep(r)
  BY <1>1 DEF PartialStep
<1>2. ASSUME NEW v, partial' = [partial EXCEPT ![r] = v] PROVE PartialStep(r)
  BY <1>2 DEF PartialStep, TypeOK
<1>3. ASSUME NEW v, Return(r, v) \/ StartBcast(r, v) PROVE PartialStep(r)
  BY <1>1, <1>2, <1>3, Places
<1>4. CASE RejectRoot(r) \/ Bystander(r) \/ CallBarrier(r) \/ CallBcast(r) \/ CallGather(r)
  BY <1>1, <1>3, <1>4 DEF RejectRoot, Bystander, CallBarrier, CallBcast, CallGather
<1>5. CASE CallScatter(r) \/ CallNative(r) \/ CallReduce(r) \/ CallTree(r) \/ CallMessage(r)
  BY <1>1, <1>5 DEF CallScatter, CallNative, CallReduce, CallTree, CallMessage
<1>6. CASE BarrierDone(r) \/ BcastDone(r, early) \/ BcastBodyDone(r, early) \/ GatherDone(r, early)
  BY <1>1, <1>3, <1>6 DEF BarrierDone, BcastDone, BcastBodyDone, GatherDone, ReturnBcast
<1>7. CASE GatherBodyDone(r, early) \/ GatherEnds(r)
  BY <1>2, <1>3, <1>7 DEF GatherBodyDone, GatherEnds
<1>8. CASE Catenate(r) \/ Fold(r) \/ Collected(r)
  BY <1>8 DEF Catenate, Fold, Collected, PartialStep, TypeOK
<1>9. CASE ScatterKeep(r) \/ ScatterSend(r) \/ ScatterSent(r, early)
  BY <1>1, <1>9 DEF ScatterKeep, ScatterSend, ScatterSent
<1>10. CASE ScatterDone(r) \/ ScatterRecv(r) \/ NativeDone(r, early) \/ FoldDone(r)
  BY <1>1, <1>3, <1>10 DEF ScatterDone, ScatterRecv, NativeDone, FoldDone
<1>11. CASE CollectFrom(r) \/ CollectOwn(r) \/ CollectSent(r, early)
  BY <1>1, <1>3, <1>11 DEF CollectFrom, CollectOwn, CollectSent
<1>12. CASE ScanNext(r)
  BY <1>2, <1>12 DEF ScanNext
<1>13. CASE ScanSent(r, early) \/ ScanDone(r) \/ ScanRecv(r)
  BY <1>1, <1>3, <1>13 DEF ScanSent, ScanDone, ScanRecv
<1>14. CASE TreeSend(r) \/ TreeReceive(r) \/ TreeOrphan(r) \/ TreeDone(r, early)
  BY <1>1, <1>3, <1>14 DEF TreeSend, TreeReceive, TreeOrphan, TreeDone
<1>15. CASE MessageSent(r, early) \/ MessageReceived(r)
  BY <1>3, <1>15 DEF MessageSent, MessageReceived
<1>. QED
  BY <1>4, <1>5, <1>6, <1>7, <1>8, <1>9, <1>10, <1>11, <1>12, <1>13, <1>14, <1>15
     DEF Step, Calls

LEMMA Removed ==
    ASSUME NEW S, NEW s \in Seq(S), NEW i \in 1..Len(s)
    PROVE  /\ Len(s) \in Nat /\ Len(RemoveAt(s, i)) = Len(s) - 1
           /\ \A j \in 1..(Len(s) - 1) :
                  RemoveAt(s, i)[j] = IF j < i THEN s[j] ELSE s[j + 1]
<1>1. PICK before, after : /\ before = SubSeq(s, 1, i - 1)
                           /\ after = SubSeq(s, i + 1, Len(s))
  OBVIOUS
<1>2. /\ before \in Seq(S) /\ Len(before) = i - 1
      /\ \A k \in 1..(i - 1) : before[k] = s[k]
  BY <1>1
<1>3. /\ after \in Seq(S) /\ Len(after) = Len(s) - i
      /\ \A k \in 1..(Len(s) - i) : after[k] = s[k + i]
  BY <1>1
<1>4. RemoveAt(s, i) = before \o after
  BY <1>1 DEF RemoveAt
<1>5. Len(before \o after) = Len(s) - 1 /\ Len(s) \in Nat
  <2>1. Len(s) \in Nat /\ i \in Nat
    OBVIOUS
  <2>2. Len(before \o after) = Len(before) + Len(after)
    BY <1>2, <1>3, ConcatProperties
  <2>. QED
    BY <1>2, <1>3, <2>1, <2>2
<1>6. ASSUME NEW j \in 1..(Len(s) - 1)
      PROVE  (before \o after)[j] = IF j < i THEN s[j] ELSE s[j + 1]
  <2>1. (before \o after)[j] = IF j < i THEN before[j] ELSE after[j - (i - 1)]
    BY <1>2, <1>3
  <2>2. CASE j < i
    BY <1>2, <2>1, <2>2
  <2>3. CASE j >= i
    <3>1. j - (i - 1) \in 1..(Len(s) - i) /\ (j - (i - 1)) + i = j + 1 /\ ~(j < i)
      BY <1>5, <2>3
    <3>. QED
      BY <1>3, <2>1, <3>1
  <2>. QED
    BY <1>5, <2>2, <2>3
<1>. QED
  BY <1>4, <1>5, <1>6

LEMMA SendKeepsValues ==
    ASSUME TypeOK, TypeOK', ChanValues, NEW r \in Rank, NEW d \in Rank, NEW tag, NEW v,
           Send(r, d, tag, v), tag # TreeTag \/ IsValue(v)
    PROVE  ChanValues'
<1>1. PICK m : m = [tag |-> tag, call |-> Here(r), val |-> v]
  OBVIOUS
<1>2. \A s, e \in Rank : <<s, e>> # <<r, d>> => chan'[s][e] = chan[s][e]
  BY DEF Send, TypeOK
<1>3. chan'[r][d] = Append(chan[r][d], m) /\ chan[r][d] \in Seq(Message)
      /\ chan'[r][d] \in Seq(Message)
  BY <1>1 DEF Send, TypeOK
<1>4. m \in Message
  <2>1. Append(chan[r][d], m)[Len(chan[r][d]) + 1] = m
        /\ Len(chan'[r][d]) = Len(chan[r][d]) + 1 /\ Len(chan[r][d]) \in Nat
    BY <1>3
  <2>. QED
    BY <1>3, <2>1, ElementOfSeq
<1>5. ASSUME NEW i \in 1..Len(chan'[r][d]), chan'[r][d][i].tag = TreeTag
      PROVE  IsValue(chan'[r][d][i].val)
  <2>1. /\ Len(chan[r][d]) \in Nat /\ Len(chan'[r][d]) = Len(chan[r][d]) + 1
        /\ chan'[r][d][Len(chan[r][d]) + 1] = m
        /\ \A n \in 1..Len(chan[r][d]) : chan'[r][d][n] = chan[r][d][n]
    BY <1>3, <1>4, Appended
  <2>2. CASE i \in 1..Len(chan[r][d])
    BY <1>5, <2>1, <2>2 DEF ChanValues
  <2>3. CASE i = Len(chan[r][d]) + 1
    BY <1>1, <1>5, <2>1, <2>3
  <2>4. i \in 1..Len(chan[r][d]) \/ i = Len(chan[r][d]) + 1
    BY <2>1
  <2>. QED
    BY Zenon, <2>2, <2>3, <2>4
<1>6. ASSUME NEW s \in Rank, NEW e \in Rank, <<s, e>> # <<r, d>>,
             NEW i \in 1..Len(chan'[s][e]), chan'[s][e][i].tag = TreeTag
      PROVE  IsValue(chan'[s][e][i].val)
  <2>1. chan'[s][e] = chan[s][e]
    BY <1>2, <1>6
  <2>. QED
    BY <1>6, <2>1 DEF ChanValues
<1>. QED
  BY <1>5, <1>6 DEF ChanValues

LEMMA ReceiveKeepsValues ==
    ASSUME TypeOK, ChanValues, NEW s \in Rank, NEW d \in Rank, NEW tag,
           NEW i \in 1..Len(chan[s][d]), Receive(s, d, i, tag)
    PROVE  ChanValues'
<1>1. \A p, q \in Rank : <<p, q>> # <<s, d>> => chan'[p][q] = chan[p][q]
  BY DEF Receive, TypeOK
<1>2. chan'[s][d] = RemoveAt(chan[s][d], i) /\ chan[s][d] \in Seq(Message)
      /\ Len(chan[s][d]) \in Nat
  BY LenProperties DEF Receive, TypeOK
<1>3. ASSUME NEW j \in 1..Len(chan'[s][d])
      PROVE  \E k \in 1..Len(chan[s][d]) : chan'[s][d][j] = chan[s][d][k]
  <2>1. PICK queue, rest : queue = chan[s][d] /\ rest = chan'[s][d]
    OBVIOUS
  <2>2. /\ Len(queue) \in Nat /\ Len(rest) = Len(queue) - 1
        /\ \A k \in 1..(Len(queue) - 1) : rest[k] = IF k < i THEN queue[k] ELSE queue[k + 1]
    BY <1>2, <2>1, Removed
  <2>3. j \in 1..(Len(queue) - 1)
    BY <2>1, <2>2
  <2>4. rest[j] = queue[j] \/ rest[j] = queue[j + 1]
    BY <2>2, <2>3
  <2>5. j \in 1..Len(queue) /\ j + 1 \in 1..Len(queue)
    BY <2>2, <2>3
  <2>. QED
    BY <2>1, <2>4, <2>5
<1>4. ASSUME NEW j \in 1..Len(chan'[s][d]), chan'[s][d][j].tag = TreeTag
      PROVE  IsValue(chan'[s][d][j].val)
  <2>1. PICK k \in 1..Len(chan[s][d]) : chan'[s][d][j] = chan[s][d][k]
    BY <1>3
  <2>. QED
    BY <1>4, <2>1 DEF ChanValues
<1>5. ASSUME NEW p \in Rank, NEW q \in Rank, <<p, q>> # <<s, d>>,
             NEW j \in 1..Len(chan'[p][q]), chan'[p][q][j].tag = TreeTag
      PROVE  IsValue(chan'[p][q][j].val)
  BY <1>1, <1>5 DEF ChanValues
<1>. QED
  BY <1>4, <1>5 DEF ChanValues

LEMMA ChanStepKeeps ==
    ASSUME TypeOK, TypeOK', ChanValues, NEW r \in Rank, ChanStep(r)
    PROVE  ChanValues'
<1>1. CASE chan' = chan
  BY <1>1 DEF ChanValues
<1>2. CASE \E d \in Rank : \E tag, v : Send(r, d, tag, v) /\ (tag # TreeTag \/ IsValue(v))
  BY <1>2, SendKeepsValues
<1>3. CASE \E s, d \in Rank : \E tag : \E i \in 1..Len(chan[s][d]) : Receive(s, d, i, tag)
  BY <1>3, ReceiveKeepsValues
<1>. QED
  BY <1>1, <1>2, <1>3 DEF ChanStep

LEMMA LogStepKeeps ==
    ASSUME TypeOK, TypeOK', LogValues, NEW r \in Rank, LogStep(r)
    PROVE  LogValues'
<1>1. CASE joined' = joined
  BY <1>1 DEF LogValues
<1>2. ASSUME NEW kind, NEW v, Join(r, kind, v), kind # "gatherBody" \/ IsValue(v)
      PROVE  LogValues'
  <2>1. PICK e : e = [kind |-> kind, root |-> Root(r), call |-> Here(r), val |-> v]
    OBVIOUS
  <2>2. /\ joined'[r] = Append(joined[r], e) /\ joined[r] \in Seq(Joining)
        /\ joined'[r] \in Seq(Joining)
        /\ \A q \in Rank \ {r} : joined'[q] = joined[q]
    BY <1>2, <2>1 DEF Join, TypeOK
  <2>3. e \in Joining
    <3>1. Append(joined[r], e)[Len(joined[r]) + 1] = e
          /\ Len(joined'[r]) = Len(joined[r]) + 1 /\ Len(joined[r]) \in Nat
      BY <2>2
    <3>. QED
      BY <2>2, <3>1, ElementOfSeq
  <2>4. /\ Len(joined[r]) \in Nat /\ Len(joined'[r]) = Len(joined[r]) + 1
        /\ joined'[r][Len(joined[r]) + 1] = e
        /\ \A n \in 1..Len(joined[r]) : joined'[r][n] = joined[r][n]
    BY <2>2, <2>3, Appended
  <2>5. ASSUME NEW n \in 1..Len(joined'[r]), joined'[r][n].kind = "gatherBody"
        PROVE  IsValue(joined'[r][n].val)
    <3>1. CASE n \in 1..Len(joined[r])
      BY <2>4, <2>5, <3>1 DEF LogValues
    <3>2. CASE n = Len(joined[r]) + 1
      BY <1>2, <2>1, <2>4, <2>5, <3>2
    <3>. QED
      BY <2>4, <3>1, <3>2
  <2>. QED
    BY <2>2, <2>5 DEF LogValues
<1>. QED
  BY <1>1, <1>2 DEF LogStep

\* The values of r after a step of r.
LEMMA PlainKeeps ==
    ASSUME NEW r \in Rank, Plain(r)
    PROVE  TreeValue(r)' /\ CatenateValues(r)'
BY DEF Plain, TreeValue, CatenateValues

LEMMA TreeKeeps ==
    ASSUME IInv, NEW r \in Rank, TreeValue(r),
           CallTree(r) \/ TreeSend(r) \/ TreeReceive(r) \/ TreeOrphan(r)
    PROVE  TreeValue(r)' /\ CatenateValues(r)'
<1>1. TypeOK /\ (pc[r] = "tree" => IsValue(data[r][1]))
  BY DEF IInv, TreeValue
<1>2. CASE CallTree(r)
  <2>1. pc'[r] = "tree" /\ data'[r] = <<Own(r)>> /\ IsValue(Own(r))
    BY <1>1, <1>2, Places, RaisedOrValue DEF CallTree, TypeOK, Own
  <2>. QED
    BY <2>1 DEF TreeValue, CatenateValues
<1>3. CASE TreeSend(r) \/ TreeOrphan(r)
  <2>1. pc'[r] \in {"tree", "treeSend"} /\ pc[r] = "tree" /\ data'[r] = data[r]
    BY <1>1, <1>3, Places DEF TreeSend, TreeOrphan
  <2>. QED
    BY <1>1, <2>1 DEF TreeValue, CatenateValues
<1>4. CASE TreeReceive(r)
  <2>1. pc[r] = "tree"
    BY <1>4 DEF TreeReceive
  <2>2. \/ \E v : Return(r, v)
        \/ \E y : LET v == Apply(Now(r), data[r][1], y)
                  IN  v # Raised /\ data' = [data EXCEPT ![r] = <<v>>] /\ pc' = pc
    BY <1>4 DEF TreeReceive
  <2>3. CASE \E v : Return(r, v)
    BY <1>1, <2>3, Places, PlainKeeps DEF Plain
  <2>4. ASSUME NEW y, Apply(Now(r), data[r][1], y) # Raised, pc' = pc,
               data' = [data EXCEPT ![r] = <<Apply(Now(r), data[r][1], y)>>]
        PROVE  TreeValue(r)' /\ CatenateValues(r)'
    <3>1. PICK v : v = Apply(Now(r), data[r][1], y)
      OBVIOUS
    <3>2. data'[r] = <<v>> /\ IsValue(v) /\ pc'[r] = "tree"
      BY <1>1, <2>1, <2>4, <3>1, RaisedOrValue DEF TypeOK
    <3>. QED
      BY <3>2 DEF TreeValue, CatenateValues
  <2>. QED
    BY <2>2, <2>3, <2>4
<1>. QED
  BY <1>2, <1>3, <1>4

LEMMA GatheredAreValues ==
    ASSUME IInv, LogInv, LogValues, NEW r \in Rank, pc[r] = "gatherBody", IsRoot(r),
           NEW early, GatherOver(r, early)
    PROVE  \A i \in 1..N : IsValue(AllGiven(r, N)[i])
<1>1. PICK m : m = Len(joined[r])
  OBVIOUS
<1>2. TypeOK /\ m \in Nat /\ m > 0 /\ joined[r][m].kind = "gatherBody"
  BY <1>1, InCall, LogTypes DEF PlaceOK, JoinedPC, LastIs
<1>3. ASSUME NEW q \in Rank PROVE IsValue(Given(r, q))
  <2>1. Len(joined[q]) >= m /\ Len(joined[q]) \in Nat
    BY <1>1, <1>2, LogTypes DEF GatherOver, Over
  <2>2. m \in 1..Len(joined[r]) /\ m \in 1..Len(joined[q])
    BY <1>1, <1>2, <2>1
  <2>3. joined[q][m].kind = "gatherBody"
    BY <1>2, <2>2 DEF LogInv, CollectivesMatch
  <2>. QED
    BY <1>1, <2>2, <2>3 DEF LogValues, Given
<1>. QED
  BY <1>3, RankFacts DEF AllGiven, Rank

LEMMA GatherBodyKeeps ==
    ASSUME IInv, LogInv, ValuesInv, NEW r \in Rank, NEW early, GatherBodyDone(r, early)
    PROVE  TreeValue(r)' /\ CatenateValues(r)'
<1>1. TypeOK /\ pc[r] = "gatherBody" /\ GatherOver(r, early) /\ LogValues
  BY DEF IInv, GatherBodyDone, ValuesInv
<1>2. CASE /\ IsRoot(r) /\ Go(r, "catenate")
           /\ data' = [data EXCEPT ![r] = AllGiven(r, N)]
           /\ partial' = [partial EXCEPT ![r] = Value(<<>>)]
  <2>1. pc'[r] = "catenate" /\ data'[r] = AllGiven(r, N) /\ partial'[r] = Value(<<>>)
    BY <1>1, <1>2, Places DEF TypeOK
  <2>2. IsValue(Value(<<>>)) /\ \A i \in 1..N : IsValue(AllGiven(r, N)[i])
    BY <1>1, <1>2, GatheredAreValues, RaisedOrValue
  <2>. QED
    BY <2>1, <2>2 DEF TreeValue, CatenateValues
<1>3. CASE Return(r, None) \/ StartBcast(r, None)
  <2>1. Plain(r)
    BY <1>1, <1>3, Places DEF Plain
  <2>. QED
    BY <2>1, PlainKeeps
<1>. QED
  BY <1>2, <1>3 DEF GatherBodyDone

LEMMA CatenateKeeps ==
    ASSUME IInv, LogInv, ValuesInv, NEW r \in Rank, Catenate(r)
    PROVE  TreeValue(r)' /\ CatenateValues(r)'
<1>1. pc[r] = "catenate" /\ item[r] < N /\ UNCHANGED <<program, pc, data, returned>>
      /\ partial' = [partial EXCEPT ![r] = Combine(Now(r), @, data[r][item[r] + 1])]
  BY DEF Catenate
<1>2. TypeOK /\ item[r] \in Nat /\ Now(r)' = Now(r) /\ Now(r).op \in {"gather", "allgather"}
  BY <1>1, InCall DEF TypeOK, Now, Here, OpsAt
<1>3. ASSUME Now(r).bad = {}
      PROVE  IsValue(partial'[r]) /\ \A i \in 1..N : IsValue(data[r][i])
  <2>1. IsValue(partial[r]) /\ \A i \in 1..N : IsValue(data[r][i])
    BY <1>1, <1>3 DEF ValuesInv, CatenateValues
  <2>2. item[r] + 1 \in 1..N
    BY <1>1, <1>2, RankFacts
  <2>3. PICK y : y = data[r][item[r] + 1]
    OBVIOUS
  <2>4. IsValue(y) /\ IsValue(Apply(Now(r), partial[r], y)) /\ partial[r] # Null
    BY <1>3, <2>1, <2>2, <2>3, RaisedOrValue DEF IsValue, Null
  <2>5. partial'[r] = Combine(Now(r), partial[r], y)
    BY <1>1, <1>2, <2>3 DEF TypeOK
  <2>. QED
    BY <1>2, <2>1, <2>4, <2>5 DEF Combine
<1>. QED
  BY <1>1, <1>2, <1>3 DEF TreeValue, CatenateValues

LEMMA StepValues ==
    ASSUME IInv, LogInv, ValuesInv, NEW r \in Rank, NEW early \in BOOLEAN, Step(r, early)
    PROVE  ValuesInv'
<1>1. TypeOK /\ TypeOK' /\ Elsewhere(r) /\ PartialStep(r) /\ TreeValue(r)
  BY StepGood, PartialElsewhere DEF IInv, Good, ValuesInv
<1>2. ChanValues' /\ LogValues'
  BY <1>1, StepShape, ChanStepKeeps, LogStepKeeps DEF ValuesInv
<1>3. TreeValue(r)' /\ CatenateValues(r)'
  BY <1>1, StepShape, PlainKeeps, TreeKeeps, GatherBodyKeeps, CatenateKeeps
<1>4. ASSUME NEW q \in Rank \ {r} PROVE TreeValue(q)' /\ CatenateValues(q)'
  <2>1. /\ pc'[q] = pc[q] /\ data'[q] = data[q] /\ partial'[q] = partial[q]
        /\ returned'[q] = returned[q] /\ program' = program
    BY <1>1 DEF Elsewhere, PartialStep
  <2>2. TreeValue(q) /\ CatenateValues(q) /\ Now(q)' = Now(q)
    BY <2>1 DEF ValuesInv, Now, Here
  <2>. QED
    BY <2>1, <2>2 DEF TreeValue, CatenateValues
<1>. QED
  BY <1>2, <1>3, <1>4 DEF ValuesInv

-----------------------------------------------------------------------------
MatchInv == IInv /\ LogInv /\ ValuesInv

LEMMA InitMatch == Init => MatchInv
<1>. SUFFICES ASSUME Init PROVE MatchInv
  OBVIOUS
<1>1. /\ IInv
      /\ \A r \in Rank : pc[r] = "ready" /\ joined[r] = <<>> /\ returned[r] = <<>>
      /\ \A s, d \in Rank : chan[s][d] = <<>>
  BY InitInv DEF Init
<1>2. \A r \in Rank : PlaceOK(r) /\ OpOK(r)
  BY <1>1 DEF PlaceOK, OpOK, UpTo, JoinedPC, NoneBetween, Here
<1>3. LogInv
  BY <1>1, <1>2 DEF LogInv, CollectivesMatch
<1>4. ValuesInv
  BY <1>1 DEF ValuesInv, ChanValues, LogValues, TreeValue, CatenateValues
<1>. QED
  BY <1>1, <1>3, <1>4 DEF MatchInv

LEMMA NextMatch ==
    ASSUME NoneCutShort
    PROVE  MatchInv /\ [Next]_vars => MatchInv'
<1>. SUFFICES ASSUME MatchInv, [Next]_vars PROVE MatchInv'
  OBVIOUS
<1>1. IInv /\ LogInv /\ ValuesInv /\ IInv'
  BY NextInv DEF MatchInv
<1>2. CASE UNCHANGED vars
  <2>1. LogInv'
    BY <1>1, <1>2, SameLog, RankFacts DEF vars, IInv
  <2>2. \A r \in Rank : Now(r)' = Now(r)
    BY <1>2 DEF vars, Now, Here
  <2>3. ValuesInv'
    BY <1>1, <1>2, <2>2 DEF vars, ValuesInv, ChanValues, LogValues, TreeValue, CatenateValues
  <2>. QED
    BY <1>1, <2>1, <2>3 DEF MatchInv
<1>3. CASE Next
  BY <1>1, <1>3, StepLog, StepValues DEF Next, MatchInv
<1>. QED
  BY <1>2, <1>3

(***************************************************************************)
(* The ranks' MPI collectives pair up: the n-th that any rank calls is the *)
(* n-th of every other, made in the same call of the program, of the same  *)
(* kind and with the same root.  So the rounds of headers and bodies in    *)
(* pyMPI_comm_collective.c never cross, although every rank decides for    *)
(* itself whether a body follows, and no rank waits for another before it  *)
(* goes on to the next call.  The hypothesis is about the programs: where  *)
(* an exception cuts allgather short, or allreduce in tree order, the rank *)
(* that raised goes on without the bcast the others are in.                *)
(***************************************************************************)
THEOREM CollectivesPairUp ==
    ASSUME NoneCutShort
    PROVE  Spec => []CollectivesMatch
<1>1. MatchInv => CollectivesMatch
  BY DEF MatchInv, LogInv
<1>. QED
  BY <1>1, InitMatch, NextMatch, PTL DEF Spec
-----------------------------------------------------------------------------
(***************************************************************************)
(* The masks of a tree are powers of two: the members of every set that    *)
(* has 1 and the double of each of its members.                            *)
(***************************************************************************)
Doubling(S) == 1 \in S /\ \A m \in S : 2 * m \in S

Pow2 == {m \in Nat : \A S \in SUBSET Nat : Doubling(S) => m \in S}

Multiple(w, m) == \E q \in Nat : w = q * m

LEMMA Pow2Least ==
    ASSUME NEW S \in SUBSET Nat, Doubling(S)
    PROVE  Pow2 \subseteq S
BY DEF Pow2

LEMMA Pow2Doubling ==
    /\ Pow2 \subseteq Nat /\ 1 \in Pow2 /\ \A m \in Pow2 : 2 * m \in Pow2
    /\ \A m \in Pow2 : m > 0 /\ (m = 1 \/ \E a \in Pow2 : m = 2 * a)
<1>1. Pow2 \subseteq Nat /\ 1 \in Pow2
  BY DEF Pow2, Doubling
<1>2. ASSUME NEW m \in Pow2 PROVE 2 * m \in Pow2
  <2>1. m \in Nat /\ 2 * m \in Nat
    BY <1>1
  <2>. QED
    BY <2>1 DEF Pow2, Doubling
<1>. DEFINE S == {m \in Nat : m > 0 /\ (m = 1 \/ \E a \in Pow2 : m = 2 * a)}
<1>3. 1 \in S
  OBVIOUS
<1>4. ASSUME NEW m \in S PROVE 2 * m \in S
  <2>1. m \in Pow2
    BY <1>1, <1>2, <1>4
  <2>. QED
    BY <2>1
<1>5. Doubling(S)
  BY <1>3, <1>4 DEF Doubling
<1>6. Pow2 \subseteq S
  <2>. HIDE DEF S
  <2>1. S \subseteq Nat
    BY DEF S
  <2>. QED
    BY <1>5, <2>1, Pow2Least
<1>. QED
  BY <1>1, <1>2, <1>6

\* Of two different powers of two, twice the one divides the other.
Ordered(a, b) == a = b \/ Multiple(b, 2 * a) \/ Multiple(a, 2 * b)

LEMMA MultipleDoubles ==
    ASSUME NEW w \in Nat, NEW m \in Nat, Multiple(w, m)
    PROVE  Multiple(2 * w, 2 * m)
<1>1. PICK q \in Nat : w = q * m
  BY DEF Multiple
<1>2. 2 * w = q * (2 * m)
  BY <1>1
<1>. QED
  BY <1>2 DEF Multiple

LEMMA Pow2Ordered ==
    \A a, b \in Pow2 : Ordered(a, b)
<1>. DEFINE S == {a \in Pow2 : \A b \in Pow2 : Ordered(a, b)}
<1>1. 1 \in S
  <2>1. ASSUME NEW b \in Pow2 PROVE Ordered(1, b)
    <3>1. CASE b = 1
      BY <3>1 DEF Ordered
    <3>2. CASE b # 1
      <4>1. PICK a \in Pow2 : b = 2 * a
        BY <3>2, Pow2Doubling
      <4>2. a \in Nat /\ b = a * (2 * 1)
        BY <4>1, Pow2Doubling
      <4>. QED
        BY <4>2 DEF Ordered, Multiple
    <3>. QED
      BY <3>1, <3>2
  <2>. QED
    BY <2>1, Pow2Doubling
<1>2. ASSUME NEW a \in S PROVE 2 * a \in S
  <2>1. a \in Pow2 /\ a \in Nat /\ 2 * a \in Pow2
    BY Pow2Doubling
  <2>2. ASSUME NEW b \in Pow2 PROVE Ordered(2 * a, b)
    <3>1. CASE b = 1
      <4>1. 2 * a = a * (2 * b)
        BY <2>1, <3>1
      <4>. QED
        BY <2>1, <4>1 DEF Ordered, Multiple
    <3>2. CASE b # 1
      <4>1. PICK c \in Pow2 : b = 2 * c
        BY <3>2, Pow2Doubling
      <4>2. Ordered(a, c) /\ c \in Nat /\ 2 * a \in Nat /\ 2 * c \in Nat
        BY <2>1, <4>1, Pow2Doubling
      <4>3. a = c \/ Multiple(2 * c, 2 * (2 * a)) \/ Multiple(2 * a, 2 * (2 * c))
        BY <2>1, <4>2, MultipleDoubles DEF Ordered
      <4>. QED
        BY <4>1, <4>3 DEF Ordered
    <3>. QED
      BY <3>1, <3>2
  <2>. QED
    BY <2>1, <2>2
<1>3. S \subseteq Nat /\ Doubling(S)
  BY <1>1, <1>2, Pow2Doubling DEF Doubling
<1>4. Pow2 \subseteq S
  <2>. HIDE DEF S
  <2>. QED
    BY <1>3, Pow2Least
<1>. QED
  BY <1>4

LEMMA MultipleFacts ==
    /\ \A w, m \in Nat : Multiple(w, 2 * m) => Multiple(w, m)
    /\ \A w, m \in Nat : Multiple(w, m) /\ w > 0 => w >= m
    /\ \A w, m, n \in Nat : Multiple(w, m) /\ Multiple(m, n) => Multiple(w, n)
    /\ \A w, v, m \in Nat : Multiple(w, m) /\ Multiple(v, m) => Multiple(w + v, m)
    /\ \A m \in Nat : Multiple(m, m) /\ Multiple(0, m)
<1>1. ASSUME NEW w \in Nat, NEW m \in Nat, Multiple(w, 2 * m) PROVE Multiple(w, m)
  <2>1. PICK q \in Nat : w = q * (2 * m)
    BY <1>1 DEF Multiple
  <2>2. 2 * q \in Nat /\ w = (2 * q) * m
    BY <2>1
  <2>. QED
    BY <2>2 DEF Multiple
<1>2. ASSUME NEW w \in Nat, NEW m \in Nat, Multiple(w, m), w > 0 PROVE w >= m
  <2>1. PICK q \in Nat : w = q * m
    BY <1>2 DEF Multiple
  <2>2. q >= 1
    <3>1. CASE q = 0
      BY <1>2, <2>1, <3>1
    <3>. QED
      BY <3>1
  <2>3. PICK p \in Nat : q = p + 1
    <3>1. q - 1 \in Nat /\ q = (q - 1) + 1
      BY <2>2
    <3>. QED
      BY <3>1
  <2>4. w = p * m + m /\ p * m \in Nat
    BY <2>1, <2>3
  <2>. QED
    BY <2>4
<1>3. ASSUME NEW w \in Nat, NEW m \in Nat, NEW n \in Nat, Multiple(w, m), Multiple(m, n)
      PROVE  Multiple(w, n)
  <2>1. PICK q \in Nat : w = q * m
    BY <1>3 DEF Multiple
  <2>2. PICK p \in Nat : m = p * n
    BY <1>3 DEF Multiple
  <2>3. q * p \in Nat /\ w = (q * p) * n
    BY <2>1, <2>2
  <2>. QED
    BY <2>3 DEF Multiple
<1>4. ASSUME NEW w \in Nat, NEW v \in Nat, NEW m \in Nat, Multiple(w, m), Multiple(v, m)
      PROVE  Multiple(w + v, m)
  <2>1. PICK q \in Nat : w = q * m
    BY <1>4 DEF Multiple
  <2>2. PICK p \in Nat : v = p * m
    BY <1>4 DEF Multiple
  <2>3. q + p \in Nat /\ w + v = (q + p) * m
    BY <2>1, <2>2
  <2>. QED
    BY <2>3 DEF Multiple
<1>5. ASSUME NEW m \in Nat PROVE Multiple(m, m) /\ Multiple(0, m)
  <2>1. m = 1 * m /\ 0 = 0 * m
    OBVIOUS
  <2>. QED
    BY <2>1 DEF Multiple
<1>. QED
  BY <1>1, <1>2, <1>3, <1>4, <1>5

LEMMA Cancels ==
    ASSUME NEW q \in Nat, NEW p \in Nat, NEW m \in Nat, m > 0, q * m = p * m
    PROVE  q = p
<1>1. ASSUME NEW a \in Nat, NEW b \in Nat, a * m = b * m PROVE ~(a < b)
  <2>. SUFFICES ASSUME a < b PROVE FALSE
    OBVIOUS
  <2>1. PICK d \in Nat : b = a + d + 1
    <3>1. b - a - 1 \in Nat /\ b = a + (b - a - 1) + 1
      OBVIOUS
    <3>. QED
      BY <3>1
  <2>2. b * m = a * m + d * m + m /\ d * m \in Nat /\ a * m \in Nat
    BY <2>1
  <2>. QED
    BY <1>1, <2>2
<1>. QED
  BY <1>1

\* In the round of mask m a rank sends if its number is an odd multiple of m.
LEMMA OddQuotient ==
    ASSUME NEW w \in Nat, NEW m \in Nat, m > 0, Multiple(w, m)
    PROVE  (w \div m) % 2 = 1 <=> ~Multiple(w, 2 * m)
<1>1. PICK q \in Nat : w = q * m
  BY DEF Multiple
<1>2. w \div m = q
  <2>1. PICK d \in Int, e \in Int : d = w \div m /\ e = w % m /\ w = m * d + e /\ 0 <= e /\ e < m
    OBVIOUS
  <2>2. d >= 0 /\ d \in Nat
    <3>1. CASE d < 0
      <4>1. PICK f \in Nat : d = -(f + 1)
        <5>1. -d - 1 \in Nat /\ d = -((-d - 1) + 1)
          BY <3>1
        <5>. QED
          BY <5>1
      <4>2. m * d = -(m * f) - m /\ m * f \in Nat
        BY <4>1
      <4>. QED
        BY <2>1, <4>2
    <3>. QED
      BY <3>1
  <2>3. CASE q > d
    <3>1. PICK f \in Nat : q = d + f + 1
      <4>1. q - d - 1 \in Nat /\ q = d + (q - d - 1) + 1
        BY <2>2, <2>3
      <4>. QED
        BY <4>1
    <3>2. q * m = m * d + f * m + m /\ f * m \in Nat
      BY <2>2, <3>1
    <3>. QED
      BY <1>1, <2>1, <3>2
  <2>4. CASE q < d
    <3>1. PICK f \in Nat : d = q + f + 1
      <4>1. d - q - 1 \in Nat /\ d = q + (d - q - 1) + 1
        BY <2>2, <2>4
      <4>. QED
        BY <4>1
    <3>2. m * d = q * m + f * m + m /\ f * m \in Nat /\ q * m \in Nat
      BY <2>2, <3>1
    <3>. QED
      BY <1>1, <2>1, <3>2
  <2>. QED
    BY <2>1, <2>2, <2>3, <2>4
<1>3. ASSUME Multiple(w, 2 * m) PROVE q % 2 = 0
  <2>1. PICK p \in Nat : w = p * (2 * m)
    BY <1>3 DEF Multiple
  <2>2. 2 * p \in Nat /\ q * m = (2 * p) * m
    BY <1>1, <2>1
  <2>3. q = 2 * p
    BY <2>2, Cancels
  <2>. QED
    BY <2>3
<1>4. ASSUME q % 2 # 1 PROVE Multiple(w, 2 * m)
  <2>1. PICK p \in Nat : q = 2 * p
    <3>1. q \div 2 \in Nat /\ q = 2 * (q \div 2)
      BY <1>4
    <3>. QED
      BY <3>1
  <2>2. w = p * (2 * m)
    BY <1>1, <2>1
  <2>. QED
    BY <2>2 DEF Multiple
<1>. QED
  BY <1>2, <1>3, <1>4

LEMMA OneOddMask ==
    ASSUME NEW w \in Nat, NEW a \in Pow2, NEW b \in Pow2,
           Multiple(w, a), ~Multiple(w, 2 * a), Multiple(w, b), ~Multiple(w, 2 * b)
    PROVE  a = b
<1>1. a \in Nat /\ b \in Nat /\ 2 * a \in Nat /\ 2 * b \in Nat
  BY Pow2Doubling
<1>2. ~Multiple(b, 2 * a) /\ ~Multiple(a, 2 * b)
  BY <1>1, MultipleFacts
<1>. QED
  BY <1>2, Pow2Ordered DEF Ordered

\* Between a mask and its double there is no other.
LEMMA NextMask ==
    ASSUME NEW a \in Pow2, NEW b \in Pow2
    PROVE  b < 2 * a => b <= a
<1>1. a \in Nat /\ b \in Nat /\ a > 0 /\ b > 0 /\ 2 * a \in Nat /\ 2 * b \in Nat
  BY Pow2Doubling
<1>2. a = b \/ Multiple(b, 2 * a) \/ Multiple(a, 2 * b)
  BY Pow2Ordered DEF Ordered
<1>3. CASE Multiple(b, 2 * a)
  BY <1>1, <1>3, MultipleFacts
<1>4. CASE Multiple(a, 2 * b)
  <2>1. a >= 2 * b
    BY <1>1, <1>4, MultipleFacts
  <2>. QED
    BY <1>1, <2>1
<1>. QED
  BY <1>1, <1>2, <1>3, <1>4

-----------------------------------------------------------------------------
(***************************************************************************)
(* The messages of a call.  Each call says which ranks send to which, one  *)
(* message each; a rank's place in a call says which of its messages it    *)
(* has sent and received.                                                  *)
(***************************************************************************)
ByCollect(c) == c.op \in Reduction /\ ~UsesNative(c) /\ ~UsesTree(c)

\* Tree order: the number of r when the root is 0, and who sends to whom.
Number(c, r) == (r + N - RootOf(c)) % N

TreeEdge(c, s, d) ==
    \E m \in Pow2 : Number(c, s) = Number(c, d) + m /\ Multiple(Number(c, d), 2 * m)

Edge(c, s, d) ==
    /\ s # d /\ RootOf(c) \in Rank
    /\ \/ c.op = "scatter" /\ s = c.root
       \/ c.op = "message" /\ s = c.root /\ d = c.dest
       \/ ByCollect(c) /\ d = c.root
       \/ ByCollect(c) /\ c.op = "scan" /\ s = c.root
       \/ c.op \in Reduction /\ UsesTree(c) /\ TreeEdge(c, s, d)

TagOf(c) ==
    IF c.op \in {"scatter", "message"} THEN ScatterTag
    ELSE IF UsesTree(c) THEN TreeTag ELSE CollectTag

\* What r has sent and received of the messages of the call it is in.
SentIn(r, d) ==
    /\ pc[r] \notin {"ready", "collect", "tree"}
    /\ pc[r] \in {"scatter", "scan"} => item[r] > d
    /\ pc[r] \in {"scatterSend", "scanSend"} => item[r] >= d

ReceivedIn(s, r) ==
    /\ pc[r] \notin {"ready", "scatterRecv", "scanRecv", "messageRecv", "collectSend"}
    /\ pc[r] = "collect" => Len(data[r]) > s
    /\ pc[r] = "tree" => Number(Now(r), s) < Number(Now(r), r) + item[r]

\* The calls whose message r has sent d, or received from s.
Out(r, d) ==
    {k \in 1..Len(program) :
        Edge(program[k], r, d) /\ (k < Here(r) \/ (k = Here(r) /\ SentIn(r, d)))}
In(s, r) ==
    {k \in 1..Len(program) :
        Edge(program[k], s, r) /\ (k < Here(r) \/ (k = Here(r) /\ ReceivedIn(s, r)))}

\* The messages of queue are those of the calls in out that are not in in, in order.
QueueOK(queue, out, in, calls) ==
    /\ in \subseteq out
    /\ \A i \in 1..Len(queue) :
           queue[i].call \in out \ in /\ queue[i].tag = TagOf(calls[queue[i].call])
    /\ \A i, j \in 1..Len(queue) : i < j => queue[i].call < queue[j].call
    /\ \A k \in out \ in : \E i \in 1..Len(queue) : queue[i].call = k

\* Where in a call a rank can be, by what the call is.
AtOK(r, c, where, i) ==
    CASE where = "barrier" -> c.op = "barrier"
      [] where \in {"bcast", "bcastBody"} -> c.op \in {"bcast", "allgather", "allreduce"}
      [] where \in {"gather", "gatherBody", "catenate"} -> c.op \in {"gather", "allgather"}
      [] where = "native" -> c.op \in Reduction /\ UsesNative(c)
      [] where \in {"scatter", "scatterSend"} -> c.op = "scatter" /\ r = c.root
      [] where = "scatterRecv" -> c.op = "scatter" /\ r # c.root
      [] where = "messageSend" -> c.op = "message" /\ r = c.root
      [] where = "messageRecv" -> c.op = "message" /\ r = c.dest
      [] where = "collect" -> ByCollect(c) /\ r = c.root /\ i = 0
      [] where = "collectSend" -> ByCollect(c) /\ r # c.root
      [] where \in {"scan", "scanSend"} -> ByCollect(c) /\ c.op = "scan" /\ r = c.root
      [] where = "scanRecv" -> ByCollect(c) /\ c.op = "scan" /\ r # c.root
      [] where = "fold" -> /\ c.op \in Reduction
                           /\ UsesNative(c) \/ (ByCollect(c) /\ c.op # "scan" /\ r = c.root)
      [] where \in {"tree", "treeSend"} ->
             /\ c.op \in Reduction /\ UsesTree(c) /\ i \in Pow2
             /\ Multiple(Number(c, r), i)
             /\ where = "treeSend" => ~Multiple(Number(c, r), 2 * i)
      [] OTHER -> TRUE

AtInv ==
    \A r \in Rank : IF pc[r] = "ready" THEN data[r] = <<>>
                   ELSE AtOK(r, Now(r), pc[r], item[r])

TrafficInv ==
    \A s, d \in Rank : QueueOK(chan[s][d], Out(s, d), In(s, d), program)

-----------------------------------------------------------------------------
LEMMA Wraps ==
    ASSUME NEW x \in Nat, x < N + N
    PROVE  x % N = IF x < N THEN x ELSE x - N
<1>1. N \in Nat /\ N > 0
  BY RankFacts
<1>2. CASE x < N
  BY <1>1, <1>2
<1>3. CASE x >= N
  <2>1. PICK d \in Int, e \in Int : d = x \div N /\ e = x % N /\ x = N * d + e /\ 0 <= e /\ e < N
    BY <1>1
  <2>2. d = 1
    <3>1. CASE d >= 2
      <4>1. PICK f \in Nat : d = f + 2
        <5>1. d - 2 \in Nat /\ d = (d - 2) + 2
          BY <3>1
        <5>. QED
          BY <5>1
      <4>2. N * d = N * f + N + N /\ N * f \in Nat
        BY <1>1, <4>1
      <4>. QED
        BY <1>1, <2>1, <4>2
    <3>2. CASE d <= 0
      <4>1. PICK f \in Nat : d = -f
        <5>1. -d \in Nat /\ d = -(-d)
          BY <3>2
        <5>. QED
          BY <5>1
      <4>2. N * d = -(N * f) /\ N * f \in Nat
        BY <1>1, <4>1
      <4>. QED
        BY <1>1, <1>3, <2>1, <4>2
    <3>. QED
      BY <3>1, <3>2
  <2>3. N * d = N
    BY <1>1, <2>2
  <2>. QED
    BY <1>1, <1>3, <2>1, <2>3
<1>. QED
  BY <1>1, <1>2, <1>3

\* The ranks' numbers are the ranks, in another order.
LEMMA Numbers ==
    ASSUME NEW c, RootOf(c) \in Rank
    PROVE  /\ \A r \in Rank : Number(c, r) \in Rank
           /\ \A r, q \in Rank : Number(c, r) = Number(c, q) => r = q
           /\ \A w \in Rank : /\ (w + RootOf(c)) % N \in Rank
                              /\ Number(c, (w + RootOf(c)) % N) = w
<1>1. PICK o \in Rank : o = RootOf(c)
  OBVIOUS
<1>2. N \in Nat /\ N > 0 /\ o \in Nat /\ o < N
  BY RankFacts DEF Rank
<1>3. ASSUME NEW r \in Rank PROVE Number(c, r) = IF r < o THEN r + N - o ELSE r - o
  <2>1. r \in Nat /\ r < N /\ r + N - o \in Nat /\ r + N - o < N + N
    BY <1>2, RankFacts DEF Rank
  <2>2. Number(c, r) = IF r + N - o < N THEN r + N - o ELSE (r + N - o) - N
    BY <1>1, <2>1, Wraps DEF Number
  <2>. QED
    BY <1>2, <2>1, <2>2
<1>4. \A r \in Rank : Number(c, r) \in Rank
  BY <1>2, <1>3 DEF Rank
<1>5. \A r, q \in Rank : Number(c, r) = Number(c, q) => r = q
  BY <1>2, <1>3 DEF Rank
<1>6. ASSUME NEW w \in Rank
      PROVE  (w + RootOf(c)) % N \in Rank /\ Number(c, (w + RootOf(c)) % N) = w
  <2>1. w \in Nat /\ w < N /\ w + o \in Nat /\ w + o < N + N
    BY <1>2, RankFacts DEF Rank
  <2>2. PICK u : u = (w + o) % N
    OBVIOUS
  <2>3. u = IF w + o < N THEN w + o ELSE (w + o) - N
    BY <2>1, <2>2, Wraps
  <2>4. u \in Rank
    BY <1>2, <2>1, <2>3 DEF Rank
  <2>5. Number(c, u) = w
    BY <1>2, <1>3, <2>1, <2>3, <2>4
  <2>. QED
    BY <1>1, <2>2, <2>4, <2>5
<1>. QED
  BY <1>4, <1>5, <1>6

LEMMA OddSum ==
    ASSUME NEW v \in Nat, NEW m \in Nat, m > 0, Multiple(v, 2 * m)
    PROVE  Multiple(v + m, m) /\ ~Multiple(v + m, 2 * m)
<1>1. PICK a \in Nat : v = a * (2 * m)
  BY DEF Multiple
<1>2. 2 * a + 1 \in Nat /\ v + m = (2 * a + 1) * m
  BY <1>1
<1>3. Multiple(v + m, m)
  BY <1>2 DEF Multiple
<1>4. ASSUME Multiple(v + m, 2 * m) PROVE FALSE
  <2>1. PICK b \in Nat : v + m = b * (2 * m)
    BY <1>4 DEF Multiple
  <2>2. 2 * b \in Nat /\ (2 * a + 1) * m = (2 * b) * m
    BY <1>2, <2>1
  <2>3. 2 * a + 1 = 2 * b
    BY <1>2, <2>2, Cancels
  <2>. QED
    BY <2>3
<1>. QED
  BY <1>3, <1>4

LEMMA OddDifference ==
    ASSUME NEW w \in Nat, NEW m \in Nat, m > 0, Multiple(w, m), ~Multiple(w, 2 * m)
    PROVE  w >= m /\ w - m \in Nat /\ Multiple(w - m, 2 * m)
<1>1. PICK q \in Nat : w = q * m
  BY DEF Multiple
<1>2. PICK p \in Nat : q = 2 * p \/ q = 2 * p + 1
  <2>1. q \div 2 \in Nat /\ (q = 2 * (q \div 2) \/ q = 2 * (q \div 2) + 1)
    OBVIOUS
  <2>. QED
    BY <2>1
<1>3. q # 2 * p
  <2>1. ASSUME q = 2 * p PROVE FALSE
    <3>1. w = p * (2 * m)
      BY <1>1, <2>1
    <3>. QED
      BY <3>1 DEF Multiple
  <2>. QED
    BY <2>1
<1>4. w = p * (2 * m) + m /\ p * (2 * m) \in Nat
  BY <1>1, <1>2, <1>3
<1>5. w - m = p * (2 * m) /\ w >= m
  BY <1>4
<1>. QED
  BY <1>4, <1>5 DEF Multiple

\* Who sends to r, and to whom r sends, seen from r in the round of mask m.
InRound(c, r, m) ==
    RootOf(c) \in Rank /\ r \in Rank /\ m \in Pow2 /\ Multiple(Number(c, r), m)

LEMMA RoundTypes ==
    ASSUME NEW c, NEW r, NEW m, InRound(c, r, m)
    PROVE  /\ N \in Nat /\ m \in Nat /\ m > 0 /\ 2 * m \in Pow2 /\ 2 * m \in Nat
           /\ \A q \in Rank : Number(c, q) \in Rank /\ Number(c, q) \in Nat /\ Number(c, q) < N
<1>1. N \in Nat /\ m \in Nat /\ m > 0 /\ 2 * m \in Pow2 /\ 2 * m \in Nat
  BY RankFacts, Pow2Doubling DEF InRound
<1>2. \A q \in Rank : Number(c, q) \in Rank
  BY Numbers DEF InRound
<1>. QED
  BY <1>1, <1>2 DEF Rank

LEMMA EdgeMask ==
    ASSUME NEW c, RootOf(c) \in Rank, NEW s \in Rank, NEW d \in Rank, TreeEdge(c, s, d)
    PROVE  \E m \in Pow2 : /\ Number(c, s) = Number(c, d) + m /\ Multiple(Number(c, d), 2 * m)
                           /\ Multiple(Number(c, s), m) /\ ~Multiple(Number(c, s), 2 * m)
                           /\ m \in Nat /\ m > 0
<1>1. PICK m \in Pow2 : Number(c, s) = Number(c, d) + m /\ Multiple(Number(c, d), 2 * m)
  BY DEF TreeEdge
<1>2. m \in Nat /\ m > 0 /\ Number(c, d) \in Nat
  BY Pow2Doubling, Numbers, RankFacts
<1>. QED
  BY <1>1, <1>2, OddSum

LEMMA ParentEdge ==
    ASSUME NEW c, NEW r, NEW m, InRound(c, r, m), ~Multiple(Number(c, r), 2 * m),
           NEW p, p = (Number(c, r) - m + RootOf(c)) % N
    PROVE  /\ p \in Rank /\ p # r /\ TreeEdge(c, r, p)
           /\ \A d \in Rank : TreeEdge(c, r, d) => d = p
           /\ \A s \in Rank : TreeEdge(c, s, r) => Number(c, s) < Number(c, r) + m
<1>1. PICK w : w = Number(c, r)
  OBVIOUS
<1>2. /\ N \in Nat /\ m \in Nat /\ m > 0 /\ m \in Pow2 /\ r \in Rank /\ RootOf(c) \in Rank
      /\ w \in Nat /\ w < N /\ Multiple(w, m) /\ ~Multiple(w, 2 * m)
  BY <1>1, RoundTypes DEF InRound
<1>3. w >= m /\ w - m \in Nat /\ Multiple(w - m, 2 * m)
  BY <1>2, OddDifference
<1>4. w - m \in Rank
  BY <1>2, <1>3 DEF Rank
<1>5. p \in Rank /\ Number(c, p) = w - m
  BY <1>1, <1>2, <1>4, Numbers
<1>6. TreeEdge(c, r, p) /\ p # r
  <2>1. w = Number(c, p) + m
    BY <1>2, <1>3, <1>5
  <2>. QED
    BY <1>1, <1>2, <1>3, <1>5, <2>1 DEF TreeEdge
<1>7. ASSUME NEW d \in Rank, TreeEdge(c, r, d) PROVE d = p
  <2>1. PICK n \in Pow2 : w = Number(c, d) + n /\ Multiple(w, n) /\ ~Multiple(w, 2 * n)
    BY <1>1, <1>2, <1>7, EdgeMask
  <2>2. n = m
    BY <1>2, <2>1, OneOddMask
  <2>3. Number(c, d) \in Nat
    BY RoundTypes
  <2>4. Number(c, d) = w - m
    BY <1>2, <2>1, <2>2, <2>3
  <2>. QED
    BY <1>2, <1>5, <2>4, Numbers
<1>8. ASSUME NEW s \in Rank, TreeEdge(c, s, r) PROVE Number(c, s) < w + m
  <2>1. PICK n \in Pow2 : Number(c, s) = w + n /\ Multiple(w, 2 * n)
    BY <1>1, <1>8 DEF TreeEdge
  <2>2. n \in Nat /\ 2 * n \in Nat /\ n > 0
    BY Pow2Doubling
  <2>3. m = n \/ Multiple(n, 2 * m) \/ Multiple(m, 2 * n)
    BY <1>2, Pow2Ordered DEF Ordered
  <2>4. ~Multiple(n, 2 * m)
    <3>1. Multiple(w, n)
      BY <1>2, <2>1, <2>2, MultipleFacts
    <3>2. 2 * m \in Nat
      BY <1>2
    <3>. QED
      BY <1>2, <2>2, <3>1, <3>2, MultipleFacts
  <2>5. Multiple(m, 2 * n) => m >= 2 * n
    BY <1>2, <2>2, MultipleFacts
  <2>6. n < m
    BY <1>2, <2>1, <2>2, <2>3, <2>4, <2>5
  <2>. QED
    BY <1>2, <2>1, <2>2, <2>6
<1>. QED
  BY <1>1, <1>5, <1>6, <1>7, <1>8

LEMMA ChildEdge ==
    ASSUME NEW c, NEW r, NEW m, InRound(c, r, m), Multiple(Number(c, r), 2 * m),
           Number(c, r) + m < N, NEW ch, ch = (Number(c, r) + m + RootOf(c)) % N
    PROVE  /\ ch \in Rank /\ ch # r /\ TreeEdge(c, ch, r) /\ Number(c, ch) = Number(c, r) + m
           /\ \A s \in Rank : TreeEdge(c, s, r) =>
                  (Number(c, s) < Number(c, r) + 2 * m <=>
                       Number(c, s) < Number(c, r) + m \/ s = ch)
<1>1. PICK w : w = Number(c, r)
  OBVIOUS
<1>2. /\ N \in Nat /\ m \in Nat /\ m > 0 /\ m \in Pow2 /\ r \in Rank /\ RootOf(c) \in Rank
      /\ w \in Nat /\ w < N /\ Multiple(w, 2 * m) /\ w + m < N
  BY <1>1, RoundTypes DEF InRound
<1>3. w + m \in Rank
  BY <1>2 DEF Rank
<1>4. ch \in Rank /\ Number(c, ch) = w + m
  BY <1>1, <1>2, <1>3, Numbers
<1>5. TreeEdge(c, ch, r) /\ ch # r
  BY <1>1, <1>2, <1>4 DEF TreeEdge
<1>6. ASSUME NEW s \in Rank, TreeEdge(c, s, r)
      PROVE  Number(c, s) < w + 2 * m <=> Number(c, s) < w + m \/ s = ch
  <2>1. PICK n \in Pow2 : Number(c, s) = w + n
    BY <1>1, <1>6 DEF TreeEdge
  <2>2. n \in Nat /\ (n < 2 * m => n <= m)
    BY <1>2, Pow2Doubling, NextMask
  <2>3. s = ch <=> Number(c, s) = w + m
    BY <1>2, <1>4, Numbers
  <2>. QED
    BY <1>2, <2>1, <2>2, <2>3
<1>. QED
  BY <1>1, <1>4, <1>5, <1>6

LEMMA RoundEdges ==
    ASSUME NEW c, NEW r, NEW m, InRound(c, r, m)
    PROVE  /\ m = 1 => \A s \in Rank : TreeEdge(c, s, r) => ~(Number(c, s) < Number(c, r) + m)
           /\ Number(c, r) + m >= N => \A s \in Rank : /\ Number(c, s) < Number(c, r) + m
                                                       /\ Number(c, s) < Number(c, r) + 2 * m
           /\ m >= N => \A d \in Rank : ~TreeEdge(c, r, d)
<1>1. PICK w : w = Number(c, r)
  OBVIOUS
<1>2. /\ N \in Nat /\ m \in Nat /\ m > 0 /\ m \in Pow2 /\ r \in Rank /\ RootOf(c) \in Rank
      /\ w \in Nat /\ w < N /\ Multiple(w, m)
      /\ \A q \in Rank : Number(c, q) \in Nat /\ Number(c, q) < N
  BY <1>1, RoundTypes DEF InRound
<1>3. ASSUME m = 1, NEW s \in Rank, TreeEdge(c, s, r) PROVE ~(Number(c, s) < w + m)
  <2>1. PICK n \in Pow2 : Number(c, s) = w + n
    BY <1>1, <1>3 DEF TreeEdge
  <2>2. n \in Nat /\ n > 0
    BY Pow2Doubling
  <2>. QED
    BY <1>2, <1>3, <2>1, <2>2
<1>4. ASSUME w + m >= N, NEW s \in Rank
      PROVE  Number(c, s) < w + m /\ Number(c, s) < w + 2 * m
  BY <1>2, <1>4
<1>5. ASSUME m >= N, NEW d \in Rank, TreeEdge(c, r, d) PROVE FALSE
  <2>1. PICK n \in Pow2 : w = Number(c, d) + n /\ n \in Nat /\ n > 0
    BY <1>1, <1>2, <1>5, EdgeMask
  <2>2. w > 0
    BY <1>2, <2>1
  <2>3. w >= m
    BY Zenon, <1>2, <2>2, MultipleFacts
  <2>. QED
    BY <1>2, <1>5, <2>3
<1>. QED
  BY <1>1, <1>3, <1>4, <1>5

-----------------------------------------------------------------------------
(***************************************************************************)
(* A step sends one message of the call its rank is in, receives one, or   *)
(* neither.                                                                *)
(***************************************************************************)
SameOut(r) == \A d \in Rank : Out(r, d)' = Out(r, d)
SameIn(r)  == \A s \in Rank : In(s, r)' = In(s, r)

SendsOne(r, d) ==
    /\ Edge(Now(r), r, d) /\ ~SentIn(r, d)
    /\ \E v : Send(r, d, TagOf(Now(r)), v)
    /\ Out(r, d)' = Out(r, d) \cup {Here(r)}
    /\ \A e \in Rank \ {d} : Out(r, e)' = Out(r, e)

GetsOne(s, r) ==
    /\ Edge(Now(r), s, r) /\ ~ReceivedIn(s, r)
    /\ \E i \in 1..Len(chan[s][r]) : \E tag \in {TagOf(Now(r)), ANY_TAG} : Receive(s, r, i, tag)
    /\ In(s, r)' = In(s, r) \cup {Here(r)}
    /\ \A q \in Rank \ {s} : In(q, r)' = In(q, r)

Traffic(r) ==
    \/ chan' = chan /\ SameOut(r) /\ SameIn(r)
    \/ SameIn(r) /\ \E d \in Rank : SendsOne(r, d)
    \/ SameOut(r) /\ \E s \in Rank : GetsOne(s, r)

LEMMA QueueSent ==
    ASSUME NEW S, NEW queue \in Seq(S), NEW out \in SUBSET Nat, NEW in, NEW calls,
           QueueOK(queue, out, in, calls), NEW m \in S, m.call \in Nat, m.call \notin out,
           \A k \in out : k < m.call, m.tag = TagOf(calls[m.call])
    PROVE  QueueOK(Append(queue, m), out \cup {m.call}, in, calls)
<1>1. PICK n, longer, h : n = Len(queue) /\ longer = Append(queue, m) /\ h = m.call
  OBVIOUS
<1>2. /\ n \in Nat /\ Len(longer) = n + 1 /\ longer[n + 1] = m
      /\ \A i \in 1..n : longer[i] = queue[i]
  BY <1>1, Appended
<1>3. /\ in \subseteq out /\ \A i \in 1..n : queue[i].call \in out \ in
      /\ \A i \in 1..n : queue[i].tag = TagOf(calls[queue[i].call])
      /\ \A i, j \in 1..n : i < j => queue[i].call < queue[j].call
      /\ \A k \in out \ in : \E i \in 1..n : queue[i].call = k
  BY <1>1 DEF QueueOK
<1>4. ASSUME NEW i \in 1..(n + 1)
      PROVE  /\ longer[i].call \in (out \cup {h}) \ in
             /\ longer[i].tag = TagOf(calls[longer[i].call])
  <2>1. CASE i \in 1..n
    BY <1>2, <1>3, <2>1
  <2>2. CASE i = n + 1
    BY <1>1, <1>2, <1>3, <2>2
  <2>. QED
    BY <1>2, <2>1, <2>2
<1>5. ASSUME NEW i \in 1..(n + 1), NEW j \in 1..(n + 1), i < j
      PROVE  longer[i].call < longer[j].call
  <2>1. i \in 1..n
    BY <1>2, <1>5
  <2>2. CASE j \in 1..n
    BY <1>2, <1>3, <1>5, <2>1, <2>2
  <2>3. CASE j = n + 1
    BY <1>1, <1>2, <1>3, <2>1, <2>3
  <2>. QED
    BY <1>2, <2>2, <2>3
<1>6. ASSUME NEW k \in (out \cup {h}) \ in
      PROVE  \E i \in 1..(n + 1) : longer[i].call = k
  <2>1. CASE k = h
    BY <1>1, <1>2, <2>1
  <2>2. CASE k # h
    <3>1. PICK i \in 1..n : queue[i].call = k
      BY <1>3, <1>6, <2>2
    <3>. QED
      BY <1>2, <3>1
  <2>. QED
    BY <2>1, <2>2
<1>. QED
  BY <1>1, <1>2, <1>3, <1>4, <1>5, <1>6 DEF QueueOK

LEMMA QueueGot ==
    ASSUME NEW S, NEW queue \in Seq(S), NEW out \in SUBSET Nat, NEW in, NEW calls,
           QueueOK(queue, out, in, calls), NEW g \in 1..Len(queue)
    PROVE  QueueOK(RemoveAt(queue, g), out, in \cup {queue[g].call}, calls)
<1>1. PICK n, rest, h : n = Len(queue) /\ rest = RemoveAt(queue, g) /\ h = queue[g].call
  OBVIOUS
<1>2. /\ n \in Nat /\ Len(rest) = n - 1 /\ g \in 1..n
      /\ \A i \in 1..(n - 1) : rest[i] = IF i < g THEN queue[i] ELSE queue[i + 1]
  BY <1>1, Removed
<1>3. /\ in \subseteq out /\ \A i \in 1..n : queue[i].call \in out \ in
      /\ \A i \in 1..n : queue[i].tag = TagOf(calls[queue[i].call])
      /\ \A i, j \in 1..n : i < j => queue[i].call < queue[j].call
      /\ \A k \in out \ in : \E i \in 1..n : queue[i].call = k
  BY <1>1 DEF QueueOK
<1>4. ASSUME NEW i \in 1..(n - 1)
      PROVE  \E j \in 1..n : j # g /\ rest[i] = queue[j] /\ j = IF i < g THEN i ELSE i + 1
  BY <1>2
<1>5. ASSUME NEW j \in 1..n, j # g PROVE queue[j].call # h
  <2>1. queue[j].call \in Nat /\ queue[g].call \in Nat
    BY <1>2, <1>3
  <2>2. CASE j < g
    BY <1>1, <1>2, <1>3, <2>1, <2>2
  <2>3. CASE g < j
    BY <1>1, <1>2, <1>3, <2>1, <2>3
  <2>. QED
    BY <1>2, <1>5, <2>2, <2>3
<1>6. ASSUME NEW i \in 1..(n - 1)
      PROVE  /\ rest[i].call \in out \ (in \cup {h})
             /\ rest[i].tag = TagOf(calls[rest[i].call])
  BY <1>3, <1>4, <1>5
<1>7. ASSUME NEW i \in 1..(n - 1), NEW j \in 1..(n - 1), i < j
      PROVE  rest[i].call < rest[j].call
  <2>1. PICK a \in 1..n : rest[i] = queue[a] /\ a = IF i < g THEN i ELSE i + 1
    BY <1>4
  <2>2. PICK b \in 1..n : rest[j] = queue[b] /\ b = IF j < g THEN j ELSE j + 1
    BY <1>4
  <2>3. a < b
    BY <1>2, <1>7, <2>1, <2>2
  <2>. QED
    BY <1>3, <2>1, <2>2, <2>3
<1>8. ASSUME NEW k \in out \ (in \cup {h})
      PROVE  \E i \in 1..(n - 1) : rest[i].call = k
  <2>1. PICK j \in 1..n : queue[j].call = k
    BY <1>3, <1>8
  <2>2. j # g
    BY <1>1, <1>8, <2>1
  <2>3. CASE j < g
    <3>1. j \in 1..(n - 1)
      BY <1>2, <2>3
    <3>2. rest[j] = queue[j]
      BY <1>2, <2>3, <3>1
    <3>. QED
      BY <2>1, <3>1, <3>2
  <2>4. CASE j > g
    <3>1. j - 1 \in 1..(n - 1) /\ ~(j - 1 < g) /\ (j - 1) + 1 = j
      BY <1>2, <2>4
    <3>2. rest[j - 1] = queue[j]
      BY <1>2, <3>1
    <3>. QED
      BY <2>1, <3>1, <3>2
  <2>. QED
    BY <1>2, <2>2, <2>3, <2>4
<1>9. in \cup {h} \subseteq out
  BY <1>1, <1>2, <1>3
<1>. QED
  BY <1>1, <1>2, <1>6, <1>7, <1>8, <1>9 DEF QueueOK

\* The calls of the messages are calls of the program, and none is to come.
LEMMA OutFacts ==
    ASSUME NEW r \in Rank, Here(r) \in 1..Len(program), NEW d \in Rank
    PROVE  /\ Out(r, d) \in SUBSET Nat /\ \A k \in Out(r, d) : k <= Here(r)
           /\ Edge(Now(r), r, d) =>
                  /\ (Here(r) \in Out(r, d) <=> SentIn(r, d))
                  /\ \A k \in Out(r, d) : ~SentIn(r, d) => k < Here(r)
<1>1. Here(r) \in Nat /\ Now(r) = program[Here(r)] /\ \A k \in Out(r, d) : k \in Nat
  BY DEF Out, Now
<1>2. ASSUME NEW k \in Out(r, d)
      PROVE  k <= Here(r) /\ (k = Here(r) => SentIn(r, d))
  BY <1>1, <1>2 DEF Out
<1>3. ASSUME Edge(Now(r), r, d), SentIn(r, d) PROVE Here(r) \in Out(r, d)
  BY <1>1, <1>3 DEF Out
<1>. QED
  BY <1>1, <1>2, <1>3

LEMMA InFacts ==
    ASSUME NEW r \in Rank, Here(r) \in 1..Len(program), NEW s \in Rank, Edge(Now(r), s, r)
    PROVE  Here(r) \in In(s, r) <=> ReceivedIn(s, r)
BY DEF In, Now

\* The first message from s with the tag of r's call is the one of that call.
LEMMA GetsItsOwn ==
    ASSUME TypeOK, TrafficInv, NEW r \in Rank, NEW s \in Rank, Edge(Now(r), s, r),
           Here(r) \in 1..Len(program), ~ReceivedIn(s, r),
           NEW tag \in {TagOf(Now(r)), ANY_TAG}, NEW i \in 1..Len(chan[s][r]),
           Receive(s, r, i, tag)
    PROVE  chan[s][r][i].call = Here(r)
<1>1. PICK queue, out, in, h : /\ queue = chan[s][r] /\ out = Out(s, r) /\ in = In(s, r)
                               /\ h = Here(r)
  OBVIOUS
<1>2. /\ \A j \in 1..Len(queue) : queue[j].call \in out \ in
      /\ \A j \in 1..Len(queue) : queue[j].tag = TagOf(program[queue[j].call])
      /\ \A j, k \in 1..Len(queue) : j < k => queue[j].call < queue[k].call
      /\ \A k \in out \ in : \E j \in 1..Len(queue) : queue[j].call = k
  <2>1. QueueOK(queue, out, in, program)
    BY <1>1 DEF TrafficInv
  <2>. QED
    BY <2>1 DEF QueueOK
<1>3. Len(queue) \in Nat /\ i \in 1..Len(queue) /\ Here(s) \in Nat
  <2>1. chan[s][r] \in Seq(Message)
    BY DEF TypeOK
  <2>2. Len(queue) \in Nat
    BY <1>1, <2>1, LenProperties
  <2>3. Here(s) \in Nat
    BY LogTypes
  <2>. QED
    BY <1>1, <2>2, <2>3
<1>4. h \notin in /\ \A j \in 1..(i - 1) : queue[j].call # h
  <2>1. h \notin in
    BY <1>1, InFacts
  <2>2. ASSUME NEW j \in 1..(i - 1), queue[j].call = h PROVE FALSE
    <3>1. ~Fits(queue[j], tag)
      BY <1>1, <2>2 DEF Receive
    <3>2. j \in 1..Len(queue)
      BY <1>3
    <3>3. queue[j].tag = TagOf(Now(r))
      <4>1. queue[j].tag = TagOf(program[queue[j].call])
        BY <1>2, <3>2
      <4>2. program[h] = Now(r)
        BY <1>1 DEF Now
      <4>. QED
        BY <2>2, <4>1, <4>2
    <3>. QED
      BY <3>1, <3>3 DEF Fits
  <2>. QED
    BY <2>1, <2>2
<1>5. PICK c \in 1..Len(program) :
          c = queue[i].call /\ c \in out /\ c \notin in /\ Edge(program[c], s, r) /\ c <= Here(s)
  <2>1. PICK c : c = queue[i].call
    OBVIOUS
  <2>2. c \in out /\ c \notin in
    BY <1>2, <1>3, <2>1
  <2>3. c \in 1..Len(program) /\ Edge(program[c], s, r) /\ (c < Here(s) \/ c = Here(s))
    BY <1>1, <2>2 DEF Out
  <2>4. c <= Here(s)
    BY <1>3, <2>3
  <2>. QED
    BY <2>1, <2>2, <2>3, <2>4
<1>6. c >= h
  <2>1. ASSUME c < h PROVE FALSE
    BY <1>1, <1>5, <2>1 DEF In
  <2>. QED
    BY <1>1, <1>5, <2>1
<1>7. CASE c > h
  <2>1. h < Here(s)
    BY <1>1, <1>3, <1>5, <1>7
  <2>2. h \in out \ in
    BY <1>1, <1>4, <2>1 DEF Out, Now
  <2>3. PICK j \in 1..Len(queue) : queue[j].call = h
    BY <1>2, <2>2
  <2>4. ~(i < j) /\ i # j
    <3>1. ASSUME i < j PROVE c < h
      BY <1>2, <1>3, <1>5, <2>3, <3>1
    <3>2. i # j
      BY <1>5, <1>7, <2>3
    <3>3. ~(c < h)
      BY <1>6, <1>1
    <3>. QED
      BY <3>1, <3>2, <3>3
  <2>5. j \in 1..(i - 1)
    BY <1>3, <2>4
  <2>. QED
    BY <1>4, <2>3, <2>5
<1>. QED
  BY <1>1, <1>5, <1>6, <1>7

\* A step leaves alone what the other ranks have sent and received.
LEMMA OthersTraffic ==
    ASSUME NEW r \in Rank, NEW q \in Rank \ {r}, Elsewhere(r), NEW s \in Rank
    PROVE  Out(q, s)' = Out(q, s) /\ In(s, q)' = In(s, q)
<1>1. /\ program' = program /\ pc'[q] = pc[q] /\ data'[q] = data[q] /\ item'[q] = item[q]
      /\ returned'[q] = returned[q]
  BY DEF Elsewhere
<1>2. Here(q)' = Here(q) /\ Now(q)' = Now(q)
  BY <1>1 DEF Here, Now
<1>3. SentIn(q, s)' = SentIn(q, s) /\ ReceivedIn(s, q)' = ReceivedIn(s, q)
  BY <1>1, <1>2 DEF SentIn, ReceivedIn
<1>4. Out(q, s)' = Out(q, s)
  BY <1>1, <1>2, <1>3 DEF Out
<1>5. In(s, q)' = In(s, q)
  BY <1>1, <1>2, <1>3 DEF In
<1>. QED
  BY <1>4, <1>5

LEMMA TrafficKeeps ==
    ASSUME TypeOK, TypeOK', TrafficInv, NEW r \in Rank, Here(r) \in 1..Len(program),
           Elsewhere(r), Traffic(r)
    PROVE  TrafficInv'
<1>1. program' = program /\ program \in Seq(Call)
  BY CollectivesAssumption DEF Elsewhere, TypeOK
<1>2. ASSUME NEW s \in Rank, NEW d \in Rank, chan'[s][d] = chan[s][d],
             Out(s, d)' = Out(s, d), In(s, d)' = In(s, d)
      PROVE  QueueOK(chan[s][d], Out(s, d), In(s, d), program)'
  BY <1>1, <1>2 DEF TrafficInv
<1>3. CASE chan' = chan /\ SameOut(r) /\ SameIn(r)
  BY <1>2, <1>3, OthersTraffic DEF TrafficInv, SameOut, SameIn
<1>4. ASSUME SameIn(r), NEW d \in Rank, SendsOne(r, d) PROVE TrafficInv'
  <2>1. PICK m, v : /\ Send(r, d, TagOf(Now(r)), v)
                    /\ m = [tag |-> TagOf(Now(r)), call |-> Here(r), val |-> v]
    BY <1>4 DEF SendsOne
  <2>2. /\ chan'[r][d] = Append(chan[r][d], m)
        /\ \A s, e \in Rank : <<s, e>> # <<r, d>> => chan'[s][e] = chan[s][e]
    BY <2>1 DEF Send, TypeOK
  <2>3. m.call = Here(r) /\ m.tag = TagOf(program[m.call]) /\ m.call \in Nat
    BY <2>1 DEF Now
  <2>4. chan[r][d] \in Seq(Message) /\ m \in Message
    <3>1. chan[r][d] \in Seq(Message) /\ chan'[r][d] \in Seq(Message)
      BY DEF TypeOK
    <3>2. /\ Append(chan[r][d], m)[Len(chan[r][d]) + 1] = m
          /\ Len(chan'[r][d]) = Len(chan[r][d]) + 1 /\ Len(chan[r][d]) \in Nat
      BY <2>2, <3>1
    <3>. QED
      BY <2>2, <3>1, <3>2, ElementOfSeq
  <2>5. /\ QueueOK(chan[r][d], Out(r, d), In(r, d), program) /\ Out(r, d) \in SUBSET Nat
        /\ m.call \notin Out(r, d) /\ \A k \in Out(r, d) : k < m.call
    BY <1>4, <2>3, OutFacts DEF TrafficInv, SendsOne
  <2>6. QueueOK(chan'[r][d], Out(r, d) \cup {m.call}, In(r, d), program)
    BY <2>2, <2>3, <2>4, <2>5, QueueSent
  <2>7. /\ Out(r, d)' = Out(r, d) \cup {m.call}
        /\ \A e \in Rank \ {d} : Out(r, e)' = Out(r, e)
        /\ \A s \in Rank : In(s, r)' = In(s, r)
    BY <1>4, <2>3 DEF SendsOne, SameIn
  <2>8. r # d /\ In(r, d)' = In(r, d)
    BY <1>4, OthersTraffic DEF SendsOne, Edge
  <2>9. QueueOK(chan[r][d], Out(r, d), In(r, d), program)'
    BY <1>1, <2>6, <2>7, <2>8
  <2>10. ASSUME NEW s \in Rank, NEW e \in Rank, <<s, e>> # <<r, d>>
         PROVE  QueueOK(chan[s][e], Out(s, e), In(s, e), program)'
    <3>1. Out(s, e)' = Out(s, e)
      BY <2>7, <2>10, OthersTraffic
    <3>2. In(s, e)' = In(s, e)
      BY <2>7, OthersTraffic
    <3>. QED
      BY <1>2, <2>2, <2>10, <3>1, <3>2
  <2>. QED
    BY <2>9, <2>10 DEF TrafficInv
<1>5. ASSUME SameOut(r), NEW s \in Rank, GetsOne(s, r) PROVE TrafficInv'
  <2>1. PICK i \in 1..Len(chan[s][r]) : \E tag \in {TagOf(Now(r)), ANY_TAG} : Receive(s, r, i, tag)
    BY <1>5 DEF GetsOne
  <2>2. chan[s][r][i].call = Here(r)
    BY <1>5, <2>1, GetsItsOwn DEF GetsOne
  <2>3. /\ chan'[s][r] = RemoveAt(chan[s][r], i)
        /\ \A p, e \in Rank : <<p, e>> # <<s, r>> => chan'[p][e] = chan[p][e]
    BY <2>1 DEF Receive, TypeOK
  <2>4. chan[s][r] \in Seq(Message) /\ Here(s) \in Nat
    BY LogTypes DEF TypeOK
  <2>5. /\ QueueOK(chan[s][r], Out(s, r), In(s, r), program)
        /\ Out(s, r) \in SUBSET Nat
    <3>1. QueueOK(chan[s][r], Out(s, r), In(s, r), program)
      BY DEF TrafficInv
    <3>2. Out(s, r) \subseteq 1..Len(program)
      BY DEF Out
    <3>. QED
      BY <3>1, <3>2
  <2>6. QueueOK(chan'[s][r], Out(s, r), In(s, r) \cup {Here(r)}, program)
    BY <2>2, <2>3, <2>4, <2>5, QueueGot
  <2>7. /\ In(s, r)' = In(s, r) \cup {Here(r)}
        /\ \A q \in Rank \ {s} : In(q, r)' = In(q, r)
        /\ \A e \in Rank : Out(r, e)' = Out(r, e)
    BY <1>5 DEF GetsOne, SameOut
  <2>8. s # r /\ Out(s, r)' = Out(s, r)
    BY <1>5, OthersTraffic DEF GetsOne, Edge
  <2>9. QueueOK(chan[s][r], Out(s, r), In(s, r), program)'
    BY <1>1, <2>6, <2>7, <2>8
  <2>10. ASSUME NEW p \in Rank, NEW e \in Rank, <<p, e>> # <<s, r>>
         PROVE  QueueOK(chan[p][e], Out(p, e), In(p, e), program)'
    <3>1. Out(p, e)' = Out(p, e)
      BY <2>7, OthersTraffic
    <3>2. In(p, e)' = In(p, e)
      BY <2>7, <2>10, OthersTraffic
    <3>. QED
      BY <1>2, <2>3, <2>10, <3>1, <3>2
  <2>. QED
    BY <2>9, <2>10 DEF TrafficInv
<1>. QED
  BY <1>3, <1>4, <1>5 DEF Traffic

-----------------------------------------------------------------------------
(***************************************************************************)
(* What r has sent and received after a step of r, which may end its call. *)
(***************************************************************************)
Ended(r)  == pc'[r] = "ready" /\ Len(returned'[r]) = Len(returned[r]) + 1
Within(r) == returned'[r] = returned[r]

Moves(r) ==
    /\ program' = program /\ Len(returned[r]) \in Nat /\ Here(r) \in 1..Len(program)
    /\ Ended(r) \/ Within(r)

SentAfter(r, d)     == Ended(r) \/ SentIn(r, d)'
ReceivedAfter(s, r) == Ended(r) \/ ReceivedIn(s, r)'

\* Except for the messages to D, and from S, nothing is sent, or received.
KeepsSent(r, D) ==
    \A d \in Rank \ D : Edge(Now(r), r, d) => (SentAfter(r, d) <=> SentIn(r, d))
KeepsReceived(S, r) ==
    \A s \in Rank \ S : Edge(Now(r), s, r) => (ReceivedAfter(s, r) <=> ReceivedIn(s, r))

LEMMA OutAfter ==
    ASSUME NEW r \in Rank, NEW d \in Rank, Moves(r)
    PROVE  Out(r, d)' = {k \in 1..Len(program) :
               Edge(program[k], r, d) /\ (k < Here(r) \/ (k = Here(r) /\ SentAfter(r, d)))}
<1>1. program' = program /\ Here(r) \in Nat /\ (Ended(r) => ~SentIn(r, d)')
  BY DEF Moves, Ended, SentIn
<1>2. Out(r, d)' = {k \in 1..Len(program) :
          Edge(program[k], r, d) /\ (k < Here(r)' \/ (k = Here(r)' /\ SentIn(r, d)'))}
  BY <1>1 DEF Out, Edge, ByCollect, TreeEdge, Number
<1>3. CASE Ended(r)
  <2>1. Here(r)' = Here(r) + 1 /\ SentAfter(r, d)
    BY <1>3 DEF Moves, Here, Ended, SentAfter
  <2>2. \A k \in 1..Len(program) :
            (k < Here(r)' \/ (k = Here(r)' /\ SentIn(r, d)')) <=>
            (k < Here(r) \/ (k = Here(r) /\ SentAfter(r, d)))
    BY <1>1, <1>3, <2>1
  <2>. QED
    BY <1>2, <2>2
<1>4. CASE Within(r) /\ ~Ended(r)
  <2>1. Here(r)' = Here(r) /\ (SentAfter(r, d) <=> SentIn(r, d)')
    BY <1>4 DEF Within, Here, SentAfter
  <2>. QED
    BY <1>2, <2>1
<1>. QED
  BY <1>3, <1>4 DEF Moves

LEMMA InAfter ==
    ASSUME NEW r \in Rank, NEW s \in Rank, Moves(r)
    PROVE  In(s, r)' = {k \in 1..Len(program) :
               Edge(program[k], s, r) /\ (k < Here(r) \/ (k = Here(r) /\ ReceivedAfter(s, r)))}
<1>1. program' = program /\ Here(r) \in Nat /\ (Ended(r) => ~ReceivedIn(s, r)')
  BY DEF Moves, Ended, ReceivedIn
<1>2. In(s, r)' = {k \in 1..Len(program) :
          Edge(program[k], s, r) /\ (k < Here(r)' \/ (k = Here(r)' /\ ReceivedIn(s, r)'))}
  BY <1>1 DEF In, Edge, ByCollect, TreeEdge, Number
<1>3. CASE Ended(r)
  <2>1. Here(r)' = Here(r) + 1 /\ ReceivedAfter(s, r)
    BY <1>3 DEF Moves, Here, Ended, ReceivedAfter
  <2>2. \A k \in 1..Len(program) :
            (k < Here(r)' \/ (k = Here(r)' /\ ReceivedIn(s, r)')) <=>
            (k < Here(r) \/ (k = Here(r) /\ ReceivedAfter(s, r)))
    BY <1>1, <1>3, <2>1
  <2>. QED
    BY <1>2, <2>2
<1>4. CASE Within(r) /\ ~Ended(r)
  <2>1. Here(r)' = Here(r) /\ (ReceivedAfter(s, r) <=> ReceivedIn(s, r)')
    BY <1>4 DEF Within, Here, ReceivedAfter
  <2>. QED
    BY <1>2, <2>1
<1>. QED
  BY <1>3, <1>4 DEF Moves

LEMMA KeepsOut ==
    ASSUME NEW r \in Rank, NEW D, KeepsSent(r, D), Moves(r)
    PROVE  \A d \in Rank \ D : Out(r, d)' = Out(r, d)
<1>1. ASSUME NEW d \in Rank \ D PROVE Out(r, d)' = Out(r, d)
  <2>1. Edge(program[Here(r)], r, d) => (SentAfter(r, d) <=> SentIn(r, d))
    BY DEF KeepsSent, Now
  <2>2. \A k \in 1..Len(program) :
            (Edge(program[k], r, d) /\ (k < Here(r) \/ (k = Here(r) /\ SentAfter(r, d)))) <=>
            (Edge(program[k], r, d) /\ (k < Here(r) \/ (k = Here(r) /\ SentIn(r, d))))
    BY <2>1
  <2>. QED
    BY <2>2, OutAfter DEF Out
<1>. QED
  BY <1>1

LEMMA KeepsIn ==
    ASSUME NEW r \in Rank, NEW S, KeepsReceived(S, r), Moves(r)
    PROVE  \A s \in Rank \ S : In(s, r)' = In(s, r)
<1>1. ASSUME NEW s \in Rank \ S PROVE In(s, r)' = In(s, r)
  <2>1. Edge(program[Here(r)], s, r) => (ReceivedAfter(s, r) <=> ReceivedIn(s, r))
    BY DEF KeepsReceived, Now
  <2>2. \A k \in 1..Len(program) :
            (Edge(program[k], s, r) /\ (k < Here(r) \/ (k = Here(r) /\ ReceivedAfter(s, r)))) <=>
            (Edge(program[k], s, r) /\ (k < Here(r) \/ (k = Here(r) /\ ReceivedIn(s, r))))
    BY <2>1
  <2>. QED
    BY <2>2, InAfter DEF In
<1>. QED
  BY <1>1

LEMMA TrafficStays ==
    ASSUME NEW r \in Rank, Moves(r), chan' = chan, KeepsSent(r, {}), KeepsReceived({}, r)
    PROVE  Traffic(r)
BY KeepsOut, KeepsIn DEF Traffic, SameOut, SameIn

LEMMA TrafficSends ==
    ASSUME NEW r \in Rank, Moves(r), NEW d \in Rank, KeepsSent(r, {d}), KeepsReceived({}, r),
           Edge(Now(r), r, d), ~SentIn(r, d), SentAfter(r, d),
           NEW v, Send(r, d, TagOf(Now(r)), v)
    PROVE  Traffic(r)
<1>1. SameIn(r) /\ \A e \in Rank \ {d} : Out(r, e)' = Out(r, e)
  BY KeepsOut, KeepsIn DEF SameIn
<1>2. Here(r) \in 1..Len(program) /\ Now(r) = program[Here(r)]
  BY DEF Moves, Now
<1>3. Out(r, d)' = Out(r, d) \cup {Here(r)}
  <2>1. \A k \in 1..Len(program) :
            (Edge(program[k], r, d) /\ (k < Here(r) \/ (k = Here(r) /\ SentAfter(r, d)))) <=>
            (k = Here(r) \/ (Edge(program[k], r, d) /\ (k < Here(r) \/ (k = Here(r) /\ SentIn(r, d)))))
    BY <1>2
  <2>. QED
    BY <1>2, <2>1, OutAfter DEF Out
<1>. QED
  BY <1>1, <1>3 DEF Traffic, SendsOne

LEMMA TrafficGets ==
    ASSUME NEW r \in Rank, Moves(r), NEW s \in Rank, KeepsSent(r, {}), KeepsReceived({s}, r),
           Edge(Now(r), s, r), ~ReceivedIn(s, r), ReceivedAfter(s, r),
           NEW tag \in {TagOf(Now(r)), ANY_TAG}, NEW i \in 1..Len(chan[s][r]),
           Receive(s, r, i, tag)
    PROVE  Traffic(r)
<1>1. SameOut(r) /\ \A q \in Rank \ {s} : In(q, r)' = In(q, r)
  BY KeepsOut, KeepsIn DEF SameOut
<1>2. Here(r) \in 1..Len(program) /\ Now(r) = program[Here(r)]
  BY DEF Moves, Now
<1>3. In(s, r)' = In(s, r) \cup {Here(r)}
  <2>1. \A k \in 1..Len(program) :
            (Edge(program[k], s, r) /\ (k < Here(r) \/ (k = Here(r) /\ ReceivedAfter(s, r)))) <=>
            (k = Here(r) \/ (Edge(program[k], s, r) /\ (k < Here(r) \/ (k = Here(r) /\ ReceivedIn(s, r)))))
    BY <1>2
  <2>. QED
    BY <1>2, <2>1, InAfter DEF In
<1>. QED
  BY <1>1, <1>3 DEF Traffic, GetsOne

-----------------------------------------------------------------------------
(***************************************************************************)
(* Every step is one of these, and takes r to a place of its call.         *)
(***************************************************************************)
AtStep(r) ==
    IF pc'[r] = "ready" THEN data'[r] = <<>> ELSE AtOK(r, Now(r)', pc'[r], item'[r])

\* Where r has sent and received everything of its call.
QuietPC == {"barrier", "native", "bcast", "bcastBody", "gather", "gatherBody",
            "catenate", "fold", "treeSend", "messageSend"}

LEMMA InACall ==
    ASSUME IInv, AtInv, NEW r \in Rank, pc[r] # "ready"
    PROVE  /\ TypeOK /\ Len(returned[r]) < Len(program) /\ Here(r) \in 1..Len(program)
           /\ Now(r) \in Call /\ Root(r) \in Rank /\ RootOf(Now(r)) = Root(r)
           /\ AtOK(r, Now(r), pc[r], item[r]) /\ item[r] \in Nat
<1>1. /\ TypeOK /\ Len(returned[r]) < Len(program) /\ Now(r) \in Call /\ Root(r) \in Rank
      /\ item[r] \in Nat
  BY LocalFacts
<1>2. Len(returned[r]) \in Nat /\ program \in Seq(Call)
  BY <1>1, LogTypes, CollectivesAssumption DEF TypeOK
<1>3. Here(r) \in 1..Len(program)
  BY <1>1, <1>2, LenProperties DEF Here
<1>. QED
  BY <1>1, <1>3 DEF AtInv, Root, RootOf

LEMMA AtBegin ==
    ASSUME IInv, AtInv, NEW r \in Rank, NEW ops, Begin(r, ops)
    PROVE  /\ TypeOK /\ Len(returned[r]) < Len(program) /\ Here(r) \in 1..Len(program)
           /\ Now(r) \in Call /\ RootOf(Now(r)) = Root(r) /\ Now(r).op \in ops
           /\ Own(r) \in Result
           /\ pc[r] = "ready" /\ data[r] = <<>> /\ item[r] = 0
<1>1. /\ TypeOK /\ Len(returned[r]) < Len(program) /\ Now(r) \in Call /\ Own(r) \in Result
      /\ pc[r] = "ready" /\ item[r] = 0
  BY BeginFacts
<1>2. Len(returned[r]) \in Nat /\ program \in Seq(Call)
  BY <1>1, LogTypes, CollectivesAssumption DEF TypeOK
<1>3. Here(r) \in 1..Len(program)
  BY <1>1, <1>2, LenProperties DEF Here
<1>. QED
  BY <1>1, <1>3 DEF AtInv, Root, RootOf, Begin

LEMMA ReturnMoves ==
    ASSUME TypeOK, NEW r \in Rank, NEW v, Return(r, v), program' = program,
           Here(r) \in 1..Len(program)
    PROVE  Moves(r) /\ Ended(r) /\ AtStep(r)
<1>1. /\ pc'[r] = "ready" /\ data'[r] = <<>> /\ returned'[r] = Append(returned[r], v)
      /\ returned[r] \in Seq(Result)
  BY DEF Return, Go, TypeOK
<1>2. Len(returned'[r]) = Len(returned[r]) + 1 /\ Len(returned[r]) \in Nat
  BY <1>1
<1>. QED
  BY <1>1, <1>2 DEF Moves, Ended, AtStep

LEMMA StayMoves ==
    ASSUME TypeOK, NEW r \in Rank, UNCHANGED <<program, returned>>, Here(r) \in 1..Len(program)
    PROVE  Moves(r) /\ Within(r) /\ Now(r)' = Now(r)
BY LogTypes DEF Moves, Within, Now, Here

LEMMA GoesTo ==
    ASSUME TypeOK, NEW r \in Rank, UNCHANGED <<program, returned>>, Here(r) \in 1..Len(program),
           NEW where, Go(r, where), where # "ready", AtOK(r, Now(r), where, item'[r])
    PROVE  Moves(r) /\ Within(r) /\ pc'[r] = where /\ AtStep(r)
BY StayMoves, Places DEF AtStep

LEMMA BcastStarts ==
    ASSUME TypeOK, NEW r \in Rank, Here(r) \in 1..Len(program), NEW v, StartBcast(r, v),
           Now(r).op \in {"bcast", "allgather", "allreduce"}
    PROVE  Moves(r) /\ Within(r) /\ pc'[r] = "bcast" /\ AtStep(r) /\ chan' = chan
<1>1. UNCHANGED <<program, returned, chan>> /\ Go(r, "bcast")
  BY DEF StartBcast
<1>2. AtOK(r, Now(r), "bcast", item'[r])
  BY DEF AtOK
<1>. QED
  BY <1>1, <1>2, GoesTo

LEMMA QuietStep ==
    ASSUME NEW r \in Rank, Moves(r), pc[r] \in QuietPC, Ended(r) \/ pc'[r] \in QuietPC,
           chan' = chan
    PROVE  Traffic(r)
<1>1. \A d \in Rank : SentIn(r, d) /\ SentAfter(r, d) /\ ReceivedIn(d, r) /\ ReceivedAfter(d, r)
  BY DEF QuietPC, SentAfter, ReceivedAfter, SentIn, ReceivedIn
<1>. QED
  BY <1>1, TrafficStays DEF KeepsSent, KeepsReceived

Idle(c, r) == \A d \in Rank : ~Edge(c, r, d) /\ ~Edge(c, d, r)

LEMMA IdleStep ==
    ASSUME NEW r \in Rank, Moves(r), chan' = chan, Idle(Now(r), r)
    PROVE  Traffic(r)
BY TrafficStays DEF KeepsSent, KeepsReceived, Idle

LEMMA IdleCalls ==
    ASSUME NEW c, NEW r \in Rank,
           \/ RootOf(c) \notin Rank
           \/ c.op \in {"barrier", "bcast", "gather", "allgather"}
           \/ c.op \in Reduction /\ UsesNative(c)
           \/ c.op = "message" /\ r \notin {c.root, c.dest}
    PROVE  Idle(c, r)
BY DEF Idle, Edge, ByCollect, Reduction, UsesTree

-----------------------------------------------------------------------------
LEMMA IdleCallsTraffic ==
    ASSUME IInv, AtInv, NEW r \in Rank,
           \/ RejectRoot(r) \/ CallBarrier(r) \/ CallBcast(r) \/ CallGather(r) \/ CallNative(r)
           \/ Bystander(r)
    PROVE  Traffic(r) /\ AtStep(r)
<1>1. PICK ops : Begin(r, ops)
  BY DEF RejectRoot, CallBarrier, CallBcast, CallGather, CallNative, Bystander
<1>2. /\ TypeOK /\ Here(r) \in 1..Len(program) /\ RootOf(Now(r)) = Root(r) /\ Now(r) \in Call
      /\ chan' = chan
  BY <1>1, AtBegin DEF RejectRoot, CallBarrier, CallBcast, CallGather, CallNative, Bystander, StartBcast
<1>3. CASE RejectRoot(r) \/ Bystander(r)
  <2>1. Moves(r) /\ AtStep(r)
    BY <1>2, <1>3, ReturnMoves DEF RejectRoot, Bystander
  <2>2. Idle(Now(r), r)
    BY <1>2, <1>3, IdleCalls DEF RejectRoot, Bystander, Valid, Begin, Root
  <2>. QED
    BY <1>2, <2>1, <2>2, IdleStep
<1>4. CASE CallBarrier(r) \/ CallBcast(r) \/ CallGather(r) \/ CallNative(r)
  <2>1. PICK where : /\ Go(r, where) /\ UNCHANGED <<program, returned>>
                     /\ \/ where \in {"barrier", "bcast"} /\ Now(r).op = where
                        \/ where = "gather" /\ Now(r).op \in {"gather", "allgather"}
                        \/ where = "native" /\ Now(r).op \in Reduction /\ UsesNative(Now(r))
    BY <1>4 DEF CallBarrier, CallBcast, CallGather, CallNative, StartBcast, Begin
  <2>2. AtOK(r, Now(r), where, item'[r]) /\ where # "ready"
    BY <2>1 DEF AtOK
  <2>3. Idle(Now(r), r)
    BY <2>1, IdleCalls
  <2>4. Moves(r) /\ AtStep(r)
    BY <1>2, <2>1, <2>2, GoesTo
  <2>. QED
    BY <1>2, <2>3, <2>4, IdleStep
<1>. QED
  BY <1>3, <1>4

\* A step of r from where it has nothing left to send or receive.
LEMMA QuietReturns ==
    ASSUME TypeOK, NEW r \in Rank, Here(r) \in 1..Len(program), pc[r] \in QuietPC,
           NEW v, Return(r, v), program' = program, chan' = chan
    PROVE  Traffic(r) /\ AtStep(r)
BY ReturnMoves, QuietStep

LEMMA QuietGoes ==
    ASSUME TypeOK, NEW r \in Rank, Here(r) \in 1..Len(program), pc[r] \in QuietPC,
           NEW where \in QuietPC, Go(r, where), UNCHANGED <<program, returned, chan>>,
           AtOK(r, Now(r), where, item'[r])
    PROVE  Traffic(r) /\ AtStep(r)
BY GoesTo, QuietStep DEF QuietPC

LEMMA QuietBcasts ==
    ASSUME TypeOK, NEW r \in Rank, Here(r) \in 1..Len(program), pc[r] \in QuietPC,
           NEW v, StartBcast(r, v), Now(r).op \in {"bcast", "allgather", "allreduce"}
    PROVE  Traffic(r) /\ AtStep(r)
BY BcastStarts, QuietStep DEF QuietPC

LEMMA QuietStays ==
    ASSUME TypeOK, NEW r \in Rank, Here(r) \in 1..Len(program), pc[r] \in {"catenate", "fold"},
           UNCHANGED <<program, pc, returned, chan>>, AtOK(r, Now(r), pc[r], item[r])
    PROVE  Traffic(r) /\ AtStep(r)
<1>1. Moves(r) /\ Now(r)' = Now(r)
  BY StayMoves
<1>2. AtOK(r, Now(r), pc[r], item'[r])
  BY DEF AtOK
<1>. QED
  BY <1>1, <1>2, QuietStep DEF AtStep, QuietPC

LEMMA BarrierAndBcastTraffic ==
    ASSUME IInv, AtInv, NEW r \in Rank, NEW early,
           BarrierDone(r) \/ BcastDone(r, early) \/ BcastBodyDone(r, early)
    PROVE  Traffic(r) /\ AtStep(r)
<1>1. pc[r] \in {"barrier", "bcast", "bcastBody"} /\ UNCHANGED <<program, chan>>
  BY DEF BarrierDone, BcastDone, BcastBodyDone
<1>2. /\ TypeOK /\ Here(r) \in 1..Len(program) /\ pc[r] \in QuietPC
      /\ AtOK(r, Now(r), pc[r], item[r])
  BY <1>1, InACall DEF QuietPC
<1>3. \/ \E v : Return(r, v)
      \/ Go(r, "bcastBody") /\ returned' = returned /\ pc[r] = "bcast"
  BY DEF BarrierDone, BcastDone, BcastBodyDone, ReturnBcast
<1>4. CASE Go(r, "bcastBody") /\ returned' = returned /\ pc[r] = "bcast"
  <2>1. AtOK(r, Now(r), "bcastBody", item'[r])
    BY <1>2, <1>4 DEF AtOK
  <2>. QED
    BY <1>1, <1>2, <1>4, <2>1, QuietGoes DEF QuietPC
<1>. QED
  BY <1>1, <1>2, <1>3, <1>4, QuietReturns

LEMMA GatherTraffic ==
    ASSUME IInv, AtInv, NEW r \in Rank, NEW early,
           GatherDone(r, early) \/ GatherBodyDone(r, early) \/ Catenate(r) \/ GatherEnds(r)
    PROVE  Traffic(r) /\ AtStep(r)
<1>1. pc[r] \in {"gather", "gatherBody", "catenate"}
  BY DEF GatherDone, GatherBodyDone, Catenate, GatherEnds
<1>2. /\ TypeOK /\ Here(r) \in 1..Len(program) /\ pc[r] \in QuietPC
      /\ AtOK(r, Now(r), pc[r], item[r]) /\ Now(r).op \in {"gather", "allgather"}
  BY <1>1, InACall DEF QuietPC, AtOK
<1>3. \A where \in {"gatherBody", "catenate"} : AtOK(r, Now(r), where, item'[r])
  BY <1>2 DEF AtOK
<1>4. CASE GatherDone(r, early)
  BY <1>2, <1>3, <1>4, QuietGoes DEF GatherDone, QuietPC
<1>5. CASE GatherBodyDone(r, early) \/ GatherEnds(r)
  <2>1. \/ Go(r, "catenate") /\ UNCHANGED <<program, chan, returned>>
        \/ (\E v : Return(r, v)) /\ UNCHANGED <<program, chan>>
        \/ Now(r).op = "allgather" /\ \E v : StartBcast(r, v)
    BY <1>5 DEF GatherBodyDone, GatherEnds
  <2>. QED
    BY <1>2, <1>3, <2>1, QuietGoes, QuietReturns, QuietBcasts DEF QuietPC
<1>6. CASE Catenate(r)
  BY <1>2, <1>6, QuietStays DEF Catenate
<1>. QED
  BY <1>4, <1>5, <1>6

LEMMA NativeAndFoldTraffic ==
    ASSUME IInv, AtInv, NEW r \in Rank, NEW early,
           NativeDone(r, early) \/ Fold(r) \/ FoldDone(r)
    PROVE  Traffic(r) /\ AtStep(r)
<1>1. pc[r] \in {"native", "fold"}
  BY DEF NativeDone, Fold, FoldDone
<1>2. /\ TypeOK /\ Here(r) \in 1..Len(program) /\ pc[r] \in QuietPC
      /\ AtOK(r, Now(r), pc[r], item[r])
  BY <1>1, InACall DEF QuietPC
<1>3. CASE NativeDone(r, early)
  <2>1. /\ pc[r] = "native" /\ UNCHANGED <<program, chan>>
        /\ \/ Return(r, None)
           \/ Go(r, "fold") /\ returned' = returned
    BY <1>3 DEF NativeDone
  <2>2. AtOK(r, Now(r), "fold", item'[r])
    BY <1>2, <2>1 DEF AtOK
  <2>. QED
    BY <1>2, <2>1, <2>2, QuietReturns, QuietGoes DEF QuietPC
<1>4. CASE Fold(r)
  BY <1>2, <1>4, QuietStays DEF Fold
<1>5. CASE FoldDone(r)
  <2>1. \/ Return(r, partial[r]) /\ UNCHANGED <<program, chan>>
        \/ Now(r).op = "allreduce" /\ \E v : StartBcast(r, v)
    BY <1>5 DEF FoldDone
  <2>. QED
    BY <1>2, <2>1, QuietReturns, QuietBcasts
<1>. QED
  BY <1>3, <1>4, <1>5

LEMMA MessageSentTraffic ==
    ASSUME IInv, AtInv, NEW r \in Rank, NEW early, MessageSent(r, early)
    PROVE  Traffic(r) /\ AtStep(r)
BY InACall, QuietReturns DEF MessageSent, QuietPC

-----------------------------------------------------------------------------
\* A message of the program.
LEMMA MessageEdges ==
    ASSUME NEW c, c.op = "message"
    PROVE  /\ TagOf(c) = ScatterTag
           /\ \A s, d : Edge(c, s, d) <=> s # d /\ s = c.root /\ d = c.dest /\ c.root \in Rank
BY DEF Edge, ByCollect, Reduction, TagOf, RootOf

LEMMA MessageRanks ==
    ASSUME TypeOK, NEW r \in Rank, Here(r) \in 1..Len(program), Now(r).op = "message"
    PROVE  /\ Now(r).root \in Rank /\ Now(r).dest \in Rank /\ Now(r).dest # Now(r).root
           /\ Root(r) = Now(r).root
<1>1. program \in Programs /\ program \in Seq(Call)
  BY CollectivesAssumption DEF TypeOK
<1>2. Now(r) \in Call
  BY <1>1, ElementOfSeq DEF Now
<1>3. program[Here(r)].op = "message"
  BY DEF Now
<1>4. program[Here(r)].root \in Rank /\ program[Here(r)].dest # program[Here(r)].root
  BY <1>1, <1>3, CollectivesAssumption
<1>. QED
  BY <1>2, <1>4 DEF Call, Now, Root

LEMMA CallMessageTraffic ==
    ASSUME IInv, AtInv, NEW r \in Rank, CallMessage(r)
    PROVE  Traffic(r) /\ AtStep(r)
<1>1. /\ TypeOK /\ Here(r) \in 1..Len(program) /\ Now(r).op = "message" /\ pc[r] = "ready"
      /\ UNCHANGED <<program, returned>>
  BY AtBegin DEF CallMessage
<1>2. /\ Now(r).root \in Rank /\ Now(r).dest \in Rank /\ Now(r).dest # Now(r).root
      /\ Root(r) = Now(r).root
  BY <1>1, MessageRanks
<1>3. TagOf(Now(r)) = ScatterTag
      /\ \A s, d : Edge(Now(r), s, d) <=> s = Now(r).root /\ d = Now(r).dest
  BY <1>1, <1>2, MessageEdges
<1>4. CASE IsRoot(r) /\ Go(r, "messageSend") /\ Send(r, Now(r).dest, ScatterTag, Own(r))
  <2>1. r = Now(r).root /\ AtOK(r, Now(r), "messageSend", item'[r])
    BY <1>1, <1>2, <1>4 DEF AtOK, IsRoot
  <2>2. Moves(r) /\ pc'[r] = "messageSend" /\ AtStep(r)
    BY <1>1, <1>4, <2>1, GoesTo
  <2>3. PICK d \in Rank : d = Now(r).dest /\ Edge(Now(r), r, d) /\ ~SentIn(r, d) /\ SentAfter(r, d)
    BY <1>1, <1>2, <1>3, <2>1, <2>2 DEF SentIn, SentAfter
  <2>4. KeepsSent(r, {d}) /\ KeepsReceived({}, r)
    BY <1>2, <1>3, <2>1, <2>3 DEF KeepsSent, KeepsReceived
  <2>. QED
    BY <1>3, <1>4, <2>2, <2>3, <2>4, TrafficSends
<1>5. CASE r = Now(r).dest /\ Go(r, "messageRecv") /\ chan' = chan
  <2>1. AtOK(r, Now(r), "messageRecv", item'[r])
    BY <1>1, <1>5 DEF AtOK
  <2>2. Moves(r) /\ pc'[r] = "messageRecv" /\ AtStep(r)
    BY <1>1, <1>5, <2>1, GoesTo
  <2>3. KeepsSent(r, {})
    BY <1>2, <1>3, <1>5 DEF KeepsSent
  <2>4. \A s \in Rank : ~ReceivedIn(s, r) /\ ~ReceivedAfter(s, r)
    BY <1>1, <2>2 DEF ReceivedIn, ReceivedAfter, Ended
  <2>5. KeepsReceived({}, r)
    BY <2>4 DEF KeepsReceived
  <2>. QED
    BY <1>5, <2>2, <2>3, <2>5, TrafficStays
<1>. QED
  BY <1>4, <1>5 DEF CallMessage

LEMMA MessageReceivedTraffic ==
    ASSUME IInv, AtInv, NEW r \in Rank, MessageReceived(r)
    PROVE  Traffic(r) /\ AtStep(r)
<1>1. /\ TypeOK /\ Here(r) \in 1..Len(program) /\ pc[r] = "messageRecv" /\ program' = program
      /\ AtOK(r, Now(r), pc[r], item[r])
  BY InACall DEF MessageReceived
<1>2. Now(r).op = "message" /\ r = Now(r).dest
  BY <1>1 DEF AtOK
<1>3. /\ Now(r).root \in Rank /\ Now(r).dest # Now(r).root /\ Root(r) = Now(r).root
  BY <1>1, <1>2, MessageRanks
<1>4. \A s, d : Edge(Now(r), s, d) <=> s = Now(r).root /\ d = Now(r).dest
  BY <1>2, <1>3, MessageEdges
<1>5. PICK i \in 1..Len(chan[Root(r)][r]) : Receive(Root(r), r, i, ANY_TAG) /\ \E v : Return(r, v)
  BY DEF MessageReceived
<1>6. Moves(r) /\ Ended(r) /\ AtStep(r)
  BY <1>1, <1>5, ReturnMoves
<1>7. KeepsSent(r, {}) /\ KeepsReceived({Root(r)}, r) /\ Edge(Now(r), Root(r), r)
  BY <1>2, <1>3, <1>4 DEF KeepsSent, KeepsReceived
<1>8. ~ReceivedIn(Root(r), r) /\ ReceivedAfter(Root(r), r)
  BY <1>1, <1>6 DEF ReceivedIn, ReceivedAfter
<1>. QED
  BY <1>3, <1>5, <1>6, <1>7, <1>8, TrafficGets

-----------------------------------------------------------------------------
LEMMA ScatterEdges ==
    ASSUME NEW c, c.op = "scatter"
    PROVE  /\ TagOf(c) = ScatterTag
           /\ \A s, d : Edge(c, s, d) <=> s # d /\ s = c.root /\ c.root \in Rank
BY DEF Edge, ByCollect, Reduction, TagOf, RootOf

LEMMA CallScatterTraffic ==
    ASSUME IInv, AtInv, NEW r \in Rank, CallScatter(r)
    PROVE  Traffic(r) /\ AtStep(r)
<1>1. /\ TypeOK /\ Here(r) \in 1..Len(program) /\ Now(r).op = "scatter" /\ pc[r] = "ready"
      /\ UNCHANGED <<program, returned, chan, item>> /\ item[r] = 0
      /\ Root(r) = Now(r).root
  BY AtBegin DEF CallScatter, Root
<1>2. \A s, d : Edge(Now(r), s, d) => s # d /\ s = Now(r).root
  BY <1>1, ScatterEdges
<1>3. \A d \in Rank : ~SentIn(r, d) /\ ~ReceivedIn(d, r)
  BY <1>1 DEF SentIn, ReceivedIn
<1>4. CASE IsRoot(r) /\ Go(r, "scatter")
  <2>1. r = Now(r).root /\ AtOK(r, Now(r), "scatter", item'[r])
    BY <1>1, <1>4 DEF AtOK, IsRoot
  <2>2. Moves(r) /\ Within(r) /\ pc'[r] = "scatter" /\ AtStep(r)
    BY <1>1, <1>4, <2>1, GoesTo
  <2>3. \A d \in Rank : ~SentAfter(r, d)
    BY <1>1, <2>2, RankFacts DEF SentAfter, SentIn, Ended
  <2>4. KeepsSent(r, {}) /\ KeepsReceived({}, r)
    BY <1>2, <1>3, <2>1, <2>3 DEF KeepsSent, KeepsReceived
  <2>. QED
    BY <1>1, <2>2, <2>4, TrafficStays
<1>5. CASE ~IsRoot(r) /\ Go(r, "scatterRecv")
  <2>1. r # Now(r).root /\ AtOK(r, Now(r), "scatterRecv", item'[r])
    BY <1>1, <1>5 DEF AtOK, IsRoot
  <2>2. Moves(r) /\ pc'[r] = "scatterRecv" /\ AtStep(r)
    BY <1>1, <1>5, <2>1, GoesTo
  <2>3. \A d \in Rank : ~ReceivedAfter(d, r)
    BY <2>2 DEF ReceivedAfter, ReceivedIn, Ended
  <2>4. KeepsSent(r, {}) /\ KeepsReceived({}, r)
    BY <1>2, <1>3, <2>1, <2>3 DEF KeepsSent, KeepsReceived
  <2>. QED
    BY <1>1, <2>2, <2>4, TrafficStays
<1>. QED
  BY <1>4, <1>5 DEF CallScatter

\* In scatter's loop: r is the root, and no message goes to it.
LEMMA ScatterLoop ==
    ASSUME IInv, AtInv, NEW r \in Rank, pc[r] \in {"scatter", "scatterSend"}
    PROVE  /\ TypeOK /\ Here(r) \in 1..Len(program) /\ Now(r).op = "scatter" /\ r = Now(r).root
           /\ item[r] \in Nat /\ TagOf(Now(r)) = ScatterTag
           /\ \A d \in Rank : (Edge(Now(r), r, d) <=> r # d) /\ ~Edge(Now(r), d, r)
           /\ \A i : AtOK(r, Now(r), "scatter", i) /\ AtOK(r, Now(r), "scatterSend", i)
<1>1. /\ TypeOK /\ Here(r) \in 1..Len(program) /\ item[r] \in Nat
      /\ AtOK(r, Now(r), pc[r], item[r])
  BY InACall
<1>2. Now(r).op = "scatter" /\ r = Now(r).root
  BY <1>1 DEF AtOK
<1>3. \A i : AtOK(r, Now(r), "scatter", i) /\ AtOK(r, Now(r), "scatterSend", i)
  BY <1>2 DEF AtOK
<1>4. /\ TagOf(Now(r)) = ScatterTag
      /\ \A d \in Rank : (Edge(Now(r), r, d) <=> r # d) /\ ~Edge(Now(r), d, r)
  BY <1>2, ScatterEdges
<1>. QED
  BY <1>1, <1>2, <1>3, <1>4

LEMMA ScatterTraffic ==
    ASSUME IInv, AtInv, NEW r \in Rank, NEW early,
           ScatterKeep(r) \/ ScatterSend(r) \/ ScatterSent(r, early) \/ ScatterDone(r)
    PROVE  Traffic(r) /\ AtStep(r)
<1>1. pc[r] \in {"scatter", "scatterSend"} /\ program' = program
  BY DEF ScatterKeep, ScatterSend, ScatterSent, ScatterDone
<1>2. /\ TypeOK /\ Here(r) \in 1..Len(program) /\ item[r] \in Nat /\ TagOf(Now(r)) = ScatterTag
      /\ \A d \in Rank : (Edge(Now(r), r, d) <=> r # d) /\ ~Edge(Now(r), d, r)
      /\ AtOK(r, Now(r), "scatter", item'[r]) /\ AtOK(r, Now(r), "scatterSend", item'[r])
  BY <1>1, ScatterLoop
<1>3. KeepsReceived({}, r)
  BY <1>2 DEF KeepsReceived
<1>4. CASE ScatterKeep(r)
  <2>1. /\ pc[r] = "scatter" /\ pc' = pc /\ UNCHANGED <<program, returned, chan>>
        /\ item[r] = r /\ item'[r] = r + 1
    BY <1>2, <1>4 DEF ScatterKeep, TypeOK
  <2>2. Moves(r) /\ Within(r) /\ AtStep(r)
    BY <1>2, <2>1, StayMoves DEF AtStep
  <2>3. \A d \in Rank \ {r} : SentAfter(r, d) <=> SentIn(r, d)
    BY <2>1, RankFacts DEF SentAfter, SentIn, Ended
  <2>4. KeepsSent(r, {})
    BY <1>2, <2>3 DEF KeepsSent
  <2>. QED
    BY <1>3, <2>1, <2>2, <2>4, TrafficStays
<1>5. CASE ScatterSend(r)
  <2>1. PICK d \in Rank : d = item[r] /\ d # r /\ Send(r, d, ScatterTag, Piece(r))
    BY <1>5 DEF ScatterSend
  <2>2. /\ pc[r] = "scatter" /\ Go(r, "scatterSend") /\ UNCHANGED <<program, returned, item>>
    BY <1>5 DEF ScatterSend
  <2>3. Moves(r) /\ Within(r) /\ pc'[r] = "scatterSend" /\ AtStep(r)
    BY <1>2, <2>2, GoesTo
  <2>4. ~SentIn(r, d) /\ SentAfter(r, d)
    BY <2>1, <2>2, <2>3, RankFacts DEF SentAfter, SentIn
  <2>5. \A e \in Rank \ {d} : SentAfter(r, e) <=> SentIn(r, e)
    BY <1>2, <2>1, <2>2, <2>3, RankFacts DEF SentAfter, SentIn, Ended
  <2>6. KeepsSent(r, {d}) /\ Edge(Now(r), r, d)
    BY <1>2, <2>1, <2>5 DEF KeepsSent
  <2>. QED
    BY <1>2, <1>3, <2>1, <2>3, <2>4, <2>6, TrafficSends
<1>6. CASE ScatterSent(r, early)
  <2>1. /\ pc[r] = "scatterSend" /\ Go(r, "scatter") /\ UNCHANGED <<program, returned, chan>>
        /\ item'[r] = item[r] + 1
    BY <1>2, <1>6 DEF ScatterSent, TypeOK
  <2>2. Moves(r) /\ Within(r) /\ pc'[r] = "scatter" /\ AtStep(r)
    BY <1>2, <2>1, GoesTo
  <2>3. \A d \in Rank : SentAfter(r, d) <=> SentIn(r, d)
    BY <1>2, <2>1, <2>2, RankFacts DEF SentAfter, SentIn, Ended
  <2>4. KeepsSent(r, {})
    BY <2>3 DEF KeepsSent
  <2>. QED
    BY <1>3, <2>1, <2>2, <2>4, TrafficStays
<1>7. CASE ScatterDone(r)
  <2>1. pc[r] = "scatter" /\ item[r] = N /\ chan' = chan /\ \E v : Return(r, v)
    BY <1>7 DEF ScatterDone
  <2>2. Moves(r) /\ Ended(r) /\ AtStep(r)
    BY <1>1, <1>2, <2>1, ReturnMoves
  <2>3. \A d \in Rank : SentAfter(r, d) /\ SentIn(r, d)
    BY <2>1, <2>2, RankFacts DEF SentAfter, SentIn, Rank
  <2>4. KeepsSent(r, {})
    BY <2>3 DEF KeepsSent
  <2>. QED
    BY <1>3, <2>1, <2>2, <2>4, TrafficStays
<1>. QED
  BY <1>4, <1>5, <1>6, <1>7

LEMMA ScatterRecvTraffic ==
    ASSUME IInv, AtInv, NEW r \in Rank, ScatterRecv(r)
    PROVE  Traffic(r) /\ AtStep(r)
<1>1. /\ TypeOK /\ Here(r) \in 1..Len(program) /\ pc[r] = "scatterRecv" /\ program' = program
      /\ AtOK(r, Now(r), pc[r], item[r]) /\ Root(r) \in Rank
  BY InACall DEF ScatterRecv
<1>2. Now(r).op = "scatter" /\ r # Now(r).root /\ Root(r) = Now(r).root
  BY <1>1 DEF AtOK, Root
<1>3. /\ TagOf(Now(r)) = ScatterTag
      /\ \A s, d : Edge(Now(r), s, d) <=> s # d /\ s = Now(r).root
  BY <1>1, <1>2, ScatterEdges
<1>4. PICK i \in 1..Len(chan[Root(r)][r]) : Receive(Root(r), r, i, ScatterTag) /\ \E v : Return(r, v)
  BY DEF ScatterRecv
<1>5. Moves(r) /\ Ended(r) /\ AtStep(r)
  BY <1>1, <1>4, ReturnMoves
<1>6. KeepsSent(r, {}) /\ KeepsReceived({Root(r)}, r) /\ Edge(Now(r), Root(r), r)
  BY <1>2, <1>3 DEF KeepsSent, KeepsReceived
<1>7. ~ReceivedIn(Root(r), r) /\ ReceivedAfter(Root(r), r)
  BY <1>1, <1>5 DEF ReceivedIn, ReceivedAfter
<1>. QED
  BY <1>1, <1>3, <1>4, <1>5, <1>6, <1>7, TrafficGets

-----------------------------------------------------------------------------
LEMMA CollectEdges ==
    ASSUME NEW c, ByCollect(c)
    PROVE  /\ TagOf(c) = CollectTag /\ RootOf(c) = c.root /\ c.op \in Reduction
           /\ \A s, d : Edge(c, s, d) <=>
                  s # d /\ c.root \in Rank /\ (d = c.root \/ (c.op = "scan" /\ s = c.root))
BY DEF Edge, ByCollect, Reduction, TagOf, RootOf

LEMMA CallReduceTraffic ==
    ASSUME IInv, AtInv, NEW r \in Rank, CallReduce(r)
    PROVE  Traffic(r) /\ AtStep(r)
<1>1. /\ TypeOK /\ Here(r) \in 1..Len(program) /\ ByCollect(Now(r)) /\ pc[r] = "ready"
      /\ UNCHANGED <<program, returned, item, data>> /\ item[r] = 0 /\ data[r] = <<>>
      /\ RootOf(Now(r)) = Root(r) /\ Root(r) \in Rank
  BY AtBegin DEF CallReduce, ByCollect, Valid
<1>2. /\ TagOf(Now(r)) = CollectTag /\ Root(r) = Now(r).root
      /\ \A s, d : Edge(Now(r), s, d) <=>
             s # d /\ (d = Root(r) \/ (Now(r).op = "scan" /\ s = Root(r)))
  BY <1>1, CollectEdges
<1>3. \A d \in Rank : ~SentIn(r, d) /\ ~ReceivedIn(d, r)
  BY <1>1 DEF SentIn, ReceivedIn
<1>4. CASE IsRoot(r) /\ Go(r, "collect") /\ chan' = chan
  <2>1. AtOK(r, Now(r), "collect", item'[r])
    BY <1>1, <1>2, <1>4 DEF AtOK, IsRoot
  <2>2. Moves(r) /\ Within(r) /\ pc'[r] = "collect" /\ AtStep(r)
    BY <1>1, <1>4, <2>1, GoesTo
  <2>3. \A d \in Rank : ~SentAfter(r, d)
    BY <2>2 DEF SentAfter, SentIn, Ended
  <2>4. \A d \in Rank : ~ReceivedAfter(d, r)
    BY <1>1, <2>2, RankFacts DEF ReceivedAfter, ReceivedIn, Ended
  <2>5. KeepsSent(r, {}) /\ KeepsReceived({}, r)
    BY <1>3, <2>3, <2>4 DEF KeepsSent, KeepsReceived
  <2>. QED
    BY <1>4, <2>2, <2>5, TrafficStays
<1>5. CASE ~IsRoot(r) /\ Go(r, "collectSend") /\ Send(r, Root(r), CollectTag, Own(r))
  <2>1. AtOK(r, Now(r), "collectSend", item'[r])
    BY <1>1, <1>2, <1>5 DEF AtOK, IsRoot
  <2>2. Moves(r) /\ Within(r) /\ pc'[r] = "collectSend" /\ AtStep(r)
    BY <1>1, <1>5, <2>1, GoesTo
  <2>3. \A d \in Rank : ~ReceivedAfter(d, r)
    BY <2>2 DEF ReceivedAfter, ReceivedIn, Ended
  <2>4. PICK d \in Rank : d = Root(r) /\ d # r /\ SentAfter(r, d) /\ Edge(Now(r), r, d)
    BY <1>1, <1>2, <1>5, <2>2 DEF SentAfter, SentIn, IsRoot
  <2>5. KeepsSent(r, {d}) /\ KeepsReceived({}, r)
    BY <1>2, <1>3, <2>3, <2>4 DEF KeepsSent, KeepsReceived
  <2>. QED
    BY <1>2, <1>3, <1>5, <2>2, <2>4, <2>5, TrafficSends
<1>. QED
  BY <1>4, <1>5 DEF CallReduce

\* Where the root collects: it sends nothing, and is to receive from all others.
LEMMA Collecting ==
    ASSUME IInv, AtInv, NEW r \in Rank, pc[r] = "collect"
    PROVE  /\ TypeOK /\ Here(r) \in 1..Len(program) /\ ByCollect(Now(r)) /\ r = Now(r).root
           /\ item[r] = 0 /\ TagOf(Now(r)) = CollectTag
           /\ Len(data[r]) \in Nat /\ data[r] \in Seq(Result) /\ AtOK(r, Now(r), "collect", 0)
           /\ \A d \in Rank : /\ (Edge(Now(r), d, r) <=> d # r) /\ ~SentIn(r, d)
                              /\ (ReceivedIn(d, r) <=> Len(data[r]) > d)
                              /\ (Edge(Now(r), r, d) => Now(r).op = "scan")
<1>1. /\ TypeOK /\ Here(r) \in 1..Len(program) /\ AtOK(r, Now(r), pc[r], item[r])
  BY InACall
<1>2. /\ ByCollect(Now(r)) /\ r = Now(r).root /\ item[r] = 0
      /\ AtOK(r, Now(r), "collect", 0)
  BY <1>1 DEF AtOK
<1>3. data[r] \in Seq(Result) /\ Len(data[r]) \in Nat
  BY <1>1, LenProperties DEF TypeOK
<1>4. \A d \in Rank : ~SentIn(r, d) /\ (ReceivedIn(d, r) <=> Len(data[r]) > d)
  BY DEF SentIn, ReceivedIn
<1>5. /\ TagOf(Now(r)) = CollectTag
      /\ \A d \in Rank : /\ Edge(Now(r), d, r) <=> d # r
                         /\ Edge(Now(r), r, d) => Now(r).op = "scan"
  BY <1>2, CollectEdges
<1>. QED
  BY <1>1, <1>2, <1>3, <1>4, <1>5

LEMMA CollectTraffic ==
    ASSUME IInv, AtInv, NEW r \in Rank, CollectFrom(r) \/ CollectOwn(r)
    PROVE  Traffic(r) /\ AtStep(r)
<1>1. pc[r] = "collect" /\ UNCHANGED <<program, pc, returned, item>>
  BY DEF CollectFrom, CollectOwn
<1>2. PICK n : n = Len(data[r])
  OBVIOUS
<1>3. /\ TypeOK /\ Here(r) \in 1..Len(program) /\ n \in Nat /\ TagOf(Now(r)) = CollectTag
      /\ data[r] \in Seq(Result) /\ item[r] = 0 /\ AtOK(r, Now(r), "collect", 0)
      /\ \A d \in Rank : /\ (Edge(Now(r), d, r) <=> d # r) /\ ~SentIn(r, d)
                         /\ (ReceivedIn(d, r) <=> n > d)
  BY <1>1, <1>2, Collecting
<1>4. Moves(r) /\ Within(r) /\ AtStep(r)
  BY <1>1, <1>3, StayMoves DEF AtStep
<1>5. KeepsSent(r, {})
  <2>1. \A d \in Rank : ~SentIn(r, d) /\ ~SentAfter(r, d)
    BY <1>1, <1>3 DEF SentAfter, SentIn, Ended
  <2>. QED
    BY <2>1 DEF KeepsSent
<1>6. n \in Rank /\ \E v : data' = [data EXCEPT ![r] = Append(@, v)]
  BY <1>2 DEF CollectFrom, CollectOwn
<1>7. Len(data'[r]) = n + 1
  BY <1>2, <1>3, <1>6 DEF TypeOK
<1>8. \A d \in Rank : ReceivedAfter(d, r) <=> n + 1 > d
  BY <1>1, <1>7 DEF ReceivedAfter, ReceivedIn, Ended
<1>9. /\ \A d \in Rank \ {n} : ReceivedAfter(d, r) <=> ReceivedIn(d, r)
      /\ ReceivedAfter(n, r) /\ ~ReceivedIn(n, r)
  BY <1>3, <1>6, <1>8, RankFacts
<1>10. CASE CollectFrom(r)
  <2>1. PICK i \in 1..Len(chan[n][r]) : n # r /\ Receive(n, r, i, CollectTag)
    BY <1>2, <1>10 DEF CollectFrom
  <2>2. KeepsReceived({n}, r) /\ Edge(Now(r), n, r)
    BY <1>3, <1>6, <1>9, <2>1 DEF KeepsReceived
  <2>. QED
    BY <1>3, <1>4, <1>5, <1>6, <1>9, <2>1, <2>2, TrafficGets
<1>11. CASE CollectOwn(r)
  <2>1. n = r /\ chan' = chan
    BY <1>2, <1>11 DEF CollectOwn
  <2>2. KeepsReceived({}, r)
    BY <1>3, <1>9, <2>1 DEF KeepsReceived
  <2>. QED
    BY <1>4, <1>5, <2>1, <2>2, TrafficStays
<1>. QED
  BY <1>10, <1>11

LEMMA CollectSentTraffic ==
    ASSUME IInv, AtInv, NEW r \in Rank, NEW early, CollectSent(r, early)
    PROVE  Traffic(r) /\ AtStep(r)
<1>1. /\ TypeOK /\ Here(r) \in 1..Len(program) /\ pc[r] = "collectSend"
      /\ program' = program /\ chan' = chan /\ AtOK(r, Now(r), pc[r], item[r])
  BY InACall DEF CollectSent, StartBcast
<1>2. ByCollect(Now(r)) /\ r # Now(r).root
  BY <1>1 DEF AtOK
<1>3. /\ \A d \in Rank : Edge(Now(r), d, r) => Now(r).op = "scan"
      /\ \A d \in Rank : SentIn(r, d) /\ ~ReceivedIn(d, r)
  BY <1>1, <1>2, CollectEdges DEF SentIn, ReceivedIn
<1>4. CASE Now(r).op = "scan" /\ Go(r, "scanRecv") /\ returned' = returned
  <2>1. AtOK(r, Now(r), "scanRecv", item'[r])
    BY <1>2, <1>4 DEF AtOK
  <2>2. Moves(r) /\ Within(r) /\ pc'[r] = "scanRecv" /\ AtStep(r)
    BY <1>1, <1>4, <2>1, GoesTo
  <2>3. \A d \in Rank : SentAfter(r, d) /\ ~ReceivedAfter(d, r)
    BY <2>2 DEF SentAfter, ReceivedAfter, SentIn, ReceivedIn, Ended
  <2>4. KeepsSent(r, {}) /\ KeepsReceived({}, r)
    BY <1>3, <2>3 DEF KeepsSent, KeepsReceived
  <2>. QED
    BY <1>1, <2>2, <2>4, TrafficStays
<1>5. CASE /\ Now(r).op \in {"reduce", "allreduce"}
           /\ \E v : Return(r, v) \/ (Now(r).op = "allreduce" /\ StartBcast(r, v))
  <2>1. Moves(r) /\ AtStep(r) /\ (Ended(r) \/ pc'[r] = "bcast")
    BY <1>1, <1>5, ReturnMoves, BcastStarts
  <2>2. \A d \in Rank : SentAfter(r, d)
    BY <2>1 DEF SentAfter, SentIn
  <2>3. KeepsSent(r, {}) /\ KeepsReceived({}, r)
    BY <1>3, <1>5, <2>2 DEF KeepsSent, KeepsReceived
  <2>. QED
    BY <1>1, <2>1, <2>3, TrafficStays
<1>. QED
  BY <1>4, <1>5 DEF CollectSent

LEMMA CollectedTraffic ==
    ASSUME IInv, AtInv, NEW r \in Rank, Collected(r)
    PROVE  Traffic(r) /\ AtStep(r)
<1>1. /\ pc[r] = "collect" /\ UNCHANGED <<program, returned, item, chan>> /\ Len(data[r]) = N
      /\ Go(r, IF Now(r).op = "scan" THEN "scan" ELSE "fold")
  BY DEF Collected
<1>2. /\ TypeOK /\ Here(r) \in 1..Len(program) /\ ByCollect(Now(r)) /\ r = Now(r).root
      /\ item[r] = 0 /\ \A d \in Rank : /\ ~SentIn(r, d) /\ ReceivedIn(d, r)
                                        /\ (Edge(Now(r), r, d) => Now(r).op = "scan")
  BY <1>1, Collecting DEF Rank
<1>3. CASE Now(r).op = "scan" /\ Go(r, "scan")
  <2>1. AtOK(r, Now(r), "scan", item'[r])
    BY <1>2, <1>3 DEF AtOK
  <2>2. Moves(r) /\ Within(r) /\ pc'[r] = "scan" /\ AtStep(r)
    BY <1>1, <1>2, <1>3, <2>1, GoesTo
  <2>3. \A d \in Rank : ~SentAfter(r, d) /\ ReceivedAfter(d, r)
    BY <1>1, <1>2, <2>2, RankFacts DEF SentAfter, ReceivedAfter, SentIn, ReceivedIn, Ended
  <2>4. KeepsSent(r, {}) /\ KeepsReceived({}, r)
    BY <1>2, <2>3 DEF KeepsSent, KeepsReceived
  <2>. QED
    BY <1>1, <2>2, <2>4, TrafficStays
<1>4. CASE Now(r).op # "scan" /\ Go(r, "fold")
  <2>1. AtOK(r, Now(r), "fold", item'[r])
    BY <1>2, <1>4 DEF AtOK, ByCollect
  <2>2. Moves(r) /\ Within(r) /\ pc'[r] = "fold" /\ AtStep(r)
    BY <1>1, <1>2, <1>4, <2>1, GoesTo
  <2>3. \A d \in Rank : ReceivedAfter(d, r)
    BY <2>2 DEF ReceivedAfter, ReceivedIn
  <2>4. KeepsSent(r, {}) /\ KeepsReceived({}, r)
    BY <1>2, <1>4, <2>3 DEF KeepsSent, KeepsReceived
  <2>. QED
    BY <1>1, <2>2, <2>4, TrafficStays
<1>. QED
  BY <1>1, <1>3, <1>4

\* In scan's loop: the root has received everything, and owes all others a result.
LEMMA ScanLoop ==
    ASSUME IInv, AtInv, NEW r \in Rank, pc[r] \in {"scan", "scanSend"}
    PROVE  /\ TypeOK /\ Here(r) \in 1..Len(program) /\ item[r] \in Nat
           /\ TagOf(Now(r)) = CollectTag
           /\ \A d \in Rank : (Edge(Now(r), r, d) <=> r # d) /\ ReceivedIn(d, r)
           /\ \A i : AtOK(r, Now(r), "scan", i) /\ AtOK(r, Now(r), "scanSend", i)
<1>1. /\ TypeOK /\ Here(r) \in 1..Len(program) /\ item[r] \in Nat
      /\ AtOK(r, Now(r), pc[r], item[r])
  BY InACall
<1>2. ByCollect(Now(r)) /\ Now(r).op = "scan" /\ r = Now(r).root
  BY <1>1 DEF AtOK
<1>3. \A i : AtOK(r, Now(r), "scan", i) /\ AtOK(r, Now(r), "scanSend", i)
  BY <1>2 DEF AtOK
<1>4. /\ TagOf(Now(r)) = CollectTag
      /\ \A d \in Rank : (Edge(Now(r), r, d) <=> r # d) /\ ReceivedIn(d, r)
  BY <1>2, CollectEdges DEF ReceivedIn
<1>. QED
  BY <1>1, <1>3, <1>4

LEMMA ScanTraffic ==
    ASSUME IInv, AtInv, NEW r \in Rank, NEW early,
           ScanNext(r) \/ ScanSent(r, early) \/ ScanDone(r)
    PROVE  Traffic(r) /\ AtStep(r)
<1>1. pc[r] \in {"scan", "scanSend"} /\ program' = program
  BY DEF ScanNext, ScanSent, ScanDone
<1>2. /\ TypeOK /\ Here(r) \in 1..Len(program) /\ item[r] \in Nat /\ TagOf(Now(r)) = CollectTag
      /\ \A d \in Rank : (Edge(Now(r), r, d) <=> r # d) /\ ReceivedIn(d, r)
      /\ AtOK(r, Now(r), "scan", item'[r]) /\ AtOK(r, Now(r), "scanSend", item'[r])
  BY <1>1, ScanLoop
<1>3. Ended(r) \/ pc'[r] \in {"scan", "scanSend"} => KeepsReceived({}, r)
  BY <1>2 DEF KeepsReceived, ReceivedAfter, ReceivedIn
<1>4. ASSUME ScanNext(r), item[r] = r, item' = [item EXCEPT ![r] = @ + 1], pc' = pc, chan' = chan
      PROVE  Traffic(r) /\ AtStep(r)
  <2>1. pc[r] = "scan" /\ UNCHANGED <<program, returned>> /\ item'[r] = r + 1
    BY <1>2, <1>4 DEF ScanNext, TypeOK
  <2>2. Moves(r) /\ Within(r) /\ AtStep(r)
    BY <1>2, <1>4, <2>1, StayMoves DEF AtStep
  <2>3. \A d \in Rank \ {r} : SentAfter(r, d) <=> SentIn(r, d)
    BY <1>4, <2>1, RankFacts DEF SentAfter, SentIn, Ended
  <2>4. KeepsSent(r, {}) /\ KeepsReceived({}, r)
    BY <1>2, <1>3, <1>4, <2>1, <2>3 DEF KeepsSent
  <2>. QED
    BY <1>4, <2>2, <2>4, TrafficStays
<1>5. ASSUME ScanNext(r), NEW v, item[r] # r, Send(r, item[r], CollectTag, v),
             Go(r, "scanSend"), item' = item
      PROVE  Traffic(r) /\ AtStep(r)
  <2>1. pc[r] = "scan" /\ item[r] < N /\ UNCHANGED <<program, returned>>
    BY <1>5 DEF ScanNext
  <2>2. PICK d \in Rank : d = item[r]
    BY <1>2, <2>1, RankFacts DEF Rank
  <2>3. Moves(r) /\ Within(r) /\ pc'[r] = "scanSend" /\ AtStep(r)
    BY <1>2, <1>5, <2>1, GoesTo
  <2>4. ~SentIn(r, d) /\ SentAfter(r, d)
    BY <1>5, <2>1, <2>2, <2>3, RankFacts DEF SentAfter, SentIn
  <2>5. \A e \in Rank \ {d} : SentAfter(r, e) <=> SentIn(r, e)
    BY <1>2, <1>5, <2>1, <2>2, <2>3, RankFacts DEF SentAfter, SentIn, Ended
  <2>6. KeepsSent(r, {d}) /\ Edge(Now(r), r, d) /\ KeepsReceived({}, r)
    BY <1>2, <1>3, <1>5, <2>2, <2>3, <2>5 DEF KeepsSent
  <2>. QED
    BY <1>2, <1>5, <2>2, <2>3, <2>4, <2>6, TrafficSends
<1>6. CASE ScanNext(r)
  <2>1. \/ item[r] = r /\ item' = [item EXCEPT ![r] = @ + 1] /\ pc' = pc /\ chan' = chan
        \/ \E v : item[r] # r /\ Send(r, item[r], CollectTag, v) /\ Go(r, "scanSend") /\ item' = item
    BY <1>6 DEF ScanNext
  <2>. QED
    BY <1>4, <1>5, <1>6, <2>1
<1>7. CASE ScanSent(r, early)
  <2>1. /\ pc[r] = "scanSend" /\ Go(r, "scan") /\ UNCHANGED <<program, returned, chan>>
        /\ item'[r] = item[r] + 1
    BY <1>2, <1>7 DEF ScanSent, TypeOK
  <2>2. Moves(r) /\ Within(r) /\ pc'[r] = "scan" /\ AtStep(r)
    BY <1>2, <2>1, GoesTo
  <2>3. \A d \in Rank : SentAfter(r, d) <=> SentIn(r, d)
    BY <1>2, <2>1, <2>2, RankFacts DEF SentAfter, SentIn, Ended
  <2>4. KeepsSent(r, {}) /\ KeepsReceived({}, r)
    BY <1>3, <2>2, <2>3 DEF KeepsSent
  <2>. QED
    BY <2>1, <2>2, <2>4, TrafficStays
<1>8. CASE ScanDone(r)
  <2>1. pc[r] = "scan" /\ item[r] = N /\ chan' = chan /\ \E v : Return(r, v)
    BY <1>8 DEF ScanDone
  <2>2. Moves(r) /\ Ended(r) /\ AtStep(r)
    BY <1>1, <1>2, <2>1, ReturnMoves
  <2>3. \A d \in Rank : SentAfter(r, d) /\ SentIn(r, d)
    BY <2>1, <2>2, RankFacts DEF SentAfter, SentIn, Rank
  <2>4. KeepsSent(r, {}) /\ KeepsReceived({}, r)
    BY <1>3, <2>2, <2>3 DEF KeepsSent
  <2>. QED
    BY <2>1, <2>2, <2>4, TrafficStays
<1>. QED
  BY <1>6, <1>7, <1>8

LEMMA ScanRecvTraffic ==
    ASSUME IInv, AtInv, NEW r \in Rank, ScanRecv(r)
    PROVE  Traffic(r) /\ AtStep(r)
<1>1. /\ TypeOK /\ Here(r) \in 1..Len(program) /\ pc[r] = "scanRecv" /\ program' = program
      /\ AtOK(r, Now(r), pc[r], item[r]) /\ Root(r) \in Rank
  BY InACall DEF ScanRecv
<1>2. ByCollect(Now(r)) /\ Now(r).op = "scan" /\ r # Now(r).root /\ Root(r) = Now(r).root
  BY <1>1 DEF AtOK, Root
<1>3. /\ TagOf(Now(r)) = CollectTag /\ Edge(Now(r), Root(r), r)
      /\ \A d \in Rank : Edge(Now(r), d, r) => d = Root(r)
  BY <1>1, <1>2, CollectEdges
<1>4. PICK i \in 1..Len(chan[Root(r)][r]) : Receive(Root(r), r, i, CollectTag) /\ \E v : Return(r, v)
  BY DEF ScanRecv
<1>5. Moves(r) /\ Ended(r) /\ AtStep(r)
  BY <1>1, <1>4, ReturnMoves
<1>6. \A d \in Rank : SentIn(r, d) /\ SentAfter(r, d)
  BY <1>1, <1>5 DEF SentIn, SentAfter
<1>7. KeepsSent(r, {}) /\ KeepsReceived({Root(r)}, r)
  BY <1>3, <1>6 DEF KeepsSent, KeepsReceived
<1>8. ~ReceivedIn(Root(r), r) /\ ReceivedAfter(Root(r), r)
  BY <1>1, <1>5 DEF ReceivedIn, ReceivedAfter
<1>. QED
  BY <1>1, <1>3, <1>4, <1>5, <1>7, <1>8, TrafficGets

-----------------------------------------------------------------------------
\* No operator raises in tree order: the rank where one does leaves the messages of
\* its other children unreceived (pyMPI_comm_collective.c:503).
NoTreeRaises ==
    \A p \in Programs : \A k \in 1..Len(p) :
        p[k].op \in Reduction /\ UsesTree(p[k]) => p[k].bad = {}

LEMMA TreeEdges ==
    ASSUME NEW c, c.op \in Reduction, UsesTree(c), RootOf(c) \in Rank
    PROVE  /\ TagOf(c) = TreeTag
           /\ \A s, d : Edge(c, s, d) <=> s # d /\ TreeEdge(c, s, d)
BY DEF Edge, ByCollect, Reduction, TagOf, UsesTree

LEMMA CallTreeTraffic ==
    ASSUME IInv, AtInv, NEW r \in Rank, CallTree(r)
    PROVE  Traffic(r) /\ AtStep(r)
<1>1. /\ TypeOK /\ Here(r) \in 1..Len(program) /\ Now(r).op \in Reduction /\ UsesTree(Now(r))
      /\ pc[r] = "ready" /\ UNCHANGED <<program, returned, chan>> /\ item'[r] = 1
      /\ RootOf(Now(r)) \in Rank /\ Go(r, "tree")
  BY AtBegin DEF CallTree, Valid, TypeOK
<1>2. /\ \A s, d : Edge(Now(r), s, d) => TreeEdge(Now(r), s, d)
      /\ Number(Now(r), r) \in Nat /\ 1 \in Pow2
  BY <1>1, TreeEdges, Numbers, RankFacts, Pow2Doubling
<1>3. Multiple(Number(Now(r), r), 1)
  BY <1>2 DEF Multiple
<1>4. InRound(Now(r), r, 1)
  BY <1>1, <1>2, <1>3 DEF InRound
<1>5. AtOK(r, Now(r), "tree", item'[r])
  BY <1>1, <1>2, <1>3 DEF AtOK
<1>6. Moves(r) /\ Within(r) /\ pc'[r] = "tree" /\ AtStep(r) /\ Now(r)' = Now(r)
  BY <1>1, <1>5, GoesTo, StayMoves
<1>7. KeepsSent(r, {})
  BY <1>1, <1>6 DEF KeepsSent, SentAfter, SentIn, Ended
<1>8. KeepsReceived({}, r)
  <2>1. ASSUME NEW s \in Rank, Edge(Now(r), s, r)
        PROVE  ~ReceivedIn(s, r) /\ ~ReceivedAfter(s, r)
    <3>1. ~(Number(Now(r), s) < Number(Now(r), r) + 1)
      BY <1>2, <1>4, <2>1, RoundEdges
    <3>2. (Number(Now(r), s))' = Number(Now(r), s) /\ (Number(Now(r), r))' = Number(Now(r), r)
      BY <1>6 DEF Number
    <3>. QED
      BY <1>1, <1>6, <3>1, <3>2 DEF ReceivedIn, ReceivedAfter, Ended
  <2>. QED
    BY <2>1 DEF KeepsReceived
<1>. QED
  BY <1>1, <1>6, <1>7, <1>8, TrafficStays

\* In the loop of tree order.
LEMMA TreeLoop ==
    ASSUME IInv, AtInv, NEW r \in Rank, pc[r] = "tree"
    PROVE  /\ TypeOK /\ Here(r) \in 1..Len(program)
           /\ Now(r).op \in Reduction /\ UsesTree(Now(r)) /\ TagOf(Now(r)) = TreeTag
           /\ InRound(Now(r), r, item[r])
           /\ \A s, d : Edge(Now(r), s, d) <=> s # d /\ TreeEdge(Now(r), s, d)
           /\ Number(Now(r), r) = Wrapped(r) /\ RootOf(Now(r)) = Root(r)
           /\ Sends(r) <=> ~Multiple(Number(Now(r), r), 2 * item[r])
           /\ \A d \in Rank : ~SentIn(r, d)
           /\ \A s \in Rank : ReceivedIn(s, r) <=> Number(Now(r), s) < Number(Now(r), r) + item[r]
<1>1. /\ TypeOK /\ Here(r) \in 1..Len(program) /\ RootOf(Now(r)) \in Rank
      /\ RootOf(Now(r)) = Root(r) /\ AtOK(r, Now(r), "tree", item[r])
  BY InACall
<1>2. /\ Now(r).op \in Reduction /\ UsesTree(Now(r)) /\ item[r] \in Pow2
      /\ Multiple(Number(Now(r), r), item[r])
  BY <1>1 DEF AtOK
<1>3. Number(Now(r), r) = Wrapped(r)
  BY <1>1 DEF Number, Wrapped
<1>4. Sends(r) <=> ~Multiple(Number(Now(r), r), 2 * item[r])
  <2>1. Number(Now(r), r) \in Nat /\ item[r] \in Nat /\ item[r] > 0
    BY <1>1, <1>2, Numbers, RankFacts, Pow2Doubling
  <2>. QED
    BY <1>2, <1>3, <2>1, OddQuotient DEF Sends
<1>5. InRound(Now(r), r, item[r])
  BY <1>1, <1>2 DEF InRound
<1>6. /\ TagOf(Now(r)) = TreeTag
      /\ \A s, d : Edge(Now(r), s, d) <=> s # d /\ TreeEdge(Now(r), s, d)
  BY <1>1, <1>2, TreeEdges
<1>7. /\ \A d \in Rank : ~SentIn(r, d)
      /\ \A s \in Rank : ReceivedIn(s, r) <=> Number(Now(r), s) < Number(Now(r), r) + item[r]
  BY DEF SentIn, ReceivedIn
<1>. QED
  BY <1>1, <1>2, <1>3, <1>4, <1>5, <1>6, <1>7

LEMMA TreeSendTraffic ==
    ASSUME IInv, AtInv, NEW r \in Rank, TreeSend(r)
    PROVE  Traffic(r) /\ AtStep(r)
<1>1. PICK c, m : c = Now(r) /\ m = item[r]
  OBVIOUS
<1>2. /\ pc[r] = "tree" /\ Sends(r) /\ UNCHANGED <<program, returned, item>>
      /\ Send(r, TreeParent(r), TreeTag, data[r][1]) /\ Go(r, "treeSend")
  BY DEF TreeSend
<1>3. /\ TypeOK /\ Here(r) \in 1..Len(program) /\ c.op \in Reduction /\ UsesTree(c)
      /\ TagOf(c) = TreeTag /\ InRound(c, r, m)
      /\ ~Multiple(Number(c, r), 2 * m)
      /\ \A s, d : Edge(c, s, d) <=> s # d /\ TreeEdge(c, s, d)
      /\ Number(c, r) = Wrapped(r) /\ RootOf(c) = Root(r)
      /\ \A d \in Rank : ~SentIn(r, d)
      /\ \A s \in Rank : ReceivedIn(s, r) <=> Number(c, s) < Number(c, r) + m
  BY <1>1, <1>2, TreeLoop
<1>4. PICK p : p = TreeParent(r)
  OBVIOUS
<1>5. p = (Number(c, r) - m + RootOf(c)) % N
  BY <1>1, <1>3, <1>4 DEF TreeParent, Unwrapped
<1>6. /\ p \in Rank /\ p # r /\ TreeEdge(c, r, p)
      /\ \A d \in Rank : TreeEdge(c, r, d) => d = p
      /\ \A s \in Rank : TreeEdge(c, s, r) => Number(c, s) < Number(c, r) + m
  BY <1>3, <1>5, ParentEdge
<1>7. AtOK(r, Now(r), "treeSend", item'[r])
  BY <1>1, <1>2, <1>3 DEF AtOK, InRound
<1>8. Moves(r) /\ Within(r) /\ pc'[r] = "treeSend" /\ AtStep(r)
  BY <1>2, <1>3, <1>7, GoesTo
<1>9. \A d \in Rank : SentAfter(r, d) /\ ReceivedAfter(d, r)
  BY <1>8 DEF SentAfter, SentIn, ReceivedAfter, ReceivedIn
<1>10. KeepsSent(r, {p}) /\ KeepsReceived({}, r)
  BY <1>1, <1>3, <1>6, <1>9 DEF KeepsSent, KeepsReceived
<1>11. Edge(Now(r), r, p) /\ ~SentIn(r, p) /\ SentAfter(r, p) /\ TagOf(Now(r)) = TreeTag
  BY <1>1, <1>3, <1>6, <1>9
<1>. QED
  BY <1>2, <1>4, <1>6, <1>8, <1>10, <1>11, TrafficSends

\* On to the next round of the loop.
LEMMA NextRoundStep ==
    ASSUME IInv, AtInv, NEW r \in Rank, pc[r] = "tree", ~Sends(r),
           UNCHANGED <<program, pc, returned>>, NextRound(r)
    PROVE  /\ Moves(r) /\ Within(r) /\ AtStep(r) /\ KeepsSent(r, {})
           /\ \A s \in Rank : ReceivedAfter(s, r) <=>
                  Number(Now(r), s) < Number(Now(r), r) + 2 * item[r]
<1>1. /\ TypeOK /\ Here(r) \in 1..Len(program)
      /\ Now(r).op \in Reduction /\ UsesTree(Now(r)) /\ InRound(Now(r), r, item[r])
      /\ Multiple(Number(Now(r), r), 2 * item[r]) /\ \A d \in Rank : ~SentIn(r, d)
  BY TreeLoop
<1>2. 2 * item[r] \in Pow2 /\ item'[r] = 2 * item[r]
  BY <1>1, RoundTypes DEF NextRound, TypeOK
<1>3. Moves(r) /\ Within(r) /\ Now(r)' = Now(r) /\ pc'[r] = "tree"
  BY <1>1, StayMoves
<1>4. AtOK(r, Now(r), "tree", item'[r])
  BY <1>1, <1>2 DEF AtOK
<1>5. AtStep(r)
  BY <1>3, <1>4 DEF AtStep
<1>6. KeepsSent(r, {})
  BY <1>1, <1>3 DEF KeepsSent, SentAfter, SentIn, Ended
<1>7. \A s \in Rank : (Number(Now(r), s))' = Number(Now(r), s)
  BY <1>3 DEF Number
<1>8. \A s \in Rank : ReceivedAfter(s, r) <=>
          Number(Now(r), s) < Number(Now(r), r) + 2 * item[r]
  BY <1>2, <1>3, <1>7 DEF ReceivedAfter, ReceivedIn, Ended
<1>. QED
  BY <1>3, <1>5, <1>6, <1>8

LEMMA TreeOrphanTraffic ==
    ASSUME IInv, AtInv, NEW r \in Rank, TreeOrphan(r)
    PROVE  Traffic(r) /\ AtStep(r)
<1>1. /\ pc[r] = "tree" /\ ~Sends(r) /\ ~HasChild(r) /\ UNCHANGED <<program, pc, returned, chan>>
      /\ NextRound(r)
  BY DEF TreeOrphan
<1>2. PICK c, m : c = Now(r) /\ m = item[r]
  OBVIOUS
<1>3. /\ InRound(c, r, m) /\ Number(c, r) = Wrapped(r)
      /\ \A s \in Rank : ReceivedIn(s, r) <=> Number(c, s) < Number(c, r) + m
  BY <1>1, <1>2, TreeLoop
<1>4. Number(c, r) + m >= N
  BY <1>1, <1>2, <1>3, RoundTypes DEF HasChild, InRound
<1>5. \A s \in Rank : Number(c, s) < Number(c, r) + m /\ Number(c, s) < Number(c, r) + 2 * m
  BY <1>3, <1>4, RoundEdges
<1>6. KeepsReceived({}, r)
  BY <1>1, <1>2, <1>3, <1>5, NextRoundStep DEF KeepsReceived
<1>. QED
  BY <1>1, <1>6, NextRoundStep, TrafficStays

LEMMA TreeReceiveTraffic ==
    ASSUME NoTreeRaises, IInv, AtInv, ChanValues, NEW r \in Rank, TreeValue(r), TreeReceive(r)
    PROVE  Traffic(r) /\ AtStep(r)
<1>1. pc[r] = "tree" /\ ~Sends(r) /\ HasChild(r) /\ program' = program
  BY DEF TreeReceive
<1>2. PICK c, m, ch : c = Now(r) /\ m = item[r] /\ ch = TreeChild(r)
  OBVIOUS
<1>3. /\ TypeOK /\ Here(r) \in 1..Len(program) /\ c.op \in Reduction /\ UsesTree(c)
      /\ TagOf(c) = TreeTag /\ InRound(c, r, m)
      /\ Multiple(Number(c, r), 2 * m)
      /\ \A s, d : Edge(c, s, d) <=> s # d /\ TreeEdge(c, s, d)
      /\ Number(c, r) = Wrapped(r) /\ RootOf(c) = Root(r)
      /\ \A s \in Rank : ReceivedIn(s, r) <=> Number(c, s) < Number(c, r) + m
  BY <1>1, <1>2, TreeLoop
<1>4. Number(c, r) + m < N /\ ch = (Number(c, r) + m + RootOf(c)) % N
  BY <1>1, <1>2, <1>3 DEF HasChild, TreeChild, Unwrapped
<1>5. /\ ch \in Rank /\ ch # r /\ TreeEdge(c, ch, r) /\ Number(c, ch) = Number(c, r) + m
      /\ \A s \in Rank : TreeEdge(c, s, r) =>
             (Number(c, s) < Number(c, r) + 2 * m <=>
                  Number(c, s) < Number(c, r) + m \/ s = ch)
  BY <1>3, <1>4, ChildEdge
<1>6. PICK i \in 1..Len(chan[ch][r]) :
          /\ Receive(ch, r, i, TreeTag)
          /\ LET v == Apply(c, data[r][1], chan[ch][r][i].val)
             IN  v = Raised \/ (NextRound(r) /\ UNCHANGED <<pc, returned>>)
  BY <1>2 DEF TreeReceive
<1>7. Apply(c, data[r][1], chan[ch][r][i].val) # Raised
  <2>1. c.bad = {}
    <3>1. program \in Programs /\ c = program[Here(r)]
      BY <1>2, <1>3 DEF TypeOK, Now
    <3>. QED
      BY <1>3, <3>1 DEF NoTreeRaises
  <2>2. chan[ch][r][i].tag = TreeTag
    <3>1. chan[ch][r][i].tag \in {CollectTag, TreeTag, ScatterTag}
      <4>1. chan[ch][r] \in Seq(Message)
        BY <1>3, <1>5 DEF TypeOK
      <4>2. chan[ch][r][i] \in Message
        BY <4>1, ElementOfSeq
      <4>. QED
        BY <4>2 DEF Message
    <3>. QED
      BY <1>6, <3>1 DEF Receive, Fits, TreeTag, ANY_TAG
  <2>3. IsValue(data[r][1]) /\ IsValue(chan[ch][r][i].val)
    BY <1>1, <1>5, <2>2 DEF TreeValue, ChanValues
  <2>. QED
    BY <2>1, <2>3, RaisedOrValue
<1>8. NextRound(r) /\ UNCHANGED <<pc, returned>>
  BY <1>6, <1>7
<1>9. /\ Moves(r) /\ Within(r) /\ AtStep(r) /\ KeepsSent(r, {})
      /\ \A s \in Rank : ReceivedAfter(s, r) <=> Number(c, s) < Number(c, r) + 2 * m
  BY <1>1, <1>2, <1>8, NextRoundStep
<1>10. KeepsReceived({ch}, r)
  BY <1>2, <1>3, <1>5, <1>9 DEF KeepsReceived
<1>11. Edge(Now(r), ch, r) /\ ~ReceivedIn(ch, r) /\ ReceivedAfter(ch, r)
  <2>1. Number(c, r) \in Nat /\ m \in Nat /\ m > 0
    BY <1>3, RoundTypes DEF InRound
  <2>. QED
    BY <1>2, <1>3, <1>5, <1>9, <2>1
<1>12. TreeTag \in {TagOf(Now(r)), ANY_TAG}
  BY <1>2, <1>3
<1>. QED
  BY <1>5, <1>6, <1>9, <1>10, <1>11, <1>12, TrafficGets

LEMMA TreeDoneTraffic ==
    ASSUME IInv, AtInv, NEW r \in Rank, NEW early, TreeDone(r, early)
    PROVE  Traffic(r) /\ AtStep(r)
<1>1. /\ program' = program /\ chan' = chan
      /\ \/ pc[r] = "tree" /\ item[r] >= N
         \/ pc[r] = "treeSend"
      /\ \E v : Return(r, v) \/ (Now(r).op = "allreduce" /\ StartBcast(r, v))
  BY DEF TreeDone, StartBcast
<1>2. TypeOK /\ Here(r) \in 1..Len(program)
  BY <1>1, InACall
<1>3. CASE pc[r] = "treeSend"
  BY <1>1, <1>2, <1>3, QuietReturns, QuietBcasts DEF QuietPC
<1>4. CASE pc[r] = "tree" /\ item[r] >= N
  <2>1. Moves(r) /\ AtStep(r) /\ (Ended(r) \/ pc'[r] = "bcast")
    BY <1>1, <1>2, ReturnMoves, BcastStarts
  <2>2. \A d \in Rank : SentAfter(r, d) /\ ReceivedAfter(d, r)
    BY <2>1 DEF SentAfter, SentIn, ReceivedAfter, ReceivedIn
  <2>3. PICK c, m : c = Now(r) /\ m = item[r]
    OBVIOUS
  <2>4. /\ InRound(c, r, m) /\ m >= N
        /\ \A s, d : Edge(c, s, d) => TreeEdge(c, s, d)
        /\ \A s \in Rank : ReceivedIn(s, r) <=> Number(c, s) < Number(c, r) + m
    BY <1>4, <2>3, TreeLoop
  <2>5. \A d \in Rank : ~TreeEdge(c, r, d)
    BY <2>4, RoundEdges
  <2>6. Number(c, r) + m >= N
    BY <2>4, RoundTypes DEF InRound
  <2>7. \A s \in Rank : Number(c, s) < Number(c, r) + m
    BY <2>4, <2>6, RoundEdges
  <2>8. KeepsSent(r, {}) /\ KeepsReceived({}, r)
    BY <2>2, <2>3, <2>4, <2>5, <2>7 DEF KeepsSent, KeepsReceived
  <2>. QED
    BY <1>1, <2>1, <2>8, TrafficStays
<1>. QED
  BY <1>1, <1>3, <1>4

-----------------------------------------------------------------------------
AwaitInv == IInv /\ AtInv /\ TrafficInv /\ ChanValues /\ \A r \in Rank : TreeValue(r)

LEMMA StepTraffic ==
    ASSUME NoTreeRaises, IInv, AtInv, ChanValues, NEW r \in Rank, TreeValue(r),
           NEW early \in BOOLEAN, Step(r, early)
    PROVE  Traffic(r) /\ AtStep(r)
<1>1. CASE Calls(r)
  BY <1>1, IdleCallsTraffic, CallScatterTraffic, CallReduceTraffic, CallTreeTraffic,
     CallMessageTraffic DEF Calls
<1>2. CASE ~Calls(r)
  BY <1>2, BarrierAndBcastTraffic, GatherTraffic, ScatterTraffic, ScatterRecvTraffic,
     NativeAndFoldTraffic, CollectTraffic, CollectSentTraffic, CollectedTraffic, ScanTraffic,
     ScanRecvTraffic, TreeSendTraffic, TreeReceiveTraffic, TreeOrphanTraffic, TreeDoneTraffic,
     MessageSentTraffic, MessageReceivedTraffic DEF Step
<1>. QED
  BY <1>1, <1>2

\* Only a rank in a call, or one that begins a call, takes a step.
LEMMA StepsInCall ==
    ASSUME IInv, AtInv, NEW r \in Rank, NEW early, Step(r, early)
    PROVE  Here(r) \in 1..Len(program)
<1>1. CASE Calls(r)
  <2>1. \E ops : Begin(r, ops)
    BY <1>1 DEF Calls, RejectRoot, CallBarrier, CallBcast, CallGather, CallScatter, CallNative,
       CallReduce, CallTree, Bystander, CallMessage
  <2>. QED
    BY <2>1, AtBegin
<1>2. ASSUME pc[r] # "ready" PROVE Here(r) \in 1..Len(program)
  BY <1>2, InACall
<1>3. CASE BarrierDone(r) \/ BcastDone(r, early) \/ BcastBodyDone(r, early)
           \/ GatherDone(r, early) \/ GatherBodyDone(r, early) \/ Catenate(r) \/ GatherEnds(r)
  BY <1>2, <1>3 DEF BarrierDone, BcastDone, BcastBodyDone, GatherDone, GatherBodyDone, Catenate,
     GatherEnds
<1>4. CASE ScatterKeep(r) \/ ScatterSend(r) \/ ScatterSent(r, early) \/ ScatterDone(r)
           \/ ScatterRecv(r) \/ NativeDone(r, early) \/ Fold(r) \/ FoldDone(r)
  BY <1>2, <1>4 DEF ScatterKeep, ScatterSend, ScatterSent, ScatterDone, ScatterRecv, NativeDone,
     Fold, FoldDone
<1>5. CASE CollectFrom(r) \/ CollectOwn(r) \/ CollectSent(r, early) \/ Collected(r)
           \/ ScanNext(r) \/ ScanSent(r, early) \/ ScanDone(r) \/ ScanRecv(r)
  BY <1>2, <1>5 DEF CollectFrom, CollectOwn, CollectSent, Collected, ScanNext, ScanSent, ScanDone,
     ScanRecv
<1>6. CASE TreeSend(r) \/ TreeReceive(r) \/ TreeOrphan(r) \/ TreeDone(r, early)
           \/ MessageSent(r, early) \/ MessageReceived(r)
  BY <1>2, <1>6 DEF TreeSend, TreeReceive, TreeOrphan, TreeDone, MessageSent, MessageReceived
<1>. QED
  BY <1>1, <1>3, <1>4, <1>5, <1>6 DEF Step

LEMMA StepTree ==
    ASSUME IInv, NEW r \in Rank, TreeValue(r), NEW early \in BOOLEAN, Step(r, early)
    PROVE  TreeValue(r)'
<1>1. CASE GatherBodyDone(r, early)
  <2>1. TypeOK /\ \/ Go(r, "catenate")
                  \/ \E v : Return(r, v) \/ StartBcast(r, v)
    BY <1>1 DEF GatherBodyDone, IInv
  <2>. QED
    BY <2>1, Places DEF TreeValue
<1>2. CASE Catenate(r)
  BY <1>2 DEF Catenate, TreeValue
<1>. QED
  BY <1>1, <1>2, StepShape, PlainKeeps, TreeKeeps

LEMMA StepAwaits ==
    ASSUME NoTreeRaises, AwaitInv, NEW r \in Rank, NEW early \in BOOLEAN, Step(r, early)
    PROVE  AtInv' /\ TrafficInv' /\ ChanValues' /\ \A q \in Rank : TreeValue(q)'
<1>1. /\ IInv /\ AtInv /\ TrafficInv /\ ChanValues /\ \A q \in Rank : TreeValue(q)
      /\ TypeOK /\ TypeOK' /\ Elsewhere(r)
  BY StepGood DEF AwaitInv, IInv, Good
<1>2. Traffic(r) /\ AtStep(r) /\ Here(r) \in 1..Len(program)
  BY <1>1, StepTraffic, StepsInCall
<1>3. TrafficInv'
  BY <1>1, <1>2, TrafficKeeps
<1>4. ASSUME NEW q \in Rank \ {r}
      PROVE  /\ TreeValue(q)'
             /\ IF pc'[q] = "ready" THEN data'[q] = <<>> ELSE AtOK(q, Now(q)', pc'[q], item'[q])
  <2>1. /\ pc'[q] = pc[q] /\ data'[q] = data[q] /\ item'[q] = item[q]
        /\ returned'[q] = returned[q] /\ program' = program
    BY <1>1 DEF Elsewhere
  <2>2. TreeValue(q) /\ Now(q)' = Now(q)
    BY <1>1, <2>1 DEF Now, Here
  <2>. QED
    BY <1>1, <2>1, <2>2 DEF TreeValue, AtInv
<1>5. AtInv'
  BY <1>2, <1>4 DEF AtInv, AtStep
<1>6. ChanValues'
  BY <1>1, StepShape, ChanStepKeeps
<1>7. TreeValue(r)'
  BY <1>1, StepTree
<1>. QED
  BY <1>3, <1>4, <1>5, <1>6, <1>7

LEMMA InitAwaits == Init => AwaitInv
<1>. SUFFICES ASSUME Init PROVE AwaitInv
  OBVIOUS
<1>1. /\ IInv
      /\ \A r \in Rank : pc[r] = "ready" /\ data[r] = <<>> /\ returned[r] = <<>>
      /\ \A s, d \in Rank : chan[s][d] = <<>>
  BY InitInv DEF Init
<1>2. AtInv /\ ChanValues /\ \A r \in Rank : TreeValue(r)
  BY <1>1 DEF AtInv, ChanValues, TreeValue
<1>3. ASSUME NEW s \in Rank, NEW d \in Rank
      PROVE  QueueOK(chan[s][d], Out(s, d), In(s, d), program)
  <2>1. Here(s) = 1 /\ Here(d) = 1
    BY <1>1 DEF Here
  <2>2. ~SentIn(s, d) /\ ~ReceivedIn(s, d)
    BY <1>1 DEF SentIn, ReceivedIn
  <2>3. Out(s, d) = {} /\ In(s, d) = {}
    BY <2>1, <2>2 DEF Out, In
  <2>4. chan[s][d] = <<>>
    BY <1>1
  <2>5. QueueOK(<<>>, {}, {}, program)
    BY DEF QueueOK
  <2>. QED
    BY <2>3, <2>4, <2>5
<1>. QED
  BY <1>1, <1>2, <1>3 DEF AwaitInv, TrafficInv

LEMMA NextAwaits ==
    ASSUME NoTreeRaises
    PROVE  AwaitInv /\ [Next]_vars => AwaitInv'
<1>. SUFFICES ASSUME AwaitInv, [Next]_vars PROVE AwaitInv'
  OBVIOUS
<1>1. IInv /\ IInv'
  BY NextInv DEF AwaitInv
<1>2. CASE UNCHANGED vars
  <2>1. /\ UNCHANGED <<program, pc, data, item, chan, returned>>
        /\ \A r \in Rank : Now(r)' = Now(r) /\ Here(r)' = Here(r)
    BY <1>2 DEF vars, Now, Here
  <2>2. AtInv' /\ ChanValues' /\ \A r \in Rank : TreeValue(r)'
    BY <2>1 DEF AwaitInv, AtInv, ChanValues, TreeValue
  <2>3. ASSUME NEW s \in Rank, NEW d \in Rank
        PROVE  Out(s, d)' = Out(s, d) /\ In(s, d)' = In(s, d)
    <3>1. (SentIn(s, d)' <=> SentIn(s, d)) /\ (ReceivedIn(s, d)' <=> ReceivedIn(s, d))
      BY <2>1 DEF SentIn, ReceivedIn
    <3>. QED
      BY <2>1, <3>1 DEF Out, In
  <2>4. TrafficInv'
    BY <2>1, <2>3 DEF AwaitInv, TrafficInv
  <2>. QED
    BY <1>1, <2>2, <2>4 DEF AwaitInv
<1>3. CASE Next
  BY <1>1, <1>3, StepAwaits DEF Next, AwaitInv
<1>. QED
  BY <1>2, <1>3

(***************************************************************************)
(* No object outlives the call it was sent in, so that the tags that all   *)
(* calls of a kind share (987 for the reductions, 77 for those in tree     *)
(* order, 0 for scatter and the program's own messages, of                 *)
(* pyMPI_comm_collective.c) never mix two of them up, however far one rank *)
(* runs ahead of another.  The hypothesis is about the programs: where an  *)
(* operator raises in a tree, the rank returns without receiving what its  *)
(* other children send (pyMPI_comm_collective.c:503).                      *)
(***************************************************************************)
THEOREM MessagesAlwaysAwaited ==
    ASSUME NoTreeRaises
    PROVE  Spec => []MessagesAwaited
<1>1. AwaitInv => MessagesAwaited
  <2>. SUFFICES ASSUME AwaitInv, NEW s \in Rank, NEW d \in Rank, NEW i \in 1..Len(chan[s][d])
                PROVE  chan[s][d][i].call >= Here(d)
    BY DEF MessagesAwaited
  <2>1. QueueOK(chan[s][d], Out(s, d), In(s, d), program) /\ TypeOK
    BY DEF AwaitInv, TrafficInv, IInv
  <2>2. PICK k : k = chan[s][d][i].call
    OBVIOUS
  <2>3. k \in Out(s, d) \ In(s, d)
    BY <2>1, <2>2 DEF QueueOK
  <2>4. k \in 1..Len(program) /\ ~(k < Here(d))
    BY <2>3 DEF Out, In
  <2>5. Here(d) \in Nat
    BY <2>1, LogTypes
  <2>. QED
    BY <2>2, <2>4, <2>5
<1>. QED
  BY <1>1, InitAwaits, NextAwaits, PTL DEF Spec
==============================================================================
