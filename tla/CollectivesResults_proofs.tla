---------------------- MODULE CollectivesResults_proofs ----------------------
(***************************************************************************)
(* Every collective returns what it promises, for any number of ranks and  *)
(* any programs in which no exception ends a call before its time.  On top *)
(* of MatchInv and AwaitInv, which say which message and which MPI         *)
(* collective of another rank a rank gets, ContentsInv says what is in     *)
(* them, and what a rank has in hand at each place in a call.              *)
(***************************************************************************)
EXTENDS Collectives_proofs, FiniteSetTheorems

(***************************************************************************)
(* What the calls compute.  It is what they promise, but for the order of  *)
(* a reduction in tree order, which starts with the root and goes round.   *)
(***************************************************************************)
AllInTurn(c, k) ==
    IF UsesTree(c) THEN [i \in 1..N |-> <<k, (c.root + i - 1) % N>>] ELSE AllOf(c, k)

Computed(c, k, r) ==
    IF c.root \notin Rank THEN Raised ELSE
    CASE c.op = "barrier"   -> None
      [] c.op = "message"   -> IF r = c.dest THEN One(k, c.root) ELSE None
      [] c.op = "bcast"     -> One(k, c.root)
      [] c.op = "gather"    -> IF r # c.root THEN None
                               ELSE IF c.bad = {} THEN Value(AllInTurn(c, k)) ELSE Raised
      [] c.op = "allgather" -> Value(AllInTurn(c, k))
      [] c.op = "scatter"   -> IF c.bad = {} THEN Value(Share(c, k, r)) ELSE None
      [] c.op = "reduce"    -> IF r = c.root THEN Combined(c, AllInTurn(c, k), Raised) ELSE None
      [] c.op = "allreduce" -> Combined(c, AllInTurn(c, k), IF r = c.root THEN Raised ELSE ErrorType)
      [] c.op = "scan"      -> Combined(c, Contributions(c, k, r + 1), None)

ResultsComputed ==
    \A r \in Rank : \A k \in 1..Len(returned[r]) :
        returned[r][k] = Computed(program[k], k, r)

\* The numbers of the first n ranks, and what comes of combining them; x is
\* what becomes of an exception.
Numbered(k, n) == [i \in 1..n |-> One(k, i - 1)]

FoldedTo(c, k, n, x) ==
    IF n = 0 /\ ~c.ground THEN Null ELSE Combined(c, Contributions(c, k, n), x)

GatheredTo(c, k, n) ==
    IF \E q \in 0..(n - 1) : q \in c.bad THEN Raised ELSE Value([i \in 1..n |-> <<k, i - 1>>])

\* Where scatter's piece i ends, and piece i + 1 begins.
CutEnd(n, i) == i * (n \div N) + Lesser(i, n % N)

PieceOf(c, k, r) ==
    IF c.bad # {} THEN None ELSE Slice(k, CutEnd(c.length, r), CutEnd(c.length, r + 1))

\* Tree order: the ranks from number w on, up to m of them, all combined
Block(c, k, w, m) ==
    Value([i \in 1..(Lesser(w + m, N) - w) |-> <<k, (c.root + (w + i - 1)) % N>>])

\* The object that s sends d in call k, and what the root of its bcast puts in it
Carried(c, k, s, d) ==
    CASE c.op = "scatter" -> PieceOf(c, k, d)
      [] c.op = "message" -> One(k, s)
      [] ByCollect(c) /\ d = c.root -> One(k, s)
      [] ByCollect(c) /\ d # c.root -> Combined(c, Contributions(c, k, d + 1), None)
      [] OTHER -> Block(c, k, Number(c, s), Number(c, s) - Number(c, d))

Published(c, k) ==
    CASE c.op = "bcast"     -> One(k, c.root)
      [] c.op = "allgather" -> Value(AllInTurn(c, k))
      [] c.op = "allreduce" -> Combined(c, AllInTurn(c, k), ErrorType)

MessageRight(s, d, m) == m.val = Carried(program[m.call], m.call, s, d)

EntryRight(r, e) ==
    /\ e.kind \in {"gather", "gatherBody", "native"} => e.val = One(e.call, r)
    /\ e.kind \in {"bcast", "bcastBody"} /\ r = e.root => e.val = Published(program[e.call], e.call)

\* What r has in hand at "where" of call c, its k-th
InHand(r, c, k, where, objects, i, v) ==
    CASE where \in {"ready", "gather", "gatherBody", "native"} -> i = 0 /\ v = Null
      [] where = "catenate" -> /\ r = RootOf(c) /\ objects = Numbered(k, N)
                               /\ i <= N /\ v = GatheredTo(c, k, i)
      [] where = "collect"  -> Len(objects) <= N /\ objects = Numbered(k, Len(objects))
      [] where = "fold"     ->
             LET n == IF c.op = "scan" THEN r + 1 ELSE N
             IN  /\ c.op = "reduce" => r = c.root
                 /\ objects = Numbered(k, n) /\ i <= n /\ v = FoldedTo(c, k, i, Raised)
      [] where \in {"scan", "scanSend"} ->
             LET n == IF where = "scan" THEN i ELSE i + 1
             IN  /\ n <= N /\ v = FoldedTo(c, k, n, None)
                 /\ \A j \in (n + 1)..N : objects[j] = One(k, j - 1)
                 /\ i > r => objects[r + 1] = Combined(c, Contributions(c, k, r + 1), None)
                 /\ where = "scanSend" => i # r
      [] where \in {"scatter", "scatterSend"} -> i > r => objects[1] = PieceOf(c, k, r)
      [] where \in {"tree", "treeSend"} -> objects[1] = Block(c, k, Number(c, r), i)
      [] OTHER -> TRUE

HandRight(r) == InHand(r, Now(r), Here(r), pc[r], data[r], item[r], partial[r])

MessagesRight ==
    \A s, d \in Rank : \A i \in 1..Len(chan[s][d]) : MessageRight(s, d, chan[s][d][i])
EntriesRight == \A r \in Rank : \A n \in 1..Len(joined[r]) : EntryRight(r, joined[r][n])
HandsRight   == \A r \in Rank : HandRight(r)

\* No rank has returned from more calls than there are.
NotPast == \A r \in Rank : Len(returned[r]) <= Len(program)

ContentsInv == MessagesRight /\ EntriesRight /\ HandsRight /\ ResultsComputed /\ NotPast

(***************************************************************************)
(* What a step of r has to do for that: send what its call carries, give   *)
(* MPI what its call gives, and keep in hand, or return, what is right.    *)
(***************************************************************************)
ChanRight(r) ==
    \/ chan' = chan
    \/ \E d \in Rank : \E tag : Send(r, d, tag, Carried(Now(r), Here(r), r, d))
    \/ \E s \in Rank : \E i \in 1..Len(chan[s][r]) : \E tag : Receive(s, r, i, tag)

Gives(r, kind, v) ==
    /\ kind \in {"gather", "gatherBody", "native"} => v = Own(r)
    /\ kind \in {"bcast", "bcastBody"} /\ IsRoot(r) => v = Published(Now(r), Here(r))

LogRight(r) == joined' = joined \/ \E kind, v : Join(r, kind, v) /\ Gives(r, kind, v)

Keeps(r, where, objects, i, v) ==
    /\ pc'[r] = where /\ data'[r] = objects /\ item'[r] = i /\ partial'[r] = v
    /\ returned' = returned
    /\ InHand(r, Now(r), Here(r), where, objects, i, v)

DoneRight(r) ==
    \/ \E where, objects, i, v : Keeps(r, where, objects, i, v)
    \/ Return(r, Computed(Now(r), Here(r), r))

Right(r) == ChanRight(r) /\ LogRight(r) /\ DoneRight(r)

-----------------------------------------------------------------------------
(***************************************************************************)
(* Sequences of contributions, and what is made of them.                   *)
(***************************************************************************)
LEMMA Concatenated ==
    ASSUME NEW S, NEW s \in Seq(S), NEW t \in Seq(S), NEW u \in Seq(S),
           Len(u) = Len(s) + Len(t),
           \A i \in 1..Len(s) : u[i] = s[i], \A i \in 1..Len(t) : u[Len(s) + i] = t[i]
    PROVE  s \o t = u
<1>1. /\ s \o t \in Seq(S) /\ Len(s \o t) = Len(u) /\ Len(s) \in Nat /\ Len(t) \in Nat
      /\ \A i \in 1..Len(u) : (s \o t)[i] = IF i <= Len(s) THEN s[i] ELSE t[i - Len(s)]
  BY ConcatProperties
<1>2. ASSUME NEW i \in 1..Len(u) PROVE (s \o t)[i] = u[i]
  <2>1. CASE i <= Len(s)
    BY <1>1, <2>1
  <2>2. CASE ~(i <= Len(s))
    <3>1. i - Len(s) \in 1..Len(t) /\ Len(s) + (i - Len(s)) = i
      BY <1>1, <2>2
    <3>. QED
      BY <1>1, <2>2, <3>1
  <2>. QED
    BY <2>1, <2>2
<1>. QED
  BY <1>1, <1>2, SeqEqual

\* The numbers of n ranks in order, the initial value before them
Extra(c) == IF c.ground THEN 1 ELSE 0

LEMMA Contributed ==
    ASSUME NEW c, NEW k, NEW n \in 0..N
    PROVE  Contributions(c, k, n) = [i \in 1..(n + Extra(c)) |-> <<k, i - 1 - Extra(c)>>]
<1>. DEFINE ranks == [i \in 1..n |-> <<k, i - 1>>]
            all   == [i \in 1..(n + Extra(c)) |-> <<k, i - 1 - Extra(c)>>]
            first == <<<<k, Ground>>>>
            Pairs == {k} \X Int
<1>1. N \in Nat /\ N > 0 /\ n \in Nat /\ Extra(c) \in {0, 1}
  BY RankFacts DEF Extra
<1>4. CASE ~c.ground
  <2>1. Contributions(c, k, n) = <<>> \o ranks
    BY <1>4 DEF Contributions
  <2>2. ranks \in Seq(Pairs)
    BY <1>1
  <2>3. Extra(c) = 0
    BY <1>4 DEF Extra
  <2>4. \A i \in 1..n : i - 1 - 0 = i - 1
    OBVIOUS
  <2>5. all = ranks
    BY <1>1, <2>3, <2>4
  <2>. HIDE DEF ranks, all
  <2>. QED
    BY <2>1, <2>2, <2>5, ConcatEmptySeq DEF all
<1>5. CASE c.ground
  <2>1. Contributions(c, k, n) = first \o ranks
    BY <1>5 DEF Contributions
  <2>2. /\ ranks \in Seq(Pairs) /\ Len(ranks) = n /\ \A i \in 1..n : ranks[i] = <<k, i - 1>>
    BY <1>1
  <2>3. first \in Seq(Pairs) /\ Len(first) = 1 /\ first[1] = <<k, -1>>
    BY DEF Ground
  <2>4. Extra(c) = 1
    BY <1>5 DEF Extra
  <2>5. /\ all \in Seq(Pairs) /\ Len(all) = n + 1 /\ \A i \in 1..(n + 1) : all[i] = <<k, i - 2>>
    BY <1>1, <2>4
  <2>. HIDE DEF first, ranks, all, Pairs
  <2>6. all[1] = <<k, -1>>
    BY <1>1, <2>5
  <2>7. ASSUME NEW i \in 1..n PROVE all[1 + i] = ranks[i]
    <3>1. 1 + i \in 1..(n + 1) /\ (1 + i) - 2 = i - 1
      BY <1>1
    <3>. QED
      BY <2>2, <2>5, <3>1
  <2>8. \A i \in 1..Len(first) : all[i] = first[i]
    BY <2>3, <2>6
  <2>9. Len(all) = Len(first) + Len(ranks) /\ \A i \in 1..Len(ranks) : all[Len(first) + i] = ranks[i]
    BY <1>1, <2>2, <2>3, <2>5, <2>7
  <2>10. first \o ranks = all
    BY Zenon, <2>2, <2>3, <2>5, <2>8, <2>9, Concatenated
  <2>. QED
    BY <2>1, <2>10 DEF all
<1>. QED
  BY <1>4, <1>5

\* Something is combined with the number of the next rank.
LEMMA OneMore ==
    ASSUME NEW S, NEW a \in S, NEW s \in Seq(S), NEW u \in Seq(S),
           Len(u) = Len(s) + 1, \A i \in 1..Len(s) : u[i] = s[i], u[Len(s) + 1] = a
    PROVE  s \o <<a>> = u
<1>1. <<a>> \in Seq(S) /\ Len(<<a>>) = 1 /\ <<a>>[1] = a /\ Len(s) \in Nat
  OBVIOUS
<1>2. /\ s \o <<a>> \in Seq(S) /\ Len(s \o <<a>>) = Len(s) + Len(<<a>>)
      /\ \A i \in 1..(Len(s) + Len(<<a>>)) :
             (s \o <<a>>)[i] = IF i <= Len(s) THEN s[i] ELSE <<a>>[i - Len(s)]
  BY <1>1, ConcatProperties
<1>3. ASSUME NEW i \in 1..(Len(s) + 1) PROVE (s \o <<a>>)[i] = u[i]
  <2>1. CASE i <= Len(s)
    BY <1>1, <1>2, <2>1
  <2>2. CASE i = Len(s) + 1
    <3>1. ~(i <= Len(s)) /\ i - Len(s) = 1
      BY <1>1, <2>2
    <3>. QED
      BY <1>1, <1>2, <2>2, <3>1
  <2>. QED
    BY <1>1, <2>1, <2>2
<1>. QED
  BY <1>1, <1>2, <1>3, SeqEqual

LEMMA Combinations ==
    ASSUME NEW c, NEW k, NEW e
    PROVE  /\ Combine(c, Null, One(k, e)) = One(k, e)
           /\ \A s : Combine(c, Value(s), One(k, e)) =
                  IF e \notin c.bad THEN Value(s \o <<<<k, e>>>>)
                  ELSE IF c.op = "scan" THEN None ELSE Raised
           /\ Combine(c, Raised, One(k, e)) = IF c.op = "scan" THEN None ELSE Raised
           /\ Combine(c, None, One(k, e)) = IF c.op = "scan" THEN None ELSE Raised
<1>1. /\ Null.is = "null" /\ Raised.is = "raised" /\ None.is = "none"
      /\ \A s : Value(s).is = "value" /\ Value(s).of = s
      /\ One(k, e).is = "value" /\ One(k, e).of = <<<<k, e>>>>
  BY DEF Null, Raised, None, Value, One
<1>2. Null # Raised /\ Null # None /\ \A s : Value(s) # Null /\ Value(s) # Raised
  <2>1. "null" # "raised" /\ "null" # "none" /\ "value" # "null" /\ "value" # "raised"
    OBVIOUS
  <2>. QED
    BY <1>1, <2>1
<1>3. \A i \in 1..Len(<<<<k, e>>>>) : <<<<k, e>>>>[i][2] = e
  OBVIOUS
<1>4. Len(<<<<k, e>>>>) = 1
  OBVIOUS
<1>5. ASSUME NEW s PROVE Apply(c, Value(s), One(k, e)) = IF e \notin c.bad THEN Value(s \o <<<<k, e>>>>) ELSE Raised
  <2>1. (\A i \in 1..Len(One(k, e).of) : One(k, e).of[i][2] \notin c.bad) <=> e \notin c.bad
    BY <1>1, <1>3, <1>4
  <2>. QED
    BY <1>1, <2>1 DEF Apply
<1>6. Apply(c, Raised, One(k, e)) = Raised /\ Apply(c, None, One(k, e)) = Raised
  BY <1>1 DEF Apply
<1>. QED
  BY <1>2, <1>5, <1>6 DEF Combine

LEMMA FoldedNext ==
    ASSUME NEW c, NEW k, NEW n \in 0..(N - 1), NEW x, x = (IF c.op = "scan" THEN None ELSE Raised)
    PROVE  Combine(c, FoldedTo(c, k, n, x), One(k, n)) = FoldedTo(c, k, n + 1, x)
<1>. DEFINE g    == Extra(c)
            T(m) == Contributions(c, k, m)
            Pairs == {k} \X Int
<1>1. N \in Nat /\ n \in Nat /\ n + 1 \in 0..N /\ n \in 0..N /\ g \in {0, 1} /\ n + g \in Nat /\ n + 1 # 0
  BY RankFacts DEF Extra
<1>2. /\ T(n) = [i \in 1..(n + g) |-> <<k, i - 1 - g>>]
      /\ T(n + 1) = [i \in 1..(n + 1 + g) |-> <<k, i - 1 - g>>]
  BY <1>1, Contributed
<1>. HIDE DEF g
<1>3. /\ T(n) \in Seq(Pairs) /\ Len(T(n)) = n + g
      /\ T(n + 1) \in Seq(Pairs) /\ Len(T(n + 1)) = n + g + 1
      /\ \A i \in 1..(n + g) : T(n + 1)[i] = T(n)[i]
      /\ \A i \in 1..(n + g + 1) : T(n + 1)[i][2] = i - 1 - g
      /\ \A i \in 1..(n + g) : T(n)[i][2] = i - 1 - g
      /\ T(n + 1)[n + g + 1] = <<k, n>>
  <2>. HIDE DEF T
  <2>1. n + 1 + g = n + g + 1 /\ n + g + 1 - 1 - g = n /\ n \in Int
    BY <1>1
  <2>2. \A i \in 1..(n + g + 1) : i - 1 - g \in Int
    BY <1>1
  <2>. QED
    BY <1>1, <1>2, <2>1, <2>2
<1>. HIDE DEF T
<1>4. <<k, n>> \in Pairs
  BY <1>1
<1>5. T(n) \o <<<<k, n>>>> = T(n + 1)
  <2>. HIDE DEF Pairs
  <2>. QED
    BY <1>1, <1>3, <1>4, OneMore
<1>6. RaisesOn(c, T(n + 1)) <=> RaisesOn(c, T(n)) \/ (n + g > 0 /\ n \in c.bad)
  <2>1. \A i : i \in 2..(n + g + 1) <=> i \in 2..(n + g) \/ (i = n + g + 1 /\ n + g > 0)
    BY <1>1
  <2>2. T(n + 1)[n + g + 1][2] = n
    BY <1>1, <1>3
  <2>3. \A i \in 2..(n + g) : i \in 1..(n + g) /\ T(n + 1)[i] = T(n)[i]
    <3>1. \A i \in 2..(n + g) : i \in 1..(n + g)
      BY <1>1
    <3>. QED
      BY <1>3, <3>1
  <2>. QED
    BY <1>3, <2>1, <2>2, <2>3 DEF RaisesOn
<1>7. FoldedTo(c, k, n + 1, x) = Combined(c, T(n + 1), x)
  BY <1>1 DEF FoldedTo, T
<1>8. FoldedTo(c, k, n, x) = IF n = 0 /\ ~c.ground THEN Null ELSE Combined(c, T(n), x)
  BY DEF FoldedTo, T
<1>9. (n = 0 /\ ~c.ground) <=> ~(n + g > 0)
  BY <1>1 DEF g, Extra
<1>10. CASE n = 0 /\ ~c.ground
  <2>1. T(n + 1) = <<<<k, n>>>>
    <3>1. g = 0 /\ n + g = 0
      BY <1>10 DEF g, Extra
    <3>2. Len(T(n)) = 0
      BY <1>3, <3>1
    <3>3. T(n) = <<>>
      BY <1>3, <3>2, EmptySeq
    <3>. QED
      BY <1>4, <1>5, <3>3
  <2>2. Combine(c, Null, One(k, n)) = One(k, n)
    BY Combinations
  <2>3. ~RaisesOn(c, <<<<k, n>>>>)
    BY DEF RaisesOn
  <2>. QED
    BY <1>7, <1>8, <1>10, <2>1, <2>2, <2>3 DEF Combined, One
<1>11. CASE ~(n = 0 /\ ~c.ground)
  <2>1. CASE RaisesOn(c, T(n))
    <3>1. RaisesOn(c, T(n + 1))
      BY <1>6, <2>1
    <3>2. FoldedTo(c, k, n, x) = x
      BY ONLY <1>8, <1>11, <2>1, Zenon DEF Combined
    <3>3. FoldedTo(c, k, n + 1, x) = x
      BY ONLY <1>7, <3>1, Zenon DEF Combined
    <3>4. Combine(c, x, One(k, n)) = x
      BY Combinations
    <3>. QED
      BY <3>2, <3>3, <3>4
  <2>2. CASE ~RaisesOn(c, T(n))
    <3>0. Combine(c, Value(T(n)), One(k, n)) =
              IF n \notin c.bad THEN Value(T(n) \o <<<<k, n>>>>)
              ELSE IF c.op = "scan" THEN None ELSE Raised
      BY ONLY Combinations
    <3>1. Combine(c, Value(T(n)), One(k, n)) = IF n \notin c.bad THEN Value(T(n + 1)) ELSE x
      BY ONLY <1>5, <3>0, x = (IF c.op = "scan" THEN None ELSE Raised), Zenon
    <3>2. FoldedTo(c, k, n, x) = Value(T(n))
      BY <1>8, <1>11, <2>2 DEF Combined
    <3>3. FoldedTo(c, k, n + 1, x) = IF n \notin c.bad THEN Value(T(n + 1)) ELSE x
      BY <1>6, <1>7, <1>9, <1>11, <2>2 DEF Combined
    <3>. QED
      BY <3>1, <3>2, <3>3
  <2>. QED
    BY <2>1, <2>2
<1>. QED
  BY <1>10, <1>11

\* Where nothing raises it is all the same what an exception becomes.
LEMMA FoldedAlike ==
    ASSUME NEW c, c.bad = {}, NEW k, NEW n, NEW x, NEW y
    PROVE  /\ FoldedTo(c, k, n, x) = FoldedTo(c, k, n, y)
           /\ \A s : Combined(c, s, x) = Value(s)
BY DEF FoldedTo, Combined, RaisesOn

LEMMA FoldedAll ==
    ASSUME NEW c, NEW k, NEW n \in 1..N, NEW x
    PROVE  FoldedTo(c, k, n, x) = Combined(c, Contributions(c, k, n), x)
BY DEF FoldedTo

\* gather's list is catenated in the same way, but the first may raise as well.
LEMMA GatheredNext ==
    ASSUME NEW c, c.op # "scan", NEW k, NEW n \in 0..(N - 1)
    PROVE  Combine(c, GatheredTo(c, k, n), One(k, n)) = GatheredTo(c, k, n + 1)
<1>. DEFINE S(m)  == [i \in 1..m |-> <<k, i - 1>>]
            Pairs == {k} \X Int
<1>1. N \in Nat /\ n \in Nat /\ n + 1 \in Nat
  BY RankFacts
<1>2. /\ S(n) \in Seq(Pairs) /\ Len(S(n)) = n
      /\ S(n + 1) \in Seq(Pairs) /\ Len(S(n + 1)) = n + 1
      /\ \A i \in 1..n : S(n + 1)[i] = S(n)[i]
      /\ S(n + 1)[n + 1] = <<k, n>>
  <2>1. n + 1 - 1 = n
    BY <1>1
  <2>2. \A i \in 1..(n + 1) : i - 1 \in Int
    BY <1>1
  <2>. QED
    BY <1>1, <2>1, <2>2
<1>3. <<k, n>> \in Pairs
  BY <1>1
<1>. HIDE DEF S
<1>4. S(n) \o <<<<k, n>>>> = S(n + 1)
  <2>. HIDE DEF Pairs
  <2>. QED
    BY <1>2, <1>3, OneMore
<1>5. (\E q \in 0..(n + 1 - 1) : q \in c.bad) <=> (\E q \in 0..(n - 1) : q \in c.bad) \/ n \in c.bad
  <2>1. \A q : q \in 0..(n + 1 - 1) <=> q \in 0..(n - 1) \/ q = n
    BY <1>1
  <2>. QED
    BY <2>1
<1>6. Combine(c, Value(S(n)), One(k, n)) = IF n \notin c.bad THEN Value(S(n + 1)) ELSE Raised
  <2>1. Combine(c, Value(S(n)), One(k, n)) =
            IF n \notin c.bad THEN Value(S(n) \o <<<<k, n>>>>)
            ELSE IF c.op = "scan" THEN None ELSE Raised
    BY ONLY Combinations
  <2>. QED
    BY ONLY <1>4, <2>1, c.op # "scan", Zenon
<1>7. Combine(c, Raised, One(k, n)) = Raised
  <2>1. Combine(c, Raised, One(k, n)) = IF c.op = "scan" THEN None ELSE Raised
    BY ONLY Combinations
  <2>. QED
    BY ONLY <2>1, c.op # "scan", Zenon
<1>8. \A m : GatheredTo(c, k, m) = IF \E q \in 0..(m - 1) : q \in c.bad THEN Raised ELSE Value(S(m))
  BY DEF GatheredTo, S
<1>. QED
  BY <1>5, <1>6, <1>7, <1>8

LEMMA GatheredAll ==
    ASSUME NEW c \in Call, NEW k, ~UsesTree(c), ~c.ground
    PROVE  /\ GatheredTo(c, k, 0) = Value(<<>>)
           /\ GatheredTo(c, k, N) = IF c.bad = {} THEN Value(AllInTurn(c, k)) ELSE Raised
<1>1. N \in Nat /\ N > 0 /\ N \in 0..N /\ 0..(N - 1) = Rank /\ c.bad \subseteq Rank
  BY RankFacts DEF Rank, Call
<1>2. AllInTurn(c, k) = [i \in 1..N |-> <<k, i - 1>>]
  <2>1. AllInTurn(c, k) = Contributions(c, k, N) /\ Extra(c) = 0
    BY DEF AllInTurn, AllOf, Extra
  <2>2. Contributions(c, k, N) = [i \in 1..(N + 0) |-> <<k, i - 1 - 0>>]
    BY <1>1, <2>1, Contributed
  <2>3. N + 0 = N /\ \A i \in 1..N : i - 1 - 0 = i - 1
    BY <1>1
  <2>. QED
    BY <2>1, <2>2, <2>3
<1>3. (\E q \in 0..(N - 1) : q \in c.bad) <=> c.bad # {}
  BY <1>1
<1>4. GatheredTo(c, k, 0) = Value(<<>>)
  <2>1. [i \in 1..0 |-> <<k, i - 1>>] = <<>>
    OBVIOUS
  <2>2. 0..(0 - 1) = {}
    OBVIOUS
  <2>. QED
    BY <2>1, <2>2 DEF GatheredTo
<1>. QED
  BY <1>2, <1>3, <1>4 DEF GatheredTo

\* One more number is collected.
LEMMA NumberedNext ==
    ASSUME NEW k \in Nat, NEW n \in 0..(N - 1)
    PROVE  /\ Append(Numbered(k, n), One(k, n)) = Numbered(k, n + 1)
           /\ Numbered(k, n) \in Seq(Result) /\ Len(Numbered(k, n)) = n
<1>1. n \in Nat /\ n + 1 - 1 = n /\ n \in Int /\ k \in Int
  BY RankFacts
<1>2. \A i \in 1..(n + 1) : One(k, i - 1) \in Result
  BY <1>1, ValuesAreResults
<1>3. Numbered(k, n) \in Seq(Result) /\ Len(Numbered(k, n)) = n
  BY <1>1, <1>2 DEF Numbered
<1>4. Numbered(k, n + 1) \in Seq(Result) /\ Len(Numbered(k, n + 1)) = n + 1
  BY <1>1, <1>2 DEF Numbered
<1>5. One(k, n) \in Result
  BY <1>1, ValuesAreResults
<1>6. /\ \A i \in 1..n : Numbered(k, n + 1)[i] = Numbered(k, n)[i]
      /\ Numbered(k, n + 1)[n + 1] = One(k, n)
  BY <1>1 DEF Numbered
<1>7. /\ Append(Numbered(k, n), One(k, n)) \in Seq(Result)
      /\ Len(Append(Numbered(k, n), One(k, n))) = n + 1
      /\ \A i \in 1..n : Append(Numbered(k, n), One(k, n))[i] = Numbered(k, n)[i]
      /\ Append(Numbered(k, n), One(k, n))[n + 1] = One(k, n)
  BY <1>1, <1>3, <1>5, Appended
<1>8. \A i \in 1..(n + 1) : i \in 1..n \/ i = n + 1
  BY <1>1
<1>9. \A i \in 1..(n + 1) : Append(Numbered(k, n), One(k, n))[i] = Numbered(k, n + 1)[i]
  BY <1>6, <1>7, <1>8
<1>. QED
  BY <1>3, <1>4, <1>7, <1>9, SeqEqual

-----------------------------------------------------------------------------
(***************************************************************************)
(* Tree order: two blocks that meet are combined into one.                 *)
(***************************************************************************)
Spot(c, k, w) == <<k, (c.root + w) % N>>
Spots(c, k, w, m) == [i \in 1..(Lesser(w + m, N) - w) |-> Spot(c, k, w + i - 1)]

SpotsOK(c, k, w, m, l) ==
    /\ Spots(c, k, w, m) \in Seq({k} \X Int) /\ Len(Spots(c, k, w, m)) = l
    /\ \A i \in 1..l : Spots(c, k, w, m)[i] = Spot(c, k, w + i - 1)
    /\ Block(c, k, w, m) = Value(Spots(c, k, w, m))

LEMMA SpotsFacts ==
    ASSUME NEW c, NEW k, NEW w \in Rank, NEW m \in Nat, c.root \in Rank,
           NEW l, l = Lesser(w + m, N) - w
    PROVE  SpotsOK(c, k, w, m, l)
<1>. DEFINE Pairs == {k} \X Int
<1>1. N \in Nat /\ N > 0 /\ w \in Nat /\ w < N /\ c.root \in Nat
  BY RankFacts DEF Rank
<1>2. l \in Nat
  BY <1>1 DEF Lesser
<1>3. \A i \in 1..l : Spot(c, k, w + i - 1) \in Pairs
  <2>1. \A i \in 1..l : (c.root + (w + i - 1)) % N \in Int
    BY <1>1, <1>2
  <2>. QED
    BY <2>1 DEF Spot
<1>4. Spots(c, k, w, m) = [i \in 1..l |-> Spot(c, k, w + i - 1)]
  BY DEF Spots
<1>. HIDE DEF Pairs
<1>5. /\ Spots(c, k, w, m) \in Seq(Pairs) /\ Len(Spots(c, k, w, m)) = l
      /\ \A i \in 1..l : Spots(c, k, w, m)[i] = Spot(c, k, w + i - 1)
  BY ONLY <1>2, <1>3, <1>4
<1>6. Block(c, k, w, m) = Value(Spots(c, k, w, m))
  BY DEF Block, Spots, Spot
<1>. QED
  BY Zenon, <1>5, <1>6 DEF SpotsOK, Pairs

LEMMA BlockOne ==
    ASSUME NEW c, c.op # "allgather", c.root \in Rank, NEW k, NEW r \in Rank
    PROVE  Block(c, k, Number(c, r), 1) = One(k, r)
<1>. DEFINE w == Number(c, r)
<1>1. RootOf(c) = c.root
  BY DEF RootOf
<1>2. w \in Rank /\ (w + c.root) % N = r
  BY <1>1, Numbers
<1>. HIDE DEF w
<1>3. /\ N \in Nat /\ N > 0 /\ w \in Nat /\ w < N /\ c.root \in Nat
  BY <1>2, RankFacts DEF Rank
<1>4. Lesser(w + 1, N) - w = 1 /\ c.root + (w + 1 - 1) = w + c.root
  BY <1>3 DEF Lesser
<1>5. [i \in 1..1 |-> <<k, (c.root + (w + i - 1)) % N>>] = <<<<k, (c.root + (w + 1 - 1)) % N>>>>
  OBVIOUS
<1>. QED
  BY <1>2, <1>4, <1>5 DEF Block, One, w

LEMMA BlocksMeet ==
    ASSUME NEW c, c.root \in Rank, c.bad = {}, NEW k, NEW w \in Rank, NEW m \in Nat, m > 0,
           w + m < N
    PROVE  Apply(c, Block(c, k, w, m), Block(c, k, w + m, m)) = Block(c, k, w, 2 * m)
<1>. DEFINE A == Spots(c, k, w, m)
            B == Spots(c, k, w + m, m)
            C == Spots(c, k, w, 2 * m)
            Pairs == {k} \X Int
            b == Lesser(w + m + m, N) - (w + m)
<1>1. N \in Nat /\ w \in Nat /\ c.root \in Nat /\ w + m \in Rank /\ 2 * m \in Nat
  BY RankFacts DEF Rank
<1>2. Lesser(w + m, N) - w = m /\ b \in Nat /\ Lesser(w + 2 * m, N) - w = m + b
  BY <1>1 DEF Lesser
<1>. HIDE DEF b
<1>3. m + b = Lesser(w + 2 * m, N) - w
  BY <1>2
<1>4. /\ A \in Seq(Pairs) /\ Len(A) = m /\ \A i \in 1..m : A[i] = Spot(c, k, w + i - 1)
      /\ Block(c, k, w, m) = Value(A)
  <2>1. SpotsOK(c, k, w, m, m)
    BY <1>2, SpotsFacts
  <2>. QED
    BY Zenon, <2>1 DEF SpotsOK
<1>5. /\ B \in Seq(Pairs) /\ Len(B) = b /\ \A i \in 1..b : B[i] = Spot(c, k, (w + m) + i - 1)
      /\ Block(c, k, w + m, m) = Value(B)
  <2>1. SpotsOK(c, k, w + m, m, b)
    BY <1>1, SpotsFacts DEF b
  <2>. QED
    BY Zenon, <2>1 DEF SpotsOK
<1>6. /\ C \in Seq(Pairs) /\ Len(C) = m + b /\ \A i \in 1..(m + b) : C[i] = Spot(c, k, w + i - 1)
      /\ Block(c, k, w, 2 * m) = Value(C)
  <2>1. SpotsOK(c, k, w, 2 * m, m + b)
    BY <1>1, <1>3, SpotsFacts
  <2>. QED
    BY Zenon, <2>1 DEF SpotsOK
<1>. HIDE DEF A, B, C
<1>7. ASSUME NEW i \in 1..b PROVE C[m + i] = B[i]
  <2>1. m + i \in 1..(m + b) /\ (w + m) + i - 1 = w + (m + i) - 1
    BY <1>1, <1>2
  <2>. QED
    BY <1>5, <1>6, <2>1
<1>8. \A i \in 1..m : i \in 1..(m + b)
  BY <1>2
<1>9. A \o B = C
  <2>1. Len(C) = Len(A) + Len(B) /\ \A i \in 1..Len(A) : C[i] = A[i]
    BY <1>4, <1>5, <1>6, <1>8
  <2>2. \A i \in 1..Len(B) : C[Len(A) + i] = B[i]
    BY <1>4, <1>5, <1>7
  <2>. HIDE DEF Pairs
  <2>. QED
    BY Zenon, <1>4, <1>5, <1>6, <2>1, <2>2, Concatenated
<1>10. \A s, t : Apply(c, Value(s), Value(t)) = Value(s \o t)
  BY DEF Apply, Value
<1>. QED
  BY <1>4, <1>5, <1>6, <1>9, <1>10

LEMMA BlockEnds ==
    ASSUME NEW c, NEW k, NEW w \in Rank, NEW m \in Nat, w + m >= N
    PROVE  Block(c, k, w, m) = Block(c, k, w, 2 * m)
<1>1. Lesser(w + m, N) = Lesser(w + 2 * m, N)
  BY RankFacts DEF Rank, Lesser
<1>. QED
  BY <1>1 DEF Block

LEMMA BlockAll ==
    ASSUME NEW c, c.root \in Rank, UsesTree(c), NEW k, NEW m \in Nat, m >= N
    PROVE  Block(c, k, 0, m) = Value(AllInTurn(c, k))
<1>. DEFINE s == [i \in 1..N |-> <<k, (c.root + i - 1) % N>>]
<1>1. N \in Nat /\ N > 0 /\ c.root \in Nat
  BY RankFacts DEF Rank
<1>2. Lesser(0 + m, N) - 0 = N
  BY <1>1 DEF Lesser
<1>3. \A i \in 1..N : c.root + (0 + i - 1) = c.root + i - 1
  BY <1>1
<1>4. Block(c, k, 0, m) = Value(s)
  BY <1>2, <1>3 DEF Block
<1>5. AllInTurn(c, k) = s
  BY DEF AllInTurn
<1>. HIDE DEF s
<1>. QED
  BY <1>4, <1>5

-----------------------------------------------------------------------------
(***************************************************************************)
(* Scatter: the pieces that the loop cuts are the shares of the ranks.     *)
(***************************************************************************)
LEMMA Times ==
    ASSUME NEW x \in Int, NEW y \in Int, NEW b \in Nat
    PROVE  x * b \in Int /\ y * b \in Int /\ (x <= y => x * b <= y * b)
           /\ (x + 1) * b = x * b + b /\ (x - y) * b = x * b - y * b /\ (x + y) * b = x * b + y * b
<1>1. (y - x) * b = y * b - x * b
  OBVIOUS
<1>2. x <= y => (y - x) * b >= 0
  OBVIOUS
<1>. QED
  BY <1>1, <1>2

LEMMA Divides ==
    ASSUME NEW a \in Nat, NEW b \in Nat, b > 0, NEW q \in Int
    PROVE  a \div b = q <=> q * b <= a /\ a < q * b + b
<1>. DEFINE d == a \div b
<1>1. d \in Int /\ d * b <= a /\ a < d * b + b
  OBVIOUS
<1>. HIDE DEF d
<1>2. ASSUME q < d PROVE q * b + b <= d * b
  <2>1. q + 1 <= d /\ q + 1 \in Int
    BY <1>1, <1>2
  <2>2. (q + 1) * b <= d * b /\ (q + 1) * b = q * b + b
    BY <1>1, <2>1, Times
  <2>. QED
    BY <2>2
<1>3. ASSUME q > d PROVE d * b + b <= q * b
  <2>1. d + 1 <= q /\ d + 1 \in Int
    BY <1>1, <1>3
  <2>2. (d + 1) * b <= q * b /\ (d + 1) * b = d * b + b
    BY <1>1, <2>1, Times
  <2>. QED
    BY <2>2
<1>4. q * b \in Int /\ d * b \in Int
  BY <1>1, Times
<1>5. d = q <=> q * b <= a /\ a < q * b + b
  BY <1>1, <1>2, <1>3, <1>4
<1>. QED
  BY <1>5 DEF d

LEMMA CutFacts ==
    ASSUME NEW n \in Nat
    PROVE  /\ \A i \in 0..N : CutEnd(n, i) \in Nat
           /\ CutEnd(n, 0) = 0 /\ CutEnd(n, N) = n
           /\ \A i, j \in 0..N : i <= j => CutEnd(n, i) <= CutEnd(n, j)
<1>1. PICK p, e : p = n \div N /\ e = n % N
  OBVIOUS
<1>2. N \in Nat /\ N > 0 /\ p \in Nat /\ e \in Nat /\ e < N /\ n = N * p + e
  BY <1>1, RankFacts
<1>3. \A i : CutEnd(n, i) = i * p + Lesser(i, e)
  BY <1>1 DEF CutEnd
<1>4. \A i \in 0..N : CutEnd(n, i) \in Nat
  BY <1>2, <1>3 DEF Lesser
<1>5. CutEnd(n, 0) = 0 /\ CutEnd(n, N) = n
  BY <1>2, <1>3 DEF Lesser
<1>6. ASSUME NEW i \in 0..N, NEW j \in 0..N, i <= j PROVE CutEnd(n, i) <= CutEnd(n, j)
  <2>1. i * p <= j * p /\ i * p \in Int /\ j * p \in Int
    BY <1>2, <1>6, Times
  <2>2. Lesser(i, e) <= Lesser(j, e) /\ Lesser(i, e) \in Int /\ Lesser(j, e) \in Int
    BY <1>2, <1>6 DEF Lesser
  <2>. QED
    BY <1>3, <2>1, <2>2
<1>. QED
  BY <1>4, <1>5, <1>6

LEMMA OwnersPiece ==
    ASSUME NEW n \in Nat, NEW j \in 0..(n - 1), NEW r \in Rank
    PROVE  Owner(n, j) = r <=> CutEnd(n, r) <= j /\ j < CutEnd(n, r + 1)
<1>1. PICK p, e, big : p = n \div N /\ e = n % N /\ big = e * (p + 1)
  OBVIOUS
<1>2. /\ N \in Nat /\ N > 0 /\ p \in Nat /\ e \in Nat /\ e < N /\ n = N * p + e /\ r \in Nat /\ r < N
      /\ j \in Nat /\ j < n /\ p + 1 \in Nat /\ p + 1 > 0
  BY <1>1, RankFacts DEF Rank
<1>3. big = e * p + e /\ e * p \in Int /\ r * p \in Int /\ (r + 1) * p = r * p + p
      /\ r * (p + 1) = r * p + r
  BY <1>1, <1>2, Times
<1>4. \A i : CutEnd(n, i) = i * p + Lesser(i, e)
  BY <1>1 DEF CutEnd
<1>5. CutEnd(n, r) = r * p + Lesser(r, e) /\ CutEnd(n, r + 1) = r * p + p + Lesser(r + 1, e)
  BY <1>3, <1>4
<1>6. Owner(n, j) = IF j < big THEN j \div (p + 1) ELSE e + (j - big) \div p
  BY <1>1 DEF Owner
<1>7. CASE j < big
  <2>1. \A q \in Int : j \div (p + 1) = q <=> q * (p + 1) <= j /\ j < q * (p + 1) + (p + 1)
    BY <1>2, Divides
  <2>2. CASE r < e
    <3>1. Lesser(r, e) = r /\ Lesser(r + 1, e) = r + 1
      BY <1>2, <2>2 DEF Lesser
    <3>. QED
      BY <1>2, <1>3, <1>5, <1>6, <1>7, <2>1, <3>1
  <2>3. CASE r >= e
    <3>1. Lesser(r, e) = e
      BY <1>2, <2>3 DEF Lesser
    <3>2. e * p <= r * p
      BY <1>2, <2>3, Times
    <3>3. ~(r * (p + 1) <= j)
      BY <1>2, <1>3, <1>7, <2>3, <3>2
    <3>. QED
      BY <1>2, <1>3, <1>5, <1>6, <1>7, <2>1, <3>1, <3>2, <3>3
  <2>. QED
    BY <1>2, <2>2, <2>3
<1>8. CASE j >= big
  <2>1. p > 0
    <3>1. p = 0 => N * p = 0 /\ e * p = 0
      BY <1>2
    <3>. QED
      BY <1>2, <1>3, <1>8, <3>1
  <2>2. j - big \in Nat
    BY <1>2, <1>3, <1>8
  <2>3. (j - big) \div p = r - e <=> (r - e) * p <= j - big /\ j - big < (r - e) * p + p
    BY <1>2, <2>1, <2>2, Divides
  <2>4. (r - e) * p = r * p - e * p
    BY <1>2, Times
  <2>5. Owner(n, j) = r <=> (j - big) \div p = r - e
    <3>1. (j - big) \div p \in Int
      BY <1>2, <2>1, <2>2
    <3>. QED
      BY <1>2, <1>3, <1>6, <1>8, <3>1
  <2>6. CASE r >= e
    <3>1. Lesser(r, e) = e /\ Lesser(r + 1, e) = e
      BY <1>2, <2>6 DEF Lesser
    <3>. QED
      BY <1>2, <1>3, <1>5, <2>3, <2>4, <2>5, <3>1
  <2>7. CASE r < e
    <3>1. Lesser(r + 1, e) = r + 1
      BY <1>2, <2>7 DEF Lesser
    <3>2. (r + 1) * p <= e * p
      BY <1>2, <2>7, Times
    <3>3. ~(CutEnd(n, r) <= j /\ j < CutEnd(n, r + 1))
      BY <1>2, <1>3, <1>5, <1>8, <2>7, <3>1, <3>2
    <3>4. ~((r - e) * p <= j - big /\ j - big < (r - e) * p + p)
      BY <1>2, <1>3, <1>8, <2>2, <2>4, <2>7, <3>2
    <3>. QED
      BY <2>3, <2>5, <3>3, <3>4
  <2>. QED
    BY <1>2, <2>6, <2>7
<1>. QED
  BY <1>2, <1>3, <1>7, <1>8

LEMMA ShareIsPiece ==
    ASSUME NEW c, c.length \in Nat, NEW k, NEW r \in Rank
    PROVE  PieceOf(c, k, r) = IF c.bad = {} THEN Value(Share(c, k, r)) ELSE None
<1>1. PICK n, a, b : n = c.length /\ a = CutEnd(n, r) /\ b = CutEnd(n, r + 1)
  OBVIOUS
<1>2. r \in 0..N /\ r + 1 \in 0..N /\ N \in 0..N /\ n \in Nat
  BY <1>1, RankFacts DEF Rank
<1>3. a \in Nat /\ b \in Nat /\ a <= b /\ b <= n
  <2>1. a \in Nat /\ b \in Nat /\ CutEnd(n, N) = n
    BY <1>1, <1>2, CutFacts
  <2>2. \A i, j \in 0..N : i <= j => CutEnd(n, i) <= CutEnd(n, j)
    BY <1>2, CutFacts
  <2>3. r <= r + 1 /\ r + 1 <= N
    BY <1>2
  <2>. QED
    BY <1>1, <1>2, <2>1, <2>2, <2>3
<1>. DEFINE mine == {j \in 0..(n - 1) : Owner(n, j) = r}
<1>4. mine = a..(b - 1)
  <2>1. \A j \in 0..(n - 1) : Owner(n, j) = r <=> a <= j /\ j < b
    BY <1>1, <1>2, OwnersPiece
  <2>. QED
    BY <1>2, <1>3, <2>1
<1>5. Share(c, k, r) = [i \in 1..Cardinality(mine) |-> <<k, Min(mine) + i - 1>>]
  BY <1>1 DEF Share
<1>. HIDE DEF mine
<1>6. Cardinality(mine) = b - a
  <2>1. Cardinality(a..(b - 1)) = IF a > b - 1 THEN 0 ELSE (b - 1) - a + 1
    BY <1>3, FS_Interval
  <2>. QED
    BY <1>3, <1>4, <2>1
<1>7. b > a => Min(mine) = a
  BY <1>3, <1>4 DEF Min
<1>8. Share(c, k, r) = [j \in 1..(b - a) |-> <<k, a + j - 1>>]
  <2>1. CASE b > a
    BY <1>5, <1>6, <1>7, <2>1
  <2>2. CASE b = a
    BY <1>3, <1>5, <1>6, <2>2
  <2>. QED
    BY <1>3, <2>1, <2>2
<1>. QED
  BY <1>1, <1>8 DEF PieceOf, Slice

-----------------------------------------------------------------------------
(***************************************************************************)
(* Such a step keeps the contents right.                                   *)
(***************************************************************************)
LEMMA KeepsMessages ==
    ASSUME TypeOK, TypeOK', MessagesRight, program' = program, NEW r \in Rank, ChanRight(r)
    PROVE  MessagesRight'
<1>1. \A s, d, m : MessageRight(s, d, m)' <=> MessageRight(s, d, m)
  BY DEF MessageRight
<1>2. CASE chan' = chan
  BY <1>1, <1>2 DEF MessagesRight
<1>3. ASSUME NEW d \in Rank, NEW tag, Send(r, d, tag, Carried(Now(r), Here(r), r, d))
      PROVE  MessagesRight'
  <2>1. PICK m, old, new : /\ m = [tag |-> tag, call |-> Here(r), val |-> Carried(Now(r), Here(r), r, d)]
                           /\ old = chan[r][d] /\ new = chan'[r][d]
    OBVIOUS
  <2>2. /\ new = Append(old, m) /\ old \in Seq(Message) /\ new \in Seq(Message)
        /\ \A s, e \in Rank : <<s, e>> # <<r, d>> => chan'[s][e] = chan[s][e]
    <3>1. \A s, e \in Rank : <<s, e>> # <<r, d>> => chan'[s][e] = chan[s][e]
      BY <1>3 DEF Send, TypeOK
    <3>2. /\ chan'[r][d] = Append(chan[r][d], m) /\ chan[r][d] \in Seq(Message)
          /\ chan'[r][d] \in Seq(Message)
      BY <1>3, <2>1 DEF Send, TypeOK
    <3>. QED
      BY <2>1, <3>1, <3>2
  <2>3. m \in Message
    <3>1. Append(old, m)[Len(old) + 1] = m /\ Len(new) = Len(old) + 1 /\ Len(old) \in Nat
      BY <2>2
    <3>. QED
      BY <2>2, <3>1, ElementOfSeq
  <2>4. /\ Len(old) \in Nat /\ Len(new) = Len(old) + 1 /\ new[Len(old) + 1] = m
        /\ \A n \in 1..Len(old) : new[n] = old[n]
    BY <2>2, <2>3, Appended
  <2>5. MessageRight(r, d, m)
    BY <2>1 DEF MessageRight, Now
  <2>6. ASSUME NEW i \in 1..Len(new) PROVE MessageRight(r, d, new[i])
    <3>1. CASE i \in 1..Len(old)
      BY <2>1, <2>4, <3>1 DEF MessagesRight
    <3>2. CASE i = Len(old) + 1
      BY <2>4, <2>5, <3>2
    <3>. QED
      BY <2>4, <3>1, <3>2
  <2>7. ASSUME NEW s \in Rank, NEW e \in Rank, NEW i \in 1..Len(chan'[s][e])
        PROVE  MessageRight(s, e, chan'[s][e][i])
    <3>1. CASE s = r /\ e = d
      BY <2>1, <2>6, <2>7, <3>1
    <3>2. CASE <<s, e>> # <<r, d>>
      BY <2>2, <2>7, <3>2 DEF MessagesRight
    <3>. QED
      BY <3>1, <3>2
  <2>. QED
    BY <1>1, <2>7 DEF MessagesRight
<1>4. ASSUME NEW s \in Rank, NEW i \in 1..Len(chan[s][r]), NEW tag, Receive(s, r, i, tag)
      PROVE  MessagesRight'
  <2>1. PICK old, new : old = chan[s][r] /\ new = chan'[s][r]
    OBVIOUS
  <2>2. /\ new = RemoveAt(old, i) /\ old \in Seq(Message) /\ Len(old) \in Nat /\ i \in 1..Len(old)
        /\ \A p, q \in Rank : <<p, q>> # <<s, r>> => chan'[p][q] = chan[p][q]
    <3>1. \A p, q \in Rank : <<p, q>> # <<s, r>> => chan'[p][q] = chan[p][q]
      BY <1>4 DEF Receive, TypeOK
    <3>2. /\ chan'[s][r] = RemoveAt(chan[s][r], i) /\ chan[s][r] \in Seq(Message)
          /\ Len(chan[s][r]) \in Nat
      BY <1>4, LenProperties DEF Receive, TypeOK
    <3>. QED
      BY <2>1, <3>1, <3>2
  <2>3. /\ Len(new) = Len(old) - 1
        /\ \A k \in 1..(Len(old) - 1) : new[k] = IF k < i THEN old[k] ELSE old[k + 1]
    BY <2>2, Removed
  <2>4. ASSUME NEW j \in 1..Len(new) PROVE MessageRight(s, r, new[j])
    <3>1. j \in 1..Len(old) /\ j + 1 \in 1..Len(old) /\ (new[j] = old[j] \/ new[j] = old[j + 1])
      BY <2>2, <2>3
    <3>. QED
      BY <2>1, <3>1 DEF MessagesRight
  <2>5. ASSUME NEW p \in Rank, NEW q \in Rank, NEW j \in 1..Len(chan'[p][q])
        PROVE  MessageRight(p, q, chan'[p][q][j])
    <3>1. CASE p = s /\ q = r
      BY <2>1, <2>4, <2>5, <3>1
    <3>2. CASE <<p, q>> # <<s, r>>
      BY <2>2, <2>5, <3>2 DEF MessagesRight
    <3>. QED
      BY <3>1, <3>2
  <2>. QED
    BY <1>1, <2>5 DEF MessagesRight
<1>. QED
  BY <1>2, <1>3, <1>4 DEF ChanRight

LEMMA KeepsEntries ==
    ASSUME TypeOK, TypeOK', EntriesRight, program' = program, NEW r \in Rank, LogRight(r),
           RootOf(Now(r)) = Root(r)
    PROVE  EntriesRight'
<1>1. \A q, e : EntryRight(q, e)' <=> EntryRight(q, e)
  BY DEF EntryRight
<1>2. CASE joined' = joined
  BY <1>1, <1>2 DEF EntriesRight
<1>3. ASSUME NEW kind, NEW v, Join(r, kind, v), Gives(r, kind, v)
      PROVE  EntriesRight'
  <2>1. PICK e, old, new : /\ e = [kind |-> kind, root |-> Root(r), call |-> Here(r), val |-> v]
                           /\ old = joined[r] /\ new = joined'[r]
    OBVIOUS
  <2>2. /\ new = Append(old, e) /\ old \in Seq(Joining) /\ new \in Seq(Joining)
        /\ \A q \in Rank \ {r} : joined'[q] = joined[q]
    BY <1>3, <2>1 DEF Join, TypeOK
  <2>3. e \in Joining
    <3>1. Append(old, e)[Len(old) + 1] = e /\ Len(new) = Len(old) + 1 /\ Len(old) \in Nat
      BY <2>2
    <3>. QED
      BY <2>2, <3>1, ElementOfSeq
  <2>4. /\ Len(old) \in Nat /\ Len(new) = Len(old) + 1 /\ new[Len(old) + 1] = e
        /\ \A n \in 1..Len(old) : new[n] = old[n]
    BY <2>2, <2>3, Appended
  <2>5. EntryRight(r, e)
    <3>1. /\ e.kind = kind /\ e.root = Root(r) /\ e.call = Here(r) /\ e.val = v
      BY <2>1
    <3>. QED
      BY Zenon, <1>3, <3>1 DEF EntryRight, Gives, Own, IsRoot, Now
  <2>6. ASSUME NEW n \in 1..Len(new) PROVE EntryRight(r, new[n])
    <3>1. CASE n \in 1..Len(old)
      BY <2>1, <2>4, <3>1 DEF EntriesRight
    <3>2. CASE n = Len(old) + 1
      BY <2>4, <2>5, <3>2
    <3>. QED
      BY <2>4, <3>1, <3>2
  <2>7. ASSUME NEW q \in Rank, NEW n \in 1..Len(joined'[q]) PROVE EntryRight(q, joined'[q][n])
    BY <2>1, <2>2, <2>6, <2>7 DEF EntriesRight
  <2>. QED
    BY <1>1, <2>7 DEF EntriesRight
<1>. QED
  BY <1>2, <1>3 DEF LogRight

LEMMA KeepsHands ==
    ASSUME TypeOK, HandsRight, ResultsComputed, NEW r \in Rank, Elsewhere(r), PartialStep(r),
           DoneRight(r)
    PROVE  HandsRight' /\ ResultsComputed'
<1>1. program' = program
  BY DEF Elsewhere
<1>2. ASSUME NEW q \in Rank \ {r}
      PROVE  HandRight(q)' /\ returned'[q] = returned[q]
  <2>1. /\ pc'[q] = pc[q] /\ data'[q] = data[q] /\ item'[q] = item[q] /\ partial'[q] = partial[q]
        /\ returned'[q] = returned[q]
    BY DEF Elsewhere, PartialStep
  <2>2. Now(q)' = Now(q) /\ Here(q)' = Here(q)
    BY <1>1, <2>1 DEF Now, Here
  <2>3. HandRight(q)
    BY DEF HandsRight
  <2>. QED
    BY Zenon, <2>1, <2>2, <2>3 DEF HandRight, InHand
<1>3. CASE \E where, objects, i, v : Keeps(r, where, objects, i, v)
  <2>1. PICK where, objects, i, v : Keeps(r, where, objects, i, v)
    BY <1>3
  <2>2. /\ pc'[r] = where /\ data'[r] = objects /\ item'[r] = i /\ partial'[r] = v
        /\ returned' = returned /\ InHand(r, Now(r), Here(r), where, objects, i, v)
    BY <2>1 DEF Keeps
  <2>3. Now(r)' = Now(r) /\ Here(r)' = Here(r)
    BY <1>1, <2>2 DEF Now, Here
  <2>4. HandRight(r)'
    BY Zenon, <2>2, <2>3 DEF HandRight, InHand
  <2>5. ResultsComputed'
    BY <1>1, <2>2 DEF ResultsComputed
  <2>. QED
    BY <1>2, <2>4, <2>5 DEF HandsRight
<1>4. CASE Return(r, Computed(Now(r), Here(r), r))
  <2>1. PICK c, k, v : c = Now(r) /\ k = Here(r) /\ v = Computed(c, k, r)
    OBVIOUS
  <2>2. /\ returned'[r] = Append(returned[r], v) /\ pc'[r] = "ready"
        /\ item'[r] = 0 /\ partial'[r] = Null
    BY <1>4, <2>1 DEF Return, Go, TypeOK
  <2>3. HandRight(r)'
    BY <2>2 DEF HandRight, InHand
  <2>4. PICK old, new : old = returned[r] /\ new = returned'[r]
    OBVIOUS
  <2>5. /\ old \in Seq(Result) /\ new = Append(old, v) /\ k = Len(old) + 1 /\ c = program[k]
    BY <2>1, <2>2, <2>4 DEF TypeOK, Here, Now
  <2>6. ASSUME NEW n \in 1..Len(new) PROVE new[n] = Computed(program[n], n, r)
    <3>1. /\ Len(old) \in Nat /\ Len(new) = Len(old) + 1 /\ new[Len(old) + 1] = v
          /\ \A j \in 1..Len(old) : new[j] = old[j]
      BY <2>5
    <3>2. CASE n \in 1..Len(old)
      BY <2>4, <3>1, <3>2 DEF ResultsComputed
    <3>3. CASE n = Len(old) + 1
      BY <2>1, <2>5, <3>1, <3>3
    <3>. QED
      BY <3>1, <3>2, <3>3
  <2>7. ASSUME NEW q \in Rank, NEW n \in 1..Len(returned'[q])
        PROVE  returned'[q][n] = Computed(program[n], n, q)
    BY <1>2, <2>4, <2>6, <2>7 DEF ResultsComputed
  <2>8. ResultsComputed'
    BY <1>1, <2>7 DEF ResultsComputed
  <2>. QED
    BY <1>2, <2>3, <2>8 DEF HandsRight
<1>. QED
  BY <1>3, <1>4 DEF DoneRight

-----------------------------------------------------------------------------
(***************************************************************************)
(* What a rank has, gets and must return, in a call that has begun.        *)
(***************************************************************************)
ResultsInv == MatchInv /\ AwaitInv /\ ContentsInv

Sound(c) ==
    /\ c \in Call /\ c.root \in Rank
    /\ c.op = "message" => c.dest # c.root
    /\ c.native => c.bad = {}
    /\ c.ground \/ c.native \/ c.tree => c.op \in Reduction

LEMMA CallSound ==
    ASSUME TypeOK, NEW r \in Rank, Here(r) \in 1..Len(program), Root(r) \in Rank
    PROVE  Sound(Now(r))
<1>1. PICK p, k, c : p = program /\ k = Here(r) /\ c = Now(r)
  OBVIOUS
<1>2. p \in Programs /\ k \in 1..Len(p) /\ c = p[k]
  BY <1>1 DEF TypeOK, Now
<1>3. p \in Seq(Call)
  BY <1>2, CollectivesAssumption
<1>4. c \in Call
  BY <1>2, <1>3, ElementOfSeq
<1>5. /\ c.op \in {"allgather", "message"} => c.root \in Rank
      /\ c.op = "message" => c.dest # c.root
      /\ c.native => c.bad = {}
      /\ c.ground \/ c.native \/ c.tree => c.op \in Reduction
  BY <1>2, CollectivesAssumption
<1>6. c.root \in Rank
  BY <1>1, <1>5 DEF Root
<1>. QED
  BY <1>1, <1>4, <1>5, <1>6 DEF Sound

LEMMA InItsCall ==
    ASSUME ResultsInv, NEW r \in Rank, pc[r] # "ready"
    PROVE  /\ TypeOK /\ Here(r) \in 1..Len(program) /\ Here(r) \in Nat /\ Sound(Now(r))
           /\ Root(r) \in Rank /\ RootOf(Now(r)) = Root(r)
           /\ (Now(r).op # "allgather" => Root(r) = Now(r).root)
           /\ AtOK(r, Now(r), pc[r], item[r]) /\ item[r] \in Nat
           /\ InHand(r, Now(r), Here(r), pc[r], data[r], item[r], partial[r])
           /\ LocalsOK(r, Now(r).length, pc[r], data[r], item[r], cut[r])
           /\ data[r] \in Seq(Result)
<1>1. IInv /\ AtInv /\ HandRight(r)
  BY DEF ResultsInv, MatchInv, AwaitInv, ContentsInv, HandsRight
<1>2. /\ TypeOK /\ Here(r) \in 1..Len(program) /\ Root(r) \in Rank /\ RootOf(Now(r)) = Root(r)
      /\ AtOK(r, Now(r), pc[r], item[r]) /\ item[r] \in Nat
  BY <1>1, InACall
<1>3. Sound(Now(r))
  BY <1>2, CallSound
<1>4. LocalsOK(r, Now(r).length, pc[r], data[r], item[r], cut[r])
  BY <1>1 DEF IInv, LocalOK
<1>5. InHand(r, Now(r), Here(r), pc[r], data[r], item[r], partial[r])
  BY Zenon, <1>1 DEF HandRight
<1>6. Here(r) \in Nat /\ data[r] \in Seq(Result)
  BY <1>2, LogTypes, LocalTypes
<1>7. Now(r).op # "allgather" => Root(r) = Now(r).root
  BY DEF Root
<1>. QED
  BY Zenon, <1>2, <1>3, <1>4, <1>5, <1>6, <1>7

LEMMA Outside ==
    ASSUME ResultsInv, NEW r \in Rank, NEW ops, Begin(r, ops)
    PROVE  /\ TypeOK /\ Here(r) \in 1..Len(program) /\ Here(r) \in Nat /\ Now(r).op \in ops
           /\ Now(r) \in Call /\ RootOf(Now(r)) = Root(r)
           /\ (Now(r).op # "allgather" => Root(r) = Now(r).root)
           /\ (Root(r) \in Rank => Sound(Now(r)))
           /\ data[r] = <<>> /\ item[r] = 0 /\ partial[r] = Null
<1>1. IInv /\ AtInv /\ HandRight(r)
  BY DEF ResultsInv, MatchInv, AwaitInv, ContentsInv, HandsRight
<1>2. /\ TypeOK /\ Here(r) \in 1..Len(program) /\ Now(r) \in Call /\ RootOf(Now(r)) = Root(r)
      /\ Now(r).op \in ops /\ pc[r] = "ready" /\ data[r] = <<>> /\ item[r] = 0
  BY <1>1, AtBegin
<1>3. partial[r] = Null
  BY <1>1, <1>2 DEF HandRight, InHand
<1>4. Root(r) \in Rank => Sound(Now(r))
  BY <1>2, CallSound
<1>5. Here(r) \in Nat
  BY <1>2, LogTypes
<1>. QED
  BY <1>2, <1>3, <1>4, <1>5 DEF Root

\* A message that r receives carries what its call says.
LEMMA GotRight ==
    ASSUME ResultsInv, NEW r \in Rank, NEW s \in Rank, Edge(Now(r), s, r), pc[r] # "ready",
           ~ReceivedIn(s, r), NEW tag \in {TagOf(Now(r)), ANY_TAG}, NEW i \in 1..Len(chan[s][r]),
           Receive(s, r, i, tag)
    PROVE  chan[s][r][i].val = Carried(Now(r), Here(r), s, r)
<1>1. TypeOK /\ TrafficInv /\ MessagesRight /\ Here(r) \in 1..Len(program)
  BY InItsCall DEF ResultsInv, AwaitInv, ContentsInv
<1>2. chan[s][r][i].call = Here(r)
  BY <1>1, GetsItsOwn
<1>3. MessageRight(s, r, chan[s][r][i])
  BY <1>1 DEF MessagesRight
<1>. QED
  BY Zenon, <1>2, <1>3 DEF MessageRight, Now

\* So do the entries that MPI pairs with the last of r.
LEMMA GivenRight ==
    ASSUME ResultsInv, NEW r \in Rank, NEW kind, LastIs(r, kind), Here(r) \in 1..Len(program),
           NEW q \in Rank, Len(joined[q]) >= Len(joined[r])
    PROVE  /\ kind \in {"gather", "gatherBody", "native"} => Given(r, q) = One(Here(r), q)
           /\ kind \in {"bcast", "bcastBody"} /\ q = Root(r) => Given(r, q) = Published(Now(r), Here(r))
<1>1. TypeOK /\ CollectivesMatch /\ (\A n \in 1..Len(joined[r]) : EntryOK(r, n)) /\ EntriesRight
  BY Zenon DEF ResultsInv, MatchInv, LogInv, IInv, ContentsInv
<1>2. PICK m, e : m = Len(joined[r]) /\ e = joined[q][m]
  OBVIOUS
<1>3. /\ m \in 1..Len(joined[r]) /\ m \in 1..Len(joined[q])
      /\ joined[r][m].call = Here(r) /\ joined[r][m].kind = kind
  BY <1>1, <1>2, LogTypes DEF LastIs
<1>4. joined[r][m].root = Root(r)
  BY <1>1, <1>2, AfterLast
<1>5. e.call = Here(r) /\ e.kind = kind /\ e.root = Root(r)
  BY <1>1, <1>2, <1>3, <1>4 DEF CollectivesMatch
<1>6. EntryRight(q, e)
  BY <1>1, <1>2, <1>3 DEF EntriesRight
<1>7. Given(r, q) = e.val
  BY <1>2 DEF Given
<1>. QED
  BY Zenon, <1>5, <1>6, <1>7 DEF EntryRight, Now

\* What the calls promise, op by op
LEMMA Promises ==
    ASSUME NEW c, NEW k, NEW r
    PROVE  /\ c.root \notin Rank => Computed(c, k, r) = Raised
           /\ c.root \in Rank =>
                /\ c.op = "barrier" => Computed(c, k, r) = None
                /\ c.op = "message" => Computed(c, k, r) = IF r = c.dest THEN One(k, c.root) ELSE None
                /\ c.op = "bcast" => Computed(c, k, r) = One(k, c.root)
                /\ c.op = "gather" => Computed(c, k, r) =
                       IF r # c.root THEN None
                       ELSE IF c.bad = {} THEN Value(AllInTurn(c, k)) ELSE Raised
                /\ c.op = "allgather" => Computed(c, k, r) = Value(AllInTurn(c, k))
                /\ c.op = "scatter" => Computed(c, k, r) = IF c.bad = {} THEN Value(Share(c, k, r)) ELSE None
                /\ c.op = "reduce" => Computed(c, k, r) =
                       IF r = c.root THEN Combined(c, AllInTurn(c, k), Raised) ELSE None
                /\ c.op = "allreduce" => Computed(c, k, r) =
                       Combined(c, AllInTurn(c, k), IF r = c.root THEN Raised ELSE ErrorType)
                /\ c.op = "scan" => Computed(c, k, r) = Combined(c, Contributions(c, k, r + 1), None)
<1>1. c.root \notin Rank => Computed(c, k, r) = Raised
  BY DEF Computed
<1>2. c.root \in Rank /\ c.op = "barrier" => Computed(c, k, r) = None
  BY DEF Computed
<1>3. c.root \in Rank /\ c.op = "message" => Computed(c, k, r) = IF r = c.dest THEN One(k, c.root) ELSE None
  BY DEF Computed
<1>4. c.root \in Rank /\ c.op = "bcast" => Computed(c, k, r) = One(k, c.root)
  BY DEF Computed
<1>5. c.root \in Rank /\ c.op = "gather" => Computed(c, k, r) = IF r # c.root THEN None
                       ELSE IF c.bad = {} THEN Value(AllInTurn(c, k)) ELSE Raised
  BY DEF Computed
<1>6. c.root \in Rank /\ c.op = "allgather" => Computed(c, k, r) = Value(AllInTurn(c, k))
  BY DEF Computed
<1>7. c.root \in Rank /\ c.op = "scatter" => Computed(c, k, r) = IF c.bad = {} THEN Value(Share(c, k, r)) ELSE None
  BY DEF Computed
<1>8. c.root \in Rank /\ c.op = "reduce" => Computed(c, k, r) = IF r = c.root THEN Combined(c, AllInTurn(c, k), Raised) ELSE None
  BY DEF Computed
<1>9. c.root \in Rank /\ c.op = "allreduce" => Computed(c, k, r) = Combined(c, AllInTurn(c, k), IF r = c.root THEN Raised ELSE ErrorType)
  BY DEF Computed
<1>10. c.root \in Rank /\ c.op = "scan" => Computed(c, k, r) = Combined(c, Contributions(c, k, r + 1), None)
  BY DEF Computed
<1>. QED
  BY Zenon, <1>1, <1>2, <1>3, <1>4, <1>5, <1>6, <1>7, <1>8, <1>9, <1>10

\* The places at which a rank has nothing in hand
EmptyPC == {"barrier", "bcast", "bcastBody", "collectSend", "scanRecv", "scatterRecv",
            "messageSend", "messageRecv"}

LEMMA EmptyHand ==
    ASSUME NEW r \in Rank, returned' = returned, pc'[r] \in EmptyPC
    PROVE  DoneRight(r)
<1>1. PICK where, objects, i, v : /\ where = pc'[r] /\ objects = data'[r]
                                  /\ i = item'[r] /\ v = partial'[r]
  OBVIOUS
<1>2. InHand(r, Now(r), Here(r), where, objects, i, v)
  BY <1>1 DEF InHand, EmptyPC
<1>. QED
  BY <1>1, <1>2 DEF DoneRight, Keeps

LEMMA ReturnRight ==
    ASSUME NEW r \in Rank, NEW v, Return(r, v), v = Computed(Now(r), Here(r), r),
           chan' = chan, joined' = joined
    PROVE  Right(r)
BY DEF Right, ChanRight, LogRight, DoneRight

LEMMA JoinRight ==
    ASSUME TypeOK, NEW r \in Rank, NEW kind, NEW v, Join(r, kind, v), Go(r, kind), Gives(r, kind, v),
           kind \in EmptyPC, UNCHANGED <<chan, returned>>
    PROVE  Right(r)
<1>1. pc'[r] = kind
  BY DEF Go, TypeOK
<1>. QED
  BY <1>1, EmptyHand DEF Right, ChanRight, LogRight

LEMMA BcastRight ==
    ASSUME TypeOK, NEW r \in Rank, NEW v, StartBcast(r, v),
           IsRoot(r) => v = Published(Now(r), Here(r))
    PROVE  Right(r)
<1>1. Gives(r, "bcast", v)
  BY DEF Gives
<1>. QED
  BY <1>1, JoinRight DEF StartBcast, EmptyPC

-----------------------------------------------------------------------------
(***************************************************************************)
(* Every step does it.  First the calls that begin with an MPI collective, *)
(* and those in which the rank has nothing to do.                          *)
(***************************************************************************)
LEMMA OwnRight ==
    ASSUME TypeOK, NEW r \in Rank, NEW kind \in {"gather", "gatherBody", "native"},
           Join(r, kind, Own(r)), Go(r, kind), item[r] = 0, partial[r] = Null,
           UNCHANGED <<item, partial, chan, returned>>
    PROVE  Right(r)
<1>1. pc'[r] = kind
  BY DEF Go, TypeOK
<1>2. PICK objects : objects = data'[r]
  OBVIOUS
<1>3. InHand(r, Now(r), Here(r), kind, objects, 0, Null)
  BY DEF InHand
<1>4. Keeps(r, kind, objects, 0, Null)
  BY <1>1, <1>2, <1>3 DEF Keeps
<1>5. Gives(r, kind, Own(r))
  BY DEF Gives
<1>. QED
  BY <1>4, <1>5 DEF Right, ChanRight, LogRight, DoneRight

LEMMA BeginningsRight ==
    ASSUME ResultsInv, NEW r \in Rank,
           \/ RejectRoot(r) \/ CallBarrier(r) \/ CallBcast(r) \/ CallGather(r) \/ CallNative(r)
           \/ Bystander(r)
    PROVE  Right(r)
<1>. PICK c, k : c = Now(r) /\ k = Here(r)
  OBVIOUS
<1>1. CASE RejectRoot(r)
  <2>1. Begin(r, Op) /\ Root(r) \notin Rank /\ Return(r, Raised) /\ chan' = chan /\ joined' = joined
    BY <1>1 DEF RejectRoot, Valid
  <2>2. c.root \notin Rank
    BY <2>1, RankFacts DEF Root
  <2>3. Computed(c, k, r) = Raised
    BY <2>2, Promises
  <2>. QED
    BY <2>1, <2>3, ReturnRight
<1>2. CASE CallBarrier(r)
  <2>1. /\ Begin(r, {"barrier"}) /\ Join(r, "barrier", None) /\ Go(r, "barrier")
        /\ UNCHANGED <<chan, returned>>
    BY <1>2 DEF CallBarrier
  <2>2. TypeOK
    BY <2>1, Outside
  <2>3. Gives(r, "barrier", None)
    BY DEF Gives
  <2>. QED
    BY <2>1, <2>2, <2>3, JoinRight DEF EmptyPC
<1>3. CASE CallBcast(r)
  <2>1. Begin(r, {"bcast"}) /\ StartBcast(r, Own(r))
    BY <1>3 DEF CallBcast
  <2>2. TypeOK /\ Now(r).op = "bcast" /\ Root(r) = Now(r).root
    BY <2>1, Outside
  <2>3. IsRoot(r) => Own(r) = Published(Now(r), Here(r))
    BY <2>2 DEF Published, IsRoot, Own
  <2>. QED
    BY <2>1, <2>2, <2>3, BcastRight
<1>4. CASE CallGather(r)
  <2>1. /\ Begin(r, {"gather", "allgather"}) /\ Join(r, "gather", Own(r)) /\ Go(r, "gather")
        /\ UNCHANGED <<item, partial, chan, returned>>
    BY <1>4 DEF CallGather
  <2>2. TypeOK /\ item[r] = 0 /\ partial[r] = Null
    BY <2>1, Outside
  <2>. QED
    BY <2>1, <2>2, OwnRight
<1>5. CASE CallNative(r)
  <2>1. /\ Begin(r, Reduction) /\ Join(r, "native", Own(r)) /\ Go(r, "native")
        /\ UNCHANGED <<item, partial, chan, returned>>
    BY <1>5 DEF CallNative
  <2>2. TypeOK /\ item[r] = 0 /\ partial[r] = Null
    BY <2>1, Outside
  <2>. QED
    BY <2>1, <2>2, OwnRight
<1>6. CASE Bystander(r)
  <2>1. /\ Begin(r, {"message"}) /\ r \notin {Root(r), Now(r).dest}
        /\ Return(r, None) /\ chan' = chan /\ joined' = joined
    BY <1>6 DEF Bystander
  <2>2. TypeOK /\ Here(r) \in 1..Len(program) /\ Now(r).op = "message"
    BY <2>1, Outside
  <2>3. c.root \in Rank /\ c.op = "message" /\ r # c.dest
    BY <2>1, <2>2, MessageRanks
  <2>4. Computed(c, k, r) = None
    BY <2>3, Promises
  <2>. QED
    BY <2>1, <2>4, ReturnRight
<1>. QED
  BY <1>1, <1>2, <1>3, <1>4, <1>5, <1>6

LEMMA BarrierAndBcastRight ==
    ASSUME ResultsInv, NEW r \in Rank, NEW early,
           BarrierDone(r) \/ BcastDone(r, early) \/ BcastBodyDone(r, early)
    PROVE  Right(r)
<1>. PICK c, k : c = Now(r) /\ k = Here(r)
  OBVIOUS
<1>0. pc[r] \in {"barrier", "bcast", "bcastBody"} /\ pc[r] # "ready"
  BY DEF BarrierDone, BcastDone, BcastBodyDone
<1>1. /\ TypeOK /\ Here(r) \in 1..Len(program) /\ Sound(c) /\ Root(r) \in Rank
      /\ AtOK(r, c, pc[r], item[r]) /\ c.root \in Rank
      /\ (c.op # "allgather" => Root(r) = c.root)
  BY <1>0, InItsCall DEF Sound
<1>2. CASE BarrierDone(r)
  <2>1. pc[r] = "barrier" /\ Return(r, None) /\ chan' = chan /\ joined' = joined
    BY <1>2 DEF BarrierDone
  <2>2. c.op = "barrier"
    BY <1>1, <2>1 DEF AtOK
  <2>3. Computed(c, k, r) = None
    BY <1>1, <2>2, Promises
  <2>. QED
    BY <2>1, <2>3, ReturnRight
<1>3. ASSUME pc[r] \in {"bcast", "bcastBody"}, BcastOver(r, early)
      PROVE  Given(r, Root(r)) = Published(c, k)
  <2>1. LastIs(r, pc[r])
    BY <1>3 DEF ResultsInv, MatchInv, LogInv, PlaceOK, JoinedPC
  <2>2. Len(joined[Root(r)]) >= Len(joined[r])
    BY <1>1, <1>3 DEF BcastOver, Over
  <2>. QED
    BY <1>1, <1>3, <2>1, <2>2, GivenRight
<1>4. ASSUME pc[r] \in {"bcast", "bcastBody"}, ReturnBcast(r, Published(c, k)),
             chan' = chan, joined' = joined
      PROVE  Right(r)
  <2>1. c.op \in {"bcast", "allgather", "allreduce"}
    BY <1>1, <1>4 DEF AtOK
  <2>2. PICK v : v = (IF IsRoot(r) /\ Published(c, k) = ErrorType THEN Raised ELSE Published(c, k))
    OBVIOUS
  <2>3. Return(r, v)
    BY <1>4, <2>2 DEF ReturnBcast
  <2>4. CASE c.op = "bcast"
    <3>1. Published(c, k) = One(k, c.root) /\ Published(c, k) # ErrorType
      BY <2>4 DEF Published, One, Value, ErrorType
    <3>. QED
      BY <1>1, <1>4, <2>2, <2>3, <2>4, <3>1, Promises, ReturnRight
  <2>5. CASE c.op = "allgather"
    <3>1. Published(c, k) = Value(AllInTurn(c, k)) /\ Published(c, k) # ErrorType
      BY <2>5 DEF Published, Value, ErrorType
    <3>. QED
      BY <1>1, <1>4, <2>2, <2>3, <2>5, <3>1, Promises, ReturnRight
  <2>6. CASE c.op = "allreduce"
    <3>1. Published(c, k) = Combined(c, AllInTurn(c, k), ErrorType)
      BY <2>6 DEF Published
    <3>2. Computed(c, k, r) = Combined(c, AllInTurn(c, k), IF r = c.root THEN Raised ELSE ErrorType)
      BY <1>1, <2>6, Promises
    <3>3. IsRoot(r) <=> r = c.root
      BY <1>1, <2>6 DEF IsRoot
    <3>4. v = Computed(c, k, r)
      BY <2>2, <3>1, <3>2, <3>3 DEF Combined, Value, ErrorType
    <3>. QED
      BY <1>4, <2>3, <3>4, ReturnRight
  <2>. QED
    BY <2>1, <2>4, <2>5, <2>6
<1>5. CASE BcastDone(r, early)
  <2>1. pc[r] = "bcast" /\ BcastOver(r, early) /\ chan' = chan
    BY <1>5 DEF BcastDone
  <2>2. Given(r, Root(r)) = Published(c, k)
    BY <1>3, <2>1
  <2>3. \/ Join(r, "bcastBody", Published(c, k)) /\ Go(r, "bcastBody") /\ UNCHANGED returned
        \/ ReturnBcast(r, Published(c, k)) /\ UNCHANGED joined
    BY <1>5, <2>2 DEF BcastDone
  <2>4. Gives(r, "bcastBody", Published(c, k))
    BY DEF Gives
  <2>. QED
    BY <1>1, <1>4, <2>1, <2>3, <2>4, JoinRight DEF EmptyPC
<1>6. CASE BcastBodyDone(r, early)
  <2>1. pc[r] = "bcastBody" /\ BcastOver(r, early) /\ chan' = chan /\ joined' = joined
    BY <1>6 DEF BcastBodyDone
  <2>2. ReturnBcast(r, Published(c, k))
    BY <1>3, <1>6, <2>1 DEF BcastBodyDone
  <2>. QED
    BY <1>4, <2>1, <2>2
<1>. QED
  BY <1>2, <1>5, <1>6

(***************************************************************************)
(* gather and allgather.                                                   *)
(***************************************************************************)
LEMMA AllGivenRight ==
    ASSUME ResultsInv, NEW r \in Rank, NEW kind \in {"gather", "gatherBody", "native"},
           LastIs(r, kind), Here(r) \in 1..Len(program), NEW n \in 0..N,
           \A q \in 0..(n - 1) : Len(joined[q]) >= Len(joined[r])
    PROVE  AllGiven(r, n) = Numbered(Here(r), n)
<1>1. ASSUME NEW i \in 1..n
      PROVE  Given(r, i - 1) = One(Here(r), i - 1)
  <2>1. i - 1 \in Rank /\ i - 1 \in 0..(n - 1)
    BY RankFacts DEF Rank
  <2>. QED
    BY <2>1, GivenRight
<1>. QED
  BY <1>1 DEF AllGiven, Numbered

LEMMA NotTree ==
    ASSUME NEW c, Sound(c), c.op \notin Reduction
    PROVE  ~UsesTree(c) /\ ~c.ground /\ ~UsesNative(c) /\ c \in Call
BY DEF Sound, UsesTree, UsesNative

LEMMA GatherRight ==
    ASSUME ResultsInv, NoneCutShort, NEW r \in Rank, NEW early,
           GatherDone(r, early) \/ GatherBodyDone(r, early) \/ Catenate(r) \/ GatherEnds(r)
    PROVE  Right(r)
<1>. PICK c, k : c = Now(r) /\ k = Here(r)
  OBVIOUS
<1>0. pc[r] \in {"gather", "gatherBody", "catenate"} /\ pc[r] # "ready"
  BY DEF GatherDone, GatherBodyDone, Catenate, GatherEnds
<1>1. /\ TypeOK /\ Here(r) \in 1..Len(program) /\ Sound(c) /\ Root(r) \in Rank
      /\ RootOf(c) = Root(r) /\ item[r] \in Nat
      /\ AtOK(r, c, pc[r], item[r]) /\ c.root \in Rank
      /\ (c.op # "allgather" => Root(r) = c.root)
      /\ InHand(r, c, k, pc[r], data[r], item[r], partial[r])
  BY <1>0, InItsCall DEF Sound
<1>2. c.op \in {"gather", "allgather"}
  BY <1>0, <1>1 DEF AtOK
<1>3. ~UsesTree(c) /\ ~c.ground /\ c \in Call
  BY <1>1, <1>2, NotTree DEF Reduction
<1>4. N \in Nat /\ N > 0
  BY RankFacts
<1>5. CASE GatherDone(r, early)
  <2>1. /\ pc[r] = "gather" /\ Join(r, "gatherBody", Own(r)) /\ Go(r, "gatherBody")
        /\ UNCHANGED <<item, partial, chan, returned>>
    BY <1>5 DEF GatherDone
  <2>2. item[r] = 0 /\ partial[r] = Null
    BY <1>1, <2>1 DEF InHand
  <2>. QED
    BY <1>1, <2>1, <2>2, OwnRight
<1>6. CASE GatherBodyDone(r, early)
  <2>1. pc[r] = "gatherBody" /\ GatherOver(r, early)
    BY <1>6 DEF GatherBodyDone
  <2>2. item[r] = 0
    BY <1>1, <2>1 DEF InHand
  <2>3. CASE /\ IsRoot(r)
             /\ data' = [data EXCEPT ![r] = AllGiven(r, N)]
             /\ partial' = [partial EXCEPT ![r] = Value(<<>>)]
             /\ Go(r, "catenate")
             /\ UNCHANGED <<program, item, cut, chan, joined, returned>>
    <3>1. \A q \in 0..(N - 1) : Len(joined[q]) >= Len(joined[r])
      BY <2>1, <2>3 DEF GatherOver, Over, Rank
    <3>2. LastIs(r, "gatherBody")
      BY <2>1 DEF ResultsInv, MatchInv, LogInv, PlaceOK, JoinedPC
    <3>3. AllGiven(r, N) = Numbered(k, N)
      BY <1>1, <1>4, <3>1, <3>2, AllGivenRight
    <3>4. /\ data'[r] = Numbered(k, N) /\ partial'[r] = Value(<<>>)
          /\ pc'[r] = "catenate" /\ item'[r] = 0
      BY <1>1, <2>2, <2>3, <3>3 DEF TypeOK, Go
    <3>5. GatheredTo(c, k, 0) = Value(<<>>)
      BY <1>3, GatheredAll
    <3>6. InHand(r, c, k, "catenate", Numbered(k, N), 0, Value(<<>>))
      BY <1>1, <1>4, <2>3, <3>5 DEF InHand, IsRoot
    <3>7. Keeps(r, "catenate", Numbered(k, N), 0, Value(<<>>))
      BY <2>3, <3>4, <3>6 DEF Keeps
    <3>. QED
      BY <2>3, <3>7 DEF Right, ChanRight, LogRight, DoneRight
  <2>4. CASE ~IsRoot(r) /\ c.op = "gather" /\ Return(r, None) /\ UNCHANGED <<program, chan, joined>>
    <3>1. r # c.root
      BY <1>1, <2>4 DEF IsRoot
    <3>2. Computed(c, k, r) = None
      BY <1>1, <2>4, <3>1, Promises
    <3>. QED
      BY <2>4, <3>2, ReturnRight
  <2>5. CASE ~IsRoot(r) /\ StartBcast(r, None)
    BY <1>1, <2>5, BcastRight
  <2>. QED
    BY <1>6, <2>3, <2>4, <2>5 DEF GatherBodyDone
<1>7. ASSUME pc[r] = "catenate"
      PROVE  /\ r = RootOf(c) /\ data[r] = Numbered(k, N) /\ item[r] <= N
             /\ partial[r] = GatheredTo(c, k, item[r])
  BY <1>1, <1>7 DEF InHand
<1>8. CASE Catenate(r)
  <2>1. /\ pc[r] = "catenate" /\ item[r] < N
        /\ partial' = [partial EXCEPT ![r] = Combine(Now(r), @, data[r][item[r] + 1])]
        /\ item' = [item EXCEPT ![r] = @ + 1]
        /\ UNCHANGED <<pc, data, chan, joined, returned>>
    BY <1>8 DEF Catenate
  <2>. PICK i, v : i = item[r] /\ v = Combine(c, partial[r], data[r][i + 1])
    OBVIOUS
  <2>2. i \in 0..(N - 1) /\ i \in Nat
    BY <1>1, <1>4, <2>1
  <2>3. Numbered(k, N)[i + 1] = One(k, i)
    BY <1>4, <2>2 DEF Numbered
  <2>4. v = GatheredTo(c, k, i + 1)
    <3>1. v = Combine(c, GatheredTo(c, k, i), One(k, i))
      BY <1>7, <2>1, <2>3
    <3>2. c.op # "scan"
      BY <1>2
    <3>. QED
      BY <2>2, <3>1, <3>2, GatheredNext
  <2>5. pc'[r] = "catenate" /\ data'[r] = Numbered(k, N) /\ item'[r] = i + 1 /\ partial'[r] = v
    BY <1>1, <1>7, <2>1 DEF TypeOK
  <2>6. InHand(r, c, k, "catenate", Numbered(k, N), i + 1, v)
    BY <1>4, <1>7, <2>1, <2>2, <2>4 DEF InHand
  <2>7. Keeps(r, "catenate", Numbered(k, N), i + 1, v)
    BY <2>1, <2>5, <2>6 DEF Keeps
  <2>. QED
    BY <2>1, <2>7 DEF Right, ChanRight, LogRight, DoneRight
<1>9. CASE GatherEnds(r)
  <2>1. pc[r] = "catenate" /\ item[r] = N
    BY <1>9 DEF GatherEnds
  <2>2. partial[r] = IF c.bad = {} THEN Value(AllInTurn(c, k)) ELSE Raised
    BY <1>3, <1>7, <2>1, GatheredAll
  <2>3. IsRoot(r)
    BY <1>1, <1>7, <2>1 DEF IsRoot
  <2>4. CASE c.op = "gather"
    <3>1. Return(r, partial[r]) /\ UNCHANGED <<chan, joined>>
      BY <1>9, <2>4 DEF GatherEnds
    <3>2. Computed(c, k, r) = partial[r]
      BY <1>1, <2>2, <2>3, <2>4, Promises DEF IsRoot
    <3>. QED
      BY <3>1, <3>2, ReturnRight
  <2>5. CASE c.op = "allgather"
    <3>1. program \in Programs /\ c = program[k] /\ k \in 1..Len(program)
      BY <1>1 DEF TypeOK, Now
    <3>2. c.bad = {}
      BY <2>5, <3>1 DEF NoneCutShort
    <3>3. partial[r] = Value(AllInTurn(c, k)) /\ partial[r] # Raised
      BY <2>2, <3>2 DEF Value, Raised
    <3>4. StartBcast(r, partial[r])
      BY <1>9, <2>5, <3>3 DEF GatherEnds
    <3>5. Published(c, k) = partial[r]
      BY <2>5, <3>3 DEF Published
    <3>. QED
      BY <1>1, <3>4, <3>5, BcastRight
  <2>. QED
    BY <1>2, <2>4, <2>5
<1>. QED
  BY <1>5, <1>6, <1>8, <1>9

(***************************************************************************)
(* scatter.                                                                *)
(***************************************************************************)
LEMMA CarriedBy ==
    ASSUME NEW c, NEW k, NEW s, NEW d
    PROVE  /\ c.op = "scatter" => Carried(c, k, s, d) = PieceOf(c, k, d)
           /\ c.op = "message" => Carried(c, k, s, d) = One(k, s)
           /\ ByCollect(c) /\ d = c.root => Carried(c, k, s, d) = One(k, s)
           /\ ByCollect(c) /\ d # c.root =>
                  Carried(c, k, s, d) = Combined(c, Contributions(c, k, d + 1), None)
           /\ c.op \in Reduction /\ UsesTree(c) =>
                  Carried(c, k, s, d) = Block(c, k, Number(c, s), Number(c, s) - Number(c, d))
<1>1. ByCollect(c) => c.op \notin {"scatter", "message"} /\ ~UsesTree(c)
  BY DEF ByCollect, Reduction
<1>2. c.op \in Reduction => c.op \notin {"scatter", "message"}
  BY DEF Reduction
<1>. QED
  BY <1>1, <1>2 DEF Carried

LEMMA PieceRight ==
    ASSUME TypeOK, NEW r \in Rank, Now(r) \in Call, item[r] \in Rank,
           CutAfter(Now(r).length, item[r], cut[r])
    PROVE  Piece(r) = PieceOf(Now(r), Here(r), item[r])
<1>. PICK n, i, x : n = Now(r).length /\ i = item[r] /\ x = cut[r]
  OBVIOUS
<1>1. n \in Nat /\ i \in 0..(N - 1) /\ x \in [end : Nat, extras : Nat] /\ CutAfter(n, i, x)
  BY LocalTypes DEF Call, Rank
<1>2. x.end = CutEnd(n, i)
  BY <1>1 DEF CutAfter, CutEnd
<1>3. NextEnd(r) = CutEnd(n, i + 1)
  <2>1. NextEnd(r) = x.end + n \div N + (IF x.extras > 0 THEN 1 ELSE 0)
    BY DEF NextEnd
  <2>. QED
    BY <1>1, <2>1, CutAdvances DEF CutAfter, CutEnd
<1>. QED
  BY <1>2, <1>3 DEF Piece, PieceOf

\* A step that receives its result.
LEMMA ReceivedRight ==
    ASSUME NEW r \in Rank, NEW s \in Rank, NEW i \in 1..Len(chan[s][r]), NEW tag,
           Receive(s, r, i, tag), joined' = joined, DoneRight(r)
    PROVE  Right(r)
BY DEF Right, ChanRight, LogRight

LEMMA ScatterRight ==
    ASSUME ResultsInv, NEW r \in Rank, NEW early,
           \/ ScatterKeep(r) \/ ScatterSend(r) \/ ScatterSent(r, early)
           \/ ScatterDone(r) \/ ScatterRecv(r)
    PROVE  Right(r)
<1>. PICK c, k, i : c = Now(r) /\ k = Here(r) /\ i = item[r]
  OBVIOUS
<1>0. pc[r] \in {"scatter", "scatterSend", "scatterRecv"} /\ pc[r] # "ready"
  BY DEF ScatterKeep, ScatterSend, ScatterSent, ScatterDone, ScatterRecv
<1>1. /\ TypeOK /\ Here(r) \in 1..Len(program) /\ Sound(c) /\ Root(r) \in Rank
      /\ RootOf(c) = Root(r) /\ i \in Nat
      /\ AtOK(r, c, pc[r], i) /\ c.root \in Rank
      /\ (c.op # "allgather" => Root(r) = c.root)
      /\ InHand(r, c, k, pc[r], data[r], i, partial[r])
      /\ LocalsOK(r, c.length, pc[r], data[r], i, cut[r])
  BY <1>0, InItsCall DEF Sound
<1>2. c.op = "scatter" /\ Root(r) = c.root /\ c \in Call
  BY <1>0, <1>1 DEF AtOK, Sound
<1>3. N \in Nat /\ N > 0 /\ r \in Nat
  BY RankFacts
<1>4. ASSUME pc[r] = "scatter", i \in Rank
      PROVE  Piece(r) = PieceOf(c, k, i)
  <2>1. CutAfter(c.length, i, cut[r])
    BY <1>1, <1>4 DEF LocalsOK
  <2>. QED
    BY <1>1, <1>2, <1>4, <2>1, PieceRight
<1>5. ASSUME pc[r] \in {"scatter", "scatterSend"}
      PROVE  i > r => data[r][1] = PieceOf(c, k, r)
  BY <1>1, <1>5 DEF InHand
<1>6. ASSUME NEW where \in {"scatter", "scatterSend"}, NEW objects, NEW j,
             pc'[r] = where, data'[r] = objects, item'[r] = j, returned' = returned,
             j > r => objects[1] = PieceOf(c, k, r)
      PROVE  DoneRight(r)
  <2>. PICK v : v = partial'[r]
    OBVIOUS
  <2>1. InHand(r, c, k, where, objects, j, v)
    BY <1>6 DEF InHand
  <2>2. Keeps(r, where, objects, j, v)
    BY <1>6, <2>1 DEF Keeps
  <2>. QED
    BY <2>2 DEF DoneRight
<1>7. CASE ScatterKeep(r)
  <2>1. /\ pc[r] = "scatter" /\ i = r /\ data' = [data EXCEPT ![r] = <<Piece(r)>>]
        /\ item' = [item EXCEPT ![r] = @ + 1]
        /\ UNCHANGED <<pc, chan, joined, returned>>
    BY <1>7 DEF ScatterKeep
  <2>2. pc'[r] = "scatter" /\ data'[r] = <<Piece(r)>> /\ item'[r] = i + 1
    BY <1>1, <2>1 DEF TypeOK
  <2>3. <<Piece(r)>>[1] = PieceOf(c, k, r)
    BY <1>4, <2>1
  <2>4. DoneRight(r)
    BY <1>6, <2>1, <2>2, <2>3
  <2>. QED
    BY <2>1, <2>4 DEF Right, ChanRight, LogRight
<1>8. CASE ScatterSend(r)
  <2>1. /\ pc[r] = "scatter" /\ i \in Rank \ {r} /\ Send(r, i, ScatterTag, Piece(r))
        /\ Go(r, "scatterSend") /\ UNCHANGED <<data, item, joined, returned>>
    BY <1>8 DEF ScatterSend
  <2>2. Carried(c, k, r, i) = Piece(r)
    BY <1>2, <1>4, <2>1, CarriedBy
  <2>3. ChanRight(r)
    BY <2>1, <2>2 DEF ChanRight
  <2>4. pc'[r] = "scatterSend" /\ data'[r] = data[r] /\ item'[r] = i
    BY <1>1, <2>1 DEF TypeOK, Go
  <2>5. DoneRight(r)
    BY <1>5, <1>6, <2>1, <2>4
  <2>. QED
    BY <2>1, <2>3, <2>5 DEF Right, LogRight
<1>9. CASE ScatterSent(r, early)
  <2>1. /\ pc[r] = "scatterSend" /\ item' = [item EXCEPT ![r] = @ + 1] /\ Go(r, "scatter")
        /\ UNCHANGED <<data, chan, joined, returned>>
    BY <1>9 DEF ScatterSent
  <2>2. pc'[r] = "scatter" /\ data'[r] = data[r] /\ item'[r] = i + 1
    BY <1>1, <2>1 DEF TypeOK, Go
  <2>3. i # r
    BY <1>1, <2>1 DEF LocalsOK
  <2>4. i + 1 > r => i > r
    BY <1>1, <1>3, <2>3
  <2>5. DoneRight(r)
    BY <1>5, <1>6, <2>1, <2>2, <2>4
  <2>. QED
    BY <2>1, <2>5 DEF Right, ChanRight, LogRight
<1>10. Computed(c, k, r) = PieceOf(c, k, r)
  <2>1. c.length \in Nat
    BY <1>2 DEF Call
  <2>2. Computed(c, k, r) = IF c.bad = {} THEN Value(Share(c, k, r)) ELSE None
    BY <1>1, <1>2, Promises
  <2>. QED
    BY <2>1, <2>2, ShareIsPiece
<1>11. CASE ScatterDone(r)
  <2>1. pc[r] = "scatter" /\ i = N /\ Return(r, data[r][1]) /\ chan' = chan /\ joined' = joined
    BY <1>11 DEF ScatterDone
  <2>2. i > r
    BY <1>3, <2>1 DEF Rank
  <2>. QED
    BY <1>5, <1>10, <2>1, <2>2, ReturnRight
<1>12. CASE ScatterRecv(r)
  <2>. PICK s : s = Root(r)
    OBVIOUS
  <2>1. /\ pc[r] = "scatterRecv" /\ joined' = joined
        /\ \E n \in 1..Len(chan[s][r]) : Receive(s, r, n, ScatterTag) /\ Return(r, chan[s][r][n].val)
    BY <1>12 DEF ScatterRecv
  <2>2. PICK n \in 1..Len(chan[s][r]) : Receive(s, r, n, ScatterTag) /\ Return(r, chan[s][r][n].val)
    BY <2>1
  <2>3. r # c.root
    BY <1>1, <2>1 DEF AtOK
  <2>4. Edge(c, s, r) /\ ScatterTag \in {TagOf(c), ANY_TAG}
    BY <1>1, <1>2, <2>3, ScatterEdges
  <2>5. ~ReceivedIn(s, r)
    BY <2>1 DEF ReceivedIn
  <2>6. chan[s][r][n].val = Carried(c, k, s, r)
    BY <1>0, <1>1, <2>2, <2>4, <2>5, GotRight
  <2>7. Carried(c, k, s, r) = PieceOf(c, k, r)
    BY <1>2, CarriedBy
  <2>8. DoneRight(r)
    BY <1>10, <2>2, <2>6, <2>7 DEF DoneRight
  <2>. QED
    BY <1>1, <2>1, <2>2, <2>8, ReceivedRight
<1>. QED
  BY <1>7, <1>8, <1>9, <1>11, <1>12

LEMMA CallScatterRight ==
    ASSUME ResultsInv, NEW r \in Rank, CallScatter(r)
    PROVE  Right(r)
<1>1. /\ Begin(r, {"scatter"}) /\ UNCHANGED <<data, item, chan, joined, returned>>
      /\ Go(r, "scatter") \/ Go(r, "scatterRecv")
  BY DEF CallScatter
<1>2. TypeOK /\ item[r] = 0
  BY <1>1, Outside
<1>3. pc'[r] \in {"scatter", "scatterRecv"} /\ item'[r] = 0
  BY <1>1, <1>2 DEF Go, TypeOK
<1>4. DoneRight(r)
  <2>1. CASE pc'[r] = "scatterRecv"
    BY <1>1, <2>1, EmptyHand DEF EmptyPC
  <2>2. CASE pc'[r] = "scatter"
    <3>. PICK objects, v : objects = data'[r] /\ v = partial'[r]
      OBVIOUS
    <3>1. ~(0 > r)
      BY RankFacts
    <3>2. InHand(r, Now(r), Here(r), "scatter", objects, 0, v)
      BY <3>1 DEF InHand
    <3>3. Keeps(r, "scatter", objects, 0, v)
      BY <1>1, <1>3, <2>2, <3>2 DEF Keeps
    <3>. QED
      BY <3>3 DEF DoneRight
  <2>. QED
    BY <1>3, <2>1, <2>2
<1>. QED
  BY <1>1, <1>4 DEF Right, ChanRight, LogRight

(***************************************************************************)
(* The reductions.  First what a fold starts with.                         *)
(***************************************************************************)
LEMMA FoldedNone ==
    ASSUME NEW c, NEW k, NEW x
    PROVE  FoldedTo(c, k, 0, x) = IF c.ground THEN One(k, Ground) ELSE Null
<1>1. CASE ~c.ground
  BY <1>1 DEF FoldedTo
<1>2. CASE c.ground
  <2>1. [i \in 1..0 |-> <<k, (0 + i - 1) % N>>] = <<>>
    OBVIOUS
  <2>2. Contributions(c, k, 0) = <<<<k, Ground>>>> \o <<>>
    BY <1>2, <2>1 DEF Contributions
  <2>3. Contributions(c, k, 0) = <<<<k, Ground>>>>
    BY <2>2
  <2>4. ~RaisesOn(c, <<<<k, Ground>>>>)
    BY DEF RaisesOn
  <2>. QED
    BY <1>2, <2>3, <2>4 DEF FoldedTo, Combined, One
<1>. QED
  BY <1>1, <1>2

LEMMA CallReduceRight ==
    ASSUME ResultsInv, NEW r \in Rank, CallReduce(r)
    PROVE  Right(r)
<1>. PICK c, k : c = Now(r) /\ k = Here(r)
  OBVIOUS
<1>1. /\ Begin(r, Reduction) /\ ~UsesNative(c) /\ ~UsesTree(c)
      /\ UNCHANGED <<data, item, partial, joined, returned>>
      /\ \/ IsRoot(r) /\ Go(r, "collect") /\ UNCHANGED chan
         \/ ~IsRoot(r) /\ Go(r, "collectSend") /\ Send(r, Root(r), CollectTag, Own(r))
  BY DEF CallReduce
<1>2. Root(r) \in Rank
  BY DEF CallReduce, Valid
<1>3. TypeOK /\ c.op \in Reduction /\ Root(r) = c.root /\ data[r] = <<>> /\ k \in Nat
  BY <1>1, Outside DEF Reduction
<1>4. ByCollect(c)
  BY <1>1, <1>3 DEF ByCollect
<1>5. CASE Go(r, "collect") /\ UNCHANGED chan
  <2>. PICK i, v : i = item'[r] /\ v = partial'[r]
    OBVIOUS
  <2>1. pc'[r] = "collect" /\ data'[r] = <<>>
    BY <1>1, <1>3, <1>5 DEF Go, TypeOK
  <2>2. Numbered(k, 0) = <<>>
    BY DEF Numbered
  <2>3. InHand(r, c, k, "collect", <<>>, i, v)
    BY <2>2, RankFacts DEF InHand
  <2>4. Keeps(r, "collect", <<>>, i, v)
    BY <1>1, <2>1, <2>3 DEF Keeps
  <2>. QED
    BY <1>1, <1>5, <2>4 DEF Right, ChanRight, LogRight, DoneRight
<1>6. CASE Go(r, "collectSend") /\ Send(r, Root(r), CollectTag, Own(r))
  <2>1. pc'[r] = "collectSend"
    BY <1>3, <1>6 DEF Go, TypeOK
  <2>2. Carried(c, k, r, Root(r)) = Own(r)
    BY <1>3, <1>4, CarriedBy DEF Own
  <2>3. ChanRight(r)
    BY <1>2, <1>6, <2>2 DEF ChanRight
  <2>4. DoneRight(r)
    BY <1>1, <2>1, EmptyHand DEF EmptyPC
  <2>. QED
    BY <1>1, <2>3, <2>4 DEF Right, LogRight
<1>. QED
  BY <1>1, <1>5, <1>6

LEMMA NativeRight ==
    ASSUME ResultsInv, NEW r \in Rank, NEW early, NativeDone(r, early)
    PROVE  Right(r)
<1>. PICK c, k, n : c = Now(r) /\ k = Here(r) /\ n = Combines(r)
  OBVIOUS
<1>0. pc[r] = "native" /\ pc[r] # "ready"
  BY DEF NativeDone
<1>1. /\ TypeOK /\ Here(r) \in 1..Len(program) /\ Sound(c) /\ Root(r) \in Rank
      /\ AtOK(r, c, pc[r], item[r]) /\ c.root \in Rank
      /\ (c.op # "allgather" => Root(r) = c.root)
      /\ InHand(r, c, k, pc[r], data[r], item[r], partial[r])
  BY <1>0, InItsCall DEF Sound
<1>2. c.op \in {"reduce", "allreduce", "scan"} /\ UsesNative(c) /\ ~c.ground
  BY <1>0, <1>1 DEF AtOK, Reduction, UsesNative
<1>3. item[r] = 0 /\ partial[r] = Null
  BY <1>0, <1>1 DEF InHand
<1>4. N \in Nat /\ N > 0 /\ r \in 0..(N - 1)
  BY RankFacts DEF Rank
<1>5. /\ c.op = "reduce" => n = IF r = c.root THEN N ELSE 0
      /\ c.op = "allreduce" => n = N
      /\ c.op = "scan" => n = r + 1
  BY <1>1, <1>2 DEF Combines, IsRoot
<1>6. n \in 0..N
  BY <1>2, <1>4, <1>5
<1>7. CASE n = 0
  <2>1. Return(r, None) /\ UNCHANGED <<chan, joined>>
    BY <1>7 DEF NativeDone
  <2>2. c.op = "reduce" /\ r # c.root
    BY <1>2, <1>4, <1>5, <1>7
  <2>3. Computed(c, k, r) = None
    BY <1>1, <2>2, Promises
  <2>. QED
    BY <2>1, <2>3, ReturnRight
<1>8. CASE n # 0
  <2>1. /\ data' = [data EXCEPT ![r] = AllGiven(r, n)] /\ Go(r, "fold")
        /\ UNCHANGED <<item, partial, chan, joined, returned>>
    BY <1>8 DEF NativeDone
  <2>2. Over(r, 0..(n - 1), early)
    BY DEF NativeDone
  <2>3. \A q \in 0..(n - 1) : q \in Rank
    BY <1>4, <1>6 DEF Rank
  <2>4. \A q \in 0..(n - 1) : Len(joined[q]) >= Len(joined[r])
    BY <2>2, <2>3 DEF Over
  <2>5. LastIs(r, "native")
    BY <1>0 DEF ResultsInv, MatchInv, LogInv, PlaceOK, JoinedPC
  <2>6. AllGiven(r, n) = Numbered(k, n)
    BY <1>1, <1>6, <2>4, <2>5, AllGivenRight
  <2>7. pc'[r] = "fold" /\ data'[r] = Numbered(k, n) /\ item'[r] = 0 /\ partial'[r] = Null
    BY <1>1, <1>3, <2>1, <2>6 DEF TypeOK, Go
  <2>8. FoldedTo(c, k, 0, Raised) = Null
    BY <1>2, FoldedNone
  <2>9. (c.op = "reduce" => r = c.root) /\ n = IF c.op = "scan" THEN r + 1 ELSE N
    BY <1>2, <1>5, <1>8
  <2>10. InHand(r, c, k, "fold", Numbered(k, n), 0, Null)
    BY <1>6, <2>8, <2>9 DEF InHand
  <2>11. Keeps(r, "fold", Numbered(k, n), 0, Null)
    BY <2>1, <2>7, <2>10 DEF Keeps
  <2>. QED
    BY <2>1, <2>11 DEF Right, ChanRight, LogRight, DoneRight
<1>. QED
  BY <1>7, <1>8

LEMMA FoldStepRight ==
    ASSUME ResultsInv, NEW r \in Rank, Fold(r) \/ FoldDone(r)
    PROVE  Right(r)
<1>. PICK c, k, i : c = Now(r) /\ k = Here(r) /\ i = item[r]
  OBVIOUS
<1>0. pc[r] = "fold" /\ pc[r] # "ready"
  BY DEF Fold, FoldDone
<1>1. /\ TypeOK /\ Here(r) \in 1..Len(program) /\ Sound(c) /\ Root(r) \in Rank
      /\ AtOK(r, c, pc[r], i) /\ c.root \in Rank /\ i \in Nat
      /\ (c.op # "allgather" => Root(r) = c.root)
      /\ InHand(r, c, k, pc[r], data[r], i, partial[r])
  BY <1>0, InItsCall DEF Sound
<1>2. /\ c.op \in {"reduce", "allreduce", "scan"} /\ ~UsesTree(c)
      /\ c.op = "scan" => UsesNative(c)
      /\ UsesNative(c) => c.bad = {}
  BY <1>0, <1>1 DEF AtOK, Reduction, UsesNative, UsesTree, Sound, ByCollect
<1>. PICK n : n = IF c.op = "scan" THEN r + 1 ELSE N
  OBVIOUS
<1>3. /\ (c.op = "reduce" => r = c.root) /\ data[r] = Numbered(k, n) /\ i <= n
      /\ partial[r] = FoldedTo(c, k, i, Raised)
  BY <1>0, <1>1 DEF InHand
<1>4. N \in Nat /\ N > 0 /\ r \in 0..(N - 1) /\ n \in 1..N
  BY RankFacts DEF Rank
<1>5. Len(data[r]) = n
  BY <1>3, <1>4 DEF Numbered
<1>6. CASE Fold(r)
  <2>1. /\ i < n /\ partial' = [partial EXCEPT ![r] = Combine(Now(r), @, data[r][item[r] + 1])]
        /\ item' = [item EXCEPT ![r] = @ + 1]
        /\ UNCHANGED <<pc, data, chan, joined, returned>>
    BY <1>5, <1>6 DEF Fold
  <2>. PICK v : v = Combine(c, partial[r], data[r][i + 1])
    OBVIOUS
  <2>2. i \in 0..(N - 1) /\ i \in 0..(n - 1)
    BY <1>1, <1>4, <2>1
  <2>3. Numbered(k, n)[i + 1] = One(k, i)
    BY <1>4, <2>2 DEF Numbered
  <2>4. v = Combine(c, FoldedTo(c, k, i, Raised), One(k, i))
    BY <1>3, <2>3
  <2>5. v = FoldedTo(c, k, i + 1, Raised)
    <3>1. CASE c.op # "scan"
      BY <2>2, <2>4, <3>1, FoldedNext
    <3>2. CASE c.op = "scan"
      <4>1. c.bad = {}
        BY <1>2, <3>2
      <4>2. FoldedTo(c, k, i, Raised) = FoldedTo(c, k, i, None)
        BY <4>1, FoldedAlike
      <4>3. FoldedTo(c, k, i + 1, Raised) = FoldedTo(c, k, i + 1, None)
        BY <4>1, FoldedAlike
      <4>4. Combine(c, FoldedTo(c, k, i, None), One(k, i)) = FoldedTo(c, k, i + 1, None)
        BY <2>2, <3>2, FoldedNext
      <4>. QED
        BY <2>4, <4>2, <4>3, <4>4
    <3>. QED
      BY <3>1, <3>2
  <2>6. pc'[r] = "fold" /\ data'[r] = Numbered(k, n) /\ item'[r] = i + 1 /\ partial'[r] = v
    BY <1>0, <1>1, <1>3, <2>1 DEF TypeOK
  <2>7. i + 1 <= n
    BY <1>1, <1>4, <2>1
  <2>8. InHand(r, c, k, "fold", Numbered(k, n), i + 1, v)
    BY <1>3, <2>5, <2>7 DEF InHand
  <2>9. Keeps(r, "fold", Numbered(k, n), i + 1, v)
    BY <2>1, <2>6, <2>8 DEF Keeps
  <2>. QED
    BY <2>1, <2>9 DEF Right, ChanRight, LogRight, DoneRight
<1>7. CASE FoldDone(r)
  <2>. PICK s : s = Contributions(c, k, n)
    OBVIOUS
  <2>1. partial[r] = Combined(c, s, Raised)
    <3>1. i = n
      BY <1>5, <1>7 DEF FoldDone
    <3>. QED
      BY <1>3, <1>4, <3>1, FoldedAll
  <2>2. c.op # "scan" => s = AllInTurn(c, k)
    BY <1>2 DEF AllInTurn, AllOf
  <2>3. CASE c.op = "allreduce" /\ ~UsesNative(c)
    <3>1. StartBcast(r, IF partial[r] = Raised THEN ErrorType ELSE partial[r])
      BY <1>7, <2>3 DEF FoldDone
    <3>2. Published(c, k) = Combined(c, s, ErrorType)
      BY <2>2, <2>3 DEF Published
    <3>3. (IF partial[r] = Raised THEN ErrorType ELSE partial[r]) = Published(c, k)
      BY <2>1, <3>2 DEF Combined, Raised, Value
    <3>. QED
      BY <1>1, <3>1, <3>3, BcastRight
  <2>4. CASE c.op # "allreduce" \/ UsesNative(c)
    <3>1. Return(r, partial[r]) /\ UNCHANGED <<chan, joined>>
      BY <1>7, <2>4 DEF FoldDone
    <3>2. CASE c.op = "reduce"
      <4>1. Computed(c, k, r) = Combined(c, AllInTurn(c, k), Raised)
        BY <1>1, <1>3, <3>2, Promises
      <4>. QED
        BY <2>1, <2>2, <3>1, <3>2, <4>1, ReturnRight
    <3>3. CASE c.op = "allreduce"
      <4>1. Computed(c, k, r) = Combined(c, s, IF r = c.root THEN Raised ELSE ErrorType)
        BY <1>1, <2>2, <3>3, Promises
      <4>2. c.bad = {}
        BY <1>2, <2>4, <3>3
      <4>3. Computed(c, k, r) = Value(s) /\ partial[r] = Value(s)
        BY <2>1, <4>1, <4>2, FoldedAlike
      <4>. QED
        BY <3>1, <4>3, ReturnRight
    <3>4. CASE c.op = "scan"
      <4>1. Computed(c, k, r) = Combined(c, s, None)
        BY <1>1, <3>4, Promises
      <4>2. c.bad = {}
        BY <1>2, <3>4
      <4>3. Computed(c, k, r) = Value(s) /\ partial[r] = Value(s)
        BY <2>1, <4>1, <4>2, FoldedAlike
      <4>. QED
        BY <3>1, <4>3, ReturnRight
    <3>. QED
      BY <1>2, <3>2, <3>3, <3>4
  <2>. QED
    BY <2>3, <2>4
<1>. QED
  BY <1>6, <1>7

\* The root collects, in rank order.
LEMMA CollectRight ==
    ASSUME ResultsInv, NEW r \in Rank, CollectFrom(r) \/ CollectOwn(r)
    PROVE  Right(r)
<1>. PICK c, k, s : c = Now(r) /\ k = Here(r) /\ s = Len(data[r])
  OBVIOUS
<1>0. pc[r] = "collect" /\ pc[r] # "ready" /\ IInv /\ AtInv
  BY DEF CollectFrom, CollectOwn, ResultsInv, MatchInv, AwaitInv
<1>1. /\ TypeOK /\ Here(r) \in 1..Len(program) /\ k \in Nat
      /\ InHand(r, c, k, pc[r], data[r], item[r], partial[r])
  BY <1>0, InItsCall
<1>2. /\ ByCollect(c) /\ r = c.root /\ TagOf(c) = CollectTag /\ s \in Nat
      /\ \A d \in Rank : (Edge(c, d, r) <=> d # r) /\ (ReceivedIn(d, r) <=> s > d)
  BY <1>0, Collecting
<1>3. s \in 0..N /\ data[r] = Numbered(k, s)
  BY <1>0, <1>1, <1>2, RankFacts DEF InHand
<1>4. ASSUME s \in Rank, data' = [data EXCEPT ![r] = Append(@, One(k, s))],
             pc' = pc, returned' = returned
      PROVE  DoneRight(r)
  <2>. PICK i, v, objects : i = item'[r] /\ v = partial'[r] /\ objects = Numbered(k, s + 1)
    OBVIOUS
  <2>1. s \in 0..(N - 1) /\ s + 1 \in 0..N
    BY <1>4, RankFacts DEF Rank
  <2>2. Append(Numbered(k, s), One(k, s)) = objects
    BY <1>1, <2>1, NumberedNext
  <2>3. pc'[r] = "collect" /\ data'[r] = objects
    BY <1>0, <1>1, <1>3, <1>4, <2>2 DEF TypeOK
  <2>4. Len(objects) = s + 1
    BY <2>1 DEF Numbered
  <2>5. InHand(r, c, k, "collect", objects, i, v)
    BY <2>1, <2>4 DEF InHand
  <2>6. Keeps(r, "collect", objects, i, v)
    BY <1>4, <2>3, <2>5 DEF Keeps
  <2>. QED
    BY <2>6 DEF DoneRight
<1>5. CASE CollectFrom(r)
  <2>1. /\ s \in Rank \ {r} /\ UNCHANGED <<pc, joined, returned>>
        /\ \E i \in 1..Len(chan[s][r]) :
              /\ Receive(s, r, i, CollectTag)
              /\ data' = [data EXCEPT ![r] = Append(@, chan[s][r][i].val)]
    BY <1>5 DEF CollectFrom
  <2>2. PICK i \in 1..Len(chan[s][r]) :
              /\ Receive(s, r, i, CollectTag)
              /\ data' = [data EXCEPT ![r] = Append(@, chan[s][r][i].val)]
    BY <2>1
  <2>3. Edge(c, s, r) /\ ~ReceivedIn(s, r) /\ CollectTag \in {TagOf(c), ANY_TAG}
    BY <1>2, <2>1
  <2>4. chan[s][r][i].val = Carried(c, k, s, r)
    BY <1>0, <2>1, <2>2, <2>3, GotRight
  <2>5. Carried(c, k, s, r) = One(k, s)
    BY <1>2, CarriedBy
  <2>6. data' = [data EXCEPT ![r] = Append(@, One(k, s))]
    BY <2>2, <2>4, <2>5
  <2>7. DoneRight(r)
    BY <1>4, <2>1, <2>6
  <2>. QED
    BY <2>1, <2>2, <2>7, ReceivedRight
<1>6. CASE CollectOwn(r)
  <2>1. /\ s = r /\ data' = [data EXCEPT ![r] = Append(@, Own(r))]
        /\ UNCHANGED <<pc, chan, joined, returned>>
    BY <1>6 DEF CollectOwn
  <2>2. data' = [data EXCEPT ![r] = Append(@, One(k, s))]
    BY <2>1 DEF Own
  <2>3. DoneRight(r)
    BY <1>4, <2>1, <2>2
  <2>. QED
    BY <2>1, <2>3 DEF Right, ChanRight, LogRight
<1>. QED
  BY <1>5, <1>6

LEMMA CollectSentRight ==
    ASSUME ResultsInv, NEW r \in Rank, NEW early, CollectSent(r, early)
    PROVE  Right(r)
<1>. PICK c, k : c = Now(r) /\ k = Here(r)
  OBVIOUS
<1>0. pc[r] = "collectSend" /\ pc[r] # "ready"
  BY DEF CollectSent
<1>1. /\ TypeOK /\ Here(r) \in 1..Len(program) /\ Sound(c) /\ Root(r) \in Rank
      /\ AtOK(r, c, pc[r], item[r]) /\ c.root \in Rank
      /\ (c.op # "allgather" => Root(r) = c.root)
  BY <1>0, InItsCall DEF Sound
<1>2. r # c.root /\ c.op \in Reduction
  BY <1>0, <1>1 DEF AtOK, ByCollect
<1>3. CASE c.op = "reduce" /\ Return(r, None) /\ UNCHANGED <<program, chan, joined>>
  <2>1. Computed(c, k, r) = None
    BY <1>1, <1>2, <1>3, Promises
  <2>. QED
    BY <1>3, <2>1, ReturnRight
<1>4. CASE c.op = "allreduce" /\ StartBcast(r, None)
  <2>1. ~IsRoot(r)
    BY <1>1, <1>2, <1>4 DEF IsRoot
  <2>. QED
    BY <1>1, <1>4, <2>1, BcastRight
<1>5. CASE Go(r, "scanRecv") /\ UNCHANGED <<chan, joined, returned>>
  <2>1. pc'[r] = "scanRecv"
    BY <1>1, <1>5 DEF Go, TypeOK
  <2>2. DoneRight(r)
    BY <1>5, <2>1, EmptyHand DEF EmptyPC
  <2>. QED
    BY <1>5, <2>2 DEF Right, ChanRight, LogRight
<1>. QED
  BY <1>3, <1>4, <1>5 DEF CollectSent

LEMMA CollectedRight ==
    ASSUME ResultsInv, NEW r \in Rank, Collected(r)
    PROVE  Right(r)
<1>. PICK c, k, v : c = Now(r) /\ k = Here(r) /\ v = IF c.ground THEN One(k, Ground) ELSE Null
  OBVIOUS
<1>0. pc[r] = "collect" /\ pc[r] # "ready"
  BY DEF Collected
<1>1. /\ TypeOK /\ AtOK(r, c, pc[r], item[r])
      /\ InHand(r, c, k, pc[r], data[r], item[r], partial[r])
  BY <1>0, InItsCall
<1>2. ByCollect(c) /\ r = c.root /\ item[r] = 0
  BY <1>0, <1>1 DEF AtOK
<1>3. Len(data[r]) = N /\ data[r] = Numbered(k, N)
  BY <1>0, <1>1 DEF Collected, InHand
<1>. PICK where : where = IF c.op = "scan" THEN "scan" ELSE "fold"
  OBVIOUS
<1>4. /\ Go(r, where) /\ partial' = [partial EXCEPT ![r] = v]
      /\ UNCHANGED <<data, item, chan, joined, returned>>
  BY DEF Collected
<1>5. pc'[r] = where /\ data'[r] = Numbered(k, N) /\ item'[r] = 0 /\ partial'[r] = v
  BY <1>1, <1>2, <1>3, <1>4 DEF Go, TypeOK
<1>6. InHand(r, c, k, where, Numbered(k, N), 0, v)
  <2>1. FoldedTo(c, k, 0, Raised) = v /\ FoldedTo(c, k, 0, None) = v
    BY FoldedNone
  <2>2. N \in Nat /\ N > 0 /\ ~(0 > r)
    BY RankFacts
  <2>3. CASE where = "fold"
    <3>1. c.op # "scan"
      BY <2>3
    <3>. QED
      BY <1>2, <2>1, <2>2, <2>3, <3>1 DEF InHand
  <2>4. CASE where = "scan"
    <3>1. \A j \in 1..N : Numbered(k, N)[j] = One(k, j - 1)
      BY DEF Numbered
    <3>. QED
      BY <2>1, <2>2, <2>4, <3>1 DEF InHand
  <2>. QED
    BY <2>3, <2>4
<1>7. Keeps(r, where, Numbered(k, N), 0, v)
  BY <1>4, <1>5, <1>6 DEF Keeps
<1>. QED
  BY <1>4, <1>7 DEF Right, ChanRight, LogRight, DoneRight

\* scan's loop.
ScanHandOK(r, c, k, objects, i, v, n) ==
    /\ n <= N /\ v = FoldedTo(c, k, n, None)
    /\ \A j \in (n + 1)..N : objects[j] = One(k, j - 1)
    /\ i > r => objects[r + 1] = Combined(c, Contributions(c, k, r + 1), None)

LEMMA ScanHand ==
    ASSUME NEW r \in Rank, NEW c, NEW k, NEW objects, NEW i, NEW v
    PROVE  /\ InHand(r, c, k, "scan", objects, i, v) <=> ScanHandOK(r, c, k, objects, i, v, i)
           /\ InHand(r, c, k, "scanSend", objects, i, v) <=>
                  ScanHandOK(r, c, k, objects, i, v, i + 1) /\ i # r
BY DEF InHand, ScanHandOK

LEMMA ScanNextRight ==
    ASSUME ResultsInv, NEW r \in Rank, ScanNext(r)
    PROVE  Right(r)
<1>. PICK c, k, i : c = Now(r) /\ k = Here(r) /\ i = item[r]
  OBVIOUS
<1>. PICK v : v = Combine(c, partial[r], data[r][i + 1])
  OBVIOUS
<1>0. pc[r] = "scan" /\ pc[r] # "ready"
  BY DEF ScanNext
<1>1. /\ TypeOK /\ AtOK(r, c, pc[r], i) /\ i \in Nat /\ data[r] \in Seq(Result)
      /\ InHand(r, c, k, pc[r], data[r], i, partial[r])
      /\ LocalsOK(r, c.length, pc[r], data[r], i, cut[r])
  BY <1>0, InItsCall
<1>2. c.op = "scan" /\ ByCollect(c) /\ r = c.root /\ Len(data[r]) = N
  BY <1>0, <1>1 DEF AtOK, LocalsOK
<1>3. /\ partial[r] = FoldedTo(c, k, i, None)
      /\ \A j \in (i + 1)..N : data[r][j] = One(k, j - 1)
      /\ i > r => data[r][r + 1] = Combined(c, Contributions(c, k, r + 1), None)
  BY <1>0, <1>1, ScanHand DEF ScanHandOK
<1>4. N \in Nat /\ N > 0 /\ r \in 0..(N - 1) /\ i < N /\ i \in 0..(N - 1)
  BY <1>1, RankFacts DEF Rank, ScanNext
<1>5. v = FoldedTo(c, k, i + 1, None)
  <2>1. data[r][i + 1] = One(k, i)
    BY <1>3, <1>4
  <2>2. v = Combine(c, FoldedTo(c, k, i, None), One(k, i))
    BY <1>3, <2>1
  <2>. QED
    BY <1>2, <1>4, <2>2, FoldedNext
<1>6. v = Combined(c, Contributions(c, k, i + 1), None)
  BY <1>4, <1>5, FoldedAll
<1>7. partial' = [partial EXCEPT ![r] = v] /\ joined' = joined /\ returned' = returned
  BY DEF ScanNext
<1>8. partial'[r] = v
  BY <1>1, <1>7 DEF TypeOK
<1>9. CASE /\ i = r /\ data' = [data EXCEPT ![r][r + 1] = v]
           /\ item' = [item EXCEPT ![r] = @ + 1] /\ UNCHANGED <<pc, chan>>
  <2>. PICK objects : objects = [data[r] EXCEPT ![r + 1] = v]
    OBVIOUS
  <2>1. pc'[r] = "scan" /\ data'[r] = objects /\ item'[r] = i + 1
    BY <1>0, <1>1, <1>9 DEF TypeOK
  <2>2. objects[r + 1] = v /\ \A j \in (i + 2)..N : objects[j] = data[r][j]
    BY <1>1, <1>2, <1>4, <1>9
  <2>3. i + 1 <= N /\ \A j \in ((i + 1) + 1)..N : objects[j] = One(k, j - 1)
    BY <1>3, <1>4, <2>2
  <2>4. InHand(r, c, k, "scan", objects, i + 1, v)
    <3>1. PICK n : n = i + 1
      OBVIOUS
    <3>2. ScanHandOK(r, c, k, objects, n, v, n)
      BY <1>5, <1>6, <1>9, <2>2, <2>3, <3>1 DEF ScanHandOK
    <3>3. InHand(r, c, k, "scan", objects, n, v)
      BY ONLY <3>2, ScanHand, r \in Rank
    <3>. QED
      BY <3>1, <3>3
  <2>5. Keeps(r, "scan", objects, i + 1, v)
    BY <1>7, <1>8, <2>1, <2>4 DEF Keeps
  <2>. QED
    BY <1>7, <1>9, <2>5 DEF Right, ChanRight, LogRight, DoneRight
<1>10. CASE /\ i # r /\ Send(r, i, CollectTag, v) /\ Go(r, "scanSend") /\ UNCHANGED <<data, item>>
  <2>1. pc'[r] = "scanSend" /\ data'[r] = data[r] /\ item'[r] = i
    BY <1>1, <1>10 DEF TypeOK, Go
  <2>2. i + 1 <= N /\ \A j \in ((i + 1) + 1)..N : data[r][j] = One(k, j - 1)
    BY <1>3, <1>4
  <2>3. InHand(r, c, k, "scanSend", data[r], i, v)
    BY <1>3, <1>5, <1>10, <2>2, ScanHand DEF ScanHandOK
  <2>4. Keeps(r, "scanSend", data[r], i, v)
    BY <1>7, <1>8, <2>1, <2>3 DEF Keeps
  <2>5. Carried(c, k, r, i) = v
    BY <1>2, <1>6, <1>10, CarriedBy
  <2>6. ChanRight(r)
    BY <1>4, <1>10, <2>5 DEF ChanRight, Rank
  <2>. QED
    BY <1>7, <2>4, <2>6 DEF Right, LogRight, DoneRight
<1>. QED
  BY <1>9, <1>10 DEF ScanNext

LEMMA ScanRight ==
    ASSUME ResultsInv, NEW r \in Rank, NEW early, ScanSent(r, early) \/ ScanDone(r) \/ ScanRecv(r)
    PROVE  Right(r)
<1>. PICK c, k, i : c = Now(r) /\ k = Here(r) /\ i = item[r]
  OBVIOUS
<1>0. pc[r] \in {"scan", "scanSend", "scanRecv"} /\ pc[r] # "ready"
  BY DEF ScanSent, ScanDone, ScanRecv
<1>1. /\ TypeOK /\ Root(r) \in Rank /\ c.root \in Rank /\ RootOf(c) = Root(r)
      /\ (c.op # "allgather" => Root(r) = c.root)
      /\ AtOK(r, c, pc[r], i) /\ i \in Nat
      /\ InHand(r, c, k, pc[r], data[r], i, partial[r])
  BY <1>0, InItsCall DEF Sound
<1>2. c.op = "scan" /\ ByCollect(c)
  BY <1>0, <1>1 DEF AtOK
<1>3. N \in Nat /\ N > 0 /\ r \in 0..(N - 1)
  BY RankFacts DEF Rank
<1>4. Computed(c, k, r) = Combined(c, Contributions(c, k, r + 1), None)
  BY <1>1, <1>2, Promises
<1>5. CASE ScanSent(r, early)
  <2>1. /\ pc[r] = "scanSend" /\ item' = [item EXCEPT ![r] = @ + 1] /\ Go(r, "scan")
        /\ UNCHANGED <<data, partial, chan, joined, returned>>
    BY <1>5 DEF ScanSent
  <2>2. pc'[r] = "scan" /\ data'[r] = data[r] /\ item'[r] = i + 1 /\ partial'[r] = partial[r]
    BY <1>1, <2>1 DEF TypeOK, Go
  <2>3. /\ i + 1 <= N /\ partial[r] = FoldedTo(c, k, i + 1, None) /\ i # r
        /\ \A j \in ((i + 1) + 1)..N : data[r][j] = One(k, j - 1)
        /\ i > r => data[r][r + 1] = Combined(c, Contributions(c, k, r + 1), None)
    BY <1>1, <2>1, ScanHand DEF ScanHandOK
  <2>4. i + 1 > r => i > r
    BY <1>1, <1>3, <2>3
  <2>5. InHand(r, c, k, "scan", data[r], i + 1, partial[r])
    BY <2>3, <2>4, ScanHand DEF ScanHandOK
  <2>6. Keeps(r, "scan", data[r], i + 1, partial[r])
    BY <2>1, <2>2, <2>5 DEF Keeps
  <2>. QED
    BY <2>1, <2>6 DEF Right, ChanRight, LogRight, DoneRight
<1>6. CASE ScanDone(r)
  <2>1. pc[r] = "scan" /\ i = N /\ Return(r, data[r][r + 1]) /\ chan' = chan /\ joined' = joined
    BY <1>6 DEF ScanDone
  <2>2. i > r
    BY <1>3, <2>1
  <2>3. data[r][r + 1] = Computed(c, k, r)
    BY <1>1, <1>4, <2>1, <2>2, ScanHand DEF ScanHandOK
  <2>. QED
    BY <2>1, <2>3, ReturnRight
<1>7. CASE ScanRecv(r)
  <2>. PICK s : s = Root(r)
    OBVIOUS
  <2>1. /\ pc[r] = "scanRecv" /\ joined' = joined
        /\ \E n \in 1..Len(chan[s][r]) : Receive(s, r, n, CollectTag) /\ Return(r, chan[s][r][n].val)
    BY <1>7 DEF ScanRecv
  <2>2. PICK n \in 1..Len(chan[s][r]) : Receive(s, r, n, CollectTag) /\ Return(r, chan[s][r][n].val)
    BY <2>1
  <2>3. r # c.root
    BY <1>1, <2>1 DEF AtOK
  <2>4. Edge(c, s, r) /\ CollectTag \in {TagOf(c), ANY_TAG}
    BY <1>1, <1>2, <2>3, CollectEdges
  <2>5. ~ReceivedIn(s, r)
    BY <2>1 DEF ReceivedIn
  <2>6. chan[s][r][n].val = Carried(c, k, s, r)
    BY <1>0, <1>1, <2>2, <2>4, <2>5, GotRight
  <2>7. Carried(c, k, s, r) = Computed(c, k, r)
    BY <1>2, <1>4, <2>3, CarriedBy
  <2>8. DoneRight(r)
    BY <2>2, <2>6, <2>7 DEF DoneRight
  <2>. QED
    BY <1>1, <2>1, <2>2, <2>8, ReceivedRight
<1>. QED
  BY <1>5, <1>6, <1>7

(***************************************************************************)
(* The program's own messages.                                             *)
(***************************************************************************)
LEMMA CallMessageRight ==
    ASSUME ResultsInv, NEW r \in Rank, CallMessage(r)
    PROVE  Right(r)
<1>. PICK c, k : c = Now(r) /\ k = Here(r)
  OBVIOUS
<1>1. Begin(r, {"message"}) /\ UNCHANGED <<joined, returned>>
  BY DEF CallMessage
<1>2. TypeOK /\ Here(r) \in 1..Len(program) /\ c.op = "message"
  BY <1>1, Outside
<1>3. c.dest \in Rank
  BY <1>2, MessageRanks
<1>4. /\ pc'[r] \in {"messageSend", "messageRecv"}
      /\ chan' = chan \/ Send(r, c.dest, ScatterTag, Own(r))
  BY <1>2 DEF CallMessage, Go, TypeOK
<1>5. Carried(c, k, r, c.dest) = Own(r)
  BY <1>2, CarriedBy DEF Own
<1>6. ChanRight(r)
  BY <1>3, <1>4, <1>5 DEF ChanRight
<1>7. DoneRight(r)
  BY <1>1, <1>4, EmptyHand DEF EmptyPC
<1>. QED
  BY <1>1, <1>6, <1>7 DEF Right, LogRight

LEMMA MessagesEndRight ==
    ASSUME ResultsInv, NEW r \in Rank, NEW early, MessageSent(r, early) \/ MessageReceived(r)
    PROVE  Right(r)
<1>. PICK c, k : c = Now(r) /\ k = Here(r)
  OBVIOUS
<1>0. pc[r] \in {"messageSend", "messageRecv"} /\ pc[r] # "ready"
  BY DEF MessageSent, MessageReceived
<1>1. /\ TypeOK /\ Here(r) \in 1..Len(program) /\ AtOK(r, c, pc[r], item[r])
  BY <1>0, InItsCall
<1>2. c.op = "message"
  BY <1>0, <1>1 DEF AtOK
<1>3. c.root \in Rank /\ c.dest # c.root /\ Root(r) = c.root
  BY <1>1, <1>2, MessageRanks
<1>4. Computed(c, k, r) = IF r = c.dest THEN One(k, c.root) ELSE None
  BY <1>2, <1>3, Promises
<1>5. CASE MessageSent(r, early)
  <2>1. pc[r] = "messageSend" /\ Return(r, None) /\ chan' = chan /\ joined' = joined
    BY <1>5 DEF MessageSent
  <2>2. r # c.dest
    BY <1>1, <1>3, <2>1 DEF AtOK
  <2>. QED
    BY <1>4, <2>1, <2>2, ReturnRight
<1>6. CASE MessageReceived(r)
  <2>. PICK s : s = Root(r)
    OBVIOUS
  <2>1. /\ pc[r] = "messageRecv" /\ joined' = joined
        /\ \E n \in 1..Len(chan[s][r]) : Receive(s, r, n, ANY_TAG) /\ Return(r, chan[s][r][n].val)
    BY <1>6 DEF MessageReceived
  <2>2. PICK n \in 1..Len(chan[s][r]) : Receive(s, r, n, ANY_TAG) /\ Return(r, chan[s][r][n].val)
    BY <2>1
  <2>3. r = c.dest
    BY <1>1, <2>1 DEF AtOK
  <2>4. Edge(c, s, r)
    BY <1>2, <1>3, <2>3, MessageEdges
  <2>5. ~ReceivedIn(s, r)
    BY <2>1 DEF ReceivedIn
  <2>6. chan[s][r][n].val = Carried(c, k, s, r)
    BY <1>0, <1>3, <2>2, <2>4, <2>5, GotRight
  <2>7. Carried(c, k, s, r) = Computed(c, k, r)
    BY <1>2, <1>3, <1>4, <2>3, CarriedBy
  <2>8. DoneRight(r)
    BY <2>2, <2>6, <2>7 DEF DoneRight
  <2>. QED
    BY <1>3, <2>1, <2>2, <2>8, ReceivedRight
<1>. QED
  BY <1>5, <1>6

(***************************************************************************)
(* Tree order.                                                             *)
(***************************************************************************)
LEMMA TreeHand ==
    ASSUME NEW r, NEW c, NEW k, NEW where \in {"tree", "treeSend"}, NEW objects, NEW i, NEW v
    PROVE  InHand(r, c, k, where, objects, i, v) <=> objects[1] = Block(c, k, Number(c, r), i)
BY DEF InHand

LEMMA NoneRaised ==
    ASSUME NoTreeRaises, TypeOK, NEW r \in Rank, Here(r) \in 1..Len(program),
           Now(r).op \in Reduction, UsesTree(Now(r))
    PROVE  Now(r).bad = {}
<1>1. PICK p, k : p = program /\ k = Here(r)
  OBVIOUS
<1>2. p \in Programs /\ k \in 1..Len(p) /\ Now(r) = p[k]
  BY <1>1 DEF TypeOK, Now
<1>. QED
  BY <1>2 DEF NoTreeRaises

\* In the loop, or past it, r has its block.
LEMMA InTree ==
    ASSUME NoTreeRaises, ResultsInv, NEW r \in Rank, pc[r] \in {"tree", "treeSend"}
    PROVE  /\ TypeOK /\ Here(r) \in 1..Len(program) /\ Now(r).root \in Rank
           /\ Root(r) = Now(r).root /\ RootOf(Now(r)) = Root(r)
           /\ Now(r).op \in Reduction /\ UsesTree(Now(r)) /\ Now(r).bad = {}
           /\ item[r] \in Pow2 /\ item[r] \in Nat /\ item[r] > 0
           /\ Number(Now(r), r) \in Rank /\ Multiple(Number(Now(r), r), item[r])
           /\ pc[r] = "treeSend" => ~Multiple(Number(Now(r), r), 2 * item[r])
           /\ data[r][1] = Block(Now(r), Here(r), Number(Now(r), r), item[r])
<1>. PICK c, k : c = Now(r) /\ k = Here(r)
  OBVIOUS
<1>1. /\ TypeOK /\ Here(r) \in 1..Len(program) /\ c.root \in Rank /\ Root(r) \in Rank
      /\ RootOf(c) = Root(r) /\ (c.op # "allgather" => Root(r) = c.root)
      /\ AtOK(r, c, pc[r], item[r])
      /\ InHand(r, c, k, pc[r], data[r], item[r], partial[r])
  BY InItsCall DEF Sound
<1>2. /\ c.op \in Reduction /\ UsesTree(c) /\ item[r] \in Pow2 /\ Multiple(Number(c, r), item[r])
      /\ pc[r] = "treeSend" => ~Multiple(Number(c, r), 2 * item[r])
  BY <1>1 DEF AtOK
<1>3. item[r] \in Nat /\ item[r] > 0
  BY <1>2, Pow2Doubling
<1>4. c.op # "allgather"
  BY <1>2 DEF Reduction
<1>5. c.bad = {}
  BY <1>1, <1>2, NoneRaised
<1>6. Number(c, r) \in Rank
  BY <1>1, Numbers
<1>7. data[r][1] = Block(c, k, Number(c, r), item[r])
  BY <1>1, TreeHand
<1>. QED
  BY <1>1, <1>2, <1>3, <1>4, <1>5, <1>6, <1>7

LEMMA CallTreeRight ==
    ASSUME ResultsInv, NEW r \in Rank, CallTree(r)
    PROVE  Right(r)
<1>. PICK c, k : c = Now(r) /\ k = Here(r)
  OBVIOUS
<1>1. /\ Begin(r, Reduction) /\ Root(r) \in Rank
      /\ data' = [data EXCEPT ![r] = <<Own(r)>>] /\ item' = [item EXCEPT ![r] = 1] /\ Go(r, "tree")
      /\ UNCHANGED <<partial, chan, joined, returned>>
  BY DEF CallTree, Valid
<1>2. TypeOK /\ c.op \in Reduction /\ (c.op # "allgather" => Root(r) = c.root)
  BY <1>1, Outside
<1>3. c.op # "allgather" /\ c.root \in Rank
  BY <1>1, <1>2 DEF Reduction
<1>4. pc'[r] = "tree" /\ data'[r] = <<Own(r)>> /\ item'[r] = 1 /\ partial'[r] = partial[r]
  BY <1>1, <1>2 DEF TypeOK, Go
<1>5. <<Own(r)>>[1] = Block(c, k, Number(c, r), 1)
  BY <1>3, BlockOne DEF Own
<1>6. InHand(r, c, k, "tree", <<Own(r)>>, 1, partial[r])
  BY <1>5, TreeHand
<1>7. Keeps(r, "tree", <<Own(r)>>, 1, partial[r])
  BY <1>1, <1>4, <1>6 DEF Keeps
<1>. QED
  BY <1>1, <1>7 DEF Right, ChanRight, LogRight, DoneRight

LEMMA TreeSendRight ==
    ASSUME NoTreeRaises, ResultsInv, NEW r \in Rank, TreeSend(r)
    PROVE  Right(r)
<1>. PICK c, k, i, w, p : /\ c = Now(r) /\ k = Here(r) /\ i = item[r] /\ w = Number(c, r)
                          /\ p = TreeParent(r)
  OBVIOUS
<1>0. /\ pc[r] = "tree" /\ Sends(r) /\ Send(r, p, TreeTag, data[r][1]) /\ Go(r, "treeSend")
      /\ UNCHANGED <<data, item, partial, joined, returned>>
  BY DEF TreeSend
<1>1. /\ TypeOK /\ c.root \in Rank /\ Root(r) = c.root /\ RootOf(c) = Root(r)
      /\ c.op \in Reduction /\ UsesTree(c) /\ i \in Nat /\ i > 0 /\ w \in Rank /\ Multiple(w, i)
      /\ data[r][1] = Block(c, k, w, i)
  BY <1>0, InTree
<1>2. ~Multiple(w, 2 * i) /\ w = Wrapped(r)
  BY <1>0, TreeLoop DEF ResultsInv, MatchInv, AwaitInv
<1>3. w \in Nat /\ N \in Nat /\ w < N
  BY <1>1, RankFacts DEF Rank
<1>4. w >= i /\ w - i \in Nat
  BY <1>1, <1>2, <1>3, OddDifference
<1>5. w - i \in Rank
  BY <1>1, <1>3, <1>4 DEF Rank
<1>6. p = ((w - i) + RootOf(c)) % N
  BY <1>1, <1>2 DEF TreeParent, Unwrapped
<1>7. p \in Rank /\ Number(c, p) = w - i
  BY <1>1, <1>5, <1>6, Numbers
<1>8. w - Number(c, p) = i
  BY <1>1, <1>3, <1>7
<1>9. Carried(c, k, r, p) = data[r][1]
  BY <1>1, <1>8, CarriedBy
<1>10. pc'[r] = "treeSend" /\ data'[r] = data[r] /\ item'[r] = i /\ partial'[r] = partial[r]
  BY <1>0, <1>1 DEF TypeOK, Go
<1>11. InHand(r, c, k, "treeSend", data[r], i, partial[r])
  BY <1>1, TreeHand
<1>12. Keeps(r, "treeSend", data[r], i, partial[r])
  BY <1>0, <1>10, <1>11 DEF Keeps
<1>13. ChanRight(r)
  BY <1>0, <1>7, <1>9 DEF ChanRight
<1>. QED
  BY <1>0, <1>12, <1>13 DEF Right, LogRight, DoneRight

LEMMA NextRoundRight ==
    ASSUME TypeOK, NEW r \in Rank, pc[r] = "tree", pc' = pc, NextRound(r), returned' = returned,
           NEW objects, data'[r] = objects,
           objects[1] = Block(Now(r), Here(r), Number(Now(r), r), 2 * item[r])
    PROVE  DoneRight(r)
<1>. PICK v : v = partial'[r]
  OBVIOUS
<1>1. pc'[r] = "tree" /\ item'[r] = 2 * item[r]
  BY DEF TypeOK, NextRound
<1>2. InHand(r, Now(r), Here(r), "tree", objects, 2 * item[r], v)
  BY TreeHand
<1>3. Keeps(r, "tree", objects, 2 * item[r], v)
  BY <1>1, <1>2 DEF Keeps
<1>. QED
  BY <1>3 DEF DoneRight

LEMMA TreeReceiveRight ==
    ASSUME NoTreeRaises, ResultsInv, NEW r \in Rank, TreeReceive(r)
    PROVE  Right(r)
<1>. PICK c, k, m, w, s : /\ c = Now(r) /\ k = Here(r) /\ m = item[r] /\ w = Number(c, r)
                          /\ s = TreeChild(r)
  OBVIOUS
<1>0. pc[r] = "tree" /\ pc[r] # "ready" /\ ~Sends(r) /\ HasChild(r) /\ joined' = joined
  BY DEF TreeReceive
<1>1. /\ TypeOK /\ c.root \in Rank /\ Root(r) = c.root /\ RootOf(c) = Root(r) /\ c.bad = {}
      /\ c.op \in Reduction /\ UsesTree(c) /\ m \in Nat /\ m > 0 /\ w \in Rank
      /\ data[r][1] = Block(c, k, w, m)
  BY <1>0, InTree
<1>2. /\ Multiple(w, 2 * m) /\ w = Wrapped(r) /\ InRound(c, r, m) /\ TagOf(c) = TreeTag
      /\ \A a, b : Edge(c, a, b) <=> a # b /\ TreeEdge(c, a, b)
      /\ \A q \in Rank : ReceivedIn(q, r) <=> Number(c, q) < w + m
  BY <1>0, TreeLoop DEF ResultsInv, MatchInv, AwaitInv
<1>3. w + m < N
  BY <1>0, <1>2 DEF HasChild
<1>4. s = (w + m + RootOf(c)) % N
  BY <1>1, <1>2 DEF TreeChild, Unwrapped
<1>5. s \in Rank /\ s # r /\ TreeEdge(c, s, r) /\ Number(c, s) = w + m
  <2>1. /\ InRound(c, r, m) /\ Multiple(Number(c, r), 2 * m) /\ Number(c, r) + m < N
        /\ s = (Number(c, r) + m + RootOf(c)) % N
    BY <1>2, <1>3, <1>4
  <2>2. s \in Rank /\ s # r /\ TreeEdge(c, s, r) /\ Number(c, s) = Number(c, r) + m
    BY ONLY <2>1, ChildEdge
  <2>. QED
    BY <2>2
<1>6. w \in Nat
  BY <1>1, RankFacts
<1>7. Edge(c, s, r) /\ ~ReceivedIn(s, r) /\ TreeTag \in {TagOf(c), ANY_TAG}
  BY <1>1, <1>2, <1>5, <1>6
<1>8. PICK i \in 1..Len(chan[s][r]) :
          /\ Receive(s, r, i, TreeTag)
          /\ LET v == Apply(Now(r), data[r][1], chan[s][r][i].val)
             IN  \/ /\ v = Raised
                    /\ Return(r, Raised)
                 \/ /\ v # Raised
                    /\ data' = [data EXCEPT ![r] = <<v>>]
                    /\ NextRound(r)
                    /\ UNCHANGED <<pc, partial, cut, returned>>
  BY DEF TreeReceive
<1>9. chan[s][r][i].val = Carried(c, k, s, r)
  BY <1>0, <1>5, <1>7, <1>8, GotRight
<1>10. Number(c, s) - Number(c, r) = m
  BY <1>1, <1>5, <1>6
<1>11. chan[s][r][i].val = Block(c, k, w + m, m)
  BY <1>1, <1>5, <1>9, <1>10, CarriedBy
<1>12. Apply(c, Block(c, k, w, m), Block(c, k, w + m, m)) = Block(c, k, w, 2 * m)
  BY <1>1, <1>3, BlocksMeet
<1>13. Block(c, k, w, 2 * m) # Raised
  BY DEF Block, Value, Raised
<1>14. /\ data' = [data EXCEPT ![r] = <<Block(c, k, w, 2 * m)>>] /\ NextRound(r)
       /\ UNCHANGED <<pc, returned>>
  BY <1>1, <1>8, <1>11, <1>12, <1>13
<1>15. data'[r] = <<Block(c, k, w, 2 * m)>> /\ <<Block(c, k, w, 2 * m)>>[1] = Block(c, k, w, 2 * m)
  BY <1>1, <1>14 DEF TypeOK
<1>16. DoneRight(r)
  BY <1>0, <1>1, <1>14, <1>15, NextRoundRight
<1>. QED
  BY <1>0, <1>5, <1>8, <1>16, ReceivedRight

LEMMA TreeOrphanRight ==
    ASSUME NoTreeRaises, ResultsInv, NEW r \in Rank, TreeOrphan(r)
    PROVE  Right(r)
<1>. PICK c, k, m, w : c = Now(r) /\ k = Here(r) /\ m = item[r] /\ w = Number(c, r)
  OBVIOUS
<1>0. /\ pc[r] = "tree" /\ ~HasChild(r) /\ NextRound(r)
      /\ UNCHANGED <<pc, data, chan, joined, returned>>
  BY DEF TreeOrphan
<1>1. TypeOK /\ m \in Nat /\ w \in Rank /\ data[r][1] = Block(c, k, w, m)
  BY <1>0, InTree
<1>2. w = Wrapped(r)
  BY <1>0, TreeLoop DEF ResultsInv, MatchInv, AwaitInv
<1>3. w \in Nat /\ N \in Nat /\ ~(w + m < N)
  BY <1>0, <1>1, <1>2, RankFacts DEF HasChild
<1>4. w + m >= N
  BY <1>1, <1>3
<1>5. Block(c, k, w, m) = Block(c, k, w, 2 * m)
  BY <1>1, <1>4, BlockEnds
<1>6. DoneRight(r)
  BY <1>0, <1>1, <1>5, NextRoundRight
<1>. QED
  BY <1>0, <1>6 DEF Right, ChanRight, LogRight

LEMMA TreeDoneRight ==
    ASSUME NoTreeRaises, ResultsInv, NEW r \in Rank, NEW early, TreeDone(r, early)
    PROVE  Right(r)
<1>. PICK c, k, m, w : c = Now(r) /\ k = Here(r) /\ m = item[r] /\ w = Number(c, r)
  OBVIOUS
<1>0. pc[r] \in {"tree", "treeSend"} /\ (pc[r] = "tree" => m >= N)
  BY DEF TreeDone
<1>1. /\ TypeOK /\ c.root \in Rank /\ Root(r) = c.root /\ RootOf(c) = Root(r) /\ c.bad = {}
      /\ UsesTree(c) /\ m \in Nat /\ (pc[r] = "treeSend" => ~Multiple(w, 2 * m))
      /\ data[r][1] = Block(c, k, w, m)
  BY <1>0, InTree
<1>2. ASSUME IsRoot(r)
      PROVE  data[r][1] = Value(AllInTurn(c, k))
  <2>1. r = c.root /\ N \in Nat /\ N > 0 /\ r \in Nat
    BY <1>1, <1>2, RankFacts DEF IsRoot
  <2>2. w = (r + N - r) % N
    BY <1>1, <2>1 DEF Number
  <2>3. w = N % N
    BY <2>1, <2>2
  <2>4. w = 0
    BY <2>1, <2>3, Wraps
  <2>5. pc[r] # "treeSend"
    <3>1. 2 * m \in Nat
      BY <1>1
    <3>. QED
      BY <1>1, <2>4, <3>1, MultipleFacts
  <2>6. m >= N
    BY <1>0, <2>5
  <2>. QED
    BY <1>1, <2>4, <2>6, BlockAll
<1>3. CASE /\ c.op = "reduce" /\ Return(r, IF IsRoot(r) THEN data[r][1] ELSE None)
           /\ UNCHANGED <<program, chan, joined>>
  <2>1. Computed(c, k, r) = IF r = c.root THEN Combined(c, AllInTurn(c, k), Raised) ELSE None
    BY <1>1, <1>3, Promises
  <2>2. Combined(c, AllInTurn(c, k), Raised) = Value(AllInTurn(c, k))
    BY <1>1, FoldedAlike
  <2>3. Computed(c, k, r) = IF IsRoot(r) THEN data[r][1] ELSE None
    BY <1>1, <1>2, <2>1, <2>2 DEF IsRoot
  <2>. QED
    BY <1>3, <2>3, ReturnRight
<1>4. CASE c.op = "allreduce" /\ StartBcast(r, data[r][1])
  <2>1. Published(c, k) = Combined(c, AllInTurn(c, k), ErrorType)
    BY <1>4 DEF Published
  <2>2. Published(c, k) = Value(AllInTurn(c, k))
    BY <1>1, <2>1, FoldedAlike
  <2>. QED
    BY <1>1, <1>2, <1>4, <2>2, BcastRight
<1>. QED
  BY <1>3, <1>4 DEF TreeDone

-----------------------------------------------------------------------------
(***************************************************************************)
(* Every step, and so every behaviour.                                     *)
(***************************************************************************)
LEMMA CallsRight ==
    ASSUME ResultsInv, NEW r \in Rank, Calls(r)
    PROVE  Right(r)
<1>1. CASE \/ RejectRoot(r) \/ CallBarrier(r) \/ CallBcast(r) \/ CallGather(r) \/ CallNative(r)
           \/ Bystander(r)
  BY <1>1, BeginningsRight
<1>2. CASE CallScatter(r)
  BY <1>2, CallScatterRight
<1>3. CASE CallReduce(r)
  BY <1>3, CallReduceRight
<1>4. CASE CallTree(r)
  BY <1>4, CallTreeRight
<1>5. CASE CallMessage(r)
  BY <1>5, CallMessageRight
<1>. QED
  BY <1>1, <1>2, <1>3, <1>4, <1>5 DEF Calls

LEMMA StepRight ==
    ASSUME NoneCutShort, NoTreeRaises, ResultsInv, NEW r \in Rank, NEW early \in BOOLEAN,
           Step(r, early)
    PROVE  Right(r)
<1>1. CASE Calls(r)
  BY <1>1, CallsRight
<1>2. CASE BarrierDone(r) \/ BcastDone(r, early) \/ BcastBodyDone(r, early)
  BY <1>2, BarrierAndBcastRight
<1>3. CASE GatherDone(r, early) \/ GatherBodyDone(r, early) \/ Catenate(r) \/ GatherEnds(r)
  BY <1>3, GatherRight
<1>4. CASE \/ ScatterKeep(r) \/ ScatterSend(r) \/ ScatterSent(r, early)
           \/ ScatterDone(r) \/ ScatterRecv(r)
  BY <1>4, ScatterRight
<1>5. CASE NativeDone(r, early)
  BY <1>5, NativeRight
<1>6. CASE Fold(r) \/ FoldDone(r)
  BY <1>6, FoldStepRight
<1>7. CASE CollectFrom(r) \/ CollectOwn(r)
  BY <1>7, CollectRight
<1>8. CASE CollectSent(r, early)
  BY <1>8, CollectSentRight
<1>9. CASE Collected(r)
  BY <1>9, CollectedRight
<1>10. CASE ScanNext(r)
  BY <1>10, ScanNextRight
<1>11. CASE ScanSent(r, early) \/ ScanDone(r) \/ ScanRecv(r)
  BY <1>11, ScanRight
<1>12. CASE TreeSend(r)
  BY <1>12, TreeSendRight
<1>13. CASE TreeReceive(r)
  BY <1>13, TreeReceiveRight
<1>14. CASE TreeOrphan(r)
  BY <1>14, TreeOrphanRight
<1>15. CASE TreeDone(r, early)
  BY <1>15, TreeDoneRight
<1>16. CASE MessageSent(r, early) \/ MessageReceived(r)
  BY <1>16, MessagesEndRight
<1>. QED
  BY <1>1, <1>2, <1>3, <1>4, <1>5, <1>6, <1>7, <1>8, <1>9, <1>10, <1>11, <1>12, <1>13, <1>14,
     <1>15, <1>16 DEF Step

\* A rank that takes a step has a call to make or is in one.
LEMMA HasCall ==
    ASSUME IInv, NEW r \in Rank, NEW early \in BOOLEAN, Step(r, early)
    PROVE  Len(returned[r]) < Len(program)
<1>1. pc[r] # "ready" => Len(returned[r]) < Len(program)
  BY DEF IInv, LocalOK
<1>2. CASE Calls(r)
  BY <1>2 DEF Calls, RejectRoot, CallBarrier, CallBcast, CallGather, CallScatter, CallNative,
              CallReduce, CallTree, Bystander, CallMessage, Begin
<1>3. CASE ~Calls(r)
  <2>1. pc[r] # "ready"
    BY <1>3 DEF Step, BarrierDone, BcastDone, BcastBodyDone, GatherDone, GatherBodyDone,
                Catenate, GatherEnds, ScatterKeep, ScatterSend, ScatterSent, ScatterDone,
                ScatterRecv, NativeDone, Fold, FoldDone, CollectFrom, CollectOwn, CollectSent,
                Collected, ScanNext, ScanSent, ScanDone, ScanRecv, TreeSend, TreeReceive,
                TreeOrphan, TreeDone, MessageSent, MessageReceived
  <2>. QED
    BY <1>1, <2>1
<1>. QED
  BY <1>2, <1>3

LEMMA NeverPast ==
    ASSUME IInv, NotPast, NEW r \in Rank, NEW early \in BOOLEAN, Step(r, early),
           DoneRight(r), TypeOK', Elsewhere(r), program' = program
    PROVE  NotPast'
<1>1. Len(returned[r]) < Len(program) /\ Len(returned[r]) \in Nat /\ Len(program) \in Nat
  <2>1. program \in Seq(Call) /\ returned[r] \in Seq(Result)
    BY CollectivesAssumption DEF IInv, TypeOK
  <2>. QED
    BY <2>1, HasCall, LenProperties
<1>2. \A q \in Rank \ {r} : returned'[q] = returned[q]
  BY DEF Elsewhere
<1>3. Len(returned'[r]) <= Len(returned[r]) + 1
  <2>1. CASE returned' = returned
    BY <1>1, <2>1
  <2>2. CASE Return(r, Computed(Now(r), Here(r), r))
    <3>1. PICK v : v = Computed(Now(r), Here(r), r)
      OBVIOUS
    <3>2. returned' = [returned EXCEPT ![r] = Append(@, v)] /\ returned[r] \in Seq(Result)
      BY <2>2, <3>1 DEF Return, IInv, TypeOK
    <3>3. returned'[r] = Append(returned[r], v)
      BY <3>2 DEF IInv, TypeOK
    <3>4. Len(Append(returned[r], v)) = Len(returned[r]) + 1
      BY ONLY <3>2
    <3>. QED
      BY <1>1, <3>3, <3>4
  <2>. QED
    BY <2>1, <2>2 DEF DoneRight, Keeps
<1>4. Len(returned'[r]) \in Nat
  BY LenProperties DEF TypeOK
<1>5. Len(returned'[r]) <= Len(program)
  BY <1>1, <1>3, <1>4
<1>. QED
  BY <1>2, <1>5 DEF NotPast

LEMMA InitNotPast == Init => NotPast
<1>. SUFFICES ASSUME Init PROVE NotPast
  OBVIOUS
<1>1. Len(program) \in Nat
  BY CollectivesAssumption DEF Init
<1>2. \A r \in Rank : returned[r] = <<>>
  BY DEF Init
<1>. QED
  BY <1>1, <1>2 DEF NotPast

LEMMA InitContents == Init => ContentsInv
<1>. SUFFICES ASSUME Init PROVE ContentsInv
  OBVIOUS
<1>1. MessagesRight /\ EntriesRight /\ ResultsComputed
  BY DEF Init, MessagesRight, EntriesRight, ResultsComputed
<1>2. ASSUME NEW r \in Rank
      PROVE  HandRight(r)
  <2>. PICK c, k : c = Now(r) /\ k = Here(r)
    OBVIOUS
  <2>1. pc[r] = "ready" /\ item[r] = 0 /\ partial[r] = Null
    BY DEF Init
  <2>2. InHand(r, c, k, pc[r], data[r], item[r], partial[r])
    BY <2>1 DEF InHand
  <2>. QED
    BY <2>2 DEF HandRight
<1>. QED
  BY <1>1, <1>2, InitNotPast DEF ContentsInv, HandsRight

LEMMA NextContents ==
    ASSUME NoneCutShort, NoTreeRaises, ResultsInv, [Next]_vars
    PROVE  ContentsInv'
<1>1. CASE UNCHANGED vars
  <2>1. /\ UNCHANGED <<program, pc, data, item, partial, chan, joined, returned>>
        /\ \A r \in Rank : Now(r)' = Now(r) /\ Here(r)' = Here(r)
    BY <1>1 DEF vars, Now, Here
  <2>2. MessagesRight' /\ EntriesRight' /\ ResultsComputed'
    BY <2>1 DEF ResultsInv, ContentsInv, MessagesRight, EntriesRight, ResultsComputed, MessageRight,
                EntryRight
  <2>3. HandsRight'
    BY <2>1 DEF ResultsInv, ContentsInv, HandsRight, HandRight
  <2>4. NotPast'
    BY <2>1 DEF ResultsInv, ContentsInv, NotPast
  <2>. QED
    BY <2>2, <2>3, <2>4 DEF ContentsInv
<1>2. CASE Next
  <2>1. PICK r \in Rank, early \in BOOLEAN : Step(r, early)
    BY <1>2 DEF Next
  <2>2. IInv /\ TypeOK /\ MessagesRight /\ EntriesRight /\ HandsRight /\ ResultsComputed /\ NotPast
    BY DEF ResultsInv, MatchInv, ContentsInv, IInv
  <2>3. Good(r)
    BY <2>1, <2>2, StepGood
  <2>4. TypeOK' /\ Elsewhere(r) /\ program' = program
    BY <2>3 DEF Good, Elsewhere
  <2>5. PartialStep(r)
    BY <2>1, <2>2, PartialElsewhere
  <2>6. ChanRight(r) /\ LogRight(r) /\ DoneRight(r)
    BY <2>1, StepRight DEF Right
  <2>7. RootOf(Now(r)) = Root(r)
    BY DEF RootOf, Root
  <2>8. MessagesRight'
    BY <2>2, <2>4, <2>6, KeepsMessages
  <2>9. EntriesRight'
    BY <2>2, <2>4, <2>6, <2>7, KeepsEntries
  <2>10. HandsRight' /\ ResultsComputed'
    BY <2>2, <2>4, <2>5, <2>6, KeepsHands
  <2>11. NotPast'
    BY <2>1, <2>2, <2>4, <2>6, NeverPast
  <2>. QED
    BY <2>8, <2>9, <2>10, <2>11 DEF ContentsInv
<1>. QED
  BY <1>1, <1>2

(***************************************************************************)
(* From what the calls compute to what they promise: the ranks from the    *)
(* root on are all ranks, each once.                                       *)
(***************************************************************************)
From(o, k) == [i \in 1..N |-> <<k, (o + i - 1) % N>>]
InOrder(k) == [i \in 1..N |-> <<k, i - 1>>]

LEMMA TurnedAround ==
    ASSUME NEW o \in Rank, NEW k
    PROVE  Len(From(o, k)) = Len(InOrder(k)) /\ ToSet(From(o, k)) = ToSet(InOrder(k))
<1>. PICK s : s = From(o, k)
  OBVIOUS
<1>. PICK t : t = InOrder(k)
  OBVIOUS
<1>0. s = [i \in 1..N |-> <<k, (o + i - 1) % N>>] /\ t = [i \in 1..N |-> <<k, i - 1>>]
  BY DEF From, InOrder
<1>1. N \in Nat /\ N > 0 /\ o \in Nat /\ o < N
  BY RankFacts DEF Rank
<1>2. Len(s) = N /\ Len(t) = N /\ DOMAIN s = 1..N /\ DOMAIN t = 1..N
  BY <1>0, <1>1
<1>3. ASSUME NEW i \in 1..N PROVE s[i] \in ToSet(t)
  <2>1. PICK x \in Nat : x = o + i - 1 /\ x < N + N
    BY <1>1
  <2>2. x % N = IF x < N THEN x ELSE x - N
    BY <2>1, Wraps
  <2>3. PICK j \in 1..N : j - 1 = IF x < N THEN x ELSE x - N
    <3>1. CASE x < N
      <4>1. x + 1 \in 1..N /\ (x + 1) - 1 = x
        BY <1>1, <2>1, <3>1
      <4>. QED
        BY <3>1, <4>1
    <3>2. CASE ~(x < N)
      <4>1. x - N + 1 \in 1..N /\ (x - N + 1) - 1 = x - N
        BY <1>1, <2>1, <3>2
      <4>. QED
        BY <3>2, <4>1
    <3>. QED
      BY <3>1, <3>2
  <2>4. s[i] = <<k, x % N>> /\ t[j] = <<k, j - 1>>
    BY <1>0, <2>1
  <2>5. s[i] = t[j]
    BY <2>2, <2>3, <2>4
  <2>. QED
    BY <1>2, <2>5 DEF ToSet
<1>4. ASSUME NEW j \in 1..N PROVE t[j] \in ToSet(s)
  <2>1. PICK i \in 1..N : i = IF j > o THEN j - o ELSE j - o + N
    <3>1. (j > o => j - o \in 1..N) /\ (~(j > o) => j - o + N \in 1..N)
      BY <1>1
    <3>. QED
      BY <3>1
  <2>2. PICK x \in Nat : x = o + i - 1 /\ x < N + N
    BY <1>1
  <2>3. x % N = IF x < N THEN x ELSE x - N
    BY <2>2, Wraps
  <2>4. x % N = j - 1
    BY <1>1, <2>1, <2>2, <2>3
  <2>5. t[j] = s[i]
    BY <1>0, <2>2, <2>4
  <2>. QED
    BY <1>2, <2>5 DEF ToSet
<1>5. \A e : e \in ToSet(s) <=> \E i \in 1..N : e = s[i]
  BY <1>2 DEF ToSet
<1>6. \A e : e \in ToSet(t) <=> \E i \in 1..N : e = t[i]
  BY <1>2 DEF ToSet
<1>7. ToSet(s) = ToSet(t)
  BY ONLY <1>3, <1>4, <1>5, <1>6
<1>. QED
  BY <1>2, <1>7

\* A call that computes what it promises, or the same in another order
Kept(c, k, r) ==
    LET v == Computed(c, k, r)
        w == Promised(c, k, r)
    IN  v = w \/ (Rotated(c) /\ Reordered(v, w))

LEMMA InTurnOrInOrder ==
    ASSUME NEW c \in Call, NEW k, NEW r \in Rank,
           UsesTree(c) => c.op \in Reduction /\ c.bad = {}
    PROVE  Kept(c, k, r)
<1>1. CASE ~Rotated(c)
  <2>1. AllInTurn(c, k) = AllOf(c, k)
    <3>1. CASE UsesTree(c)
      <4>1. c.root = 0 /\ ~c.ground /\ N \in Nat
        BY <1>1, <3>1, RankFacts DEF Rotated, UsesTree
      <4>2. Contributions(c, k, N) = [i \in 1..(N + Extra(c)) |-> <<k, i - 1 - Extra(c)>>]
        BY <4>1, Contributed
      <4>3. Extra(c) = 0 /\ N + 0 = N /\ \A i \in 1..N : i - 1 - 0 = i - 1
        BY <4>1 DEF Extra
      <4>4. \A i \in 1..N : (0 + i - 1) % N = i - 1
        BY <4>1
      <4>. QED
        BY <3>1, <4>1, <4>2, <4>3, <4>4 DEF AllInTurn, AllOf
    <3>. QED
      BY <3>1 DEF AllInTurn
  <2>2. Computed(c, k, r) = Promised(c, k, r)
    BY <2>1 DEF Computed, Promised
  <2>. QED
    BY <2>2 DEF Kept
<1>2. CASE Rotated(c) /\ c.root \notin Rank
  <2>1. Computed(c, k, r) = Raised /\ Promised(c, k, r) = Raised
    BY <1>2 DEF Computed, Promised
  <2>. QED
    BY <2>1 DEF Kept
<1>3. CASE Rotated(c) /\ c.root \in Rank
  <2>1. c.bad = {} /\ c.op \in {"reduce", "allreduce"} /\ ~c.ground /\ UsesTree(c)
    BY <1>3 DEF Rotated, UsesTree, Reduction
  <2>2. PICK s : s = [i \in 1..N |-> <<k, (c.root + i - 1) % N>>]
    OBVIOUS
  <2>3. PICK t : t = [i \in 1..N |-> <<k, i - 1>>]
    OBVIOUS
  <2>4. AllInTurn(c, k) = s
    BY <2>1, <2>2 DEF AllInTurn
  <2>5. AllOf(c, k) = t
    <3>1. Contributions(c, k, N) = [i \in 1..(N + Extra(c)) |-> <<k, i - 1 - Extra(c)>>]
      BY RankFacts, Contributed
    <3>2. Extra(c) = 0 /\ N + 0 = N /\ \A i \in 1..N : i - 1 - 0 = i - 1
      BY <2>1, RankFacts DEF Extra
    <3>. QED
      BY <2>3, <3>1, <3>2 DEF AllOf
  <2>6. \A x, y : Combined(c, x, y) = Value(x)
    BY <2>1 DEF Combined, RaisesOn
  <2>7. CASE c.op = "reduce" /\ r # c.root
    <3>1. Computed(c, k, r) = None /\ Promised(c, k, r) = None
      BY <1>3, <2>7 DEF Computed, Promised
    <3>. QED
      BY <3>1 DEF Kept
  <2>8. CASE c.op = "allreduce" \/ r = c.root
    <3>1. Computed(c, k, r) = Value(s)
      BY <1>3, <2>1, <2>4, <2>6, <2>8 DEF Computed
    <3>2. Promised(c, k, r) = Value(t)
      BY <1>3, <2>1, <2>5, <2>6, <2>8 DEF Promised
    <3>3. Len(s) = Len(t) /\ ToSet(s) = ToSet(t)
      <4>1. s = From(c.root, k) /\ t = InOrder(k)
        BY <2>2, <2>3 DEF From, InOrder
      <4>. QED
        BY <1>3, <4>1, TurnedAround
    <3>4. Reordered(Value(s), Value(t))
      BY <3>3 DEF Reordered, Value
    <3>. QED
      BY <1>3, <3>1, <3>2, <3>4 DEF Kept
  <2>. QED
    BY <2>1, <2>7, <2>8
<1>. QED
  BY <1>1, <1>2, <1>3

LEMMA ComputedIsRight ==
    ASSUME NoTreeRaises, TypeOK, ResultsComputed, NotPast
    PROVE  ResultsRight
<1>. SUFFICES ASSUME NEW r \in Rank, NEW k \in 1..Len(returned[r])
              PROVE  LET v == returned[r][k]
                         w == Promised(program[k], k, r)
                     IN  v = w \/ (Rotated(program[k]) /\ Reordered(v, w))
  BY DEF ResultsRight
<1>1. program \in Programs /\ k \in 1..Len(program)
  BY CollectivesAssumption DEF TypeOK, NotPast
<1>2. program[k] \in Call
  BY <1>1, CollectivesAssumption
<1>3. UsesTree(program[k]) => program[k].op \in Reduction /\ program[k].bad = {}
  BY <1>1, CollectivesAssumption DEF NoTreeRaises, UsesTree
<1>4. Kept(program[k], k, r)
  BY <1>2, <1>3, InTurnOrInOrder
<1>5. returned[r][k] = Computed(program[k], k, r)
  BY DEF ResultsComputed
<1>. QED
  BY <1>4, <1>5 DEF Kept

(***************************************************************************)
(* Every call of every rank returns what it promises: the object of the    *)
(* root of a bcast, the contributions of all ranks in rank order (those of *)
(* a tree rooted elsewhere: each once), a scatter's share, a scan's prefix *)
(* and, where an operator raises, what pyMPI_comm_collective.c makes of    *)
(* that, in any number of ranks however far one runs ahead of another.     *)
(* The hypotheses are about the programs: an exception that cuts allgather *)
(* or a reduction in tree order short leaves a rank without its part       *)
(* (pyMPI_comm_collective.c:503).                                          *)
(***************************************************************************)
THEOREM ResultsAlwaysRight ==
    ASSUME NoneCutShort, NoTreeRaises
    PROVE  Spec => []ResultsRight
<1>1. Init => ResultsInv
  BY InitMatch, InitAwaits, InitContents DEF ResultsInv
<1>2. ResultsInv /\ [Next]_vars => ResultsInv'
  <2>. SUFFICES ASSUME ResultsInv, [Next]_vars PROVE ResultsInv'
    OBVIOUS
  <2>1. MatchInv' /\ AwaitInv'
    BY NextMatch, NextAwaits DEF ResultsInv
  <2>2. ContentsInv'
    BY NextContents
  <2>. QED
    BY <2>1, <2>2 DEF ResultsInv
<1>3. ResultsInv => ResultsRight
  BY ComputedIsRight DEF ResultsInv, MatchInv, IInv, ContentsInv
<1>. QED
  BY <1>1, <1>2, <1>3, PTL DEF Spec
==============================================================================
