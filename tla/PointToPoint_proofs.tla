-------------------------- MODULE PointToPoint_proofs --------------------------
(***************************************************************************)
(* The inductive invariant IInv of PointToPoint, and what follows from it  *)
(* for any number of ranks, any objects, any programs and any MPI          *)
(* buffering.                                                              *)
(***************************************************************************)
EXTENDS PointToPoint, SequenceTheorems, TLAPS

(***************************************************************************)
(* pyMPI_unpack inverts pyMPI_pack: what a receive makes of the header and *)
(* the body of an object is the object, whatever its kind and its length,  *)
(* the empty string and the string that exactly fills the prefix included. *)
(***************************************************************************)
THEOREM RoundTrip ==
    ASSUME NEW o \in Object
    PROVE  Unpack(Header(o), IF Split(o) THEN o.bytes ELSE <<>>) = o
<1>1. o \in [kind : Kind, bytes : Seq(Byte)]
  BY ProtocolAssumption
<1>2. Len(o.bytes) \in Nat /\ (Len(o.bytes) = 0 => o.bytes = <<>>)
  BY <1>1, EmptySeq
<1>3. CASE InPayloadSlot(o)
  BY <1>1, <1>3 DEF Unpack, Header, Split, HasBody, InPayloadSlot
<1>4. CASE ~InPayloadSlot(o) /\ FitsPrefix(o)
  BY <1>1, <1>2, <1>4 DEF Unpack, Header, Split, HasBody, InPayloadSlot
<1>5. CASE ~InPayloadSlot(o) /\ ~FitsPrefix(o)
  <2>1. Len(o.bytes) # 0
    BY <1>2, <1>5, ProtocolAssumption DEF FitsPrefix
  <2>. QED
    BY <1>1, <1>5, <2>1 DEF Unpack, Header, Split, HasBody, InPayloadSlot
<1>. QED
  BY <1>3, <1>4, <1>5

-----------------------------------------------------------------------------
LEMMA PartAt ==
    ASSUME TypeOK, NEW s \in Rank, NEW d \in Rank
    PROVE  /\ wire[s][d] \in Seq(Part)
           /\ Len(wire[s][d]) \in Nat
           /\ \A i \in 1..Len(wire[s][d]) : wire[s][d][i] \in Part
           /\ taken[s][d] \subseteq 1..Len(wire[s][d])
BY ElementOfSeq, LenProperties DEF TypeOK

LEMMA DeliveryAt ==
    ASSUME TypeOK, NEW r \in Rank
    PROVE  /\ delivered[r] \in Seq(Delivery)
           /\ Len(delivered[r]) \in Nat
           /\ \A k \in 1..Len(delivered[r]) :
                 delivered[r][k].source \in Rank /\ delivered[r][k].index \in Nat
<1>1. delivered[r] \in Seq(Delivery)
  BY DEF TypeOK
<1>2. Len(delivered[r]) \in Nat
      /\ \A k \in 1..Len(delivered[r]) : delivered[r][k] \in Delivery
  BY <1>1, ElementOfSeq, LenProperties
<1>. QED
  BY <1>1, <1>2 DEF Delivery

\* What Post changes: message m is added to the log from r to d.
Appended(r, d, m) ==
    LET n == Len(wire[r][d]) + 1
    IN  /\ wire' \in [Rank -> [Rank -> Seq(Part)]]
        /\ n \in Nat /\ Len(wire'[r][d]) = n
        /\ wire'[r][d][n] = m
        /\ \A s, q \in Rank : \A i \in 1..Len(wire[s][q]) :
              i \in 1..Len(wire'[s][q]) /\ wire'[s][q][i] = wire[s][q][i]
        /\ \A s, q \in Rank : \A i \in 1..Len(wire'[s][q]) :
              i \in 1..Len(wire[s][q]) \/ (s = r /\ q = d /\ i = n)
        /\ \A s, q \in Rank : s # r \/ q # d => wire'[s][q] = wire[s][q]

LEMMA PostFacts ==
    ASSUME TypeOK, NEW r \in Rank, NEW c \in Call,
           NEW p \in {"header", "body"}, Post(r, c, p)
    PROVE  Appended(r, c.dest, [part |-> p, tag |-> c.sendtag, obj |-> c.obj])
<1>. DEFINE e == [part |-> p, tag |-> c.sendtag, obj |-> c.obj]
            W == wire[r][c.dest]
<1>0. c.dest \in Rank /\ c.sendtag \in Tag /\ c.obj \in Object
  BY DEF Call
<1>1. c.dest \in Rank /\ W \in Seq(Part) /\ e \in Part
  BY <1>0 DEF TypeOK, Part
<1>2. wire' = [wire EXCEPT ![r][c.dest] = Append(W, e)]
  BY DEF Post
<1>3. /\ Append(W, e) \in Seq(Part)
      /\ Len(Append(W, e)) = Len(W) + 1 /\ Len(W) \in Nat
      /\ Append(W, e)[Len(W) + 1] = e
      /\ \A i \in 1..Len(W) : Append(W, e)[i] = W[i]
  BY <1>1, AppendProperties, LenProperties
<1>4. wire' \in [Rank -> [Rank -> Seq(Part)]]
  BY <1>1, <1>2, <1>3 DEF TypeOK
<1>5. wire'[r][c.dest] = Append(W, e)
  BY <1>1, <1>2 DEF TypeOK
<1>6. \A s, d \in Rank : s # r \/ d # c.dest => wire'[s][d] = wire[s][d]
  BY <1>1, <1>2 DEF TypeOK
<1>7. \A s, d \in Rank : \A i \in 1..Len(wire[s][d]) :
          i \in 1..Len(wire'[s][d]) /\ wire'[s][d][i] = wire[s][d][i]
  <2>1. \A i \in 1..Len(W) : i \in 1..Len(wire'[r][c.dest])
                             /\ wire'[r][c.dest][i] = W[i]
    BY <1>3, <1>5
  <2>. QED
    BY <1>6, <2>1
<1>8. \A s, d \in Rank : \A i \in 1..Len(wire'[s][d]) :
          i \in 1..Len(wire[s][d]) \/ (s = r /\ d = c.dest /\ i = Len(W) + 1)
  BY <1>3, <1>5, <1>6
<1>9. Len(W) + 1 \in Nat /\ Len(wire'[r][c.dest]) = Len(W) + 1
      /\ wire'[r][c.dest][Len(W) + 1] = e
  BY <1>3, <1>5
<1>. QED
  BY <1>4, <1>6, <1>7, <1>8, <1>9 DEF Appended

-----------------------------------------------------------------------------
\* A receive that is not waiting for a body takes a header.
LEMMA HeaderComesFirst ==
    ASSUME TypeOK, WireInv, TakenInv, NEW r \in Rank, NEW s \in Rank,
           ~Holding(r), NEW source, NEW tag,
           NEW i \in 1..Len(wire[s][r]), CanTake(s, r, i, source, tag)
    PROVE  wire[s][r][i].part = "header"
<1>1. SUFFICES ASSUME wire[s][r][i].part = "body" PROVE FALSE
  BY PartAt DEF Part
<1>2. /\ i - 1 \in 1..Len(wire[s][r])
      /\ HasBodyAt(s, r, i - 1)
      /\ wire[s][r][i] = BodyOf(wire[s][r][i - 1])
  BY <1>1 DEF WireInv, HeaderPrecedes
<1>3. wire[s][r][i - 1].tag = wire[s][r][i].tag
  BY <1>2 DEF BodyOf
<1>4. i - 1 \in taken[s][r]
  <2>1. ~Matches(s, r, i - 1, source, tag)
    BY <1>2 DEF CanTake
  <2>. QED
    BY <1>2, <1>3, <2>1 DEF CanTake, Matches
<1>5. i \notin taken[s][r]
  BY DEF CanTake, Matches
<1>. QED
  BY <1>2, <1>4, <1>5 DEF TakenInv, OwedBodyIsHeld, Holds

\* A receive that waits for a body takes the message after the header it holds.
LEMMA BodyComesNext ==
    ASSUME TypeOK, WireInv, TakenInv, HeldInv, NEW r \in Rank, NEW s \in Rank,
           pc[r] = "recvBody", NEW i \in 1..Len(wire[s][r]),
           CanTake(s, r, i, ResolvedSource(r), ResolvedTag(r))
    PROVE  /\ s = held[r].source
           /\ i = held[r].index + 1
           /\ HasBodyAt(s, r, held[r].index)
           /\ wire[s][r][i] = BodyOf(wire[s][r][held[r].index])
<1>. DEFINE h == held[r].index
<1>1. /\ h \in taken[held[r].source][r]
      /\ HasBodyAt(held[r].source, r, h)
      /\ wire[held[r].source][r][h].tag = held[r].tag
      /\ h + 1 \notin taken[held[r].source][r]
      /\ ResolvedSource(r) = held[r].source
      /\ ResolvedTag(r) = held[r].tag
  BY DEF HeldInv, HeaderInHand, Holding, ResolvedSource, ResolvedTag
<1>2. held[r].source \in Rank /\ held[r].tag \in Tag /\ h \in Nat
  BY DEF TypeOK, Position
<1>3. s = held[r].source
  BY <1>1, <1>2, CallAssumption DEF CanTake, Matches
<1>4. /\ wire[s][r][i].tag = held[r].tag
      /\ i \notin taken[s][r]
  BY <1>1, <1>2, CallAssumption DEF CanTake, Matches
<1>5. h \in 1..Len(wire[s][r])
  BY <1>1, <1>2, <1>3 DEF TypeOK
<1>6. ~(i < h)
  BY <1>1, <1>3, <1>4, <1>5 DEF TakenInv, TakenInOrder
<1>7. i > h
  BY <1>1, <1>2, <1>3, <1>4, <1>6
<1>8. /\ h + 1 \in 1..Len(wire[s][r])
      /\ wire[s][r][h + 1] = BodyOf(wire[s][r][h])
  <2>1. Len(wire[s][r]) \in Nat /\ h # Len(wire[s][r])
    BY <1>2, <1>7, PartAt
  <2>. QED
    <3>1. \A j \in 1..Len(wire[s][r]) : HasBodyAt(s, r, j) /\ j # Len(wire[s][r]) =>
               j + 1 \in 1..Len(wire[s][r]) /\ wire[s][r][j + 1] = BodyOf(wire[s][r][j])
      BY <1>1 DEF WireInv, BodyFollows
    <3>. QED
      BY <1>1, <1>3, <1>5, <2>1, <3>1
<1>9. wire[s][r][h + 1].tag = held[r].tag
  BY <1>1, <1>3, <1>8 DEF BodyOf
<1>10. ~(h + 1 < i)
  <2>1. Matches(s, r, h + 1, ResolvedSource(r), ResolvedTag(r))
    BY <1>1, <1>3, <1>8, <1>9 DEF Matches
  <2>. QED
    BY <1>2, <2>1 DEF CanTake
<1>11. i = h + 1
  BY <1>2, <1>7, <1>10
<1>. QED
  BY <1>1, <1>3, <1>8, <1>11
-----------------------------------------------------------------------------
\* WireInv, by what a step does to wire.

LEMMA WireUnchanged ==
    ASSUME TypeOK, WireInv, wire' = wire,
           \A r \in Rank : BodyPending(r) /\ Split(call[r].obj) =>
                               BodyPending(r)' /\ call'[r] = call[r],
           \A r \in Rank : BodyPending(r)' => BodyPending(r) /\ call'[r] = call[r]
    PROVE  WireInv'
<1>1. PendingIsLast'
  BY DEF WireInv, PendingIsLast, LastPosted, BodyPending
<1>2. HeaderPrecedes'
  BY DEF WireInv, HeaderPrecedes, HasBodyAt
<1>3. BodyFollows'
  <2>. SUFFICES ASSUME NEW s \in Rank, NEW d \in Rank,
                       NEW i \in 1..Len(wire[s][d]), HasBodyAt(s, d, i),
                       ~(i + 1 \in 1..Len(wire[s][d])
                         /\ wire[s][d][i + 1] = BodyOf(wire[s][d][i]))
                PROVE  i = Len(wire[s][d]) /\ BodyPending(s)' /\ call'[s].dest = d
    BY DEF BodyFollows, HasBodyAt
  <2>1. i = Len(wire[s][d]) /\ BodyPending(s) /\ call[s].dest = d
    BY DEF WireInv, BodyFollows
  <2>2. LastPosted(s)
    BY <2>1 DEF WireInv, PendingIsLast
  <2>3. wire[s][d][i].obj = call[s].obj
    BY <2>1, <2>2 DEF LastPosted
  <2>. QED
    BY <2>1, <2>3 DEF HasBodyAt, BodyPending
<1>. QED
  BY <1>1, <1>2, <1>3 DEF WireInv

LEMMA PostHeader ==
    ASSUME TypeOK, WireInv, NEW r \in Rank, NEW c \in Call,
           ~BodyPending(r), Post(r, c, "header"),
           BodyPending(r)', call'[r] = c,
           \A q \in Rank \ {r} : (BodyPending(q)' <=> BodyPending(q))
                                 /\ call'[q] = call[q]
    PROVE  WireInv'
<1>. DEFINE n == Len(wire[r][c.dest]) + 1
<1>0. c.dest \in Rank
  BY DEF Call
<1>1. /\ n \in Nat /\ Len(wire'[r][c.dest]) = n
      /\ wire'[r][c.dest][n] = [part |-> "header", tag |-> c.sendtag, obj |-> c.obj]
      /\ \A s, d \in Rank : \A i \in 1..Len(wire[s][d]) :
            i \in 1..Len(wire'[s][d]) /\ wire'[s][d][i] = wire[s][d][i]
      /\ \A s, d \in Rank : \A i \in 1..Len(wire'[s][d]) :
            i \in 1..Len(wire[s][d]) \/ (s = r /\ d = c.dest /\ i = n)
      /\ \A s, d \in Rank : s # r \/ d # c.dest => wire'[s][d] = wire[s][d]
  <2>1. Appended(r, c.dest, [part |-> "header", tag |-> c.sendtag, obj |-> c.obj])
    BY PostFacts
  <2>. QED
    BY <2>1 DEF Appended
<1>2. \A s, d \in Rank : Len(wire[s][d]) \in Nat
  BY PartAt
<1>3. PendingIsLast'
  <2>. SUFFICES ASSUME NEW q \in Rank, BodyPending(q)' PROVE LastPosted(q)'
    BY DEF PendingIsLast
  <2>1. CASE q = r
    BY SMTT(30), <1>0, <1>1, <1>2, <2>1 DEF LastPosted
  <2>2. CASE q # r
    <3>1. LastPosted(q) /\ call'[q] = call[q] /\ call[q].dest \in Rank
      BY <2>2 DEF WireInv, PendingIsLast, BodyPending, TypeOK, Call
    <3>. QED
      BY <1>1, <2>2, <3>1 DEF LastPosted
  <2>. QED
    BY <2>1, <2>2
<1>4. HeaderPrecedes'
  <2>. SUFFICES ASSUME NEW s \in Rank, NEW d \in Rank,
                       NEW i \in 1..Len(wire'[s][d]), wire'[s][d][i].part = "body"
                PROVE  /\ i - 1 \in 1..Len(wire'[s][d])
                       /\ HasBodyAt(s, d, i - 1)'
                       /\ wire'[s][d][i] = BodyOf(wire'[s][d][i - 1])
    BY DEF HeaderPrecedes
  <2>1. i \in 1..Len(wire[s][d])
    BY <1>1
  <2>2. /\ i - 1 \in 1..Len(wire[s][d])
        /\ HasBodyAt(s, d, i - 1)
        /\ wire[s][d][i] = BodyOf(wire[s][d][i - 1])
    <3>1. wire[s][d][i].part = "body"
      BY <1>1, <2>1
    <3>2. HeaderPrecedes
      BY DEF WireInv
    <3>. QED
      BY <2>1, <3>1, <3>2 DEF HeaderPrecedes
  <2>. QED
    BY ZenonT(60), <1>1, <2>1, <2>2 DEF HasBodyAt
<1>5. BodyFollows'
  <2>. SUFFICES ASSUME NEW s \in Rank, NEW d \in Rank,
                       NEW i \in 1..Len(wire'[s][d]), HasBodyAt(s, d, i)'
                PROVE  \/ /\ i + 1 \in 1..Len(wire'[s][d])
                          /\ wire'[s][d][i + 1] = BodyOf(wire'[s][d][i])
                       \/ i = Len(wire'[s][d]) /\ BodyPending(s)' /\ call'[s].dest = d
    BY DEF BodyFollows
  <2>1. CASE i \in 1..Len(wire[s][d])
    <3>1. HasBodyAt(s, d, i)
      BY <1>1, <2>1 DEF HasBodyAt
    <3>2. CASE i + 1 \in 1..Len(wire[s][d])
               /\ wire[s][d][i + 1] = BodyOf(wire[s][d][i])
      BY <1>1, <2>1, <3>2
    <3>3. CASE i = Len(wire[s][d]) /\ BodyPending(s) /\ call[s].dest = d
      <4>1. s # r
        BY <3>3
      <4>. QED
        BY <1>1, <3>3, <4>1 DEF BodyPending
    <3>. QED
      BY <2>1, <3>1, <3>2, <3>3 DEF WireInv, BodyFollows
  <2>2. CASE s = r /\ d = c.dest /\ i = n
    BY <1>1, <2>2 DEF BodyPending
  <2>. QED
    BY <1>1, <2>1, <2>2
<1>. QED
  BY <1>3, <1>4, <1>5 DEF WireInv

LEMMA PostBody ==
    ASSUME TypeOK, WireInv, NEW r \in Rank, NEW c \in Call, c = call[r],
           BodyPending(r), Split(c.obj), Post(r, c, "body"),
           ~BodyPending(r)', call' = call,
           \A q \in Rank \ {r} : BodyPending(q)' <=> BodyPending(q)
    PROVE  WireInv'
<1>. DEFINE n == Len(wire[r][c.dest]) + 1
<1>0. c \in Call /\ c.dest \in Rank
  BY DEF Call
<1>1. /\ n \in Nat /\ Len(wire'[r][c.dest]) = n
      /\ wire'[r][c.dest][n] = [part |-> "body", tag |-> c.sendtag, obj |-> c.obj]
      /\ \A s, d \in Rank : \A i \in 1..Len(wire[s][d]) :
            i \in 1..Len(wire'[s][d]) /\ wire'[s][d][i] = wire[s][d][i]
      /\ \A s, d \in Rank : \A i \in 1..Len(wire'[s][d]) :
            i \in 1..Len(wire[s][d]) \/ (s = r /\ d = c.dest /\ i = n)
      /\ \A s, d \in Rank : s # r \/ d # c.dest => wire'[s][d] = wire[s][d]
  <2>1. Appended(r, c.dest, [part |-> "body", tag |-> c.sendtag, obj |-> c.obj])
    BY <1>0, PostFacts
  <2>. QED
    BY <2>1 DEF Appended
<1>2. \A s, d \in Rank : Len(wire[s][d]) \in Nat
  BY PartAt
<1>3. PendingIsLast'
  <2>. SUFFICES ASSUME NEW q \in Rank, BodyPending(q)' PROVE LastPosted(q)'
    BY DEF PendingIsLast
  <2>1. q # r
    OBVIOUS
  <2>2. LastPosted(q) /\ call'[q] = call[q] /\ call[q].dest \in Rank
    BY <2>1 DEF WireInv, PendingIsLast, BodyPending, TypeOK, Call
  <2>. QED
    BY <1>1, <2>1, <2>2 DEF LastPosted
<1>4. /\ n - 1 \in 1..Len(wire[r][c.dest])
      /\ wire[r][c.dest][n - 1] = [part |-> "header", tag |-> c.sendtag, obj |-> c.obj]
      /\ HasBodyAt(r, c.dest, n - 1)
  BY <1>0, <1>2 DEF WireInv, PendingIsLast, LastPosted, HasBodyAt
<1>5. wire'[r][c.dest][n] = BodyOf(wire'[r][c.dest][n - 1])
  <2>1. wire'[r][c.dest][n - 1] = wire[r][c.dest][n - 1]
    BY <1>0, <1>1, <1>4
  <2>. HIDE DEF n
  <2>. QED
    BY <1>1, <1>4, <2>1 DEF BodyOf
<1>6. HeaderPrecedes'
  <2>. SUFFICES ASSUME NEW s \in Rank, NEW d \in Rank,
                       NEW i \in 1..Len(wire'[s][d]), wire'[s][d][i].part = "body"
                PROVE  /\ i - 1 \in 1..Len(wire'[s][d])
                       /\ HasBodyAt(s, d, i - 1)'
                       /\ wire'[s][d][i] = BodyOf(wire'[s][d][i - 1])
    BY DEF HeaderPrecedes
  <2>1. CASE i \in 1..Len(wire[s][d])
    <3>1. /\ i - 1 \in 1..Len(wire[s][d])
          /\ HasBodyAt(s, d, i - 1)
          /\ wire[s][d][i] = BodyOf(wire[s][d][i - 1])
      BY <1>1, <2>1 DEF WireInv, HeaderPrecedes
    <3>2. i - 1 \in 1..Len(wire'[s][d])
          /\ wire'[s][d][i] = wire[s][d][i] /\ wire'[s][d][i - 1] = wire[s][d][i - 1]
      BY Zenon, <1>1, <2>1, <3>1
    <3>. QED
      BY ONLY <3>1, <3>2 DEF HasBodyAt
  <2>2. CASE s = r /\ d = c.dest /\ i = n
    BY ZenonT(60), <1>0, <1>1, <1>4, <1>5, <2>2 DEF HasBodyAt
  <2>. QED
    BY <1>1, <2>1, <2>2
<1>7. BodyFollows'
  <2>. SUFFICES ASSUME NEW s \in Rank, NEW d \in Rank,
                       NEW i \in 1..Len(wire'[s][d]), HasBodyAt(s, d, i)'
                PROVE  \/ /\ i + 1 \in 1..Len(wire'[s][d])
                          /\ wire'[s][d][i + 1] = BodyOf(wire'[s][d][i])
                       \/ i = Len(wire'[s][d]) /\ BodyPending(s)' /\ call'[s].dest = d
    BY DEF BodyFollows
  <2>1. i \in 1..Len(wire[s][d])
    <3>1. ~(s = r /\ d = c.dest /\ i = n)
      BY <1>1 DEF HasBodyAt
    <3>. QED
      BY <1>1, <3>1
  <2>2. HasBodyAt(s, d, i)
    BY <1>1, <2>1 DEF HasBodyAt
  <2>3. CASE i + 1 \in 1..Len(wire[s][d])
             /\ wire[s][d][i + 1] = BodyOf(wire[s][d][i])
    BY <1>1, <2>1, <2>3
  <2>4. CASE i = Len(wire[s][d]) /\ BodyPending(s) /\ call[s].dest = d
    <3>1. CASE s = r
      <4>1. d = c.dest /\ i + 1 = n
        BY <1>0, <1>2, <2>4, <3>1
      <4>2. i \in Nat /\ i >= 1 /\ i = n - 1
        BY <1>1, <1>2, <2>1, <4>1
      <4>3. i + 1 \in 1..n /\ Len(wire'[s][d]) = n
        <5>1. Len(wire'[s][d]) = n
          BY Zenon, <1>1, <3>1, <4>1
        <5>2. i + 1 = n
          BY Zenon, <4>1
        <5>. QED
          BY ONLY <4>2, <5>1, <5>2
      <4>4. wire'[s][d][i + 1] = BodyOf(wire'[s][d][i])
        BY <1>5, <3>1, <4>1, <4>2
      <4>. QED
        BY <4>3, <4>4
    <3>2. CASE s # r
      BY <1>1, <2>4, <3>2 DEF BodyPending
    <3>. QED
      BY <3>1, <3>2
  <2>. QED
    BY <2>1, <2>2, <2>3, <2>4 DEF WireInv, BodyFollows
<1>. QED
  BY <1>3, <1>6, <1>7 DEF WireInv
-----------------------------------------------------------------------------
\* What is taken, held and delivered.

\* Steps that only post or wait: what is held may move on to its body.
LEMMA NothingTaken ==
    ASSUME TypeOK, TakenInv, HeldInv, DeliveredInv,
           taken' = taken, delivered' = delivered,
           \A s, d \in Rank : \A i \in 1..Len(wire[s][d]) : wire'[s][d][i] = wire[s][d][i],
           \A q \in Rank : Holding(q) =>
               Holding(q)' /\ held'[q] = held[q] /\ call'[q] = call[q],
           \A q \in Rank : Holding(q)' => Holding(q),
           \A q \in Rank : pc'[q] = "recvBody" =>
               pc[q] = "recvBody" \/ HasBodyAt(held[q].source, q, held[q].index)
    PROVE  TakenInv' /\ HeldInv' /\ DeliveredInv'
<1>1. \A s, d \in Rank : \A i \in taken[s][d] :
          i \in 1..Len(wire[s][d]) /\ wire'[s][d][i] = wire[s][d][i]
  BY PartAt
<1>2. \A s, d \in Rank : \A i \in taken[s][d] : \A j \in 1..(i - 1) :
          j \in 1..Len(wire[s][d]) /\ wire'[s][d][j] = wire[s][d][j]
  BY <1>1, PartAt
<1>3. \A s, d \in Rank : \A i \in taken[s][d] : HasBodyAt(s, d, i)' <=> HasBodyAt(s, d, i)
  BY <1>1 DEF HasBodyAt
<1>4. \A s, d \in Rank : \A i : Holds(d, s, i) => Holds(d, s, i)'
  BY DEF Holds, Holding
<1>5. \A s, d \in Rank : \A i : Received(s, d, i)' <=> Received(s, d, i)
  BY DEF Received
<1>6. TakenInOrder'
  <2>. SUFFICES ASSUME NEW s \in Rank, NEW d \in Rank,
                       NEW i \in taken[s][d], NEW j \in 1..(i - 1),
                       wire'[s][d][j].tag = wire'[s][d][i].tag
                PROVE  j \in taken[s][d]
    BY DEF TakenInOrder
  <2>1. wire[s][d][j].tag = wire[s][d][i].tag
    BY <1>1, <1>2
  <2>. QED
    BY <2>1 DEF TakenInv, TakenInOrder
<1>7. OwedBodyIsHeld'
  BY <1>3, <1>4 DEF TakenInv, OwedBodyIsHeld
<1>8. HeldInv'
  <2>. SUFFICES ASSUME NEW r \in Rank, Holding(r)'
                PROVE  HeaderInHand(r, held[r].source, held[r].index)'
    BY DEF HeldInv
  <2>1. Holding(r) /\ held'[r] = held[r] /\ call'[r] = call[r]
    BY DEF Holding
  <2>2. PICK s \in Rank, i \in Nat : s = held[r].source /\ i = held[r].index
    BY DEF TypeOK, Position
  <2>3. HeaderInHand(r, s, i)
    BY <2>1, <2>2 DEF HeldInv
  <2>4. wire'[s][r][i] = wire[s][r][i] /\ (HasBodyAt(s, r, i)' <=> HasBodyAt(s, r, i))
    BY <1>1, <1>3, <2>3 DEF HeaderInHand
  <2>5. pc'[r] = "recvBody" => HasBodyAt(s, r, i)'
    BY <2>2, <2>3, <2>4 DEF HeaderInHand
  <2>6. ~Received(s, r, i)'
    BY <1>5, <2>3 DEF HeaderInHand
  <2>7. HeaderInHand(r, s, i)'
    BY <2>1, <2>3, <2>4, <2>5, <2>6 DEF HeaderInHand
  <2>. QED
    BY <2>1, <2>2, <2>7
<1>9. DeliveredIsTaken'
  BY DEF DeliveredInv, DeliveredIsTaken
<1>10. TakenIsHeldOrDelivered'
  BY <1>1, <1>4, <1>5 DEF DeliveredInv, TakenIsHeldOrDelivered
<1>11. Intact'
  <2>. SUFFICES ASSUME NEW r \in Rank, NEW k \in 1..Len(delivered[r])
                PROVE  LET got  == delivered[r][k]
                           part == wire'[got.source][r][got.index]
                       IN  part.part = "header" /\ got.obj = part.obj /\ got.tag = part.tag
    BY DEF Intact
  <2>1. delivered[r][k].source \in Rank
    BY DeliveryAt
  <2>2. delivered[r][k].index \in taken[delivered[r][k].source][r]
    BY DEF DeliveredInv, DeliveredIsTaken
  <2>3. wire'[delivered[r][k].source][r][delivered[r][k].index]
            = wire[delivered[r][k].source][r][delivered[r][k].index]
    BY <1>1, <2>1, <2>2
  <2>4. /\ wire[delivered[r][k].source][r][delivered[r][k].index].part = "header"
        /\ delivered[r][k].obj = wire[delivered[r][k].source][r][delivered[r][k].index].obj
        /\ delivered[r][k].tag = wire[delivered[r][k].source][r][delivered[r][k].index].tag
    BY DEF DeliveredInv, Intact
  <2>. QED
    BY Zenon, <2>3, <2>4
<1>. QED
  BY <1>6, <1>7, <1>8, <1>9, <1>10, <1>11 DEF TakenInv, DeliveredInv
LEMMA TakeFacts ==
    ASSUME TypeOK, TakenInOrder, NEW r \in Rank, NEW s \in Rank,
           NEW i \in 1..Len(wire[s][r]), NEW source, NEW tag,
           CanTake(s, r, i, source, tag), Take(s, r, i), wire' = wire
    PROVE  /\ taken' \in [Rank -> [Rank -> SUBSET Nat]]
           /\ taken'[s][r] = taken[s][r] \cup {i}
           /\ \A a, b \in Rank : a # s \/ b # r => taken'[a][b] = taken[a][b]
           /\ \A a, b \in Rank : taken'[a][b] \subseteq 1..Len(wire'[a][b])
           /\ i \notin taken[s][r]
           /\ TakenInOrder'
<1>1. i \in Nat /\ \A a, b \in Rank : taken[a][b] \subseteq 1..Len(wire[a][b])
  BY PartAt
<1>2. /\ taken' \in [Rank -> [Rank -> SUBSET Nat]]
      /\ taken'[s][r] = taken[s][r] \cup {i}
      /\ \A a, b \in Rank : a # s \/ b # r => taken'[a][b] = taken[a][b]
  BY <1>1 DEF TypeOK, Take
<1>3. i \notin taken[s][r]
  BY DEF CanTake, Matches
<1>4. ASSUME NEW j \in 1..(i - 1), wire[s][r][j].tag = wire[s][r][i].tag
      PROVE  j \in taken[s][r]
  <2>1. ~Matches(s, r, j, source, tag) /\ Matches(s, r, i, source, tag)
    BY DEF CanTake
  <2>2. j \in 1..Len(wire[s][r])
    BY PartAt
  <2>. QED
    BY <1>4, <2>1, <2>2 DEF Matches
<1>5. TakenInOrder'
  <2>. SUFFICES ASSUME NEW a \in Rank, NEW b \in Rank, NEW k \in taken'[a][b],
                       NEW j \in 1..(k - 1), wire[a][b][j].tag = wire[a][b][k].tag
                PROVE  j \in taken'[a][b]
    BY DEF TakenInOrder
  <2>1. CASE k \in taken[a][b]
    BY <1>2, <2>1 DEF TakenInOrder
  <2>2. CASE a = s /\ b = r /\ k = i
    BY <1>2, <1>4, <2>2
  <2>. QED
    BY <1>2, <2>1, <2>2
<1>. QED
  BY <1>1, <1>2, <1>3, <1>5

\* A receive takes a header and does not return yet.
LEMMA HeaderTaken ==
    ASSUME TypeOK, WireInv, TakenInv, HeldInv, DeliveredInv,
           NEW r \in Rank, NEW s \in Rank, NEW i \in 1..Len(wire[s][r]),
           ~Holding(r), CanTake(s, r, i, call[r].source, call[r].recvtag),
           Take(s, r, i), wire' = wire, delivered' = delivered, call' = call,
           Holding(r)', held' = [held EXCEPT ![r] = At(s, r, i)],
           \A q \in Rank \ {r} : pc'[q] = pc[q],
           pc'[r] = "recvBody" => HasBodyAt(s, r, i)
    PROVE  TakenInv' /\ HeldInv' /\ DeliveredInv'
<1>1. /\ taken'[s][r] = taken[s][r] \cup {i}
      /\ \A a, b \in Rank : a # s \/ b # r => taken'[a][b] = taken[a][b]
      /\ i \notin taken[s][r]
      /\ TakenInOrder'
  BY TakeFacts DEF TakenInv
<1>2. wire[s][r][i].part = "header"
  BY HeaderComesFirst
<1>3. /\ held'[r] = [source |-> s, index |-> i, tag |-> wire[s][r][i].tag]
      /\ \A q \in Rank \ {r} : held'[q] = held[q]
  BY DEF TypeOK, At
<1>4. \A a, b \in Rank : \A j : HasBodyAt(a, b, j)' <=> HasBodyAt(a, b, j)
  BY DEF HasBodyAt
<1>5. \A a, b \in Rank : \A j : Received(a, b, j)' <=> Received(a, b, j)
  BY DEF Received
<1>6. \A a, b \in Rank : \A j : Holds(b, a, j) => b # r /\ Holds(b, a, j)'
  BY <1>3 DEF Holds, Holding
<1>7. Holds(r, s, i)'
  BY <1>3 DEF Holds
<1>8. ~Received(s, r, i)
  <2>. SUFFICES ASSUME Received(s, r, i) PROVE FALSE
    OBVIOUS
  <2>. QED
    BY <1>1 DEF DeliveredInv, DeliveredIsTaken, Received
<1>9. i + 1 \notin taken[s][r] \/ ~HasBodyAt(s, r, i)
  <2>. SUFFICES ASSUME i + 1 \in taken[s][r], HasBodyAt(s, r, i) PROVE FALSE
    OBVIOUS
  <2>1. i + 1 \in 1..Len(wire[s][r]) /\ i \in 1..((i + 1) - 1)
    BY PartAt
  <2>2. wire[s][r][i + 1] = BodyOf(wire[s][r][i])
    BY <2>1, PartAt DEF WireInv, BodyFollows
  <2>3. wire[s][r][i + 1].tag = wire[s][r][i].tag
    BY <2>2 DEF BodyOf
  <2>4. i \in taken[s][r]
    BY <2>1, <2>3 DEF TakenInv, TakenInOrder
  <2>. QED
    BY <1>1, <2>4
<1>10. OwedBodyIsHeld'
  <2>. SUFFICES ASSUME NEW a \in Rank, NEW b \in Rank, NEW j \in taken'[a][b],
                       HasBodyAt(a, b, j), j + 1 \notin taken'[a][b]
                PROVE  Holds(b, a, j)'
    BY <1>4 DEF OwedBodyIsHeld
  <2>1. CASE j \in taken[a][b]
    BY <1>1, <1>6, <2>1 DEF TakenInv, OwedBodyIsHeld
  <2>2. CASE a = s /\ b = r /\ j = i
    BY <1>7, <2>2
  <2>. QED
    BY <1>1, <2>1, <2>2
<1>11. HeldInv'
  <2>. SUFFICES ASSUME NEW q \in Rank, Holding(q)'
                PROVE  HeaderInHand(q, held[q].source, held[q].index)'
    BY DEF HeldInv
  <2>1. CASE q = r
    <3>1. call[r].source \in {s, ANY} /\ call[r].recvtag \in {wire[s][r][i].tag, ANY}
      BY DEF CanTake, Matches
    <3>2. i + 1 \in taken'[s][r] => ~HasBodyAt(s, r, i)
      BY <1>1, <1>9
    <3>3. HeaderInHand(r, s, i)'
      BY <1>1, <1>2, <1>3, <1>4, <1>5, <1>8, <3>1, <3>2 DEF HeaderInHand
    <3>. QED
      BY <1>3, <2>1, <3>3
  <2>2. CASE q # r
    <3>1. Holding(q) /\ held'[q] = held[q] /\ pc'[q] = pc[q]
      BY <1>3, <2>2 DEF Holding
    <3>2. PICK a \in Rank, j \in Nat : a = held[q].source /\ j = held[q].index
      BY DEF TypeOK, Position
    <3>3. HeaderInHand(q, a, j)
      BY <3>1, <3>2 DEF HeldInv
    <3>4. HeaderInHand(q, a, j)'
      BY <1>1, <1>4, <1>5, <2>2, <3>1, <3>3 DEF HeaderInHand
    <3>. QED
      BY <3>1, <3>2, <3>4
  <2>. QED
    BY <2>1, <2>2
<1>12. DeliveredIsTaken'
  <2>. SUFFICES ASSUME NEW q \in Rank, NEW k \in 1..Len(delivered[q])
                PROVE  delivered[q][k].index \in taken'[delivered[q][k].source][q]
    BY DEF DeliveredIsTaken
  <2>1. delivered[q][k].index \in taken[delivered[q][k].source][q]
        /\ delivered[q][k].source \in Rank
    BY DeliveryAt DEF DeliveredInv, DeliveredIsTaken
  <2>. QED
    BY <1>1, <2>1
<1>13. TakenIsHeldOrDelivered'
  <2>. SUFFICES ASSUME NEW a \in Rank, NEW b \in Rank, NEW j \in taken'[a][b],
                       wire[a][b][j].part = "header"
                PROVE  Holds(b, a, j)' \/ Received(a, b, j)'
    BY DEF TakenIsHeldOrDelivered
  <2>1. CASE j \in taken[a][b]
    BY <1>5, <1>6, <2>1 DEF DeliveredInv, TakenIsHeldOrDelivered
  <2>2. CASE a = s /\ b = r /\ j = i
    BY Zenon, <1>7, <2>2
  <2>. QED
    BY <1>1, <2>1, <2>2
<1>14. Intact'
  BY DEF DeliveredInv, Intact
<1>. QED
  BY <1>1, <1>10, <1>11, <1>12, <1>13, <1>14 DEF TakenInv, DeliveredInv
\* A receive returns the object whose header is message h of s: all that the
\* object's parts are is taken, and r held no other header.
LEMMA ObjectDelivered ==
    ASSUME TypeOK, WireInv, TakenInv, HeldInv, DeliveredInv,
           NEW r \in Rank, NEW s \in Rank, NEW h \in taken'[s][r],
           wire' = wire, TakenInOrder',
           \A a, b \in Rank : taken[a][b] \subseteq taken'[a][b],
           \A a, b \in Rank : a # s \/ b # r => taken'[a][b] = taken[a][b],
           \A j \in taken'[s][r] \ taken[s][r] : j = h \/ wire[s][r][j].part = "body",
           wire[s][r][h].part = "header", HasBodyAt(s, r, h) => h + 1 \in taken'[s][r],
           \A a \in Rank : \A j : Holds(r, a, j) => a = s /\ j = h,
           ~Holding(r)',
           \A q \in Rank \ {r} :
               pc'[q] = pc[q] /\ held'[q] = held[q] /\ call'[q] = call[q],
           delivered' = [delivered EXCEPT ![r] = Append(@,
               [source |-> s, index |-> h, tag |-> wire[s][r][h].tag,
                obj |-> wire[s][r][h].obj])]
    PROVE  TakenInv' /\ HeldInv' /\ DeliveredInv'
<1>. DEFINE new == [source |-> s, index |-> h, tag |-> wire[s][r][h].tag,
                    obj |-> wire[s][r][h].obj]
            n == Len(delivered[r]) + 1
<1>1. /\ n \in Nat
      /\ Len(delivered'[r]) = n
      /\ delivered'[r][n] = new
      /\ \A k \in 1..Len(delivered[r]) : delivered'[r][k] = delivered[r][k]
      /\ \A q \in Rank \ {r} : delivered'[q] = delivered[q]
  <2>1. delivered'[r] = Append(delivered[r], new)
        /\ \A q \in Rank \ {r} : delivered'[q] = delivered[q]
    BY DEF TypeOK
  <2>2. delivered[r] \in Seq(Delivery) /\ Len(delivered[r]) \in Nat
    BY DeliveryAt
  <2>3. \A S : \A sq \in Seq(S) : \A e :
            /\ Len(Append(sq, e)) = Len(sq) + 1
            /\ Append(sq, e)[Len(sq) + 1] = e
            /\ \A k \in 1..Len(sq) : Append(sq, e)[k] = sq[k]
    OBVIOUS
  <2>. HIDE DEF new
  <2>. QED
    BY <2>1, <2>2, <2>3
<1>2. /\ new.source = s /\ new.index = h
      /\ new.tag = wire[s][r][h].tag /\ new.obj = wire[s][r][h].obj
  OBVIOUS
<1>. HIDE DEF new
<1>3. \A a, b \in Rank : \A j : HasBodyAt(a, b, j)' <=> HasBodyAt(a, b, j)
  BY DEF HasBodyAt
<1>4. \A a, b \in Rank : \A j : Received(a, b, j) => Received(a, b, j)'
  <2>. SUFFICES ASSUME NEW a \in Rank, NEW b \in Rank, NEW j,
                       NEW k \in 1..Len(delivered[b]),
                       delivered[b][k].source = a, delivered[b][k].index = j
                PROVE  \E k2 \in 1..Len(delivered'[b]) :
                           delivered'[b][k2].source = a /\ delivered'[b][k2].index = j
    BY DEF Received
  <2>1. k \in 1..Len(delivered'[b]) /\ delivered'[b][k] = delivered[b][k]
    BY <1>1, DeliveryAt
  <2>. QED
    BY <2>1
<1>5. Received(s, r, h)'
  <2>1. n \in 1..Len(delivered'[r])
    BY <1>1, DeliveryAt
  <2>. QED
    BY <1>1, <1>2, <2>1 DEF Received
<1>6. \A b \in Rank \ {r} : \A a \in Rank : \A j :
          /\ Holds(b, a, j)' <=> Holds(b, a, j)
          /\ Received(a, b, j)' <=> Received(a, b, j)
  BY <1>1 DEF Holds, Holding, Received
<1>7. OwedBodyIsHeld'
  <2>. SUFFICES ASSUME NEW a \in Rank, NEW b \in Rank, NEW j \in taken'[a][b],
                       HasBodyAt(a, b, j), j + 1 \notin taken'[a][b]
                PROVE  Holds(b, a, j)'
    BY <1>3 DEF OwedBodyIsHeld
  <2>1. CASE b # r
    BY <1>6, <2>1 DEF TakenInv, OwedBodyIsHeld
  <2>2. CASE b = r
    <3>1. ~(a = s /\ j = h)
      BY <2>2
    <3>2. j \in taken[a][b]
      BY <2>2, <3>1 DEF HasBodyAt
    <3>3. Holds(b, a, j)
      BY <3>2 DEF TakenInv, OwedBodyIsHeld
    <3>. QED
      BY <2>2, <3>1, <3>3
  <2>. QED
    BY <2>1, <2>2
<1>8. HeldInv'
  <2>. SUFFICES ASSUME NEW q \in Rank, Holding(q)'
                PROVE  HeaderInHand(q, held[q].source, held[q].index)'
    BY DEF HeldInv
  <2>1. q # r /\ Holding(q) /\ held'[q] = held[q] /\ pc'[q] = pc[q] /\ call'[q] = call[q]
    BY DEF Holding
  <2>2. PICK a \in Rank, j \in Nat : a = held[q].source /\ j = held[q].index
    BY DEF TypeOK, Position
  <2>3. HeaderInHand(q, a, j)
    BY <2>1, <2>2 DEF HeldInv
  <2>4. HeaderInHand(q, a, j)'
    BY <1>3, <1>6, <2>1, <2>3 DEF HeaderInHand
  <2>. QED
    BY <2>1, <2>2, <2>4
<1>9. \A q \in Rank : \A k \in 1..Len(delivered'[q]) :
          \/ k \in 1..Len(delivered[q]) /\ delivered'[q][k] = delivered[q][k]
          \/ q = r /\ k = n /\ delivered'[q][k] = new
  BY <1>1, DeliveryAt
<1>10. DeliveredIsTaken'
  <2>. SUFFICES ASSUME NEW q \in Rank, NEW k \in 1..Len(delivered'[q])
                PROVE  delivered'[q][k].index \in taken'[delivered'[q][k].source][q]
    BY DEF DeliveredIsTaken
  <2>1. CASE k \in 1..Len(delivered[q]) /\ delivered'[q][k] = delivered[q][k]
    <3>1. delivered[q][k].index \in taken[delivered[q][k].source][q]
          /\ delivered[q][k].source \in Rank
      BY <2>1, DeliveryAt DEF DeliveredInv, DeliveredIsTaken
    <3>. QED
      BY <2>1, <3>1
  <2>2. CASE q = r /\ delivered'[q][k] = new
    BY <1>2, <2>2
  <2>. QED
    BY <1>9, <2>1, <2>2
<1>11. TakenIsHeldOrDelivered'
  <2>. SUFFICES ASSUME NEW a \in Rank, NEW b \in Rank, NEW j \in taken'[a][b],
                       wire[a][b][j].part = "header"
                PROVE  Holds(b, a, j)' \/ Received(a, b, j)'
    BY DEF TakenIsHeldOrDelivered
  <2>1. CASE b # r
    BY <1>6, <2>1 DEF DeliveredInv, TakenIsHeldOrDelivered
  <2>2. CASE a = s /\ b = r /\ j = h
    BY <1>5, <2>2
  <2>3. CASE b = r /\ ~(a = s /\ j = h)
    <3>1. j \in taken[a][b]
      BY <2>3
    <3>2. Received(a, b, j)
      BY Zenon, <2>3, <3>1 DEF DeliveredInv, TakenIsHeldOrDelivered
    <3>. QED
      BY <1>4, <3>2
  <2>. QED
    BY <2>1, <2>2, <2>3
<1>12. Intact'
  <2>. SUFFICES ASSUME NEW q \in Rank, NEW k \in 1..Len(delivered'[q])
                PROVE  LET got  == delivered'[q][k]
                           part == wire'[got.source][q][got.index]
                       IN  part.part = "header" /\ got.obj = part.obj /\ got.tag = part.tag
    BY Zenon DEF Intact
  <2>1. CASE k \in 1..Len(delivered[q]) /\ delivered'[q][k] = delivered[q][k]
    <3>1. /\ wire[delivered[q][k].source][q][delivered[q][k].index].part = "header"
          /\ delivered[q][k].obj = wire[delivered[q][k].source][q][delivered[q][k].index].obj
          /\ delivered[q][k].tag = wire[delivered[q][k].source][q][delivered[q][k].index].tag
      BY ZenonT(60), <2>1 DEF DeliveredInv, Intact
    <3>. QED
      BY <2>1, <3>1
  <2>2. CASE q = r /\ delivered'[q][k] = new
    BY <1>2, <2>2
  <2>. QED
    BY Zenon, <1>9, <2>1, <2>2
<1>. QED
  BY <1>7, <1>8, <1>10, <1>11, <1>12 DEF TakenInv, DeliveredInv
-----------------------------------------------------------------------------
\* One lemma for each action.

LEMMA Idle == IdleCall \in Call /\ NoPosition \in Position
<1>1. \E c \in Call : TRUE
  <2>1. PICK o \in Object, d \in Rank, t \in Tag : TRUE
    BY CallAssumption
  <2>2. [op |-> "send", obj |-> o, dest |-> d, sendtag |-> t,
         source |-> ANY, recvtag |-> ANY] \in Call
    BY DEF Call
  <2>. QED
    BY <2>2
<1>2. (\E r \in Rank : TRUE) /\ (\E t \in Tag : TRUE)
  BY CallAssumption
<1>3. (CHOOSE r \in Rank : TRUE) \in Rank /\ (CHOOSE t \in Tag : TRUE) \in Tag
  BY <1>2
<1>. QED
  BY <1>1, <1>3 DEF IdleCall, NoPosition, Position

LEMMA Unpacked ==
    ASSUME NEW h \in Part, h.part = "header"
    PROVE  /\ HasBody(ReadHeader(h)) <=> Split(h.obj)
           /\ ~Split(h.obj) => Unpack(ReadHeader(h), <<>>) = h.obj
           /\ Split(h.obj) => Unpack(ReadHeader(h), ReadBody(BodyOf(h))) = h.obj
<1>1. ReadHeader(h) = Header(h.obj) /\ h.obj \in Object
  BY DEF ReadHeader, Part
<1>2. ReadBody(BodyOf(h)) = h.obj.bytes
  BY DEF ReadBody, BodyOf
<1>. QED
  BY <1>1, <1>2, RoundTrip DEF Split

\* Deliver, for the object o of a header at pos.
LEMMA DeliverType ==
    ASSUME TypeOK, NEW r \in Rank, NEW s \in Rank, NEW i \in Nat, NEW t \in Tag,
           NEW o \in Object, Return(r), wire' = wire, made' = made,
           delivered' = [delivered EXCEPT ![r] = Append(@,
               [source |-> s, index |-> i, tag |-> t, obj |-> o])],
           taken' \in [Rank -> [Rank -> SUBSET Nat]],
           \A a, b \in Rank : taken'[a][b] \subseteq 1..Len(wire'[a][b])
    PROVE  /\ TypeOK'
           /\ ~Holding(r)' /\ ~BodyPending(r)'
           /\ \A q \in Rank \ {r} :
                 pc'[q] = pc[q] /\ held'[q] = held[q] /\ call'[q] = call[q]
<1>1. /\ pc' \in [Rank -> PC] /\ call' \in [Rank -> Call] /\ held' \in [Rank -> Position]
      /\ pc'[r] = "idle"
      /\ \A q \in Rank \ {r} :
            pc'[q] = pc[q] /\ held'[q] = held[q] /\ call'[q] = call[q]
  BY Idle DEF TypeOK, Return, PC
<1>2. delivered' \in [Rank -> Seq(Delivery)]
  <2>1. [source |-> s, index |-> i, tag |-> t, obj |-> o] \in Delivery
    BY DEF Delivery
  <2>2. delivered[r] \in Seq(Delivery)
    BY DeliveryAt
  <2>3. Append(delivered[r], [source |-> s, index |-> i, tag |-> t, obj |-> o])
            \in Seq(Delivery)
    BY <2>1, <2>2
  <2>. QED
    BY <2>3 DEF TypeOK
<1>3. TypeOK'
  BY <1>1, <1>2 DEF TypeOK
<1>. QED
  BY <1>1, <1>3 DEF Holding, BodyPending

LEMMA RecvHeaderStep ==
    ASSUME IInv, NEW r \in Rank, RecvHeader(r)
    PROVE  IInv'
<1>. USE DEF IInv
<1>0. PICK s \in Rank : \E i \in 1..Len(wire[s][r]) :
          /\ CanTake(s, r, i, call[r].source, call[r].recvtag)
          /\ Take(s, r, i)
          /\ AfterHeader(r, At(s, r, i))
  BY DEF RecvHeader
<1>1. PICK i \in 1..Len(wire[s][r]) :
          /\ CanTake(s, r, i, call[r].source, call[r].recvtag)
          /\ Take(s, r, i)
          /\ AfterHeader(r, At(s, r, i))
  BY <1>0
<1>2. pc[r] = "recvHeader" /\ wire' = wire /\ made' = made
  BY DEF RecvHeader
<1>3. ~Holding(r) /\ ~BodyPending(r)
  BY <1>2 DEF Holding, BodyPending
<1>4. /\ taken' \in [Rank -> [Rank -> SUBSET Nat]]
      /\ taken'[s][r] = taken[s][r] \cup {i}
      /\ \A a, b \in Rank : a # s \/ b # r => taken'[a][b] = taken[a][b]
      /\ \A a, b \in Rank : taken'[a][b] \subseteq 1..Len(wire'[a][b])
      /\ TakenInOrder'
  BY <1>1, <1>2, TakeFacts DEF TakenInv
<1>5. wire[s][r][i].part = "header"
  BY <1>1, <1>3, HeaderComesFirst
<1>6. /\ wire[s][r][i] \in Part /\ i \in Nat
      /\ wire[s][r][i].tag \in Tag /\ wire[s][r][i].obj \in Object
      /\ At(s, r, i) = [source |-> s, index |-> i, tag |-> wire[s][r][i].tag]
      /\ At(s, r, i) \in Position
  BY PartAt DEF Part, At, Position
<1>7. HasBody(ReadHeader(wire[s][r][i])) <=> HasBodyAt(s, r, i)
  BY <1>5, <1>6, Unpacked DEF HasBodyAt
<1>8. CASE HasBodyAt(s, r, i)
  <2>1. /\ pc' = [pc EXCEPT ![r] = "recvBody"]
        /\ held' = [held EXCEPT ![r] = At(s, r, i)]
        /\ call' = call /\ delivered' = delivered
    BY <1>1, <1>6, <1>7, <1>8 DEF AfterHeader
  <2>2. TypeOK'
    BY <1>2, <1>4, <1>6, <2>1 DEF TypeOK, PC
  <2>3. pc'[r] = "recvBody" /\ \A q \in Rank \ {r} : pc'[q] = pc[q]
    BY <2>1 DEF TypeOK
  <2>4. WireInv'
    BY <1>2, <1>3, <2>1, <2>3, WireUnchanged DEF BodyPending
  <2>5. TakenInv' /\ HeldInv' /\ DeliveredInv'
    BY <1>1, <1>2, <1>3, <1>8, <2>1, <2>3, HeaderTaken DEF Holding
  <2>. QED
    BY <2>2, <2>4, <2>5
<1>9. CASE ~HasBodyAt(s, r, i)
  <2>1. Deliver(r, At(s, r, i), <<>>)
    BY <1>1, <1>6, <1>7, <1>9 DEF AfterHeader
  <2>2. Unpack(ReadHeader(wire[s][r][i]), <<>>) = wire[s][r][i].obj
    BY <1>5, <1>6, <1>9, Unpacked DEF HasBodyAt
  <2>3. delivered' = [delivered EXCEPT ![r] = Append(@,
            [source |-> s, index |-> i, tag |-> wire[s][r][i].tag,
             obj |-> wire[s][r][i].obj])]
        /\ Return(r)
    BY <2>1, <2>2 DEF Deliver, At
  <2>4. /\ TypeOK'
        /\ ~Holding(r)' /\ ~BodyPending(r)'
        /\ \A q \in Rank \ {r} :
              pc'[q] = pc[q] /\ held'[q] = held[q] /\ call'[q] = call[q]
    BY <1>2, <1>4, <1>6, <2>3, DeliverType
  <2>5. WireInv'
    BY <1>2, <1>3, <2>4, WireUnchanged DEF BodyPending
  <2>6. TakenInv' /\ HeldInv' /\ DeliveredInv'
    <3>1. \A a \in Rank : \A j : ~Holds(r, a, j)
      BY <1>3 DEF Holds
    <3>2. /\ i \in taken'[s][r]
          /\ \A a, b \in Rank : taken[a][b] \subseteq taken'[a][b]
          /\ \A j \in taken'[s][r] \ taken[s][r] : j = i \/ wire[s][r][j].part = "body"
          /\ HasBodyAt(s, r, i) => i + 1 \in taken'[s][r]
      BY <1>4, <1>9
    <3>. QED
      BY <1>2, <1>4, <1>5, <2>3, <2>4, <3>1, <3>2, ObjectDelivered
  <2>. QED
    BY <2>4, <2>5, <2>6
<1>. QED
  BY <1>8, <1>9

LEMMA ExchangeRecvStep ==
    ASSUME IInv, NEW r \in Rank, ExchangeRecv(r)
    PROVE  IInv'
<1>. USE DEF IInv
<1>0. PICK s \in Rank : \E i \in 1..Len(wire[s][r]) :
          /\ CanTake(s, r, i, call[r].source, call[r].recvtag)
          /\ Take(s, r, i)
          /\ held' = [held EXCEPT ![r] = At(s, r, i)]
  BY DEF ExchangeRecv
<1>1. PICK i \in 1..Len(wire[s][r]) :
          /\ CanTake(s, r, i, call[r].source, call[r].recvtag)
          /\ Take(s, r, i)
          /\ held' = [held EXCEPT ![r] = At(s, r, i)]
  BY <1>0
<1>2. /\ pc[r] = "exchange" /\ pc' = [pc EXCEPT ![r] = "exchanged"]
      /\ wire' = wire /\ made' = made /\ call' = call /\ delivered' = delivered
  BY DEF ExchangeRecv
<1>3. ~Holding(r) /\ BodyPending(r)
  BY <1>2 DEF Holding, BodyPending
<1>4. /\ taken' \in [Rank -> [Rank -> SUBSET Nat]]
      /\ \A a, b \in Rank : taken'[a][b] \subseteq 1..Len(wire'[a][b])
  BY <1>1, <1>2, TakeFacts DEF TakenInv
<1>5. At(s, r, i) \in Position
  BY PartAt DEF Part, At, Position
<1>6. TypeOK'
  BY <1>1, <1>2, <1>4, <1>5 DEF TypeOK, PC
<1>7. pc'[r] = "exchanged" /\ \A q \in Rank \ {r} : pc'[q] = pc[q]
  BY <1>2 DEF TypeOK
<1>8. WireInv'
  BY <1>2, <1>3, <1>7, WireUnchanged DEF BodyPending
<1>9. TakenInv' /\ HeldInv' /\ DeliveredInv'
  BY <1>1, <1>2, <1>3, <1>7, HeaderTaken DEF Holding
<1>. QED
  BY <1>6, <1>8, <1>9

LEMMA RecvBodyStep ==
    ASSUME IInv, NEW r \in Rank, RecvBody(r)
    PROVE  IInv'
<1>. USE DEF IInv
<1>0. PICK s \in Rank : \E i \in 1..Len(wire[s][r]) :
          /\ CanTake(s, r, i, ResolvedSource(r), ResolvedTag(r))
          /\ Take(s, r, i)
          /\ Deliver(r, held[r], ReadBody(wire[s][r][i]))
  BY DEF RecvBody
<1>1. PICK i \in 1..Len(wire[s][r]) :
          /\ CanTake(s, r, i, ResolvedSource(r), ResolvedTag(r))
          /\ Take(s, r, i)
          /\ Deliver(r, held[r], ReadBody(wire[s][r][i]))
  BY <1>0
<1>2. pc[r] = "recvBody" /\ wire' = wire /\ made' = made
  BY DEF RecvBody
<1>3. Holding(r) /\ ~BodyPending(r)
  BY <1>2 DEF Holding, BodyPending
<1>4. PICK h \in Nat : h = held[r].index
  BY DEF TypeOK, Position
<1>5. /\ s = held[r].source /\ i = h + 1
      /\ HasBodyAt(s, r, h)
      /\ wire[s][r][i] = BodyOf(wire[s][r][h])
  BY <1>1, <1>2, <1>4, BodyComesNext
<1>6. h \in taken[s][r] /\ wire[s][r][h].part = "header" /\ wire[s][r][h].tag = held[r].tag
      /\ ~Received(s, r, h)
  BY <1>3, <1>4, <1>5 DEF HeldInv, HeaderInHand
<1>7. /\ taken' \in [Rank -> [Rank -> SUBSET Nat]]
      /\ taken'[s][r] = taken[s][r] \cup {i}
      /\ \A a, b \in Rank : a # s \/ b # r => taken'[a][b] = taken[a][b]
      /\ \A a, b \in Rank : taken'[a][b] \subseteq 1..Len(wire'[a][b])
      /\ TakenInOrder'
  BY <1>1, <1>2, TakeFacts DEF TakenInv
<1>8. wire[s][r][h] \in Part /\ wire[s][r][h].obj \in Object /\ wire[s][r][h].tag \in Tag
  BY <1>6, PartAt DEF Part
<1>9. Unpack(ReadHeader(wire[s][r][h]), ReadBody(wire[s][r][i])) = wire[s][r][h].obj
  BY <1>5, <1>6, <1>8, Unpacked DEF HasBodyAt
<1>10. delivered' = [delivered EXCEPT ![r] = Append(@,
           [source |-> s, index |-> h, tag |-> wire[s][r][h].tag,
            obj |-> wire[s][r][h].obj])]
       /\ Return(r)
  BY <1>1, <1>4, <1>5, <1>6, <1>9 DEF Deliver
<1>11. /\ TypeOK'
       /\ ~Holding(r)' /\ ~BodyPending(r)'
       /\ \A q \in Rank \ {r} :
             pc'[q] = pc[q] /\ held'[q] = held[q] /\ call'[q] = call[q]
  BY <1>2, <1>7, <1>8, <1>10, DeliverType
<1>12. WireInv'
  BY <1>2, <1>3, <1>11, WireUnchanged DEF BodyPending
<1>13. TakenInv' /\ HeldInv' /\ DeliveredInv'
  <2>1. \A a \in Rank : \A j : Holds(r, a, j) => a = s /\ j = h
    BY <1>4, <1>5 DEF Holds
  <2>2. wire[s][r][i].part = "body"
    BY <1>5 DEF BodyOf
  <2>3. /\ h \in taken'[s][r]
        /\ \A a, b \in Rank : taken[a][b] \subseteq taken'[a][b]
        /\ \A j \in taken'[s][r] \ taken[s][r] : j = h \/ wire[s][r][j].part = "body"
        /\ HasBodyAt(s, r, h) => h + 1 \in taken'[s][r]
    BY <1>5, <1>6, <1>7, <2>2
  <2>. QED
    BY <1>2, <1>6, <1>7, <1>10, <1>11, <2>1, <2>3, ObjectDelivered
<1>. QED
  BY <1>11, <1>12, <1>13
\* sendrecv, done with sending, turns to the header it holds.
LEMMA HeldHeaderStep ==
    ASSUME IInv, NEW r \in Rank, pc[r] \in {"exchanged", "exchangeBody"},
           BodyPending(r) => ~Split(call[r].obj),
           AfterHeader(r, held[r]), wire' = wire, taken' = taken, made' = made
    PROVE  IInv'
<1>. USE DEF IInv
<1>1. PICK s \in Rank, h \in Nat : s = held[r].source /\ h = held[r].index
  BY DEF TypeOK, Position
<1>2. Holding(r) /\ HeaderInHand(r, s, h)
  BY <1>1 DEF HeldInv, Holding
<1>3. /\ wire[s][r][h] \in Part /\ wire[s][r][h].part = "header"
      /\ wire[s][r][h].tag = held[r].tag
      /\ wire[s][r][h].tag \in Tag /\ wire[s][r][h].obj \in Object
  BY <1>2, PartAt DEF Part, HeaderInHand
<1>4. HasBody(ReadHeader(wire[s][r][h])) <=> HasBodyAt(s, r, h)
  BY <1>3, Unpacked DEF HasBodyAt
<1>5. \A s2, d \in Rank : taken'[s2][d] \subseteq 1..Len(wire'[s2][d])
  BY PartAt
<1>6. CASE HasBodyAt(s, r, h)
  <2>1. /\ pc' = [pc EXCEPT ![r] = "recvBody"]
        /\ held' = [held EXCEPT ![r] = held[r]]
        /\ call' = call /\ delivered' = delivered
    BY <1>1, <1>4, <1>6 DEF AfterHeader
  <2>2. /\ held' = held /\ pc'[r] = "recvBody"
        /\ \A q \in Rank \ {r} : pc'[q] = pc[q]
    BY <2>1 DEF TypeOK
  <2>3. TypeOK'
    BY <2>1, <2>2 DEF TypeOK, PC
  <2>4. WireInv'
    BY <2>1, <2>2, WireUnchanged DEF BodyPending
  <2>5. TakenInv' /\ HeldInv' /\ DeliveredInv'
    BY <1>1, <1>6, <2>1, <2>2, NothingTaken DEF Holding
  <2>. QED
    BY <2>3, <2>4, <2>5
<1>7. CASE ~HasBodyAt(s, r, h)
  <2>1. Deliver(r, held[r], <<>>)
    BY <1>1, <1>4, <1>7 DEF AfterHeader
  <2>2. Unpack(ReadHeader(wire[s][r][h]), <<>>) = wire[s][r][h].obj
    BY <1>3, <1>7, Unpacked DEF HasBodyAt
  <2>3. delivered' = [delivered EXCEPT ![r] = Append(@,
            [source |-> s, index |-> h, tag |-> wire[s][r][h].tag,
             obj |-> wire[s][r][h].obj])]
        /\ Return(r)
    BY <1>1, <1>3, <2>1, <2>2 DEF Deliver
  <2>4. /\ TypeOK'
        /\ ~Holding(r)' /\ ~BodyPending(r)'
        /\ \A q \in Rank \ {r} :
              pc'[q] = pc[q] /\ held'[q] = held[q] /\ call'[q] = call[q]
    <3>1. taken' \in [Rank -> [Rank -> SUBSET Nat]]
      BY DEF TypeOK
    <3>. QED
      BY <1>3, <1>5, <2>3, <3>1, DeliverType
  <2>5. WireInv'
    BY <2>4, WireUnchanged DEF BodyPending
  <2>6. TakenInv' /\ HeldInv' /\ DeliveredInv'
    <3>1. \A a \in Rank : \A j : Holds(r, a, j) => a = s /\ j = h
      BY <1>1 DEF Holds
    <3>2. TakenInOrder'
      BY DEF TakenInv, TakenInOrder
    <3>3. /\ h \in taken'[s][r]
          /\ \A a, b \in Rank : taken[a][b] \subseteq taken'[a][b]
          /\ \A j \in taken'[s][r] \ taken[s][r] : j = h \/ wire[s][r][j].part = "body"
          /\ HasBodyAt(s, r, h) => h + 1 \in taken'[s][r]
      BY <1>2, <1>7 DEF HeaderInHand
    <3>. QED
      BY <1>3, <2>3, <2>4, <3>1, <3>2, <3>3, ObjectDelivered
  <2>. QED
    BY <2>4, <2>5, <2>6
<1>. QED
  BY <1>6, <1>7

LEMMA ExchangeBodySentStep ==
    ASSUME IInv, NEW r \in Rank, ExchangeBodySent(r)
    PROVE  IInv'
BY HeldHeaderStep DEF ExchangeBodySent, BodyPending

\* Posting the body leaves everything received as it was.
LEMMA PostBodyStep ==
    ASSUME IInv, NEW r \in Rank, BodyPending(r), Split(call[r].obj),
           Post(r, call[r], "body"),
           NEW next \in PC, pc' = [pc EXCEPT ![r] = next],
           \/ pc[r] = "sendHeader" /\ next = "sendBody"
           \/ pc[r] = "exchanged" /\ next = "exchangeBody",
           taken' = taken, call' = call, held' = held,
           delivered' = delivered, made' = made
    PROVE  IInv'
<1>. USE DEF IInv
<1>1. PICK c \in Call : c = call[r]
  BY DEF TypeOK
<1>2. Appended(r, c.dest, [part |-> "body", tag |-> c.sendtag, obj |-> c.obj])
  BY <1>1, PostFacts
<1>3. pc'[r] = next /\ \A q \in Rank \ {r} : pc'[q] = pc[q]
  BY DEF TypeOK
<1>4. TypeOK'
  <2>1. wire' \in [Rank -> [Rank -> Seq(Part)]]
    BY <1>2 DEF Appended
  <2>2. \A s, d \in Rank : taken'[s][d] \subseteq 1..Len(wire'[s][d])
    BY <1>2, PartAt DEF Appended
  <2>. QED
    BY <2>1, <2>2 DEF TypeOK
<1>5. WireInv'
  BY <1>1, <1>3, PostBody DEF BodyPending
<1>6. TakenInv' /\ HeldInv' /\ DeliveredInv'
  <2>1. \A s, d \in Rank : \A i \in 1..Len(wire[s][d]) : wire'[s][d][i] = wire[s][d][i]
    BY <1>2 DEF Appended
  <2>. QED
    BY <1>3, <2>1, NothingTaken DEF Holding
<1>. QED
  BY <1>4, <1>5, <1>6

LEMMA ExchangeDoneStep ==
    ASSUME IInv, NEW r \in Rank, ExchangeDone(r)
    PROVE  IInv'
<1>1. CASE Split(call[r].obj)
  BY <1>1, PostBodyStep DEF ExchangeDone, BodyPending, PC
<1>2. CASE ~Split(call[r].obj)
  BY <1>2, HeldHeaderStep DEF ExchangeDone
<1>. QED
  BY <1>1, <1>2

\* A call that received nothing returns.
LEMMA ReturnStep ==
    ASSUME IInv, NEW r \in Rank, Return(r), ~Holding(r),
           BodyPending(r) => ~Split(call[r].obj),
           wire' = wire, taken' = taken, delivered' = delivered, made' = made
    PROVE  IInv'
<1>. USE DEF IInv
<1>1. /\ pc' \in [Rank -> PC] /\ call' \in [Rank -> Call] /\ held' \in [Rank -> Position]
      /\ pc'[r] = "idle"
      /\ \A q \in Rank \ {r} :
            pc'[q] = pc[q] /\ held'[q] = held[q] /\ call'[q] = call[q]
  BY Idle DEF TypeOK, Return, PC
<1>2. TypeOK'
  BY <1>1 DEF TypeOK
<1>3. WireInv'
  BY <1>1, WireUnchanged DEF BodyPending
<1>4. TakenInv' /\ HeldInv' /\ DeliveredInv'
  BY <1>1, NothingTaken DEF Holding
<1>. QED
  BY <1>2, <1>3, <1>4

LEMMA HeaderSentStep ==
    ASSUME IInv, NEW r \in Rank, HeaderSent(r)
    PROVE  IInv'
<1>1. CASE Split(call[r].obj)
  BY <1>1, PostBodyStep DEF HeaderSent, BodyPending, PC
<1>2. CASE ~Split(call[r].obj)
  BY <1>2, ReturnStep DEF HeaderSent, Holding
<1>. QED
  BY <1>1, <1>2

LEMMA BodySentStep ==
    ASSUME IInv, NEW r \in Rank, BodySent(r)
    PROVE  IInv'
BY ReturnStep DEF BodySent, Holding, BodyPending

\* A call begins.
LEMMA BeginFacts ==
    ASSUME TypeOK, NEW r \in Rank, NEW c \in Call, NEW first \in PC, Begin(r, c, first)
    PROVE  /\ pc[r] = "idle" /\ held' = held /\ delivered' = delivered
           /\ made' \in [Rank -> 0..MaxCalls]
           /\ pc' \in [Rank -> PC] /\ pc'[r] = first
           /\ call' \in [Rank -> Call] /\ call'[r] = c
           /\ \A q \in Rank \ {r} : pc'[q] = pc[q] /\ call'[q] = call[q]
<1>1. made[r] + 1 \in 0..MaxCalls
  BY CallAssumption DEF TypeOK, Begin
<1>. QED
  BY <1>1 DEF TypeOK, Begin

LEMMA BeginPostStep ==
    ASSUME IInv, NEW r \in Rank, NEW c \in Call, NEW first \in {"sendHeader", "exchange"},
           Begin(r, c, first), Post(r, c, "header"), taken' = taken
    PROVE  IInv'
<1>. USE DEF IInv
<1>1. /\ pc[r] = "idle" /\ held' = held /\ delivered' = delivered
      /\ made' \in [Rank -> 0..MaxCalls]
      /\ pc' \in [Rank -> PC] /\ pc'[r] = first
      /\ call' \in [Rank -> Call] /\ call'[r] = c
      /\ \A q \in Rank \ {r} : pc'[q] = pc[q] /\ call'[q] = call[q]
  BY BeginFacts DEF PC
<1>2. Appended(r, c.dest, [part |-> "header", tag |-> c.sendtag, obj |-> c.obj])
  BY PostFacts
<1>3. TypeOK'
  <2>1. wire' \in [Rank -> [Rank -> Seq(Part)]]
    BY <1>2 DEF Appended
  <2>2. \A s, d \in Rank : taken'[s][d] \subseteq 1..Len(wire'[s][d])
    BY <1>2, PartAt DEF Appended
  <2>. QED
    BY <1>1, <2>1, <2>2 DEF TypeOK
<1>4. WireInv'
  BY <1>1, PostHeader DEF BodyPending
<1>5. TakenInv' /\ HeldInv' /\ DeliveredInv'
  <2>1. \A s, d \in Rank : \A i \in 1..Len(wire[s][d]) : wire'[s][d][i] = wire[s][d][i]
    BY <1>2 DEF Appended
  <2>. QED
    BY <1>1, <2>1, NothingTaken DEF Holding
<1>. QED
  BY <1>3, <1>4, <1>5

LEMMA CallRecvStep ==
    ASSUME IInv, NEW r \in Rank, NEW c \in Call, CallRecv(r, c)
    PROVE  IInv'
<1>. USE DEF IInv
<1>1. /\ pc[r] = "idle" /\ held' = held /\ delivered' = delivered
      /\ made' \in [Rank -> 0..MaxCalls]
      /\ pc' \in [Rank -> PC] /\ pc'[r] = "recvHeader"
      /\ call' \in [Rank -> Call] /\ call'[r] = c
      /\ \A q \in Rank \ {r} : pc'[q] = pc[q] /\ call'[q] = call[q]
      /\ wire' = wire /\ taken' = taken
  BY BeginFacts DEF PC, CallRecv
<1>2. TypeOK'
  BY <1>1 DEF TypeOK
<1>3. WireInv'
  BY <1>1, WireUnchanged DEF BodyPending
<1>4. TakenInv' /\ HeldInv' /\ DeliveredInv'
  BY <1>1, NothingTaken DEF Holding
<1>. QED
  BY <1>2, <1>3, <1>4

LEMMA MakeCallStep ==
    ASSUME IInv, NEW r \in Rank, MakeCall(r)
    PROVE  IInv'
<1>1. PICK c \in Calls[r] :
          PackFails(r, c) \/ CallSend(r, c) \/ CallRecv(r, c) \/ CallSendrecv(r, c)
  BY DEF MakeCall
<1>2. c \in Call
  BY CallAssumption
<1>3. CASE PackFails(r, c)
  <2>1. made' \in [Rank -> 0..MaxCalls]
    <3>1. made[r] + 1 \in 0..MaxCalls
      BY <1>3, CallAssumption DEF IInv, TypeOK, PackFails
    <3>. QED
      BY <1>3, <3>1 DEF IInv, TypeOK, PackFails
  <2>2. TypeOK'
    BY <1>3, <2>1 DEF IInv, TypeOK, PackFails
  <2>3. WireInv'
    BY <1>3, WireUnchanged DEF IInv, PackFails, BodyPending
  <2>4. TakenInv' /\ HeldInv' /\ DeliveredInv'
    BY <1>3, NothingTaken DEF IInv, PackFails, Holding
  <2>. QED
    BY <2>2, <2>3, <2>4 DEF IInv
<1>4. CASE CallSend(r, c)
  BY <1>2, <1>4, BeginPostStep DEF CallSend
<1>5. CASE CallRecv(r, c)
  BY <1>2, <1>5, CallRecvStep
<1>6. CASE CallSendrecv(r, c)
  BY <1>2, <1>6, BeginPostStep DEF CallSendrecv
<1>. QED
  BY <1>1, <1>3, <1>4, <1>5, <1>6

LEMMA StutterStep ==
    ASSUME IInv, UNCHANGED vars
    PROVE  IInv'
<1>. USE DEF IInv, vars
<1>1. TypeOK'
  BY DEF TypeOK
<1>2. WireInv'
  BY WireUnchanged DEF BodyPending
<1>3. TakenInv' /\ HeldInv' /\ DeliveredInv'
  BY NothingTaken DEF Holding
<1>. QED
  BY <1>1, <1>2, <1>3

-----------------------------------------------------------------------------

LEMMA Initial == Init => IInv
<1>. SUFFICES ASSUME Init PROVE IInv
  OBVIOUS
<1>1. \A s, d \in Rank : wire[s][d] = <<>> /\ Len(wire[s][d]) = 0 /\ taken[s][d] = {}
  BY DEF Init
<1>2. \A r \in Rank : pc[r] = "idle" /\ delivered[r] = <<>> /\ Len(delivered[r]) = 0
  BY DEF Init
<1>3. TypeOK
  <2>1. wire \in [Rank -> [Rank -> Seq(Part)]] /\ delivered \in [Rank -> Seq(Delivery)]
    BY DEF Init
  <2>2. taken \in [Rank -> [Rank -> SUBSET Nat]]
    BY DEF Init
  <2>3. pc \in [Rank -> PC] /\ made \in [Rank -> 0..MaxCalls]
    BY CallAssumption DEF Init, PC
  <2>4. call \in [Rank -> Call] /\ held \in [Rank -> Position]
    BY Idle DEF Init
  <2>. QED
    BY <1>1, <2>1, <2>2, <2>3, <2>4 DEF TypeOK
<1>4. WireInv
  BY <1>1, <1>2 DEF WireInv, BodyFollows, HeaderPrecedes, PendingIsLast, BodyPending
<1>5. TakenInv
  BY <1>1 DEF TakenInv, TakenInOrder, OwedBodyIsHeld
<1>6. HeldInv
  BY ONLY <1>2 DEF HeldInv, Holding
<1>7. DeliveredInv
  <2>1. \A r \in Rank : 1..Len(delivered[r]) = {}
    BY ONLY <1>2
  <2>2. DeliveredIsTaken /\ Intact
    BY Zenon, <2>1 DEF DeliveredIsTaken, Intact
  <2>3. TakenIsHeldOrDelivered
    BY ONLY <1>1 DEF TakenIsHeldOrDelivered
  <2>. QED
    BY <2>2, <2>3 DEF DeliveredInv
<1>. QED
  BY <1>3, <1>4, <1>5, <1>6, <1>7 DEF IInv

LEMMA Inductive == IInv /\ [Next]_vars => IInv'
<1>. SUFFICES ASSUME IInv, [Next]_vars PROVE IInv'
  OBVIOUS
<1>1. CASE UNCHANGED vars
  BY <1>1, StutterStep
<1>2. ASSUME NEW r \in Rank, MakeCall(r) PROVE IInv'
  BY <1>2, MakeCallStep
<1>3. ASSUME NEW r \in Rank, Advance(r) PROVE IInv'
  BY <1>3, HeaderSentStep, BodySentStep, RecvHeaderStep, RecvBodyStep,
     ExchangeRecvStep, ExchangeDoneStep, ExchangeBodySentStep DEF Advance
<1>. QED
  BY <1>1, <1>2, <1>3 DEF Next

LEMMA Invariance == Spec => []IInv
BY Initial, Inductive, PTL DEF Spec

(***************************************************************************)
(* Every reachable state is well typed; in particular every object that a  *)
(* receive has returned is one of the program's objects.                   *)
(***************************************************************************)
THEOREM TypeCorrect == Spec => []TypeOK
<1>1. IInv => TypeOK
  BY DEF IInv
<1>. QED
  BY <1>1, Invariance, PTL

(***************************************************************************)
(* Whatever receives return is, whole and unmixed, what was sent: pyMPI's  *)
(* split of objects into header and body is invisible to programs that use *)
(* the blocking calls, wildcards and concurrent senders included.          *)
(***************************************************************************)
THEOREM DeliveredIntact == Spec => []Intact
<1>1. IInv => Intact
  BY DEF IInv, DeliveredInv
<1>. QED
  BY <1>1, Invariance, PTL

(***************************************************************************)
(* A rank waiting for a body can only be handed the body of the header it  *)
(* holds, although bodies carry nothing that tells them apart.             *)
(***************************************************************************)
THEOREM OnlyItsBody == Spec => []HeldBodyIsNext
<1>1. IInv => HeldBodyIsNext
  <2>. SUFFICES ASSUME IInv, NEW r \in Rank, pc[r] = "recvBody",
                       NEW s \in Rank, NEW i \in 1..Len(wire[s][r]),
                       CanTake(s, r, i, ResolvedSource(r), ResolvedTag(r))
                PROVE  /\ s = held[r].source
                       /\ i = held[r].index + 1
                       /\ wire[s][r][i].part = "body"
                       /\ wire[s][r][i].obj = wire[s][r][held[r].index].obj
    BY DEF HeldBodyIsNext
  <2>1. /\ s = held[r].source
        /\ i = held[r].index + 1
        /\ wire[s][r][i] = BodyOf(wire[s][r][held[r].index])
    BY BodyComesNext DEF IInv
  <2>. QED
    BY <2>1 DEF BodyOf
<1>. QED
  BY <1>1, Invariance, PTL

-----------------------------------------------------------------------------
(***************************************************************************)
(* PointToPoint implements ObjectChannel: the split of an object into two  *)
(* MPI messages cannot be observed.  Posting a header is the abstract      *)
(* Send, the step that returns an object to Python is the abstract         *)
(* Receive, and every other step leaves the channel as it is.              *)
(***************************************************************************)
\* The header at position i of the log from s to d, as the channel sees it.
Stamped(s, d, i) == [stamp |-> i, tag |-> wire[s][d][i].tag, obj |-> wire[s][d][i].obj]

LEMMA PostedAt ==
    ASSUME NEW s \in Rank, NEW d \in Rank
    PROVE  \A e : e \in Posted[s][d] <=>
               \E i \in 1..Len(wire[s][d]) :
                   wire[s][d][i].part = "header" /\ e = Stamped(s, d, i)
BY DEF Posted, Stamped

LEMMA PostedType ==
    ASSUME TypeOK, NEW s \in Rank, NEW d \in Rank, NEW e \in Posted[s][d]
    PROVE  e \in Channel!Envelope
<1>1. PICK i \in 1..Len(wire[s][d]) : e = Stamped(s, d, i)
  BY PostedAt
<1>2. wire[s][d][i] \in Part /\ i \in Nat
  BY PartAt
<1>. QED
  BY <1>1, <1>2 DEF Stamped, Channel!Envelope, Part

LEMMA PostedFunction == Posted = [s \in Rank |-> [d \in Rank |-> Posted[s][d]]]
BY DEF Posted

LEMMA BodyIsInvisible ==
    ASSUME TypeOK, NEW r \in Rank, NEW c \in Call, Post(r, c, "body")
    PROVE  Posted' = Posted
<1>1. Appended(r, c.dest, [part |-> "body", tag |-> c.sendtag, obj |-> c.obj])
  BY PostFacts
<1>2. ASSUME NEW s \in Rank, NEW d \in Rank PROVE Posted'[s][d] = Posted[s][d]
  <2>0. PICK n \in Nat :
                 /\ wire'[r][c.dest][n] = [part |-> "body", tag |-> c.sendtag, obj |-> c.obj]
                 /\ \A i \in 1..Len(wire'[s][d]) :
                       i \in 1..Len(wire[s][d]) \/ (s = r /\ d = c.dest /\ i = n)
                 /\ \A i \in 1..Len(wire[s][d]) : wire'[s][d][i] = wire[s][d][i]
    BY <1>1 DEF Appended
  <2>1. \A i \in 1..Len(wire'[s][d]) :
            wire'[s][d][i].part = "header" =>
                i \in 1..Len(wire[s][d]) /\ wire'[s][d][i] = wire[s][d][i]
    BY <2>0
  <2>2. \A i \in 1..Len(wire[s][d]) :
            i \in 1..Len(wire'[s][d]) /\ wire'[s][d][i] = wire[s][d][i]
    BY <1>1 DEF Appended
  <2>3. \A e : e \in Posted'[s][d] <=> e \in Posted[s][d]
    BY <2>1, <2>2 DEF Posted
  <2>. QED
    BY <2>3
<1>3. Posted' = [s \in Rank |-> [d \in Rank |-> Posted'[s][d]]]
  BY DEF Posted
<1>. QED
  BY <1>2, <1>3, PostedFunction

LEMMA HeaderIsSend ==
    ASSUME TypeOK, NEW r \in Rank, NEW c \in Call, Post(r, c, "header"),
           delivered' = delivered
    PROVE  Channel!Send(r, c.dest)
<1>. DEFINE n == Len(wire[r][c.dest]) + 1
            new == [stamp |-> n, tag |-> c.sendtag, obj |-> c.obj]
            m == [part |-> "header", tag |-> c.sendtag, obj |-> c.obj]
<1>0. c.dest \in Rank /\ c.sendtag \in Tag /\ c.obj \in Object
  BY DEF Call
<1>1. /\ n \in Nat /\ Len(wire'[r][c.dest]) = n /\ wire'[r][c.dest][n] = m
      /\ \A s, d \in Rank : \A i \in 1..Len(wire[s][d]) :
            i \in 1..Len(wire'[s][d]) /\ wire'[s][d][i] = wire[s][d][i]
      /\ \A s, d \in Rank : \A i \in 1..Len(wire'[s][d]) :
            i \in 1..Len(wire[s][d]) \/ (s = r /\ d = c.dest /\ i = n)
      /\ \A s, d \in Rank : s # r \/ d # c.dest => wire'[s][d] = wire[s][d]
  <2>1. Appended(r, c.dest, m)
    BY PostFacts
  <2>. QED
    BY <2>1 DEF Appended
<1>2. Len(wire[r][c.dest]) \in Nat
  BY <1>0, PartAt
<1>3. new \in Channel!Envelope
  BY <1>0, <1>1 DEF Channel!Envelope
<1>4. \A f \in Posted[r][c.dest] : f.stamp < new.stamp
  <2>. SUFFICES ASSUME NEW f \in Posted[r][c.dest] PROVE f.stamp < n
    OBVIOUS
  <2>1. PICK i \in 1..Len(wire[r][c.dest]) : f = Stamped(r, c.dest, i)
    BY <1>0, PostedAt
  <2>2. f.stamp = i
    BY <2>1 DEF Stamped
  <2>. QED
    BY <1>2, <2>2
<1>5. Posted'[r][c.dest] = Posted[r][c.dest] \cup {new}
  <2>1. n \in 1..Len(wire'[r][c.dest])
    BY <1>1, <1>2
  <2>2. \A e : e \in Posted'[r][c.dest] <=>
            \E i \in 1..Len(wire'[r][c.dest]) :
                wire'[r][c.dest][i].part = "header"
                /\ e = [stamp |-> i, tag |-> wire'[r][c.dest][i].tag,
                        obj |-> wire'[r][c.dest][i].obj]
    BY <1>0 DEF Posted
  <2>3. ASSUME NEW e \in Posted'[r][c.dest]
        PROVE  e \in Posted[r][c.dest] \cup {new}
    <3>1. PICK i \in 1..Len(wire'[r][c.dest]) :
              wire'[r][c.dest][i].part = "header"
              /\ e = [stamp |-> i, tag |-> wire'[r][c.dest][i].tag,
                      obj |-> wire'[r][c.dest][i].obj]
      BY Zenon, <2>2
    <3>2. CASE i = n
      <4>1. wire'[r][c.dest][i] = m
        BY Zenon, <1>1, <3>2
      <4>2. e = new
        BY <3>1, <3>2, <4>1
      <4>. QED
        BY <4>2
    <3>3. CASE i \in 1..Len(wire[r][c.dest])
      <4>1. wire'[r][c.dest][i] = wire[r][c.dest][i]
        BY <1>0, <1>1, <3>3
      <4>2. wire[r][c.dest][i].part = "header" /\ e = Stamped(r, c.dest, i)
        BY <3>1, <4>1 DEF Stamped
      <4>. QED
        BY <1>0, <3>3, <4>2, PostedAt
    <3>. QED
      BY <1>0, <1>1, <3>2, <3>3
  <2>4. ASSUME NEW e \in Posted[r][c.dest] PROVE e \in Posted'[r][c.dest]
    <3>1. PICK i \in 1..Len(wire[r][c.dest]) :
              wire[r][c.dest][i].part = "header" /\ e = Stamped(r, c.dest, i)
      BY <1>0, PostedAt
    <3>2. i \in 1..Len(wire'[r][c.dest]) /\ wire'[r][c.dest][i] = wire[r][c.dest][i]
      BY Zenon, <1>0, <1>1, <3>1
    <3>3. e = [stamp |-> i, tag |-> wire[r][c.dest][i].tag, obj |-> wire[r][c.dest][i].obj]
      BY Zenon, <3>1 DEF Stamped
    <3>4. /\ wire'[r][c.dest][i].part = "header"
          /\ e = [stamp |-> i, tag |-> wire'[r][c.dest][i].tag,
                  obj |-> wire'[r][c.dest][i].obj]
      BY ONLY <3>1, <3>2, <3>3
    <3>. QED
      BY ONLY <2>2, <3>2, <3>4
  <2>5. new \in Posted'[r][c.dest]
    <3>1. wire'[r][c.dest][n] = m
      BY Zenon, <1>1
    <3>2. /\ wire'[r][c.dest][n].part = "header"
          /\ new = [stamp |-> n, tag |-> wire'[r][c.dest][n].tag,
                    obj |-> wire'[r][c.dest][n].obj]
      BY ONLY <3>1
    <3>. QED
      BY ONLY <2>1, <2>2, <3>2
  <2>. QED
    BY ONLY <2>3, <2>4, <2>5
<1>6. \A s, d \in Rank : s # r \/ d # c.dest => Posted'[s][d] = Posted[s][d]
  BY <1>1 DEF Posted
<1>7. Posted' = [Posted EXCEPT ![r][c.dest] = @ \cup {new}]
  <2>1. Posted' = [s \in Rank |-> [d \in Rank |-> Posted'[s][d]]]
    BY DEF Posted
  <2>2. PICK F, G, v, q : /\ F = Posted /\ G = Posted'
                        /\ v = Posted[r][c.dest] \cup {new} /\ q = c.dest
    OBVIOUS
  <2>3. G = [F EXCEPT ![r][q] = v]
    <3>1. /\ F = [s \in Rank |-> [d \in Rank |-> F[s][d]]]
          /\ G = [s \in Rank |-> [d \in Rank |-> G[s][d]]]
      BY <2>1, <2>2, PostedFunction
    <3>2. /\ G[r][q] = v
          /\ \A s, d \in Rank : s # r \/ d # q => G[s][d] = F[s][d]
      BY <1>5, <1>6, <2>2
    <3>3. q \in Rank
      BY <1>0, <2>2
    <3>4. /\ F[r] = [d \in Rank |-> F[r][d]] /\ G[r] = [d \in Rank |-> G[r][d]]
          /\ DOMAIN F = Rank /\ DOMAIN G = Rank
      BY <3>1
    <3>5. G[r] = [F[r] EXCEPT ![q] = v]
      BY <3>2, <3>3, <3>4
    <3>6. \A s \in Rank : s # r => G[s] = F[s]
      <4>. SUFFICES ASSUME NEW s \in Rank, s # r PROVE G[s] = F[s]
        OBVIOUS
      <4>1. F[s] = [d \in Rank |-> F[s][d]] /\ G[s] = [d \in Rank |-> G[s][d]]
        BY <3>1
      <4>. QED
        BY <3>2, <4>1
    <3>7. F = [s \in Rank |-> F[s]] /\ G = [s \in Rank |-> G[s]]
      BY <3>1, <3>4
    <3>. QED
      BY <3>5, <3>6, <3>7
  <2>. QED
    BY <2>2, <2>3
<1>8. new \in Posted'[r][c.dest]
  BY <1>5
<1>. QED
  BY <1>3, <1>4, <1>7, <1>8 DEF Channel!Send

\* Returning the object at pos to Python.
LEMMA DeliverIsReceive ==
    ASSUME IInv, IInv', NEW r \in Rank, NEW pos \in Position, NEW body,
           Deliver(r, pos, body), wire' = wire, ~Received(pos.source, r, pos.index)
    PROVE  Channel!Receive(pos.source, r)
<1>1. PICK s \in Rank, i \in Nat, t \in Tag :
          s = pos.source /\ i = pos.index /\ t = pos.tag
  BY DEF Position
<1>2. PICK o : o = Unpack(ReadHeader(wire[s][r][i]), body)
  OBVIOUS
<1>3. PICK d : d = [source |-> s, index |-> i, tag |-> t, obj |-> o]
  OBVIOUS
<1>4. delivered' = [delivered EXCEPT ![r] = Append(@, d)] /\ Return(r)
  BY <1>1, <1>2, <1>3 DEF Deliver
<1>5. ~Holding(r)'
  BY <1>4 DEF IInv, TypeOK, Return, Holding
<1>6. PICK n \in Nat : n = Len(delivered[r])
  BY DeliveryAt DEF IInv
<1>7. /\ delivered'[r] = Append(delivered[r], d)
      /\ Len(delivered'[r]) = n + 1
      /\ delivered'[r][n + 1] = d
      /\ \A k \in 1..n : delivered'[r][k] = delivered[r][k]
  <2>1. delivered'[r] = Append(delivered[r], d) /\ delivered[r] \in Seq(Delivery)
    BY Zenon, <1>4 DEF IInv, TypeOK
  <2>. QED
    BY <1>6, <2>1
<1>8. /\ i \in taken'[s][r]
      /\ wire[s][r][i].part = "header"
      /\ o = wire[s][r][i].obj /\ t = wire[s][r][i].tag
  <2>1. n + 1 \in 1..Len(delivered'[r])
    BY <1>7
  <2>2. delivered'[r][n + 1].source = s /\ delivered'[r][n + 1].index = i
        /\ delivered'[r][n + 1].obj = o /\ delivered'[r][n + 1].tag = t
    BY <1>3, <1>7
  <2>. QED
    BY <2>1, <2>2 DEF IInv, DeliveredInv, DeliveredIsTaken, Intact
<1>9. i \in 1..Len(wire[s][r])
  BY <1>8 DEF IInv, TypeOK
<1>10. PICK e : e = Stamped(s, r, i)
  OBVIOUS
<1>11. /\ e.stamp = i /\ e.tag = t /\ e.obj = o
       /\ e \in Posted[s][r]
  BY <1>8, <1>9, <1>10, PostedAt DEF Stamped
<1>12. ~Channel!Received(s, r, e.stamp)
  BY <1>1, <1>11 DEF Received, Channel!Received
<1>13. ASSUME NEW f \in Posted[s][r], f.tag = e.tag, f.stamp < e.stamp
       PROVE  Channel!Received(s, r, f.stamp)
  <2>1. PICK j \in 1..Len(wire[s][r]) :
            wire[s][r][j].part = "header" /\ f = Stamped(s, r, j)
    BY PostedAt
  <2>2. f.stamp = j /\ wire[s][r][j].tag = t /\ j < i
    BY <1>11, <1>13, <2>1 DEF Stamped
  <2>3. j \in taken'[s][r]
    BY <1>8, <2>2 DEF IInv, TakenInv, TakenInOrder
  <2>4. Received(s, r, j)'
    BY <1>5, <2>1, <2>3 DEF IInv, DeliveredInv, TakenIsHeldOrDelivered, Holds
  <2>5. PICK k \in 1..(n + 1) :
            delivered'[r][k].source = s /\ delivered'[r][k].index = j
    BY <1>7, <2>4 DEF Received
  <2>6. k # n + 1
    BY <1>3, <1>7, <2>2, <2>5
  <2>7. k \in 1..n
    BY <2>6
  <2>. QED
    BY <1>6, <1>7, <2>2, <2>5, <2>7 DEF Channel!Received
<1>14. Posted' = Posted
  BY DEF Posted
<1>15. d = [source |-> s, index |-> e.stamp, tag |-> e.tag, obj |-> e.obj]
  BY <1>3, <1>11
<1>. QED
  BY <1>1, <1>4, <1>11, <1>12, <1>13, <1>14, <1>15 DEF Channel!Receive

LEMMA Unchanged ==
    ASSUME wire' = wire, delivered' = delivered
    PROVE  UNCHANGED Channel!vars
BY DEF Posted, Channel!vars

\* With the header at pos in hand: on to the body, or deliver.
LEMMA AfterHeaderRefines ==
    ASSUME IInv, IInv', NEW r \in Rank, NEW pos \in Position,
           AfterHeader(r, pos), wire' = wire, ~Received(pos.source, r, pos.index)
    PROVE  [Channel!Next]_(Channel!vars)
<1>1. CASE delivered' = delivered
  BY <1>1, Unchanged
<1>2. CASE Deliver(r, pos, <<>>)
  <2>1. Channel!Receive(pos.source, r) /\ pos.source \in Rank
    BY <1>2, DeliverIsReceive DEF Position
  <2>. QED
    BY <2>1 DEF Channel!Next
<1>. QED
  BY <1>1, <1>2 DEF AfterHeader

LEMMA HeldRefines ==
    ASSUME IInv, IInv', NEW r \in Rank, Holding(r), wire' = wire,
           AfterHeader(r, held[r])
    PROVE  [Channel!Next]_(Channel!vars)
<1>1. held[r] \in Position
  BY DEF IInv, TypeOK
<1>2. ~Received(held[r].source, r, held[r].index)
  BY DEF IInv, HeldInv, HeaderInHand
<1>. QED
  BY <1>1, <1>2, AfterHeaderRefines

LEMMA RecvHeaderRefines ==
    ASSUME IInv, IInv', NEW r \in Rank, RecvHeader(r)
    PROVE  [Channel!Next]_(Channel!vars)
<1>1. PICK s \in Rank : \E i \in 1..Len(wire[s][r]) :
          /\ CanTake(s, r, i, call[r].source, call[r].recvtag)
          /\ AfterHeader(r, At(s, r, i))
  BY DEF RecvHeader
<1>2. PICK i \in 1..Len(wire[s][r]) :
          /\ CanTake(s, r, i, call[r].source, call[r].recvtag)
          /\ AfterHeader(r, At(s, r, i))
  BY <1>1
<1>3. At(s, r, i) \in Position /\ At(s, r, i).source = s /\ At(s, r, i).index = i
  BY PartAt DEF IInv, Part, At, Position
<1>4. i \notin taken[s][r]
  BY <1>2 DEF CanTake, Matches
<1>5. ~Received(s, r, i)
  BY <1>4 DEF Received, IInv, DeliveredInv, DeliveredIsTaken
<1>6. wire' = wire
  BY DEF RecvHeader
<1>. QED
  BY <1>2, <1>3, <1>5, <1>6, AfterHeaderRefines

LEMMA RecvBodyRefines ==
    ASSUME IInv, IInv', NEW r \in Rank, RecvBody(r)
    PROVE  [Channel!Next]_(Channel!vars)
<1>1. Holding(r) /\ held[r] \in Position /\ wire' = wire
  BY DEF RecvBody, Holding, IInv, TypeOK
<1>2. ~Received(held[r].source, r, held[r].index)
  BY <1>1 DEF IInv, HeldInv, HeaderInHand
<1>3. PICK body : Deliver(r, held[r], body)
  BY DEF RecvBody
<1>4. Channel!Receive(held[r].source, r) /\ held[r].source \in Rank
  BY <1>1, <1>2, <1>3, DeliverIsReceive DEF Position
<1>. QED
  BY <1>4 DEF Channel!Next

LEMMA BodyRefines ==
    ASSUME TypeOK, NEW r \in Rank, Post(r, call[r], "body"), delivered' = delivered
    PROVE  [Channel!Next]_(Channel!vars)
<1>1. call[r] \in Call
  BY DEF TypeOK
<1>. QED
  BY <1>1, BodyIsInvisible DEF Channel!vars

LEMMA AdvanceRefines ==
    ASSUME IInv, IInv', NEW r \in Rank, Advance(r)
    PROVE  [Channel!Next]_(Channel!vars)
<1>1. CASE HeaderSent(r)
  BY <1>1, BodyRefines, Unchanged DEF HeaderSent, IInv
<1>2. CASE BodySent(r)
  BY <1>2, Unchanged DEF BodySent
<1>3. CASE RecvHeader(r)
  BY <1>3, RecvHeaderRefines
<1>4. CASE RecvBody(r)
  BY <1>4, RecvBodyRefines
<1>5. CASE ExchangeRecv(r)
  BY <1>5, Unchanged DEF ExchangeRecv
<1>6. CASE ExchangeDone(r)
  BY <1>6, BodyRefines, HeldRefines DEF ExchangeDone, Holding, IInv
<1>7. CASE ExchangeBodySent(r)
  BY <1>7, HeldRefines DEF ExchangeBodySent, Holding
<1>. QED
  BY <1>1, <1>2, <1>3, <1>4, <1>5, <1>6, <1>7 DEF Advance

LEMMA MakeCallRefines ==
    ASSUME IInv, NEW r \in Rank, MakeCall(r)
    PROVE  [Channel!Next]_(Channel!vars)
<1>1. PICK c \in Calls[r] :
          PackFails(r, c) \/ CallSend(r, c) \/ CallRecv(r, c) \/ CallSendrecv(r, c)
  BY DEF MakeCall
<1>2. c \in Call /\ c.dest \in Rank
  BY CallAssumption DEF Call
<1>3. CASE Post(r, c, "header") /\ delivered' = delivered
  BY <1>2, <1>3, HeaderIsSend DEF Channel!Next, IInv
<1>4. CASE wire' = wire /\ delivered' = delivered
  BY <1>4, Unchanged
<1>. QED
  BY <1>1, <1>3, <1>4 DEF PackFails, CallSend, CallRecv, CallSendrecv, Begin

-----------------------------------------------------------------------------

LEMMA InitRefines == Init => Channel!Init
<1>. SUFFICES ASSUME Init PROVE Channel!Init
  OBVIOUS
<1>1. ASSUME NEW s \in Rank, NEW d \in Rank PROVE Posted[s][d] = {}
  <2>1. Len(wire[s][d]) = 0
    BY DEF Init
  <2>. QED
    BY <2>1, PostedAt
<1>2. Posted = [s \in Rank |-> [d \in Rank |-> {}]]
  BY <1>1, PostedFunction
<1>. QED
  BY <1>2 DEF Init, Channel!Init

LEMMA StepRefines == IInv /\ IInv' /\ [Next]_vars => [Channel!Next]_(Channel!vars)
<1>. SUFFICES ASSUME IInv, IInv', [Next]_vars PROVE [Channel!Next]_(Channel!vars)
  OBVIOUS
<1>1. CASE UNCHANGED vars
  BY <1>1, Unchanged DEF vars
<1>2. ASSUME NEW r \in Rank, MakeCall(r) PROVE [Channel!Next]_(Channel!vars)
  BY <1>2, MakeCallRefines
<1>3. ASSUME NEW r \in Rank, Advance(r) PROVE [Channel!Next]_(Channel!vars)
  BY <1>3, AdvanceRefines
<1>. QED
  BY <1>1, <1>2, <1>3 DEF Next

(***************************************************************************)
(* Whatever the number of ranks, the objects, the programs and what MPI    *)
(* buffers, the blocking calls are an object channel: nothing is lost to,  *)
(* duplicated by or reordered by the two-message protocol.                 *)
(***************************************************************************)
THEOREM Implements == Spec => ImplementsObjectChannel
BY InitRefines, StepRefines, Invariance, PTL
   DEF Spec, ImplementsObjectChannel, Channel!Spec
==============================================================================
