------------------------- MODULE RequestsIntact_proofs -------------------------
(***************************************************************************)
(* For any ranks, messages and requests: programs that take no liberty     *)
(* receive every object intact.                                            *)
(*                                                                         *)
(* The argument: on each channel and tag messages are taken in the order   *)
(* in which they were sent, so the first that is not taken is a body only  *)
(* when a receive has taken its header.  Until pyMPI has seen that header, *)
(* no receive that fits the body is posted, as programs do not let their   *)
(* receives overlap; when it has, the receive of the body is in the queue  *)
(* ahead of all those that fit it too.  So a header goes to a receive of a *)
(* header, and a body to the receive that has its header.                  *)
(***************************************************************************)
EXTENDS Requests_proofs

Accepts(p, s, t) == p.source \in {s, ANY} /\ p.tag \in {t, ANY}

Pattern(q) == [source |-> q.peer, tag |-> q.tag]

\* A split object is a header and, next to it, the body.
PairsOK(w) ==
    \A s, d \in Rank : \A i \in 1..Len(w[s][d]) :
        /\ w[s][d][i].part = "header" /\ Split(w[s][d][i].obj) =>
               i + 1 \in 1..Len(w[s][d]) /\ w[s][d][i + 1].part = "body"
        /\ w[s][d][i].part = "body" =>
               /\ i > 1
               /\ w[s][d][i].whole /\ w[s][d][i].obj = w[s][d][i - 1].obj
               /\ Split(w[s][d][i].obj)

\* Messages with one tag are taken in order.
InOrder(w, t) ==
    \A s, d \in Rank : \A i, j \in 1..Len(w[s][d]) :
        j < i /\ w[s][d][j].tag = w[s][d][i].tag /\ i \in t[s][d] => j \in t[s][d]

\* What a receive of rank d has got so far
GotHeader(d, q, w, t) ==
    /\ q.hdr.index \in t[q.hdr.source][d]
    /\ w[q.hdr.source][d][q.hdr.index].part = "header"
    /\ Accepts(Pattern(q), q.hdr.source, w[q.hdr.source][d][q.hdr.index].tag)
    /\ ~q.cancelled

SplitAt(d, pos, w) == Split(w[pos.source][d][pos.index].obj)

ReceiveOK(d, q, w, t) ==
    /\ q.hdr.index = 0 => q.bod.index = 0 /\ ~q.buffer /\ q.message = NONE /\ q.desc = "active"
    /\ q.hdr.index # 0 => GotHeader(d, q, w, t)
    /\ q.bod.index # 0 =>
           /\ q.bod = [source |-> q.hdr.source, index |-> q.hdr.index + 1]
           /\ q.hdr.index # 0 /\ SplitAt(d, q.hdr, w) /\ q.desc = "null"
    /\ q.buffer => q.desc = "null" /\ SplitAt(d, q.hdr, w)
    /\ q.message = NONE /\ q.desc = "null" => q.buffer
    /\ q.message # NONE => q.message = w[q.hdr.source][d][q.hdr.index].obj /\ q.desc = "null"

ReceivesOK(rq, w, t) ==
    \A d \in Rank : \A k \in 1..Len(rq[d]) : ~rq[d][k].send => ReceiveOK(d, rq[d][k], w, t)

\* pyMPI has not seen a header for receive q, which may have matched one.
IsUnseen(q) == ~q.send /\ q.desc = "active" /\ ~q.cancelled

\* The body of what q receives is still to be taken.
Pending(d, q, w) == ~q.send /\ q.hdr.index # 0 /\ q.bod.index = 0 /\ SplitAt(d, q.hdr, w)

\* Its receive is in the queue.
Awaited(d, q, w) == Pending(d, q, w) /\ q.desc = "null"

BodyOf(q, s, i) == q.hdr.source = s /\ q.hdr.index = i - 1

Apart(rq) ==
    \A d \in Rank : \A k, l \in 1..Len(rq[d]) : k # l =>
        /\ IsUnseen(rq[d][k]) /\ IsUnseen(rq[d][l]) =>
               ~Overlap(Pattern(rq[d][k]), Pattern(rq[d][l]))
        /\ ~rq[d][k].send /\ ~rq[d][l].send /\ rq[d][k].hdr.index # 0 => rq[d][k].hdr # rq[d][l].hdr

\* A body whose header has been taken waits for the receive that took it.
Owned(rq, w, t) ==
    \A s, d \in Rank :
        /\ \A k \in 1..Len(rq[d]) :
               Pending(d, rq[d][k], w) /\ rq[d][k].hdr.source = s => rq[d][k].hdr.index + 1 \notin t[s][d]
        /\ \A i \in 1..Len(w[s][d]) :
               w[s][d][i].part = "body" /\ i \notin t[s][d] /\ i - 1 \in t[s][d] =>
                   \E k \in 1..Len(rq[d]) : Pending(d, rq[d][k], w) /\ BodyOf(rq[d][k], s, i)

\* The receive p of d is posted for the header or for the body of q.
PostedFor(d, p, q, w) ==
    /\ p.part = "header" =>
           q.hdr.index = 0 /\ ~q.cancelled /\ p.source = q.peer /\ p.tag = q.tag
    /\ p.part = "body" =>
           /\ Pending(d, q, w) /\ q.desc = "null"
           /\ p.source = q.hdr.source /\ p.tag = w[q.hdr.source][d][q.hdr.index].tag

QueueOK(d, ps, rq, w) ==
    /\ \A n \in 1..Len(ps) : PostedFor(d, ps[n], rq[ps[n].req], w)
    /\ \A m, n \in 1..Len(ps) :
           /\ ps[m].req = ps[n].req => m = n
           /\ m < n /\ ps[m].part = "header" /\ ps[n].part = "body" =>
                  ~Accepts(ps[m], ps[n].source, ps[n].tag)
    /\ \A k \in 1..Len(rq) : Pending(d, rq[k], w) /\ rq[k].desc = "null" =>
           \E n \in 1..Len(ps) : ps[n].req = k /\ ps[n].part = "body"

QueuesOK(ps, rq, w) == \A d \in Rank : QueueOK(d, ps[d], rq[d], w)

Matching ==
    /\ PairsOK(wire) /\ InOrder(wire, taken)
    /\ ReceivesOK(req, wire, taken)
    /\ Apart(req) /\ Owned(req, wire, taken)
    /\ QueuesOK(posted, req, wire)

-----------------------------------------------------------------------------
(***************************************************************************)
(* Which message a receive takes.                                          *)
(***************************************************************************)
LEMMA WireTypes ==
    ASSUME Core, NEW s \in Rank, NEW d \in Rank
    PROVE  /\ Len(wire[s][d]) \in Nat /\ wire[s][d] \in Seq(Part)
           /\ \A i \in 1..Len(wire[s][d]) : wire[s][d][i] \in Part
           /\ taken[s][d] \subseteq 1..Len(wire[s][d])
           /\ WireOK(wire, taken)
<1>1. WireOK(wire, taken)
  BY DEF Core
<1>2. wire[s][d] \in Seq(Part) /\ Len(wire[s][d]) \in Nat
  BY <1>1, WireLengths
<1>. QED
  BY <1>1, <1>2, ElementOfSeq DEF WireOK

LEMMA ReceiveAt ==
    ASSUME Core, Matching, NEW d \in Rank, NEW k \in 1..Len(req[d]), ~req[d][k].send
    PROVE  /\ ReceiveOK(d, req[d][k], wire, taken)
           /\ req[d][k] \in Request /\ req[d][k].hdr \in Position
           /\ req[d][k].hdr.source \in Rank /\ req[d][k].hdr.index \in Nat
           /\ req[d][k].bod \in Position
<1>1. req[d][k] \in Request
  BY RequestAt
<1>. QED
  BY <1>1 DEF Matching, ReceivesOK, Request, Position

\* Two places on one channel differ in their number, and the place after a
\* header is a place.
LEMMA SamePlace ==
    \A x, y \in Position : x.source = y.source /\ x.index = y.index => x = y
BY DEF Position

LEMMA NextIsPositive == \A i : \A n \in Nat : i = n + 1 => i \in Nat /\ i # 0
OBVIOUS

\* The body that a receive waits for, on the wire
LEMMA NextIsBody ==
    ASSUME Core, PairsOK(wire), NEW d \in Rank, NEW q, q.hdr \in Position,
           Pending(d, q, wire), GotHeader(d, q, wire, taken)
    PROVE  LET s == q.hdr.source
               i == q.hdr.index
           IN  /\ s \in Rank /\ i \in 1..Len(wire[s][d]) /\ i + 1 \in 1..Len(wire[s][d])
               /\ wire[s][d][i].part = "header" /\ wire[s][d][i + 1].part = "body"
               /\ wire[s][d][i + 1].tag = wire[s][d][i].tag
               /\ wire[s][d][i + 1].obj = wire[s][d][i].obj
               /\ wire[s][d][i + 1].whole
               /\ i \in taken[s][d] /\ i \in Nat
<1>. DEFINE s == q.hdr.source
            i == q.hdr.index
<1>1. s \in Rank /\ i \in taken[s][d] /\ i \in Nat /\ i \in 1..Len(wire[s][d])
      /\ wire[s][d][i].part = "header"
  BY WireTypes DEF Position, GotHeader
<1>2. Split(wire[s][d][i].obj)
  BY DEF Pending, SplitAt
<1>. HIDE DEF s, i
<1>3. i + 1 \in 1..Len(wire[s][d]) /\ wire[s][d][i + 1].part = "body"
  BY <1>1, <1>2 DEF PairsOK
<1>4. (i + 1) - 1 = i
  BY <1>1
<1>5. wire[s][d][i + 1].whole /\ wire[s][d][i + 1].obj = wire[s][d][i].obj
  BY <1>1, <1>3, <1>4 DEF PairsOK
<1>6. wire[s][d][i].tag = wire[s][d][i + 1].tag
  BY <1>1, <1>3, <1>4, WireTypes DEF WireOK
<1>. QED
  BY <1>1, <1>3, <1>5, <1>6 DEF s, i

\* The receive of a body takes the body of its own object.
LEMMA BodyGoesToOwner ==
    ASSUME Core, Matching, NEW d \in Rank, NEW q, q.hdr \in Position,
           Pending(d, q, wire), GotHeader(d, q, wire, taken),
           q.hdr.index + 1 \notin taken[q.hdr.source][d],
           NEW p, p.source = q.hdr.source, p.tag = wire[q.hdr.source][d][q.hdr.index].tag,
           NEW s \in Rank, NEW i \in 1..Len(wire[s][d]), NEW earlier, MayTake(s, d, i, p, earlier)
    PROVE  s = q.hdr.source /\ i = q.hdr.index + 1
<1>. DEFINE h == q.hdr.index
<1>1. PairsOK(wire) /\ InOrder(wire, taken)
  BY DEF Matching
<1>2. /\ q.hdr.source \in Rank
      /\ h \in 1..Len(wire[q.hdr.source][d]) /\ h + 1 \in 1..Len(wire[q.hdr.source][d])
      /\ wire[q.hdr.source][d][h + 1].tag = wire[q.hdr.source][d][h].tag
      /\ h \in taken[q.hdr.source][d] /\ h \in Nat
  BY Zenon, <1>1, NextIsBody
<1>3. ANY \notin Rank /\ ANY \notin Tag
  BY RequestsAssumption
<1>4. Fits(s, d, i, p) /\ \A j \in 1..(i - 1) : ~Fits(s, d, j, p)
  BY DEF MayTake
<1>5. s = q.hdr.source
  BY Zenon, <1>2, <1>3, <1>4 DEF Fits
<1>. HIDE DEF h
<1>6. wire[s][d][h] \in Part /\ wire[s][d][i] \in Part /\ i \in Nat /\ Len(wire[s][d]) \in Nat
  <2>1. h \in 1..Len(wire[s][d])
    BY Zenon, <1>2, <1>5
  <2>. QED
    BY ONLY <2>1, Core, WireTypes, s \in Rank, d \in Rank, i \in 1..Len(wire[s][d])
<1>7. wire[s][d][i].tag = wire[s][d][h].tag /\ i \notin taken[s][d]
  BY Zenon, <1>3, <1>4, <1>5, <1>6 DEF Fits, Part, h
<1>8. ~(i < h + 1)
  <2>1. SUFFICES ASSUME i < h + 1
                 PROVE  FALSE
    OBVIOUS
  <2>2. i < h
    BY <1>2, <1>5, <1>6, <1>7, <2>1
  <2>3. i \in taken[s][d]
    BY <1>1, <1>2, <1>5, <1>7, <2>2 DEF InOrder
  <2>. QED
    BY <1>7, <2>3
<1>9. ~(i > h + 1)
  <2>1. SUFFICES ASSUME i > h + 1
                 PROVE  FALSE
    OBVIOUS
  <2>2. h + 1 \in 1..(i - 1)
    BY <1>2, <1>6, <2>1
  <2>3. Fits(s, d, h + 1, p)
    BY <1>2, <1>5, <1>6 DEF Fits, h
  <2>. QED
    BY <1>4, <2>2, <2>3
<1>. QED
  BY <1>2, <1>5, <1>6, <1>8, <1>9 DEF h

LEMMA OverlapOf ==
    ASSUME NEW p, NEW q, NEW s \in Rank, NEW t \in Tag, Accepts(p, s, t), Accepts(q, s, t)
    PROVE  Overlap(p, q)
  BY DEF Accepts, Overlap

\* The receive of a header takes a header.
LEMMA HeaderGetsHeader ==
    ASSUME Core, Matching, NEW d \in Rank, NEW n \in 1..Len(posted[d]), posted[d][n].part = "header",
           NEW s \in Rank, NEW i \in 1..Len(wire[s][d]),
           MayTake(s, d, i, posted[d][n], SubSeq(posted[d], 1, n - 1))
    PROVE  wire[s][d][i].part = "header"
<1>. DEFINE p == posted[d][n]
            q == req[d][p.req]
<1>1. SUFFICES ASSUME wire[s][d][i].part # "header"
               PROVE  FALSE
  OBVIOUS
<1>2. /\ wire[s][d][i] \in Part /\ wire[s][d][i].tag \in Tag /\ wire[s][d][i].part = "body"
      /\ i \in Nat /\ Len(wire[s][d]) \in Nat /\ WireOK(wire, taken)
  BY <1>1, WireTypes DEF Part
<1>3. /\ i > 1 /\ i - 1 \in 1..Len(wire[s][d]) /\ i - 1 \in 1..(i - 1)
      /\ wire[s][d][i - 1].tag = wire[s][d][i].tag
  BY <1>2 DEF WireOK
<1>4. /\ Fits(s, d, i, p) /\ ~Fits(s, d, i - 1, p)
      /\ \A m \in 1..Len(SubSeq(posted[d], 1, n - 1)) : ~Fits(s, d, i, SubSeq(posted[d], 1, n - 1)[m])
  BY <1>3 DEF MayTake
<1>5. i - 1 \in taken[s][d] /\ i \notin taken[s][d] /\ Accepts(p, s, wire[s][d][i].tag)
  BY <1>3, <1>4 DEF Fits, Accepts
<1>6. PICK l \in 1..Len(req[d]) : Pending(d, req[d][l], wire) /\ BodyOf(req[d][l], s, i)
  BY <1>2, <1>5 DEF Matching, Owned
<1>. DEFINE o == req[d][l]
<1>7. p.req \in 1..Len(req[d]) /\ ~q.send
  BY SMTT(40) DEF Core, PostedOK
<1>8. QueueOK(d, posted[d], req[d], wire)
  BY DEF Matching, QueuesOK
<1>9. q.hdr.index = 0 /\ ~q.cancelled /\ p.source = q.peer /\ p.tag = q.tag
  BY Zenon, <1>8 DEF QueueOK, PostedFor
<1>10. q.desc = "active"
  BY Zenon, <1>7, <1>9, ReceiveAt DEF ReceiveOK
<1>11. ~o.send /\ ReceiveOK(d, o, wire, taken) /\ o.hdr.index # 0 /\ GotHeader(d, o, wire, taken)
  BY <1>6, ReceiveAt DEF Pending, ReceiveOK
<1>12. o.hdr.source = s /\ o.hdr.index = i - 1
  BY <1>6 DEF BodyOf
<1>13. Accepts(Pattern(o), s, wire[s][d][i].tag) /\ ~o.cancelled
  BY <1>3, <1>11, <1>12 DEF GotHeader
<1>14. Accepts(Pattern(q), s, wire[s][d][i].tag)
  BY <1>5, <1>9 DEF Accepts, Pattern
<1>15. l # p.req
  BY <1>9, <1>11
<1>16. CASE o.desc = "active"
  <2>1. IsUnseen(o) /\ IsUnseen(q)
    BY <1>7, <1>9, <1>10, <1>11, <1>13, <1>16 DEF IsUnseen
  <2>2. ~Overlap(Pattern(q), Pattern(o))
    BY <1>7, <1>15, <2>1 DEF Matching, Apart
  <2>. QED
    BY <1>2, <1>13, <1>14, <2>2, OverlapOf
<1>17. CASE o.desc = "null"
  <2>1. PICK m \in 1..Len(posted[d]) : posted[d][m].req = l /\ posted[d][m].part = "body"
    BY <1>6, <1>8, <1>17 DEF QueueOK
  <2>2. posted[d][m].source = s /\ posted[d][m].tag = wire[s][d][i].tag
    <3>1. PostedFor(d, posted[d][m], o, wire)
      BY Zenon, <1>8, <2>1 DEF QueueOK
    <3>2. /\ posted[d][m].source = o.hdr.source
          /\ posted[d][m].tag = wire[o.hdr.source][d][o.hdr.index].tag
      BY <2>1, <3>1 DEF PostedFor
    <3>. QED
      BY <1>3, <1>12, <3>2
  <2>3. posted[d] \in Seq(PostedReceive) /\ Len(posted[d]) \in Nat
    BY DEF Core, PostedOK
  <2>4. m # n
    BY <2>1
  <2>5. CASE n < m
    BY <1>5, <1>8, <2>1, <2>2, <2>5 DEF QueueOK
  <2>6. CASE m < n
    <3>1. /\ Len(SubSeq(posted[d], 1, n - 1)) = n - 1
          /\ \A j \in 1..(n - 1) : SubSeq(posted[d], 1, n - 1)[j] = posted[d][j]
      BY <2>3
    <3>2. m \in 1..(n - 1)
      BY <2>3, <2>6
    <3>3. ~Fits(s, d, i, posted[d][m])
      BY <1>4, <3>1, <3>2
    <3>. QED
      BY <1>4, <2>2, <3>3 DEF Fits
  <2>. QED
    BY <2>3, <2>4, <2>5, <2>6
<1>18. o \in Request
  BY RequestAt
<1>. QED
  BY <1>16, <1>17, <1>18 DEF Request, Handle

-----------------------------------------------------------------------------
(***************************************************************************)
(* Steps that leave the wire and the queues alone.                         *)
(***************************************************************************)
LEMMA SetFacts ==
    ASSUME Core, NEW r \in Rank, NEW k \in 1..Len(req[r]), NEW q \in Request, Set(r, k, q)
    PROVE  /\ req' \in [Rank -> Seq(Request)]
           /\ req'[r][k] = q
           /\ \A l \in 1..Len(req[r]) : l # k => req'[r][l] = req[r][l]
           /\ \A a \in Rank : Len(req'[a]) = Len(req[a]) /\ (a # r => req'[a] = req[a])
<1>1. req \in [Rank -> Seq(Request)]
  BY DEF Core, ReqOK
<1>2. req' = [req EXCEPT ![r] = [req[r] EXCEPT ![k] = q]]
  BY <1>1 DEF Set
<1>3. /\ [req[r] EXCEPT ![k] = q] \in Seq(Request)
      /\ Len([req[r] EXCEPT ![k] = q]) = Len(req[r])
      /\ \A l \in 1..Len(req[r]) : [req[r] EXCEPT ![k] = q][l] = IF l = k THEN q ELSE req[r][l]
  BY <1>1, ExceptSeq
<1>. QED
  BY <1>1, <1>2, <1>3

\* q2 receives what q receives, and is as far, but that it may have seen the
\* header of an object that has no body.
Alike(d, q, q2, w) ==
    /\ q2.send = q.send
    /\ ~q.send =>
           /\ q2.peer = q.peer /\ q2.tag = q.tag /\ q2.hdr = q.hdr /\ q2.bod = q.bod
           /\ q2.cancelled = q.cancelled
           /\ q2.desc = q.desc \/ (q2.desc = "null" /\ ~SplitAt(d, q.hdr, w))

AllAlike(rq, rq2, w) ==
    \A d \in Rank : Len(rq2[d]) = Len(rq[d]) /\ \A k \in 1..Len(rq[d]) : Alike(d, rq[d][k], rq2[d][k], w)

LEMMA AlikeFacts ==
    ASSUME NEW d, NEW q, NEW q2, NEW w, Alike(d, q, q2, w)
    PROVE  /\ Pending(d, q2, w) <=> Pending(d, q, w)
           /\ ~q.send => q2.hdr = q.hdr /\ Pattern(q2) = Pattern(q)
           /\ IsUnseen(q2) => IsUnseen(q)
           /\ Pending(d, q, w) => q2.desc = q.desc /\ q2.hdr = q.hdr
           /\ \A p : ~q.send => (PostedFor(d, p, q, w) => PostedFor(d, p, q2, w))
<1>1. Pending(d, q2, w) <=> Pending(d, q, w)
  BY DEF Alike, Pending
<1>2. ~q.send => q2.hdr = q.hdr /\ Pattern(q2) = Pattern(q)
  BY DEF Alike, Pattern
<1>3. IsUnseen(q2) => IsUnseen(q)
  BY DEF Alike, IsUnseen
<1>4. Pending(d, q, w) => q2.desc = q.desc /\ q2.hdr = q.hdr
  BY DEF Alike, Pending
<1>5. ASSUME NEW p, ~q.send, PostedFor(d, p, q, w)
      PROVE  PostedFor(d, p, q2, w)
  BY <1>1, <1>2, <1>4, <1>5 DEF Alike, PostedFor
<1>. QED
  BY <1>1, <1>2, <1>3, <1>4, <1>5

\* q2 receives where q does, and has not forgotten a header.
Resembles(q, q2) ==
    /\ q2.send = q.send
    /\ ~q.send =>
           /\ q2.hdr = q.hdr /\ Pattern(q2) = Pattern(q)
           /\ IsUnseen(q2) => IsUnseen(q)

Similar(q, q2) == Resembles(q, q2) /\ (~q.send => (q2.bod.index = 0 <=> q.bod.index = 0))

LEMMA ResemblesKeeps ==
    ASSUME NEW rq, NEW rq2, Apart(rq),
           \A d \in Rank : Len(rq2[d]) = Len(rq[d]) /\ \A k \in 1..Len(rq[d]) : Resembles(rq[d][k], rq2[d][k])
    PROVE  Apart(rq2)
<1>1. ASSUME NEW d \in Rank, NEW k \in 1..Len(rq[d])
      PROVE  /\ rq2[d][k].send = rq[d][k].send
             /\ ~rq[d][k].send => rq2[d][k].hdr = rq[d][k].hdr /\ Pattern(rq2[d][k]) = Pattern(rq[d][k])
             /\ IsUnseen(rq2[d][k]) => IsUnseen(rq[d][k]) /\ ~rq[d][k].send
  <2>1. Resembles(rq[d][k], rq2[d][k])
    OBVIOUS
  <2>. QED
    BY <2>1 DEF Resembles, IsUnseen
<1>2. ASSUME NEW d \in Rank, NEW k \in 1..Len(rq[d]), NEW l \in 1..Len(rq[d]), k # l
      PROVE  /\ IsUnseen(rq2[d][k]) /\ IsUnseen(rq2[d][l]) =>
                    ~Overlap(Pattern(rq2[d][k]), Pattern(rq2[d][l]))
             /\ ~rq2[d][k].send /\ ~rq2[d][l].send /\ rq2[d][k].hdr.index # 0 =>
                    rq2[d][k].hdr # rq2[d][l].hdr
  <2>1. /\ IsUnseen(rq[d][k]) /\ IsUnseen(rq[d][l]) =>
              ~Overlap(Pattern(rq[d][k]), Pattern(rq[d][l]))
        /\ ~rq[d][k].send /\ ~rq[d][l].send /\ rq[d][k].hdr.index # 0 =>
              rq[d][k].hdr # rq[d][l].hdr
    BY <1>2 DEF Apart
  <2>. QED
    BY <1>1, <2>1
<1>. QED
  BY <1>2 DEF Apart

LEMMA SimilarKeeps ==
    ASSUME NEW rq, NEW rq2, NEW w, NEW t, Apart(rq), Owned(rq, w, t),
           \A d \in Rank : Len(rq2[d]) = Len(rq[d]) /\ \A k \in 1..Len(rq[d]) : Similar(rq[d][k], rq2[d][k])
    PROVE  Apart(rq2) /\ Owned(rq2, w, t)
<1>1. ASSUME NEW d \in Rank, NEW k \in 1..Len(rq[d])
      PROVE  /\ Pending(d, rq2[d][k], w) <=> Pending(d, rq[d][k], w)
             /\ Pending(d, rq[d][k], w) => rq2[d][k].hdr = rq[d][k].hdr
  <2>1. Similar(rq[d][k], rq2[d][k])
    OBVIOUS
  <2>. QED
    BY <2>1 DEF Similar, Resembles, Pending
<1>2. Apart(rq2)
  BY ResemblesKeeps DEF Similar
<1>3. Owned(rq2, w, t)
  <2>1. ASSUME NEW s \in Rank, NEW d \in Rank, NEW k \in 1..Len(rq[d]),
               Pending(d, rq2[d][k], w), rq2[d][k].hdr.source = s
        PROVE  rq2[d][k].hdr.index + 1 \notin t[s][d]
    BY <1>1, <2>1 DEF Owned
  <2>2. ASSUME NEW s \in Rank, NEW d \in Rank, NEW i \in 1..Len(w[s][d]),
               w[s][d][i].part = "body", i \notin t[s][d], i - 1 \in t[s][d]
        PROVE  \E k \in 1..Len(rq[d]) : Pending(d, rq2[d][k], w) /\ BodyOf(rq2[d][k], s, i)
    <3>1. PICK k \in 1..Len(rq[d]) : Pending(d, rq[d][k], w) /\ BodyOf(rq[d][k], s, i)
      BY <2>2 DEF Owned
    <3>2. Pending(d, rq2[d][k], w) /\ rq2[d][k].hdr = rq[d][k].hdr
      BY <1>1, <3>1
    <3>. QED
      BY <3>1, <3>2 DEF BodyOf
  <2>. QED
    BY <2>1, <2>2 DEF Owned
<1>. QED
  BY <1>2, <1>3

LEMMA MildStep ==
    ASSUME Core, Matching, UNCHANGED <<wire, taken, posted>>,
           AllAlike(req, req', wire), ReceivesOK(req', wire, taken)
    PROVE  Matching'
<1>1. /\ PairsOK(wire) /\ InOrder(wire, taken) /\ Apart(req) /\ Owned(req, wire, taken)
      /\ QueuesOK(posted, req, wire)
  BY DEF Matching
<1>2. \A d \in Rank : Len(req'[d]) = Len(req[d])
  BY DEF AllAlike
<1>3. ASSUME NEW d \in Rank, NEW k \in 1..Len(req[d])
      PROVE  Alike(d, req[d][k], req'[d][k], wire)
  BY DEF AllAlike
<1>4. ASSUME NEW d \in Rank, NEW k \in 1..Len(req[d])
      PROVE  Similar(req[d][k], req'[d][k])
  <2>1. Alike(d, req[d][k], req'[d][k], wire)
    BY <1>3
  <2>2. ~req[d][k].send => Pattern(req'[d][k]) = Pattern(req[d][k])
    BY <2>1, AlikeFacts
  <2>3. IsUnseen(req'[d][k]) => IsUnseen(req[d][k])
    BY <2>1, AlikeFacts
  <2>. QED
    BY <2>1, <2>2, <2>3 DEF Similar, Resembles, Alike
<1>5. Apart(req') /\ Owned(req', wire, taken)
  BY <1>1, <1>2, <1>4, SimilarKeeps
<1>6. QueuesOK(posted, req', wire)
  <2>1. ASSUME NEW d \in Rank
        PROVE  QueueOK(d, posted[d], req'[d], wire)
    <3>1. QueueOK(d, posted[d], req[d], wire)
      BY <1>1 DEF QueuesOK
    <3>2. ASSUME NEW n \in 1..Len(posted[d])
          PROVE  PostedFor(d, posted[d][n], req'[d][posted[d][n].req], wire)
      <4>1. posted[d][n].req \in 1..Len(req[d]) /\ ~req[d][posted[d][n].req].send
        BY DEF Core, PostedOK
      <4>2. PostedFor(d, posted[d][n], req[d][posted[d][n].req], wire)
        BY <3>1 DEF QueueOK
      <4>. QED
        BY <1>3, <4>1, <4>2, AlikeFacts
    <3>3. ASSUME NEW k \in 1..Len(req'[d]), Pending(d, req'[d][k], wire), req'[d][k].desc = "null"
          PROVE  \E n \in 1..Len(posted[d]) : posted[d][n].req = k /\ posted[d][n].part = "body"
      <4>1. k \in 1..Len(req[d])
        BY <1>2
      <4>2. Pending(d, req[d][k], wire) /\ req[d][k].desc = "null"
        BY <1>3, <3>3, <4>1, AlikeFacts
      <4>. QED
        BY <3>1, <4>1, <4>2 DEF QueueOK
    <3>. QED
      BY <3>1, <3>2, <3>3 DEF QueueOK
  <2>. QED
    BY <2>1 DEF QueuesOK
<1>. QED
  BY <1>1, <1>5, <1>6 DEF Matching

\* A step that replaces request k of rank r by q
LEMMA MildSet ==
    ASSUME Core, Matching, UNCHANGED <<wire, taken, posted>>,
           NEW r \in Rank, NEW k \in 1..Len(req[r]), NEW q \in Request, Set(r, k, q),
           Alike(r, req[r][k], q, wire), ~q.send => ReceiveOK(r, q, wire, taken)
    PROVE  Matching'
<1>1. /\ req'[r][k] = q
      /\ \A l \in 1..Len(req[r]) : l # k => req'[r][l] = req[r][l]
      /\ \A a \in Rank : Len(req'[a]) = Len(req[a]) /\ (a # r => req'[a] = req[a])
  BY SetFacts
<1>2. \A d \in Rank : \A l \in 1..Len(req[d]) : req'[d][l] = req[d][l] \/ (d = r /\ l = k)
  BY <1>1
<1>3. \A d, x, w : Alike(d, x, x, w)
  BY DEF Alike
<1>4. AllAlike(req, req', wire)
  BY <1>1, <1>2, <1>3 DEF AllAlike
<1>5. ReceivesOK(req', wire, taken)
  BY <1>1, <1>2 DEF ReceivesOK, Matching
<1>. QED
  BY <1>4, <1>5, MildStep

\* A send may change as it likes.
LEMMA SendStep ==
    ASSUME Core, Matching, UNCHANGED <<wire, taken, posted>>,
           NEW r \in Rank, NEW k \in 1..Len(req[r]), NEW q \in Request, Set(r, k, q),
           req[r][k].send, q.send
    PROVE  Matching'
<1>1. Alike(r, req[r][k], q, wire)
  <2>1. req[r][k].send \in BOOLEAN /\ q.send \in BOOLEAN
    BY RequestAt DEF Request
  <2>. QED
    BY <2>1 DEF Alike
<1>. QED
  BY <1>1, MildSet

LEMMA SameMatching ==
    ASSUME Matching, UNCHANGED <<req, wire, taken, posted>>
    PROVE  Matching'
  BY DEF Matching

-----------------------------------------------------------------------------
(***************************************************************************)
(* What a receive makes of its messages.                                   *)
(***************************************************************************)

LEMMA Unpacks ==
    ASSUME NEW o \in Object
    PROVE  Unpack(Header(o), IF Split(o) THEN o.bytes ELSE <<>>) = o
<1>1. o \in [kind : Kind, bytes : Seq(Byte)]
  BY ProtocolAssumption
<1>2. Len(o.bytes) \in Nat /\ (Len(o.bytes) = 0 => o.bytes = <<>>)
  BY <1>1, EmptySeq
<1>3. CASE InPayloadSlot(o)
  BY <1>1, <1>3 DEF Unpack, Header, Split, HasBody, InPayloadSlot
<1>4. CASE ~InPayloadSlot(o) /\ FitsPrefix(o)
  BY <1>1, <1>2, <1>4 DEF Unpack, Header, Split, HasBody, InPayloadSlot
<1>5. CASE ~InPayloadSlot(o) /\ ~FitsPrefix(o)
  <2>1. Len(o.bytes) # 0
    BY <1>2, <1>5, ProtocolAssumption DEF FitsPrefix
  <2>. QED
    BY <1>1, <1>5, <2>1 DEF Unpack, Header, Split, HasBody, InPayloadSlot
<1>. QED
  BY <1>3, <1>4, <1>5

LEMMA HeaderAt ==
    ASSUME Core, NEW d \in Rank, NEW q, q.hdr \in Position, GotHeader(d, q, wire, taken)
    PROVE  /\ MessageAt(d, q.hdr) \in Part /\ MessageAt(d, q.hdr).part = "header"
           /\ MessageAt(d, q.hdr).obj \in Object
           /\ HasBody(HeaderOf(d, q)) <=> SplitAt(d, q.hdr, wire)
           /\ MessageAt(d, q.hdr) = wire[q.hdr.source][d][q.hdr.index]
           /\ StatusAt(d, q.hdr) =
                  [source |-> q.hdr.source, tag |-> wire[q.hdr.source][d][q.hdr.index].tag]
<1>1. q.hdr.source \in Rank
  BY DEF Position
<1>2. /\ wire[q.hdr.source][d][q.hdr.index] \in Part
      /\ wire[q.hdr.source][d][q.hdr.index].part = "header"
  BY <1>1, WireTypes DEF GotHeader
<1>. QED
  BY <1>2 DEF MessageAt, HeaderOf, ReadHeader, Split, SplitAt, Part, StatusAt

\* The object is the one whose header was matched.
LEMMA ShortIsWhole ==
    ASSUME Core, NEW d \in Rank, NEW q, q.hdr \in Position, GotHeader(d, q, wire, taken),
           ~SplitAt(d, q.hdr, wire)
    PROVE  Reconstitute(d, q, <<>>) = MessageAt(d, q.hdr).obj
<1>. DEFINE o == MessageAt(d, q.hdr).obj
<1>1. MessageAt(d, q.hdr).part = "header" /\ o \in Object /\ ~Split(o)
  BY Zenon, HeaderAt DEF SplitAt
<1>2. ReadHeader(MessageAt(d, q.hdr)) = Header(o)
  BY <1>1 DEF ReadHeader
<1>. HIDE DEF o
<1>3. Unpack(Header(o), <<>>) = o
  BY <1>1, Unpacks
<1>. QED
  BY <1>1, <1>2, <1>3 DEF Reconstitute, o

LEMMA LongIsWhole ==
    ASSUME Core, PairsOK(wire), NEW d \in Rank, NEW q, q.hdr \in Position,
           GotHeader(d, q, wire, taken), q.hdr.index # 0, SplitAt(d, q.hdr, wire),
           q.bod = [source |-> q.hdr.source, index |-> q.hdr.index + 1]
    PROVE  Reconstitute(d, q, ReadBody(MessageAt(d, q.bod))) = MessageAt(d, q.hdr).obj
<1>. DEFINE o == MessageAt(d, q.hdr).obj
            s == q.hdr.source
            i == q.hdr.index
<1>1. MessageAt(d, q.hdr).part = "header" /\ o \in Object /\ Split(o) /\ o = wire[s][d][i].obj
  <2>1. /\ MessageAt(d, q.hdr).part = "header" /\ o \in Object
        /\ MessageAt(d, q.hdr) = wire[s][d][i]
    BY Zenon, HeaderAt
  <2>2. Split(wire[s][d][i].obj)
    BY Zenon DEF SplitAt
  <2>. QED
    BY Zenon, <2>1, <2>2
<1>2. ReadHeader(MessageAt(d, q.hdr)) = Header(o)
  BY Zenon, <1>1 DEF ReadHeader
<1>3. s \in Rank /\ i \in Nat /\ i \in 1..Len(wire[s][d]) /\ wire[s][d][i].part = "header"
  <2>1. s \in Rank /\ i \in Nat
    BY DEF Position
  <2>2. i \in taken[s][d] /\ wire[s][d][i].part = "header"
    BY Zenon DEF GotHeader
  <2>. HIDE DEF o, s, i
  <2>3. taken[s][d] \subseteq 1..Len(wire[s][d])
    BY Zenon, <2>1, WireTypes
  <2>. QED
    BY Zenon, <2>1, <2>2, <2>3
<1>4. i + 1 \in 1..Len(wire[s][d]) /\ wire[s][d][i + 1].part = "body" /\ (i + 1) - 1 = i
  <2>. HIDE DEF o, s, i
  <2>1. i + 1 \in 1..Len(wire[s][d]) /\ wire[s][d][i + 1].part = "body"
    BY Zenon, <1>1, <1>3 DEF PairsOK
  <2>2. (i + 1) - 1 = i
    BY <1>3
  <2>. QED
    BY <2>1, <2>2
<1>5. wire[s][d][i + 1].obj = o /\ wire[s][d][i + 1].whole
  <2>. HIDE DEF o, s, i
  <2>1. \A j \in 1..Len(wire[s][d]) : wire[s][d][j].part = "body" =>
             wire[s][d][j].whole /\ wire[s][d][j].obj = wire[s][d][j - 1].obj
    BY <1>3 DEF PairsOK
  <2>. QED
    BY <1>1, <1>4, <2>1
<1>6. MessageAt(d, q.bod) = wire[s][d][i + 1]
  BY DEF MessageAt
<1>7. ReadBody(MessageAt(d, q.bod)) = o.bytes
  BY Zenon, <1>4, <1>5, <1>6 DEF ReadBody
<1>. HIDE DEF o
<1>8. Unpack(Header(o), o.bytes) = o
  BY <1>1, Unpacks
<1>. QED
  BY ZenonT(60), <1>1, <1>2, <1>7, <1>8 DEF Reconstitute, o

\* Seen, field by field
LEMMA SeenFields ==
    ASSUME Core, NEW r \in Rank, NEW k \in 1..Len(req[r])
    PROVE  LET q  == req[r][k]
               q2 == Seen(r, q)
           IN  /\ q2.send = q.send /\ q2.peer = q.peer /\ q2.tag = q.tag /\ q2.hdr = q.hdr
               /\ q2.bod = q.bod /\ q2.cancelled = q.cancelled /\ q2.buffer = q.buffer
               /\ q2.message = q.message /\ q2.desc = "null" /\ q2.held = q.held
               /\ q.desc = "active" => q2.status = StatusAt(r, q.hdr)
  BY RequestAt DEF Seen, Request

-----------------------------------------------------------------------------
(***************************************************************************)
(* The tests and waits that build an object, or nothing.                   *)
(***************************************************************************)

\* Receive k of r, whose header has come, before and after it is looked at
LEMMA HereFacts ==
    ASSUME Core, Matching, NEW r \in Rank, NEW k \in 1..Len(req[r]), HeaderHere(r, k)
    PROVE  LET q == Seen(r, req[r][k])
           IN  /\ q \in Request /\ ~q.send /\ ~req[r][k].send
               /\ q.hdr \in Position /\ q.hdr.index # 0 /\ q.bod \in Position
               /\ GotHeader(r, req[r][k], wire, taken) /\ GotHeader(r, q, wire, taken)
               /\ ReceiveOK(r, req[r][k], wire, taken)
               /\ q.message = NONE /\ req[r][k].message = NONE
<1>. DEFINE o == req[r][k]
            q == Seen(r, o)
<1>1. ~o.send /\ o.message = NONE /\ o.hdr.index # 0
  BY DEF HeaderHere
<1>2. ReceiveOK(r, o, wire, taken) /\ o.hdr \in Position /\ o.bod \in Position
  BY <1>1, ReceiveAt
<1>3. GotHeader(r, o, wire, taken)
  BY <1>1, <1>2 DEF ReceiveOK
<1>4. /\ q.send = o.send /\ q.peer = o.peer /\ q.tag = o.tag /\ q.hdr = o.hdr
      /\ q.bod = o.bod /\ q.cancelled = o.cancelled /\ q.message = o.message
  BY SeenFields
<1>5. q \in Request
  BY Zenon, SeenOK
<1>. HIDE DEF o, q
<1>6. GotHeader(r, q, wire, taken)
  BY <1>3, <1>4 DEF GotHeader, Pattern
<1>. QED
  BY <1>1, <1>2, <1>3, <1>4, <1>5, <1>6 DEF o, q

LEMMA UnpackShortMatches ==
    ASSUME Core, Matching, NEW r \in Rank, NEW k \in 1..Len(req[r]), HeaderHere(r, k),
           UnpackShort(r, k, Seen(r, req[r][k])), wire' = wire
    PROVE  Matching'
<1>. DEFINE o  == req[r][k]
            q  == Seen(r, o)
            message == Reconstitute(r, q, <<>>)
            q2 == [q EXCEPT !.message = message]
<1>1. /\ q \in Request /\ ~q.send /\ ~o.send
      /\ q.hdr \in Position /\ q.hdr.index # 0
      /\ GotHeader(r, o, wire, taken) /\ GotHeader(r, q, wire, taken)
      /\ ReceiveOK(r, o, wire, taken)
  BY HereFacts
<1>2. /\ q.send = o.send /\ q.peer = o.peer /\ q.tag = o.tag /\ q.hdr = o.hdr
      /\ q.bod = o.bod /\ q.cancelled = o.cancelled /\ q.buffer = o.buffer /\ q.desc = "null"
  BY SeenFields
<1>3. Set(r, k, q2) /\ UNCHANGED <<taken, posted>> /\ ~HasBody(HeaderOf(r, q))
  BY DEF UnpackShort
<1>4. ~SplitAt(r, q.hdr, wire)
  BY <1>1, <1>3, HeaderAt
<1>5. /\ message = wire[q.hdr.source][r][q.hdr.index].obj
      /\ message \in Object
  BY Zenon, <1>1, <1>4, ShortIsWhole, HeaderAt
<1>. HIDE DEF message
<1>6. /\ q2 \in Request /\ q2.send = q.send /\ q2.peer = q.peer /\ q2.tag = q.tag /\ q2.hdr = q.hdr
      /\ q2.bod = q.bod /\ q2.cancelled = q.cancelled /\ q2.buffer = q.buffer /\ q2.desc = q.desc
      /\ q2.message = message
  BY Zenon, <1>1, <1>5 DEF Request
<1>. HIDE DEF o, q, q2
<1>7. ~q2.send /\ Alike(r, o, q2, wire)
  BY <1>1, <1>2, <1>4, <1>6 DEF Alike
<1>8. GotHeader(r, q2, wire, taken)
  BY Zenon, <1>1, <1>6 DEF GotHeader, Pattern
<1>9. NONE \notin Object
  BY RequestsAssumption
<1>10. q2.bod.index = 0 /\ ~q2.buffer
  BY <1>1, <1>2, <1>4, <1>6 DEF ReceiveOK
<1>11. q2.message # NONE /\ q2.message = wire[q2.hdr.source][r][q2.hdr.index].obj
       /\ q2.desc = "null" /\ q2.hdr.index # 0
  BY <1>1, <1>2, <1>5, <1>6, <1>9
<1>12. ReceiveOK(r, q2, wire, taken)
  BY <1>8, <1>10, <1>11 DEF ReceiveOK
<1>. QED
  BY <1>3, <1>6, <1>7, <1>12, MildSet DEF o

\* The body is there: q is the request, perhaps after another look at the header.
LEMMA UnpackLongMatches ==
    ASSUME Core, Matching, NEW r \in Rank, NEW k \in 1..Len(req[r]), HeaderHere(r, k),
           NEW q \in Request, q = req[r][k] \/ q = Seen(r, req[r][k]), q.bod.index # 0,
           NEW status \in Status, Set(r, k, UnpackLong(r, q, status)),
           UNCHANGED <<wire, taken, posted>>
    PROVE  Matching'
<1>. DEFINE o  == req[r][k]
            message == Reconstitute(r, q, ReadBody(MessageAt(r, q.bod)))
            q2 == UnpackLong(r, q, status)
<1>1. /\ ~o.send /\ GotHeader(r, o, wire, taken) /\ ReceiveOK(r, o, wire, taken)
      /\ o.hdr.index # 0 /\ o.hdr \in Position
  BY HereFacts, ReceiveAt DEF HeaderHere
<1>2. /\ q.send = o.send /\ q.peer = o.peer /\ q.tag = o.tag /\ q.hdr = o.hdr
      /\ q.bod = o.bod /\ q.cancelled = o.cancelled /\ q.buffer = o.buffer
      /\ q.desc \in {"null", o.desc}
  BY SeenFields
<1>3. /\ o.bod = [source |-> o.hdr.source, index |-> o.hdr.index + 1]
      /\ SplitAt(r, o.hdr, wire) /\ o.desc = "null"
  BY Zenon, <1>1, <1>2 DEF ReceiveOK
<1>. HIDE DEF o
<1>4. GotHeader(r, q, wire, taken)
  BY <1>1, <1>2 DEF GotHeader, Pattern
<1>5. PairsOK(wire)
  BY DEF Matching
<1>6. message = wire[q.hdr.source][r][q.hdr.index].obj /\ message \in Object
  <2>1. /\ q.hdr \in Position /\ q.hdr.index # 0 /\ SplitAt(r, q.hdr, wire)
        /\ q.bod = [source |-> q.hdr.source, index |-> q.hdr.index + 1]
    BY <1>1, <1>2, <1>3
  <2>2. message = MessageAt(r, q.hdr).obj
    BY <1>4, <1>5, <2>1, LongIsWhole
  <2>. HIDE DEF message
  <2>. QED
    BY <1>4, <2>1, <2>2, HeaderAt
<1>7. /\ q2.peer = q.peer /\ q2.tag = q.tag /\ q2.cancelled = q.cancelled
      /\ q2.buffer = FALSE /\ q2.desc = q.desc /\ q2.message = message
  BY DEF UnpackLong, Request
<1>8. q2 \in Request /\ q2.send = q.send /\ q2.hdr = q.hdr /\ q2.bod = q.bod
  BY UnpackLongType
<1>9. NONE \notin Object
  BY RequestsAssumption
<1>. HIDE DEF message, q2
<1>10. ~q2.send /\ Alike(r, o, q2, wire)
  BY Zenon, <1>1, <1>2, <1>3, <1>7, <1>8 DEF Alike
<1>11. GotHeader(r, q2, wire, taken)
  BY <1>4, <1>7, <1>8 DEF GotHeader, Pattern
<1>12. /\ q2.hdr = o.hdr /\ q2.bod = o.bod /\ q2.desc = "null" /\ ~q2.buffer
       /\ q2.message # NONE /\ q2.message = wire[q2.hdr.source][r][q2.hdr.index].obj
  BY <1>2, <1>3, <1>6, <1>7, <1>8, <1>9
<1>13. ReceiveOK(r, q2, wire, taken)
  BY <1>1, <1>3, <1>11, <1>12 DEF ReceiveOK
<1>. QED
  BY <1>8, <1>10, <1>13, MildSet DEF o, q2

LEMMA TestBodyMatches ==
    ASSUME Core, Matching, NEW r \in Rank, NEW k \in 1..Len(req[r]), HeaderHere(r, k),
           \/ TestBody(r, k, Seen(r, req[r][k]))
           \/ TestBodyPending(r, k, Seen(r, req[r][k])),
           wire' = wire
    PROVE  Matching'
<1>. DEFINE o == req[r][k]
            q == Seen(r, o)
<1>1. /\ q \in Request /\ ~q.send /\ ~o.send /\ q.hdr.index # 0
      /\ GotHeader(r, o, wire, taken) /\ GotHeader(r, q, wire, taken)
      /\ ReceiveOK(r, o, wire, taken) /\ q.bod \in Position
  BY HereFacts
<1>2. CASE TestBody(r, k, q)
  <2>. DEFINE status == IF q.buf = "null" THEN NoStatus ELSE StatusAt(r, q.bod)
  <2>1. Found(r, k, q)
    BY SeenOK DEF Found
  <2>2. RequestOK(r, q, wire, taken)
    BY <2>1 DEF Found
  <2>3. q.bod.index # 0 /\ Set(r, k, UnpackLong(r, q, status)) /\ UNCHANGED <<taken, posted>>
    BY <1>2 DEF TestBody
  <2>4. Arrived(r, q.bod, wire)
    BY <1>1, <2>2 DEF RequestOK
  <2>5. status \in Status
    BY <1>1, <2>3, <2>4, StatusType, NoStatusType
  <2>. HIDE DEF status
  <2>. QED
    BY <1>1, <2>3, <2>5, UnpackLongMatches
<1>3. CASE TestBodyPending(r, k, q)
  <2>1. Set(r, k, q) /\ UNCHANGED <<taken, posted>> /\ q.buffer
    BY <1>3 DEF TestBodyPending
  <2>2. /\ q.send = o.send /\ q.peer = o.peer /\ q.tag = o.tag /\ q.hdr = o.hdr
        /\ q.bod = o.bod /\ q.cancelled = o.cancelled /\ q.buffer = o.buffer
        /\ q.desc = "null" /\ q.message = o.message
    BY SeenFields
  <2>. HIDE DEF o, q
  <2>3. o.desc = "null"
    BY <1>1, <2>1, <2>2 DEF ReceiveOK
  <2>4. ReceiveOK(r, q, wire, taken) /\ Alike(r, o, q, wire)
    BY <1>1, <2>2, <2>3 DEF ReceiveOK, Alike
  <2>. QED
    BY <1>1, <2>1, <2>4, MildSet DEF o
<1>. QED
  BY <1>2, <1>3

LEMMA WaitBodyMatches ==
    ASSUME Core, Matching, NEW r \in Rank, NEW k \in 1..Len(req[r]), WaitBody(r, k), wire' = wire
    PROVE  Matching'
<1>. DEFINE q == req[r][k]
            status == IF q.buf = "null" THEN q.status ELSE StatusAt(r, q.bod)
<1>1. HeaderHere(r, k) /\ q.bod.index # 0 /\ Set(r, k, UnpackLong(r, q, status))
      /\ UNCHANGED <<taken, posted>>
  BY DEF WaitBody
<1>2. q \in Request /\ RequestOK(r, q, wire, taken)
  BY RequestAt
<1>3. q.bod \in Position /\ q.status \in Status /\ Arrived(r, q.bod, wire)
  BY <1>1, <1>2 DEF Request, RequestOK, HeaderHere
<1>4. status \in Status
  BY <1>1, <1>3, StatusType
<1>. HIDE DEF status
<1>. QED
  BY <1>1, <1>2, <1>4, UnpackLongMatches

\* A send that is tested, waited for, half tested, or forgotten
LEMMA SendsMatch ==
    ASSUME Core, Matching, Liberties = {}, NEW r \in Rank, NEW k \in 1..Len(req[r]),
           \/ (TestSend(r, k) \/ WaitSend(r, k)) /\ wire' = wire
           \/ Forget(r, k)
    PROVE  Matching'
<1>. DEFINE q == req[r][k]
<1>1. q \in Request /\ RequestOK(r, q, wire, taken)
  BY RequestAt
<1>2. CASE TestSend(r, k) /\ wire' = wire
  <2>. DEFINE q2 == [q EXCEPT !.buf = "null", !.told = TRUE]
  <2>1. q.send /\ Set(r, k, q2) /\ UNCHANGED <<taken, posted>>
    BY <1>2 DEF TestSend
  <2>2. q2 \in Request /\ q2.send = q.send
    BY <1>1 DEF Request, Handle
  <2>. HIDE DEF q2
  <2>. QED
    BY <1>2, <2>1, <2>2, SendStep
<1>3. CASE WaitSend(r, k) /\ wire' = wire
  <2>. DEFINE q2 == [q EXCEPT !.desc = "null", !.buf = "null", !.told = TRUE]
  <2>1. q.send /\ Set(r, k, q2) /\ UNCHANGED <<taken, posted>>
    BY <1>3 DEF WaitSend
  <2>2. q2 \in Request /\ q2.send = q.send
    BY <1>1 DEF Request, Handle
  <2>. HIDE DEF q2
  <2>. QED
    BY <1>3, <2>1, <2>2, SendStep
<1>4. CASE Forget(r, k)
  <2>. DEFINE q2 == [q EXCEPT !.message = Junk]
  <2>1. q.send /\ q.buffer /\ Set(r, k, q2) /\ UNCHANGED <<taken, posted>>
    BY Zenon, <1>4 DEF Forget, Borrowed
  <2>2. q.told
    BY ZenonT(60), <1>4, Zenon DEF Forget, Careful
  <2>3. SendDone(r, q.peer, q.bod.index)
    BY <1>1, <2>1, <2>2 DEF RequestOK, SendOK, Done, SendDone
  <2>4. wire' = wire
    BY <1>4, <2>3 DEF Forget
  <2>5. q2 \in Request /\ q2.send = q.send
    BY <1>1 DEF Request
  <2>. HIDE DEF q2
  <2>. QED
    BY <2>1, <2>4, <2>5, SendStep
<1>. QED
  BY <1>2, <1>3, <1>4

LEMMA TestCancelledMatches ==
    ASSUME Core, Matching, NEW r \in Rank, NEW k \in 1..Len(req[r]), TestCancelled(r, k)
    PROVE  Matching'
<1>. DEFINE q == req[r][k]
            q2 == [q EXCEPT !.buf = "null"]
<1>1. q \in Request /\ q.send \in BOOLEAN
  BY RequestAt
<1>2. Set(r, k, q2) /\ UNCHANGED <<wire, taken, posted>>
  BY DEF TestCancelled
<1>3. /\ q2 \in Request /\ q2.send = q.send /\ q2.peer = q.peer /\ q2.tag = q.tag /\ q2.hdr = q.hdr
      /\ q2.bod = q.bod /\ q2.cancelled = q.cancelled /\ q2.buffer = q.buffer /\ q2.desc = q.desc
      /\ q2.message = q.message
  BY <1>1 DEF Request, Handle
<1>4. ~q.send => ReceiveOK(r, q, wire, taken)
  BY ReceiveAt
<1>. HIDE DEF q, q2
<1>5. Alike(r, q, q2, wire)
  BY <1>3 DEF Alike
<1>6. ~q2.send => ReceiveOK(r, q2, wire, taken)
  BY <1>3, <1>4 DEF ReceiveOK, GotHeader, Pattern
<1>. QED
  BY <1>2, <1>3, <1>5, <1>6, MildSet DEF q

-----------------------------------------------------------------------------
(***************************************************************************)
(* Steps that take a receive out of its queue.                             *)
(***************************************************************************)
Removed(ps, ps2, n) ==
    /\ Len(ps2) = Len(ps) - 1
    /\ \A m \in 1..Len(ps2) : ps2[m] = ps[IF m < n THEN m ELSE m + 1]

LEMMA RemoveAtFacts ==
    ASSUME NEW S, NEW ps \in Seq(S), NEW n \in 1..Len(ps)
    PROVE  Removed(ps, RemoveAt(ps, n), n) /\ RemoveAt(ps, n) \in Seq(S)
<1>. DEFINE left == SubSeq(ps, 1, n - 1)
            right == SubSeq(ps, n + 1, Len(ps))
<1>1. Len(ps) \in Nat /\ n \in Nat /\ \A m \in 1..Len(ps) : ps[m] \in S
  BY ElementOfSeq
<1>2. /\ left \in Seq(S) /\ Len(left) = n - 1
      /\ \A m \in 1..(n - 1) : left[m] = ps[m]
  BY <1>1
<1>3. /\ right \in Seq(S) /\ Len(right) = Len(ps) - n
      /\ \A m \in 1..(Len(ps) - n) : right[m] = ps[n + m]
  BY <1>1
<1>. HIDE DEF left, right
<1>4. /\ left \o right \in Seq(S) /\ Len(left \o right) = Len(left) + Len(right)
      /\ \A m \in 1..Len(left) + Len(right) :
             (left \o right)[m] = IF m <= Len(left) THEN left[m] ELSE right[m - Len(left)]
  BY <1>2, <1>3, ConcatProperties
<1>5. Len(left \o right) = Len(ps) - 1
  BY <1>1, <1>2, <1>3, <1>4
<1>6. ASSUME NEW m \in 1..(Len(ps) - 1)
      PROVE  (left \o right)[m] = ps[IF m < n THEN m ELSE m + 1]
  <2>0. m \in 1..Len(left) + Len(right) /\ m \in Nat
    BY <1>1, <1>4, <1>5
  <2>1. CASE m < n
    <3>1. m <= Len(left) /\ m \in 1..(n - 1)
      BY <1>1, <1>2, <2>0, <2>1
    <3>. QED
      BY <1>2, <1>4, <2>0, <2>1, <3>1
  <2>2. CASE ~(m < n)
    <3>1. /\ ~(m <= Len(left)) /\ m - Len(left) \in 1..(Len(ps) - n)
          /\ n + (m - Len(left)) = m + 1
      BY <1>1, <1>2, <2>0, <2>2
    <3>2. (left \o right)[m] = right[m - Len(left)]
      BY <1>4, <2>0, <3>1
    <3>. QED
      BY <1>3, <2>2, <3>1, <3>2
  <2>. QED
    BY <2>1, <2>2
<1>7. RemoveAt(ps, n) = left \o right
  BY DEF RemoveAt, left, right
<1>. QED
  BY <1>4, <1>5, <1>6, <1>7 DEF Removed

LEMMA Unposted ==
    ASSUME Core, NEW r \in Rank, NEW n \in 1..Len(posted[r]), Unpost(r, n)
    PROVE  /\ Removed(posted[r], posted'[r], n)
           /\ \A a \in Rank : a # r => posted'[a] = posted[a]
           /\ posted[r] \in Seq(PostedReceive) /\ posted'[r] \in Seq(PostedReceive)
<1>1. posted \in [Rank -> Seq(PostedReceive)]
  BY DEF Core, PostedOK
<1>. QED
  BY <1>1, RemoveAtFacts DEF Unpost

\* The others stay, in their order.
LEMMA RemovedFacts ==
    ASSUME NEW S, NEW ps \in Seq(S), NEW ps2 \in Seq(S), NEW n \in 1..Len(ps), Removed(ps, ps2, n),
           \A i, j \in 1..Len(ps) : ps[i].req = ps[j].req => i = j
    PROVE  /\ \A m \in 1..Len(ps2) : \E i \in 1..Len(ps) \ {n} :
                  ps2[m] = ps[i] /\ ps2[m].req # ps[n].req
           /\ \A i \in 1..Len(ps) \ {n} : \E m \in 1..Len(ps2) : ps2[m] = ps[i]
           /\ \A l, m \in 1..Len(ps2) : l < m => \E i, j \in 1..Len(ps) :
                  i < j /\ ps2[l] = ps[i] /\ ps2[m] = ps[j]
           /\ \A i, j \in 1..Len(ps2) : ps2[i].req = ps2[j].req => i = j
<1>. DEFINE f(m) == IF m < n THEN m ELSE m + 1
<1>1. Len(ps) \in Nat /\ Len(ps2) = Len(ps) - 1 /\ n \in Nat
  BY DEF Removed
<1>2. ASSUME NEW m \in 1..Len(ps2)
      PROVE  ps2[m] = ps[f(m)] /\ f(m) \in 1..Len(ps) /\ f(m) # n
  BY <1>1 DEF Removed
<1>3. ASSUME NEW l \in 1..Len(ps2), NEW m \in 1..Len(ps2), l < m
      PROVE  f(l) < f(m)
  BY <1>1, <1>3
<1>4. ASSUME NEW i \in 1..Len(ps) \ {n}
      PROVE  \E m \in 1..Len(ps2) : f(m) = i
  <2>. DEFINE m == IF i < n THEN i ELSE i - 1
  <2>1. m \in 1..Len(ps2) /\ f(m) = i
    BY <1>1
  <2>. QED
    BY <2>1
<1>. HIDE DEF f
<1>5. ASSUME NEW i \in 1..Len(ps2), NEW j \in 1..Len(ps2), ps2[i].req = ps2[j].req
      PROVE  i = j
  <2>1. f(i) = f(j)
    BY <1>2, <1>5
  <2>2. ~(i < j) /\ ~(j < i)
    <3>1. f(i) \in Nat /\ f(j) \in Nat
      BY <1>1, <1>2
    <3>. QED
      BY <1>3, <2>1, <3>1
  <2>3. i \in Nat /\ j \in Nat
    BY <1>1
  <2>. QED
    BY <2>2, <2>3
<1>6. ASSUME NEW m \in 1..Len(ps2)
      PROVE  \E i \in 1..Len(ps) \ {n} : ps2[m] = ps[i] /\ ps2[m].req # ps[n].req
  BY <1>2
<1>7. ASSUME NEW i \in 1..Len(ps) \ {n}
      PROVE  \E m \in 1..Len(ps2) : ps2[m] = ps[i]
  BY <1>2, <1>4
<1>8. ASSUME NEW l \in 1..Len(ps2), NEW m \in 1..Len(ps2), l < m
      PROVE  \E i, j \in 1..Len(ps) : i < j /\ ps2[l] = ps[i] /\ ps2[m] = ps[j]
  BY <1>2, <1>3, <1>8
<1>. QED
  BY <1>5, <1>6, <1>7, <1>8

\* A queue without the receive for request k
LEMMA QueueWithout ==
    ASSUME NEW d, NEW ps \in Seq(PostedReceive), NEW ps2 \in Seq(PostedReceive), NEW rq, NEW rq2, NEW w,
           QueueOK(d, ps, rq, w), NEW k,
           \/ ps2 = ps /\ \A n \in 1..Len(ps) : ps[n].req # k
           \/ \E n \in 1..Len(ps) : ps[n].req = k /\ Removed(ps, ps2, n),
           Len(rq2) = Len(rq), \A l \in 1..Len(rq) : l # k => rq2[l] = rq[l],
           \A n \in 1..Len(ps) : ps[n].req \in 1..Len(rq),
           ~Awaited(d, rq2[k], w)
    PROVE  QueueOK(d, ps2, rq2, w)
<1>1. \A i, j \in 1..Len(ps) : ps[i].req = ps[j].req => i = j
  BY DEF QueueOK
<1>2. /\ \A m \in 1..Len(ps2) : \E i \in 1..Len(ps) : ps2[m] = ps[i] /\ ps2[m].req # k
      /\ \A i \in 1..Len(ps) : ps[i].req = k \/ \E m \in 1..Len(ps2) : ps2[m] = ps[i]
      /\ \A l, m \in 1..Len(ps2) : l < m => \E i, j \in 1..Len(ps) :
             i < j /\ ps2[l] = ps[i] /\ ps2[m] = ps[j]
      /\ \A i, j \in 1..Len(ps2) : ps2[i].req = ps2[j].req => i = j
  <2>1. CASE ps2 = ps /\ \A n \in 1..Len(ps) : ps[n].req # k
    BY <1>1, <2>1
  <2>2. CASE \E n \in 1..Len(ps) : ps[n].req = k /\ Removed(ps, ps2, n)
    <3>1. PICK n \in 1..Len(ps) : ps[n].req = k /\ Removed(ps, ps2, n)
      BY <2>2
    <3>2. /\ \A m \in 1..Len(ps2) : \E i \in 1..Len(ps) \ {n} :
                 ps2[m] = ps[i] /\ ps2[m].req # ps[n].req
          /\ \A i \in 1..Len(ps) \ {n} : \E m \in 1..Len(ps2) : ps2[m] = ps[i]
          /\ \A l, m \in 1..Len(ps2) : l < m => \E i, j \in 1..Len(ps) :
                 i < j /\ ps2[l] = ps[i] /\ ps2[m] = ps[j]
          /\ \A i, j \in 1..Len(ps2) : ps2[i].req = ps2[j].req => i = j
      BY <1>1, <3>1, RemovedFacts
    <3>. QED
      BY <3>1, <3>2
  <2>. QED
    BY <2>1, <2>2
<1>3. ASSUME NEW m \in 1..Len(ps2)
      PROVE  PostedFor(d, ps2[m], rq2[ps2[m].req], w)
  <2>1. PICK i \in 1..Len(ps) : ps2[m] = ps[i] /\ ps2[m].req # k
    BY <1>2
  <2>2. PostedFor(d, ps[i], rq[ps[i].req], w) /\ rq2[ps[i].req] = rq[ps[i].req]
    BY <2>1 DEF QueueOK
  <2>. QED
    BY <2>1, <2>2
<1>4. ASSUME NEW l \in 1..Len(ps2), NEW m \in 1..Len(ps2),
             l < m, ps2[l].part = "header", ps2[m].part = "body"
      PROVE  ~Accepts(ps2[l], ps2[m].source, ps2[m].tag)
  <2>1. PICK i \in 1..Len(ps), j \in 1..Len(ps) : i < j /\ ps2[l] = ps[i] /\ ps2[m] = ps[j]
    BY <1>2, <1>4
  <2>. QED
    BY <1>4, <2>1 DEF QueueOK
<1>5. ASSUME NEW l \in 1..Len(rq2), Pending(d, rq2[l], w), rq2[l].desc = "null"
      PROVE  \E m \in 1..Len(ps2) : ps2[m].req = l /\ ps2[m].part = "body"
  <2>1. l # k /\ rq2[l] = rq[l] /\ l \in 1..Len(rq)
    BY <1>5 DEF Awaited
  <2>2. PICK i \in 1..Len(ps) : ps[i].req = l /\ ps[i].part = "body"
    <3>1. Pending(d, rq[l], w) /\ rq[l].desc = "null"
      BY <1>5, <2>1
    <3>. QED
      BY <2>1, <3>1 DEF QueueOK
  <2>3. PICK m \in 1..Len(ps2) : ps2[m] = ps[i]
    BY <1>2, <2>1, <2>2
  <2>. QED
    BY <2>2, <2>3
<1>. QED
  BY <1>2, <1>3, <1>4, <1>5 DEF QueueOK

\* Only the queue of r changes, and the request k of r.
LEMMA QueueStep ==
    ASSUME Core, QueuesOK(posted, req, wire), NEW r \in Rank,
           \A a \in Rank : a # r => posted'[a] = posted[a] /\ req'[a] = req[a],
           QueueOK(r, posted'[r], req'[r], wire)
    PROVE  QueuesOK(posted', req', wire)
<1>1. ASSUME NEW a \in Rank, a # r
      PROVE  QueueOK(a, posted'[a], req'[a], wire)
  <2>1. QueueOK(a, posted[a], req[a], wire)
    BY DEF QueuesOK
  <2>. QED
    BY <1>1, <2>1
<1>. QED
  BY <1>1 DEF QueuesOK

\* The receive for request k leaves the queue of r, if it is there.
LEMMA QueuesWithout ==
    ASSUME Core, QueuesOK(posted, req, wire), NEW r \in Rank, NEW k \in 1..Len(req[r]),
           \/ posted' = posted /\ \A n \in 1..Len(posted[r]) : posted[r][n].req # k
           \/ \E n \in 1..Len(posted[r]) : posted[r][n].req = k /\ Unpost(r, n),
           \A l \in 1..Len(req[r]) : l # k => req'[r][l] = req[r][l],
           \A a \in Rank : Len(req'[a]) = Len(req[a]) /\ (a # r => req'[a] = req[a]),
           ~Awaited(r, req'[r][k], wire)
    PROVE  QueuesOK(posted', req', wire)
<1>. DEFINE ps == posted[r]
            ps2 == posted'[r]
            rq == req[r]
            rq2 == req'[r]
<1>1. /\ posted \in [Rank -> Seq(PostedReceive)]
      /\ \A n \in 1..Len(posted[r]) : posted[r][n].req \in 1..Len(req[r])
  BY DEF Core, PostedOK
<1>2. /\ \/ ps2 = ps /\ \A n \in 1..Len(ps) : ps[n].req # k
         \/ \E n \in 1..Len(ps) : ps[n].req = k /\ Removed(ps, ps2, n)
      /\ posted'[r] \in Seq(PostedReceive)
      /\ \A a \in Rank : a # r => posted'[a] = posted[a]
  BY <1>1, Unposted
<1>3. /\ ps \in Seq(PostedReceive) /\ ps2 \in Seq(PostedReceive) /\ QueueOK(r, ps, rq, wire)
      /\ \/ ps2 = ps /\ \A n \in 1..Len(ps) : ps[n].req # k
         \/ \E n \in 1..Len(ps) : ps[n].req = k /\ Removed(ps, ps2, n)
      /\ Len(rq2) = Len(rq) /\ \A l \in 1..Len(rq) : l # k => rq2[l] = rq[l]
      /\ \A n \in 1..Len(ps) : ps[n].req \in 1..Len(rq)
      /\ ~Awaited(r, rq2[k], wire)
  BY <1>1, <1>2 DEF QueuesOK
<1>. HIDE DEF ps, ps2, rq, rq2
<1>4. QueueOK(r, ps2, rq2, wire)
  BY <1>3, QueueWithout
<1>5. QueueOK(r, posted'[r], req'[r], wire)
  BY <1>4 DEF ps2, rq2
<1>. QED
  BY <1>2, <1>5, QueueStep

\* A receive that no message has matched is given up.
LEMMA WithdrawStep ==
    ASSUME Core, Matching, UNCHANGED <<wire, taken>>,
           NEW r \in Rank, NEW k \in 1..Len(req[r]), ~req[r][k].send, req[r][k].hdr.index = 0,
           NEW q \in Request, Set(r, k, q), q.send = req[r][k].send, q.peer = req[r][k].peer,
           q.tag = req[r][k].tag, q.hdr = req[r][k].hdr, q.bod = req[r][k].bod,
           q.desc = req[r][k].desc, q.message = req[r][k].message, ~q.buffer,
           req[r][k].cancelled => q.cancelled,
           \/ posted' = posted /\ \A n \in 1..Len(posted[r]) : posted[r][n].req # k
           \/ \E n \in 1..Len(posted[r]) : posted[r][n].req = k /\ Unpost(r, n)
    PROVE  Matching'
<1>1. /\ PairsOK(wire) /\ InOrder(wire, taken) /\ Apart(req) /\ Owned(req, wire, taken)
      /\ QueuesOK(posted, req, wire) /\ ReceivesOK(req, wire, taken)
  BY DEF Matching
<1>2. /\ req'[r][k] = q
      /\ \A l \in 1..Len(req[r]) : l # k => req'[r][l] = req[r][l]
      /\ \A a \in Rank : Len(req'[a]) = Len(req[a]) /\ (a # r => req'[a] = req[a])
  BY SetFacts
<1>3. ReceiveOK(r, req[r][k], wire, taken)
  BY Zenon, ReceiveAt
<1>4. ReceiveOK(r, q, wire, taken)
  BY <1>3 DEF ReceiveOK
<1>5. ReceivesOK(req', wire, taken)
  BY <1>1, <1>2, <1>4 DEF ReceivesOK
<1>6. \A x : Similar(x, x)
  BY DEF Similar, Resembles
<1>7. Similar(req[r][k], q)
  BY DEF Similar, Resembles, Pattern, IsUnseen
<1>8. Apart(req') /\ Owned(req', wire, taken)
  <2>1. ASSUME NEW d \in Rank, NEW l \in 1..Len(req[d])
        PROVE  Similar(req[d][l], req'[d][l])
    BY <1>2, <1>6, <1>7
  <2>. QED
    BY ONLY <1>1, <1>2, <2>1, Core, SimilarKeeps
<1>9. QueuesOK(posted', req', wire)
  <2>1. ~Awaited(r, req'[r][k], wire)
    BY <1>2 DEF Awaited, Pending
  <2>. QED
    BY <1>1, <1>2, <2>1, QueuesWithout
<1>. QED
  BY <1>1, <1>5, <1>8, <1>9 DEF Matching

LEMMA CancelMatches ==
    ASSUME Core, Matching, Liberties = {}, NEW r \in Rank, NEW k \in 1..Len(req[r]), Cancel(r, k)
    PROVE  Matching'
<1>. DEFINE o == req[r][k]
            q == [o EXCEPT !.cancelled = TRUE]
            part == IF o.buffer THEN "body" ELSE "header"
<1>1. ~o.send /\ Set(r, k, q) /\ UNCHANGED <<wire, taken>>
  BY DEF Cancel
<1>2. o.hdr.index = 0
  BY Zenon DEF Cancel, Careful
<1>3. \E n \in At(r, k, {part}) : Unpost(r, n)
  BY DEF Cancel
<1>4. \E n \in 1..Len(posted[r]) : posted[r][n].req = k /\ Unpost(r, n)
  BY <1>3 DEF At
<1>5. o \in Request
  BY RequestAt
<1>6. /\ q \in Request /\ q.send = o.send /\ q.peer = o.peer /\ q.tag = o.tag /\ q.hdr = o.hdr
      /\ q.bod = o.bod /\ q.desc = o.desc /\ q.message = o.message /\ q.buffer = o.buffer
      /\ q.cancelled
  BY <1>5 DEF Request
<1>7. ~o.buffer
  BY <1>1, <1>2, ReceiveAt DEF ReceiveOK
<1>. HIDE DEF q
<1>. QED
  BY <1>1, <1>2, <1>4, <1>6, <1>7, WithdrawStep

LEMMA DropMatches ==
    ASSUME Core, Matching, Liberties = {}, NEW r \in Rank, NEW k \in 1..Len(req[r]), Drop(r, k)
    PROVE  Matching'
<1>. DEFINE o == req[r][k]
<1>1. o \in Request /\ o.send \in BOOLEAN /\ UNCHANGED <<wire, taken>>
  BY RequestAt DEF Drop
<1>2. CASE DropIdle(r, k) \/ DropSend(r, k)
  <2>. DEFINE q == [o EXCEPT !.held = FALSE]
  <2>1. Set(r, k, q) /\ UNCHANGED posted
    BY <1>2 DEF DropIdle, DropSend
  <2>2. /\ q \in Request /\ q.send = o.send /\ q.peer = o.peer /\ q.tag = o.tag /\ q.hdr = o.hdr
        /\ q.bod = o.bod /\ q.desc = o.desc /\ q.message = o.message /\ q.buffer = o.buffer
        /\ q.cancelled = o.cancelled
    BY <1>1 DEF Request
  <2>3. ~o.send => ReceiveOK(r, o, wire, taken)
    BY ReceiveAt
  <2>. HIDE DEF o, q
  <2>4. Alike(r, o, q, wire)
    BY <2>2 DEF Alike
  <2>5. ~q.send => ReceiveOK(r, q, wire, taken)
    BY <2>2, <2>3 DEF ReceiveOK, GotHeader, Pattern
  <2>. QED
    BY <1>1, <2>1, <2>2, <2>4, <2>5, MildSet DEF o
<1>3. CASE DropReceive(r, k)
  <2>. DEFINE q == [o EXCEPT !.held = FALSE, !.buffer = FALSE]
              both == {"header", "body"}
  <2>1. ~o.send /\ Set(r, k, q)
    BY <1>3 DEF DropReceive
  <2>2. o.hdr.index = 0
    BY <1>3, Zenon DEF DropReceive, Careful
  <2>3. \/ posted' = posted /\ At(r, k, both) = {}
        \/ \E n \in At(r, k, both) : Unpost(r, n)
    BY <1>3 DEF DropReceive
  <2>4. \A n \in 1..Len(posted[r]) : posted[r][n].part \in both
    <3>1. posted[r] \in Seq(PostedReceive)
      BY DEF Core, PostedOK
    <3>2. \A n \in 1..Len(posted[r]) : posted[r][n] \in PostedReceive
      BY <3>1, ElementOfSeq
    <3>. QED
      BY <3>2 DEF PostedReceive
  <2>5. \/ posted' = posted /\ \A n \in 1..Len(posted[r]) : posted[r][n].req # k
        \/ \E n \in 1..Len(posted[r]) : posted[r][n].req = k /\ Unpost(r, n)
    <3>1. CASE posted' = posted /\ At(r, k, both) = {}
      BY <2>4, <3>1 DEF At
    <3>2. CASE \E n \in At(r, k, both) : Unpost(r, n)
      BY <3>2 DEF At
    <3>. QED
      BY <2>3, <3>1, <3>2
  <2>6. /\ q \in Request /\ q.send = o.send /\ q.peer = o.peer /\ q.tag = o.tag /\ q.hdr = o.hdr
        /\ q.bod = o.bod /\ q.desc = o.desc /\ q.message = o.message /\ ~q.buffer
        /\ q.cancelled = o.cancelled
    BY <1>1 DEF Request
  <2>. HIDE DEF q
  <2>. QED
    BY <1>1, <2>1, <2>2, <2>5, <2>6, WithdrawStep
<1>. QED
  BY <1>2, <1>3 DEF Drop

-----------------------------------------------------------------------------
(***************************************************************************)
(* Steps that post a receive.                                              *)
(***************************************************************************)

\* A queue and a receive for request k
LEMMA QueueWith ==
    ASSUME NEW d, NEW ps \in Seq(PostedReceive), NEW p \in PostedReceive, NEW rq, NEW rq2, NEW w,
           QueueOK(d, ps, rq, w), NEW k, p.req = k, \A n \in 1..Len(ps) : ps[n].req # k,
           \A n \in 1..Len(ps) : ps[n].req \in 1..Len(rq),
           \A l \in 1..Len(rq) : l # k => rq2[l] = rq[l],
           \A l \in 1..Len(rq2) : l # k => l \in 1..Len(rq),
           PostedFor(d, p, rq2[k], w),
           Pending(d, rq2[k], w) => p.part = "body",
           p.part = "body" =>
               \A n \in 1..Len(ps) : ps[n].part = "header" => ~Accepts(ps[n], p.source, p.tag)
    PROVE  QueueOK(d, Append(ps, p), rq2, w)
<1>. DEFINE ps2 == Append(ps, p)
<1>1. /\ Len(ps) \in Nat /\ Len(ps2) = Len(ps) + 1 /\ ps2[Len(ps) + 1] = p
      /\ \A n \in 1..Len(ps) : ps2[n] = ps[n]
  BY AppendProperties
<1>. HIDE DEF ps2
<1>2. \A n \in 1..Len(ps2) : n = Len(ps) + 1 \/ n \in 1..Len(ps)
  BY <1>1
<1>3. ASSUME NEW n \in 1..Len(ps2)
      PROVE  PostedFor(d, ps2[n], rq2[ps2[n].req], w)
  <2>1. CASE n = Len(ps) + 1
    BY <1>1, <2>1
  <2>2. CASE n \in 1..Len(ps)
    <3>1. PostedFor(d, ps[n], rq[ps[n].req], w)
      BY <2>2 DEF QueueOK
    <3>2. rq2[ps[n].req] = rq[ps[n].req]
      BY <2>2
    <3>. QED
      BY <1>1, <2>2, <3>1, <3>2
  <2>. QED
    BY <1>2, <2>1, <2>2
<1>4. ASSUME NEW m \in 1..Len(ps2), NEW n \in 1..Len(ps2), ps2[m].req = ps2[n].req
      PROVE  m = n
  <2>1. \A i, j \in 1..Len(ps) : ps[i].req = ps[j].req => i = j
    BY DEF QueueOK
  <2>. QED
    BY <1>1, <1>2, <1>4, <2>1
<1>5. ASSUME NEW m \in 1..Len(ps2), NEW n \in 1..Len(ps2), m < n,
             ps2[m].part = "header", ps2[n].part = "body"
      PROVE  ~Accepts(ps2[m], ps2[n].source, ps2[n].tag)
  <2>1. m \in 1..Len(ps)
    BY <1>1, <1>5
  <2>2. CASE n = Len(ps) + 1
    BY <1>1, <1>5, <2>1, <2>2
  <2>3. CASE n \in 1..Len(ps)
    <3>1. ps[m].part = "header" /\ ps[n].part = "body"
      BY <1>1, <1>5, <2>1, <2>3
    <3>2. ~Accepts(ps[m], ps[n].source, ps[n].tag)
      BY <1>5, <2>1, <2>3, <3>1 DEF QueueOK
    <3>. QED
      BY <1>1, <2>1, <2>3, <3>2
  <2>. QED
    BY <1>2, <2>2, <2>3
<1>6. ASSUME NEW l \in 1..Len(rq2), Pending(d, rq2[l], w), rq2[l].desc = "null"
      PROVE  \E n \in 1..Len(ps2) : ps2[n].req = l /\ ps2[n].part = "body"
  <2>1. CASE l = k
    <3>1. Len(ps) + 1 \in 1..Len(ps2)
      BY <1>1
    <3>. QED
      BY <1>1, <1>6, <2>1, <3>1
  <2>2. CASE l # k
    <3>1. l \in 1..Len(rq) /\ rq2[l] = rq[l]
      BY <2>2
    <3>2. Pending(d, rq[l], w) /\ rq[l].desc = "null"
      BY <1>6, <3>1
    <3>3. PICK n \in 1..Len(ps) : ps[n].req = l /\ ps[n].part = "body"
      BY <3>1, <3>2 DEF QueueOK
    <3>4. n \in 1..Len(ps2)
      BY <1>1
    <3>. QED
      BY <1>1, <3>3, <3>4
  <2>. QED
    BY <2>1, <2>2
<1>7. QueueOK(d, ps2, rq2, w)
  BY <1>3, <1>4, <1>5, <1>6 DEF QueueOK
<1>. QED
  BY <1>7 DEF ps2

\* A receive for a header overlaps no other whose header pyMPI has not seen.
LEMMA HeadersApart ==
    ASSUME Core, Matching, NEW r \in Rank, NEW n \in 1..Len(posted[r]), posted[r][n].part = "header",
           NEW k \in 1..Len(req[r]), IsUnseen(req[r][k]), posted[r][n].req # k
    PROVE  ~Overlap(posted[r][n], Pattern(req[r][k]))
<1>. DEFINE p == posted[r][n]
            q == req[r][p.req]
<1>1. p.req \in 1..Len(req[r]) /\ ~q.send
  BY DEF Core, PostedOK
<1>2. QueueOK(r, posted[r], req[r], wire) /\ Apart(req)
  BY DEF Matching, QueuesOK
<1>3. q.hdr.index = 0 /\ ~q.cancelled /\ p.source = q.peer /\ p.tag = q.tag
  BY Zenon, <1>2 DEF QueueOK, PostedFor
<1>4. q.desc = "active"
  BY Zenon, <1>1, <1>3, ReceiveAt DEF ReceiveOK
<1>5. IsUnseen(q)
  BY <1>1, <1>3, <1>4 DEF IsUnseen
<1>6. ~Overlap(Pattern(q), Pattern(req[r][k]))
  BY <1>1, <1>2, <1>5 DEF Apart
<1>. QED
  BY <1>3, <1>6 DEF Overlap, Pattern

\* The body of receive k, which is o, is to come, and p is its receive.
AwaitsBody(r, k, o, p) ==
    /\ o.desc = "active" /\ o.bod.index = 0 /\ IsUnseen(o)
    /\ SplitAt(r, o.hdr, wire) /\ Pending(r, o, wire)
    /\ p \in PostedReceive /\ p.req = k /\ p.part = "body" /\ p.source = o.hdr.source
    /\ p.tag = wire[o.hdr.source][r][o.hdr.index].tag
    /\ p.source \in Rank /\ p.tag \in Tag
    /\ \A n \in 1..Len(posted[r]) : posted[r][n].req # k

\* The body of receive k is to come, and its receive has not been posted yet.
LEMMA BodyDue ==
    ASSUME Core, Matching, NEW r \in Rank, NEW k \in 1..Len(req[r]), HeaderHere(r, k),
           HasBody(HeaderOf(r, Seen(r, req[r][k]))), ~Seen(r, req[r][k]).buffer
    PROVE  AwaitsBody(r, k, req[r][k], BodyReceive(k, Seen(r, req[r][k])))
<1>. DEFINE o  == req[r][k]
            q  == Seen(r, o)
            p  == BodyReceive(k, q)
<1>1. /\ ~o.send /\ q.hdr \in Position /\ q.hdr.index # 0 /\ o.message = NONE
      /\ GotHeader(r, o, wire, taken) /\ GotHeader(r, q, wire, taken)
      /\ ReceiveOK(r, o, wire, taken)
  BY HereFacts
<1>2. /\ q.hdr = o.hdr /\ q.buffer = o.buffer
      /\ o.desc = "active" => q.status = StatusAt(r, o.hdr)
  BY SMTT(40), SeenFields
<1>3. /\ SplitAt(r, q.hdr, wire)
      /\ StatusAt(r, q.hdr) =
             [source |-> q.hdr.source, tag |-> wire[q.hdr.source][r][q.hdr.index].tag]
      /\ MessageAt(r, q.hdr) \in Part
      /\ MessageAt(r, q.hdr) = wire[q.hdr.source][r][q.hdr.index]
  BY <1>1, HeaderAt
<1>4. o.desc = "active"
  <2>1. o.desc \in Handle
    BY RequestAt DEF Request
  <2>2. o.desc # "null"
    BY SMTT(40), <1>1, <1>2 DEF ReceiveOK
  <2>. QED
    BY <2>1, <2>2 DEF Handle
<1>5. /\ p.req = k /\ p.part = "body" /\ p.source = q.hdr.source
      /\ p.tag = wire[q.hdr.source][r][q.hdr.index].tag
      /\ p = [req |-> k, part |-> "body", source |-> p.source, tag |-> p.tag]
  <2>1. p = [req |-> k, part |-> "body", source |-> q.status.source, tag |-> q.status.tag]
    BY Zenon DEF BodyReceive
  <2>2. q.status = [source |-> q.hdr.source, tag |-> wire[q.hdr.source][r][q.hdr.index].tag]
    <3>. HIDE DEF q
    <3>1. q.status = StatusAt(r, q.hdr)
      BY Zenon, <1>2, <1>4
    <3>. QED
      BY Zenon, <1>3, <3>1
  <2>. HIDE DEF p, q
  <2>3. q.status.source = q.hdr.source /\ q.status.tag = wire[q.hdr.source][r][q.hdr.index].tag
    BY ONLY <2>2
  <2>4. /\ p.req = k /\ p.part = "body"
        /\ p.source = q.status.source /\ p.tag = q.status.tag
    BY ONLY <2>1
  <2>. QED
    BY Zenon, <2>1, <2>3, <2>4
<1>. HIDE DEF p, q
<1>6. p.source \in Rank /\ p.tag \in Tag /\ k \in Nat
  <2>1. q.hdr.source \in Rank
    BY <1>1 DEF Position
  <2>2. wire[q.hdr.source][r][q.hdr.index].tag \in Tag
    BY <1>3 DEF Part
  <2>3. k \in Nat
    BY ONLY k \in 1..Len(req[r])
  <2>. QED
    BY Zenon, <1>5, <2>1, <2>2, <2>3
<1>7. p \in PostedReceive
  BY Zenon, <1>5, <1>6 DEF PostedReceive
<1>8. o.bod.index = 0 /\ IsUnseen(o)
  BY Zenon, <1>1, <1>4 DEF ReceiveOK, GotHeader, IsUnseen
<1>9. Pending(r, o, wire)
  BY <1>1, <1>2, <1>3, <1>8 DEF Pending
<1>10. ASSUME NEW n \in 1..Len(posted[r]), posted[r][n].req = k
       PROVE  FALSE
  <2>1. QueueOK(r, posted[r], req[r], wire) /\ posted[r] \in Seq(PostedReceive)
    BY DEF Matching, QueuesOK, Core, PostedOK
  <2>2. PostedFor(r, posted[r][n], o, wire)
    BY <1>10, <2>1 DEF QueueOK
  <2>3. posted[r][n] \in PostedReceive
    BY <2>1, ElementOfSeq
  <2>4. posted[r][n].part \in {"header", "body"}
    BY <2>3 DEF PostedReceive
  <2>. QED
    BY <1>1, <1>2, <1>4, <2>2, <2>4 DEF PostedFor
<1>. QED
  <2>1. AwaitsBody(r, k, o, p)
    BY Zenon, <1>2, <1>3, <1>4, <1>5, <1>6, <1>7, <1>8, <1>9, <1>10 DEF AwaitsBody
  <2>. QED
    BY Zenon, <2>1 DEF p, q

LEMMA PostBodyReceiveMatches ==
    ASSUME Core, Matching, NEW r \in Rank, NEW k \in 1..Len(req[r]), HeaderHere(r, k),
           PostBodyReceive(r, k, Seen(r, req[r][k])), wire' = wire
    PROVE  Matching'
<1>. DEFINE o  == req[r][k]
            q  == Seen(r, o)
            q2 == [q EXCEPT !.buffer = TRUE, !.buf = "active"]
            p  == BodyReceive(k, q)
<1>1. /\ q \in Request /\ ~q.send /\ ~o.send
      /\ q.hdr \in Position /\ q.hdr.index # 0 /\ q.message = NONE /\ o.message = NONE
      /\ GotHeader(r, o, wire, taken) /\ GotHeader(r, q, wire, taken)
  BY HereFacts
<1>2. /\ q.send = o.send /\ q.peer = o.peer /\ q.tag = o.tag /\ q.hdr = o.hdr
      /\ q.bod = o.bod /\ q.cancelled = o.cancelled /\ q.desc = "null"
  BY SeenFields
<1>3. /\ Set(r, k, q2) /\ UNCHANGED taken /\ HasBody(HeaderOf(r, q)) /\ ~q.buffer
      /\ posted' = [posted EXCEPT ![r] = Append(@, p)]
  BY SMTT(40) DEF PostBodyReceive
<1>4. /\ o.bod.index = 0 /\ IsUnseen(o) /\ SplitAt(r, o.hdr, wire)
      /\ p \in PostedReceive /\ p.req = k /\ p.part = "body" /\ p.source = o.hdr.source
      /\ p.tag = wire[o.hdr.source][r][o.hdr.index].tag
      /\ p.source \in Rank /\ p.tag \in Tag
      /\ \A n \in 1..Len(posted[r]) : posted[r][n].req # k
  <2>1. AwaitsBody(r, k, o, p)
    BY Zenon, <1>3, BodyDue
  <2>. HIDE DEF o, p
  <2>. QED
    BY Zenon, <2>1 DEF AwaitsBody
<1>5. /\ q2 \in Request /\ q2.send = q.send /\ q2.peer = q.peer /\ q2.tag = q.tag /\ q2.hdr = q.hdr
      /\ q2.bod = q.bod /\ q2.cancelled = q.cancelled /\ q2.buffer /\ q2.desc = q.desc
      /\ q2.message = q.message
  BY <1>1 DEF Request, Handle
<1>. HIDE DEF p, q2, q
<1>6. /\ PairsOK(wire) /\ InOrder(wire, taken) /\ Apart(req) /\ Owned(req, wire, taken)
      /\ QueuesOK(posted, req, wire) /\ ReceivesOK(req, wire, taken)
  BY DEF Matching
<1>7. /\ req'[r][k] = q2
      /\ \A l \in 1..Len(req[r]) : l # k => req'[r][l] = req[r][l]
      /\ \A a \in Rank : Len(req'[a]) = Len(req[a]) /\ (a # r => req'[a] = req[a])
  BY <1>3, <1>5, SetFacts
<1>8. ReceivesOK(req', wire, taken)
  <2>1. GotHeader(r, q2, wire, taken)
    BY Zenon, <1>1, <1>5 DEF GotHeader, Pattern
  <2>2. ReceiveOK(r, q2, wire, taken)
    BY <1>1, <1>2, <1>4, <1>5, <2>1 DEF ReceiveOK
  <2>. QED
    BY SMTT(40), <1>6, <1>7, <2>2 DEF ReceivesOK
<1>9. Apart(req') /\ Owned(req', wire, taken)
  <2>1. \A x : Similar(x, x)
    BY DEF Similar, Resembles
  <2>2. Similar(o, q2)
    BY <1>1, <1>2, <1>5 DEF Similar, Resembles, Pattern, IsUnseen
  <2>3. ASSUME NEW d \in Rank, NEW l \in 1..Len(req[d])
        PROVE  Similar(req[d][l], req'[d][l])
    BY <1>7, <2>1, <2>2
  <2>. QED
    BY <1>6, <1>7, <2>3, SimilarKeeps
<1>10. QueuesOK(posted', req', wire)
  <2>1. QueueOK(r, posted[r], req[r], wire)
    BY <1>6 DEF QueuesOK
  <2>2. /\ posted \in [Rank -> Seq(PostedReceive)] /\ posted[r] \in Seq(PostedReceive)
        /\ \A n \in 1..Len(posted[r]) : posted[r][n].req \in 1..Len(req[r])
    BY Zenon DEF Core, PostedOK
  <2>3. Pending(r, q2, wire)
    BY <1>1, <1>2, <1>4, <1>5 DEF Pending
  <2>4. PostedFor(r, p, q2, wire)
    BY <1>2, <1>4, <1>5, <2>3 DEF PostedFor
  <2>5. ASSUME NEW n \in 1..Len(posted[r]), posted[r][n].part = "header"
        PROVE  ~Accepts(posted[r][n], p.source, p.tag)
    <3>1. ~Overlap(posted[r][n], Pattern(o))
      BY <1>4, <2>5, HeadersApart
    <3>2. Accepts(Pattern(o), p.source, p.tag)
      BY Zenon, <1>1, <1>4 DEF GotHeader
    <3>. QED
      BY Zenon, <1>4, <3>1, <3>2, OverlapOf
  <2>6. QueueOK(r, Append(posted[r], p), req'[r], wire)
    <3>. DEFINE ps == posted[r]
                rq == req[r]
                rq2 == req'[r]
    <3>1. /\ ps \in Seq(PostedReceive) /\ QueueOK(r, ps, rq, wire)
          /\ \A n \in 1..Len(ps) : ps[n].req # k
          /\ \A n \in 1..Len(ps) : ps[n].req \in 1..Len(rq)
          /\ \A l \in 1..Len(rq) : l # k => rq2[l] = rq[l]
          /\ \A l \in 1..Len(rq2) : l # k => l \in 1..Len(rq)
          /\ PostedFor(r, p, rq2[k], wire)
          /\ \A n \in 1..Len(ps) : ps[n].part = "header" => ~Accepts(ps[n], p.source, p.tag)
      BY Zenon, <1>4, <1>7, <2>1, <2>2, <2>4, <2>5
    <3>. HIDE DEF ps, rq, rq2
    <3>2. QueueOK(r, Append(ps, p), rq2, wire)
      BY Zenon, <1>4, <3>1, QueueWith
    <3>. QED
      BY <3>2 DEF ps, rq2
  <2>7. posted'[r] = Append(posted[r], p) /\ \A a \in Rank : a # r => posted'[a] = posted[a]
    BY <1>3, <2>2
  <2>. QED
    BY <1>6, <1>7, <2>6, <2>7, QueueStep
<1>. QED
  BY <1>3, <1>6, <1>8, <1>9, <1>10 DEF Matching

\* A request is added to those of rank r: a send, or a receive that has got nothing.
Added(rq, rq2, r, q) ==
    /\ Len(rq[r]) \in Nat /\ Len(rq2[r]) = Len(rq[r]) + 1 /\ rq2[r][Len(rq[r]) + 1] = q
    /\ \A k \in 1..Len(rq[r]) : rq2[r][k] = rq[r][k]
    /\ \A a \in Rank : a # r => rq2[a] = rq[a]

LEMMA AddedBy ==
    ASSUME Core, NEW r \in Rank, NEW q \in Request, req' = [req EXCEPT ![r] = Append(@, q)]
    PROVE  Added(req, req', r, q)
<1>1. req \in [Rank -> Seq(Request)]
  BY DEF Core, ReqOK
<1>2. /\ Len(Append(req[r], q)) = Len(req[r]) + 1 /\ Len(req[r]) \in Nat
      /\ \A l \in 1..Len(req[r]) : Append(req[r], q)[l] = req[r][l]
      /\ Append(req[r], q)[Len(req[r]) + 1] = q
  BY <1>1, AppendProperties
<1>. QED
  BY <1>1, <1>2 DEF Added

LEMMA AddRequest ==
    ASSUME NEW rq, NEW rq2, NEW w, NEW t, NEW r \in Rank, NEW q, Added(rq, rq2, r, q),
           ReceivesOK(rq, w, t), Apart(rq), Owned(rq, w, t),
           ~q.send =>
               /\ q.hdr.index = 0 /\ ReceiveOK(r, q, w, t)
               /\ \A k \in 1..Len(rq[r]) :
                      IsUnseen(rq[r][k]) => ~Overlap(Pattern(rq[r][k]), Pattern(q))
    PROVE  ReceivesOK(rq2, w, t) /\ Apart(rq2) /\ Owned(rq2, w, t)
<1>. DEFINE k == Len(rq[r]) + 1
<1>1. ASSUME NEW d \in Rank, NEW l \in 1..Len(rq2[d])
      PROVE  \/ l \in 1..Len(rq[d]) /\ rq2[d][l] = rq[d][l]
             \/ d = r /\ l = k /\ rq2[d][l] = q
  BY DEF Added
<1>2. ASSUME NEW d \in Rank, NEW l \in 1..Len(rq[d])
      PROVE  l \in 1..Len(rq2[d]) /\ rq2[d][l] = rq[d][l]
  BY DEF Added
<1>3. ReceivesOK(rq2, w, t)
  BY <1>1 DEF ReceivesOK
<1>4. Apart(rq2)
  <2>1. ASSUME NEW p, NEW p2, Overlap(p, p2)
        PROVE  Overlap(p2, p)
    BY <2>1 DEF Overlap
  <2>2. ASSUME NEW d \in Rank, NEW l \in 1..Len(rq2[d]), NEW m \in 1..Len(rq2[d]), l # m
        PROVE  /\ IsUnseen(rq2[d][l]) /\ IsUnseen(rq2[d][m]) =>
                      ~Overlap(Pattern(rq2[d][l]), Pattern(rq2[d][m]))
               /\ ~rq2[d][l].send /\ ~rq2[d][m].send /\ rq2[d][l].hdr.index # 0 =>
                      rq2[d][l].hdr # rq2[d][m].hdr
    <3>0. IsUnseen(q) => ~q.send
      BY DEF IsUnseen
    <3>1. CASE l \in 1..Len(rq[d]) /\ rq2[d][l] = rq[d][l] /\ m \in 1..Len(rq[d]) /\ rq2[d][m] = rq[d][m]
      BY <2>2, <3>1 DEF Apart
    <3>2. CASE d = r /\ rq2[d][l] = q /\ m \in 1..Len(rq[d]) /\ rq2[d][m] = rq[d][m]
      BY <2>1, <3>0, <3>2
    <3>3. CASE d = r /\ rq2[d][m] = q /\ l \in 1..Len(rq[d]) /\ rq2[d][l] = rq[d][l]
      BY <2>1, <3>0, <3>3
    <3>. QED
      BY <1>1, <2>2, <3>1, <3>2, <3>3
  <2>. QED
    BY <2>2 DEF Apart
<1>5. ~Pending(r, q, w)
  BY DEF Pending
<1>6. Owned(rq2, w, t)
  <2>1. ASSUME NEW s \in Rank, NEW d \in Rank, NEW l \in 1..Len(rq2[d]),
               Pending(d, rq2[d][l], w), rq2[d][l].hdr.source = s
        PROVE  rq2[d][l].hdr.index + 1 \notin t[s][d]
    <3>1. l \in 1..Len(rq[d]) /\ rq2[d][l] = rq[d][l]
      BY <1>1, <1>5, <2>1
    <3>. QED
      BY <2>1, <3>1 DEF Owned
  <2>2. ASSUME NEW s \in Rank, NEW d \in Rank, NEW i \in 1..Len(w[s][d]),
               w[s][d][i].part = "body", i \notin t[s][d], i - 1 \in t[s][d]
        PROVE  \E l \in 1..Len(rq2[d]) : Pending(d, rq2[d][l], w) /\ BodyOf(rq2[d][l], s, i)
    <3>1. PICK l \in 1..Len(rq[d]) : Pending(d, rq[d][l], w) /\ BodyOf(rq[d][l], s, i)
      BY <2>2 DEF Owned
    <3>2. l \in 1..Len(rq2[d]) /\ rq2[d][l] = rq[d][l]
      BY <1>2
    <3>. QED
      BY <3>1, <3>2
  <2>. QED
    BY <2>1, <2>2 DEF Owned
<1>. QED
  BY <1>3, <1>4, <1>6

LEMMA IrecvMatches ==
    ASSUME Core, Matching, Liberties = {}, NEW r \in Rank, NEW c \in Receives[r], Irecv(r, c)
    PROVE  Matching'
<1>. DEFINE q == [send |-> FALSE, peer |-> c.source, tag |-> c.tag, desc |-> "active",
                  buf |-> "null", buffer |-> FALSE, message |-> NONE, status |-> NoStatus,
                  hdr |-> Nowhere, bod |-> Nowhere, cancelled |-> FALSE,
                  told |-> FALSE, held |-> TRUE]
            k == Len(req[r]) + 1
            p == [req |-> k, part |-> "header", source |-> c.source, tag |-> c.tag]
<1>1. c \in [source : Rank \cup {ANY}, tag : Tag \cup {ANY}]
  BY RequestsAssumption
<1>2. /\ req' = [req EXCEPT ![r] = Append(@, q)]
      /\ posted' = [posted EXCEPT ![r] = Append(@, p)]
      /\ UNCHANGED <<wire, taken>>
  BY DEF Irecv
<1>3. Len(req[r]) \in Nat
  BY DEF Core, ReqOK
<1>4. Nowhere \in Position /\ Nowhere.index = 0
  BY NowhereOK
<1>5. /\ q \in Request /\ ~q.send /\ q.hdr.index = 0 /\ q.bod.index = 0 /\ ~q.buffer
      /\ q.message = NONE /\ q.desc = "active" /\ ~q.cancelled
      /\ q.peer = c.source /\ q.tag = c.tag
  BY <1>1, <1>4, NoStatusType DEF Request, Handle
<1>6. /\ p \in PostedReceive /\ p.req = k /\ p.part = "header"
      /\ p.source = c.source /\ p.tag = c.tag
  BY <1>1, <1>3 DEF PostedReceive
<1>. HIDE DEF q, p
<1>7. Added(req, req', r, q)
  BY <1>2, <1>5, AddedBy
<1>8. /\ PairsOK(wire) /\ InOrder(wire, taken) /\ Apart(req) /\ Owned(req, wire, taken)
      /\ QueuesOK(posted, req, wire) /\ ReceivesOK(req, wire, taken)
  BY DEF Matching
<1>9. ReceiveOK(r, q, wire, taken)
  BY <1>5 DEF ReceiveOK
<1>10. ASSUME NEW l \in 1..Len(req[r]), IsUnseen(req[r][l])
       PROVE  ~Overlap(Pattern(req[r][l]), Pattern(q))
  <2>1. \A x \in Unseen(r) : ~Overlap(x, c)
    BY Zenon DEF Irecv, Careful
  <2>2. Pattern(req[r][l]) \in Unseen(r)
    BY <1>10 DEF Unseen, Pattern, IsUnseen
  <2>3. ~Overlap(Pattern(req[r][l]), c)
    BY <2>1, <2>2
  <2>. QED
    BY <1>5, <2>3 DEF Overlap, Pattern
<1>11. ReceivesOK(req', wire, taken) /\ Apart(req') /\ Owned(req', wire, taken)
  BY <1>5, <1>7, <1>8, <1>9, <1>10, AddRequest
<1>12. QueuesOK(posted', req', wire)
  <2>1. QueueOK(r, posted[r], req[r], wire)
    BY <1>8 DEF QueuesOK
  <2>2. /\ posted \in [Rank -> Seq(PostedReceive)] /\ posted[r] \in Seq(PostedReceive)
        /\ \A n \in 1..Len(posted[r]) : posted[r][n].req \in 1..Len(req[r])
    BY DEF Core, PostedOK
  <2>3. \A n \in 1..Len(posted[r]) : posted[r][n].req # k
    BY <1>3, <2>2
  <2>4. /\ req'[r][k] = q
        /\ \A l \in 1..Len(req[r]) : req'[r][l] = req[r][l]
        /\ \A l \in 1..Len(req'[r]) : l # k => l \in 1..Len(req[r])
        /\ \A a \in Rank : a # r => req'[a] = req[a]
    BY <1>7 DEF Added
  <2>5. ~Pending(r, q, wire)
    BY <1>5 DEF Pending
  <2>6. PostedFor(r, p, q, wire)
    BY <1>5, <1>6 DEF PostedFor
  <2>7. QueueOK(r, Append(posted[r], p), req'[r], wire)
    <3>. DEFINE ps == posted[r]
                rq == req[r]
                rq2 == req'[r]
    <3>1. /\ ps \in Seq(PostedReceive) /\ QueueOK(r, ps, rq, wire)
          /\ \A n \in 1..Len(ps) : ps[n].req # k
          /\ \A n \in 1..Len(ps) : ps[n].req \in 1..Len(rq)
          /\ \A l \in 1..Len(rq) : l # k => rq2[l] = rq[l]
          /\ \A l \in 1..Len(rq2) : l # k => l \in 1..Len(rq)
          /\ PostedFor(r, p, rq2[k], wire)
          /\ ~Pending(r, rq2[k], wire)
      BY <2>1, <2>2, <2>3, <2>4, <2>5, <2>6
    <3>. HIDE DEF ps, rq, rq2, k
    <3>2. QueueOK(r, Append(ps, p), rq2, wire)
      BY <1>6, <3>1, QueueWith
    <3>. QED
      BY <3>2 DEF ps, rq2
  <2>8. posted'[r] = Append(posted[r], p) /\ \A a \in Rank : a # r => posted'[a] = posted[a]
    BY <1>2, <2>2
  <2>. QED
    BY <1>8, <2>4, <2>7, <2>8, QueueStep
<1>. QED
  BY <1>2, <1>8, <1>11, <1>12 DEF Matching

-----------------------------------------------------------------------------
(***************************************************************************)
(* isend.                                                                  *)
(***************************************************************************)
Extends(w, w2) ==
    \A s, d \in Rank :
        /\ Len(w[s][d]) \in Nat /\ Len(w2[s][d]) \in Nat /\ Len(w[s][d]) <= Len(w2[s][d])
        /\ \A i \in 1..Len(w[s][d]) : w2[s][d][i] = w[s][d][i]

\* The parts of an object join the wire side by side.
LEMMA IsendPairs ==
    ASSUME Core, PairsOK(wire), NEW r \in Rank, NEW d \in Rank, NEW o \in Object,
           NEW h \in Part, NEW b \in Part, h.part = "header", b.part = "body",
           h.obj = o, b.obj = o, b.whole,
           NEW parts, parts = IF Split(o) THEN <<h, b>> ELSE <<h>>, Join(r, d, parts)
    PROVE  Extends(wire, wire') /\ PairsOK(wire')
<1>. DEFINE n == Len(wire[r][d])
            ws == wire[r][d]
<1>1. /\ wire \in [Rank -> [Rank -> Seq(Part)]]
      /\ \A s, e \in Rank : Len(wire[s][e]) \in Nat /\ wire[s][e] \in Seq(Part)
  BY WireTypes DEF Core, WireOK
<1>2. parts \in Seq(Part) /\ Len(parts) \in 1..2 /\ parts[1] = h
      /\ (Split(o) <=> Len(parts) = 2) /\ (Len(parts) = 2 => parts[2] = b)
  <2>1. CASE Split(o)
    <3>1. parts = <<h, b>>
      BY <2>1
    <3>. QED
      BY <2>1, <3>1
  <2>2. CASE ~Split(o)
    <3>1. parts = <<h>>
      BY <2>2
    <3>. QED
      BY <2>2, <3>1
  <2>. QED
    BY <2>1, <2>2
<1>3. /\ wire'[r][d] = ws \o parts
      /\ \A s, e \in Rank : ~(s = r /\ e = d) => wire'[s][e] = wire[s][e]
  BY <1>1 DEF Join
<1>4. /\ Len(ws \o parts) = n + Len(parts)
      /\ \A i \in 1..n + Len(parts) : (ws \o parts)[i] = IF i <= n THEN ws[i] ELSE parts[i - n]
  <2>1. ws \in Seq(Part) /\ parts \in Seq(Part) /\ n = Len(ws)
    BY <1>1, <1>2
  <2>. HIDE DEF ws, n
  <2>. QED
    BY <2>1, ConcatProperties
<1>5. n \in Nat
  BY <1>1
<1>. HIDE DEF n
<1>6. /\ Len(wire'[r][d]) = n + Len(parts)
      /\ \A i \in 1..n : wire'[r][d][i] = wire[r][d][i]
      /\ wire'[r][d][n + 1] = h
      /\ Split(o) => wire'[r][d][n + 2] = b /\ Len(parts) = 2
      /\ ~Split(o) => Len(parts) = 1
  <2>1. n + 1 \in 1..n + Len(parts) /\ ~(n + 1 <= n) /\ (n + 1) - n = 1
    BY <1>2, <1>5
  <2>2. Len(parts) = 2 => n + 2 \in 1..n + Len(parts) /\ ~(n + 2 <= n) /\ (n + 2) - n = 2
    BY <1>2, <1>5
  <2>3. (ws \o parts)[n + 1] = h
    BY Zenon, <1>2, <1>4, <2>1
  <2>4. Len(parts) = 2 => (ws \o parts)[n + 2] = b
    BY Zenon, <1>2, <1>4, <2>2
  <2>5. \A i \in 1..n : i \in 1..n + Len(parts) /\ i <= n
    BY <1>2, <1>5
  <2>6. Len(parts) = 1 \/ Len(parts) = 2
    BY <1>2
  <2>7. \A i \in 1..n : (ws \o parts)[i] = ws[i]
    BY Zenon, <1>4, <2>5
  <2>8. /\ Split(o) <=> Len(parts) = 2
        /\ wire'[r][d] = ws \o parts /\ Len(ws \o parts) = n + Len(parts)
    BY Zenon, <1>2, <1>3, <1>4
  <2>. QED
    BY ONLY <2>3, <2>4, <2>6, <2>7, <2>8
<1>7. Extends(wire, wire')
  <2>1. n = Len(wire[r][d])
    BY DEF n
  <2>2. ASSUME NEW s \in Rank, NEW e \in Rank
        PROVE  /\ Len(wire[s][e]) \in Nat /\ Len(wire'[s][e]) \in Nat
               /\ Len(wire[s][e]) <= Len(wire'[s][e])
               /\ \A i \in 1..Len(wire[s][e]) : wire'[s][e][i] = wire[s][e][i]
    <3>1. CASE s = r /\ e = d
      <4>1. n + Len(parts) \in Nat /\ n <= n + Len(parts)
        BY <1>2, <1>5
      <4>. QED
        BY <1>5, <1>6, <2>1, <3>1, <4>1
    <3>2. CASE ~(s = r /\ e = d)
      <4>1. wire'[s][e] = wire[s][e] /\ Len(wire[s][e]) \in Nat
        BY <1>1, <1>3, <3>2
      <4>. QED
        BY <4>1
    <3>. QED
      BY <3>1, <3>2
  <2>. QED
    BY <2>2 DEF Extends
<1>8. ASSUME NEW s \in Rank, NEW e \in Rank, NEW i \in 1..Len(wire'[s][e])
      PROVE  /\ wire'[s][e][i].part = "header" /\ Split(wire'[s][e][i].obj) =>
                    i + 1 \in 1..Len(wire'[s][e]) /\ wire'[s][e][i + 1].part = "body"
             /\ wire'[s][e][i].part = "body" =>
                    /\ i > 1
                    /\ wire'[s][e][i].whole /\ wire'[s][e][i].obj = wire'[s][e][i - 1].obj
                    /\ Split(wire'[s][e][i].obj)
  <2>1. CASE i \in 1..Len(wire[s][e])
    <3>1. /\ wire[s][e][i].part = "header" /\ Split(wire[s][e][i].obj) =>
                 i + 1 \in 1..Len(wire[s][e]) /\ wire[s][e][i + 1].part = "body"
          /\ wire[s][e][i].part = "body" =>
                 /\ i > 1
                 /\ wire[s][e][i].whole /\ wire[s][e][i].obj = wire[s][e][i - 1].obj
                 /\ Split(wire[s][e][i].obj)
      BY <2>1 DEF PairsOK
    <3>2. /\ wire'[s][e][i] = wire[s][e][i]
          /\ Len(wire[s][e]) \in Nat /\ Len(wire'[s][e]) \in Nat /\ Len(wire[s][e]) <= Len(wire'[s][e])
          /\ \A j \in 1..Len(wire[s][e]) : wire'[s][e][j] = wire[s][e][j]
      BY <1>7, <2>1 DEF Extends
    <3>3. i > 1 => i - 1 \in 1..Len(wire[s][e])
      BY <2>1, <3>2
    <3>4. i + 1 \in 1..Len(wire[s][e]) => i + 1 \in 1..Len(wire'[s][e])
      BY <2>1, <3>2
    <3>5. i > 1 => wire'[s][e][i - 1] = wire[s][e][i - 1]
      BY <3>2, <3>3
    <3>6. i + 1 \in 1..Len(wire[s][e]) => wire'[s][e][i + 1] = wire[s][e][i + 1]
      BY <3>2
    <3>. QED
      BY <3>1, <3>2, <3>4, <3>5, <3>6
  <2>2. CASE i \notin 1..Len(wire[s][e])
    <3>1. s = r /\ e = d
      BY <1>3, <2>2
    <3>2. n = Len(wire[r][d])
      BY DEF n
    <3>3. i = n + 1 \/ (i = n + 2 /\ Split(o))
      <4>1. i \in 1..n + Len(parts) /\ i \notin 1..n
        BY <1>6, <2>2, <3>1, <3>2
      <4>2. CASE Split(o)
        <5>1. Len(parts) = 2
          BY <1>6, <4>2
        <5>. QED
          BY <1>5, <4>1, <4>2, <5>1
      <4>3. CASE ~Split(o)
        <5>1. Len(parts) = 1
          BY <1>6, <4>3
        <5>. QED
          BY <1>5, <4>1, <5>1
      <4>. QED
        BY <4>2, <4>3
    <3>4. CASE i = n + 1
      <4>1. wire'[s][e][i] = h
        BY <1>6, <3>1, <3>4
      <4>2. Split(o) => i + 1 \in 1..Len(wire'[s][e]) /\ wire'[s][e][i + 1] = b
        <5>1. i + 1 = n + 2
          BY <1>5, <3>4
        <5>. QED
          BY <1>5, <1>6, <3>1, <5>1
      <4>. QED
        BY <4>1, <4>2
    <3>5. CASE i = n + 2 /\ Split(o)
      <4>1. wire'[s][e][i] = b
        BY <1>6, <3>1, <3>5
      <4>2. i - 1 = n + 1 /\ i > 1
        BY <1>5, <3>5
      <4>3. wire'[s][e][i - 1] = h
        BY <1>6, <3>1, <4>2
      <4>. QED
        BY <3>5, <4>1, <4>2, <4>3
    <3>. QED
      BY <3>3, <3>4, <3>5
  <2>. QED
    BY <2>1, <2>2
<1>9. PairsOK(wire')
  BY <1>8 DEF PairsOK
<1>. QED
  BY <1>7, <1>9

\* What was on the wire is there still, and none of what is new is taken.
LEMMA ExtendsKeeps ==
    ASSUME Core, Matching, NEW w, Extends(wire, w), PairsOK(w), WireOK(w, taken)
    PROVE  /\ InOrder(w, taken) /\ ReceivesOK(req, w, taken) /\ Owned(req, w, taken)
           /\ QueuesOK(posted, req, w)
<1>1. /\ PairsOK(wire) /\ InOrder(wire, taken) /\ Apart(req) /\ Owned(req, wire, taken)
      /\ QueuesOK(posted, req, wire) /\ ReceivesOK(req, wire, taken)
  BY DEF Matching
<1>2. ASSUME NEW s \in Rank, NEW d \in Rank
      PROVE  /\ Len(wire[s][d]) \in Nat /\ Len(w[s][d]) \in Nat /\ Len(wire[s][d]) <= Len(w[s][d])
             /\ \A i \in 1..Len(wire[s][d]) : w[s][d][i] = wire[s][d][i] /\ i \in 1..Len(w[s][d])
             /\ taken[s][d] \subseteq 1..Len(wire[s][d])
  BY WireTypes DEF Extends
<1>3. InOrder(w, taken)
  <2>1. ASSUME NEW s \in Rank, NEW d \in Rank, NEW i \in 1..Len(w[s][d]), NEW j \in 1..Len(w[s][d]),
               j < i, w[s][d][j].tag = w[s][d][i].tag, i \in taken[s][d]
        PROVE  j \in taken[s][d]
    <3>1. i \in 1..Len(wire[s][d]) /\ j \in 1..Len(wire[s][d])
      BY <1>2, <2>1
    <3>2. wire[s][d][j].tag = wire[s][d][i].tag
      BY <1>2, <2>1, <3>1
    <3>. QED
      BY <1>1, <2>1, <3>1, <3>2 DEF InOrder
  <2>. QED
    BY <2>1 DEF InOrder
<1>4. ASSUME NEW d \in Rank, NEW k \in 1..Len(req[d]), ~req[d][k].send
      PROVE  /\ ReceiveOK(d, req[d][k], w, taken)
             /\ Pending(d, req[d][k], w) <=> Pending(d, req[d][k], wire)
             /\ req[d][k].hdr.index # 0 =>
                    w[req[d][k].hdr.source][d][req[d][k].hdr.index] =
                        wire[req[d][k].hdr.source][d][req[d][k].hdr.index]
  <2>. DEFINE q == req[d][k]
  <2>1. ReceiveOK(d, q, wire, taken) /\ q.hdr.source \in Rank
    BY <1>4, ReceiveAt
  <2>2. CASE q.hdr.index = 0
    <3>1. ~q.buffer /\ q.bod.index = 0 /\ q.message = NONE /\ q.desc = "active"
      BY <2>1, <2>2 DEF ReceiveOK
    <3>. QED
      BY <2>2, <3>1 DEF ReceiveOK, Pending
  <2>3. CASE q.hdr.index # 0
    <3>1. GotHeader(d, q, wire, taken)
      BY <2>1, <2>3 DEF ReceiveOK
    <3>2. q.hdr.index \in 1..Len(wire[q.hdr.source][d])
      BY Zenon, <1>2, <2>1, <3>1 DEF GotHeader
    <3>3. w[q.hdr.source][d][q.hdr.index] = wire[q.hdr.source][d][q.hdr.index]
      BY <1>2, <2>1, <3>2
    <3>4. SplitAt(d, q.hdr, w) <=> SplitAt(d, q.hdr, wire)
      BY <3>3 DEF SplitAt
    <3>5. GotHeader(d, q, w, taken)
      BY Zenon, <3>1, <3>3 DEF GotHeader
    <3>6. ReceiveOK(d, q, w, taken)
      BY <2>1, <2>3, <3>3, <3>4, <3>5 DEF ReceiveOK
    <3>. QED
      BY <3>3, <3>4, <3>6 DEF Pending
  <2>. QED
    BY <2>2, <2>3
<1>5. ReceivesOK(req, w, taken)
  BY <1>4 DEF ReceivesOK
<1>6. \A d, q, v : Pending(d, q, v) => ~q.send /\ q.hdr.index # 0
  BY DEF Pending
<1>7. Owned(req, w, taken)
  <2>1. ASSUME NEW s \in Rank, NEW d \in Rank, NEW k \in 1..Len(req[d]),
               Pending(d, req[d][k], w), req[d][k].hdr.source = s
        PROVE  req[d][k].hdr.index + 1 \notin taken[s][d]
    BY <1>1, <1>4, <1>6, <2>1 DEF Owned
  <2>2. ASSUME NEW s \in Rank, NEW d \in Rank, NEW i \in 1..Len(w[s][d]),
               w[s][d][i].part = "body", i \notin taken[s][d], i - 1 \in taken[s][d]
        PROVE  \E k \in 1..Len(req[d]) : Pending(d, req[d][k], w) /\ BodyOf(req[d][k], s, i)
    <3>1. i - 1 \in 1..Len(wire[s][d]) /\ (i - 1) + 1 = i /\ i \in Nat
      BY <1>2, <2>2
    <3>2. w[s][d][i].obj = w[s][d][i - 1].obj /\ Split(w[s][d][i].obj)
      BY <2>2 DEF PairsOK
    <3>3. w[s][d][i - 1] = wire[s][d][i - 1] /\ wire[s][d][i - 1] \in Part
      BY <1>2, <3>1, WireTypes
    <3>4. i \in 1..Len(wire[s][d])
      <4>1. SUFFICES ASSUME i \notin 1..Len(wire[s][d])
                     PROVE  FALSE
        OBVIOUS
      <4>2. w[s][d][i - 1].part = "header"
        BY <2>2 DEF WireOK
      <4>3. wire[s][d][i - 1].part = "header" /\ Split(wire[s][d][i - 1].obj)
        BY Zenon, <3>2, <3>3, <4>2
      <4>4. PairsOK(wire)
        BY <1>1
      <4>5. (i - 1) + 1 \in 1..Len(wire[s][d])
        BY ONLY <3>1, <4>3, <4>4, s \in Rank, d \in Rank DEF PairsOK
      <4>. QED
        BY Zenon, <3>1, <4>1, <4>5
    <3>5. wire[s][d][i].part = "body"
      BY <1>2, <2>2, <3>4
    <3>6. PICK k \in 1..Len(req[d]) : Pending(d, req[d][k], wire) /\ BodyOf(req[d][k], s, i)
      BY <1>1, <2>2, <3>4, <3>5 DEF Owned
    <3>7. Pending(d, req[d][k], w)
      BY <1>4, <1>6, <3>6
    <3>. QED
      BY <3>6, <3>7
  <2>. QED
    BY <2>1, <2>2 DEF Owned
<1>8. QueuesOK(posted, req, w)
  <2>1. ASSUME NEW d \in Rank
        PROVE  QueueOK(d, posted[d], req[d], w)
    <3>1. QueueOK(d, posted[d], req[d], wire)
      BY <1>1 DEF QueuesOK
    <3>2. ASSUME NEW n \in 1..Len(posted[d])
          PROVE  PostedFor(d, posted[d][n], req[d][posted[d][n].req], w)
      <4>. DEFINE q == req[d][posted[d][n].req]
      <4>1. posted[d][n].req \in 1..Len(req[d]) /\ ~q.send
        BY DEF Core, PostedOK
      <4>2. PostedFor(d, posted[d][n], q, wire)
        BY <3>1 DEF QueueOK
      <4>3. /\ Pending(d, q, w) <=> Pending(d, q, wire)
            /\ q.hdr.index # 0 => w[q.hdr.source][d][q.hdr.index] = wire[q.hdr.source][d][q.hdr.index]
        BY Zenon, <1>4, <4>1
      <4>. HIDE DEF q
      <4>4. PostedFor(d, posted[d][n], q, w)
        BY <1>6, <4>2, <4>3 DEF PostedFor
      <4>. QED
        BY <4>4 DEF q
    <3>3. ASSUME NEW k \in 1..Len(req[d]), Pending(d, req[d][k], w), req[d][k].desc = "null"
          PROVE  \E n \in 1..Len(posted[d]) : posted[d][n].req = k /\ posted[d][n].part = "body"
      <4>1. Pending(d, req[d][k], wire)
        BY <1>4, <1>6, <3>3
      <4>. QED
        BY <3>1, <3>3, <4>1 DEF QueueOK
    <3>. QED
      BY <3>1, <3>2, <3>3 DEF QueueOK
  <2>. QED
    BY <2>1 DEF QueuesOK
<1>. QED
  BY <1>3, <1>5, <1>7, <1>8

LEMMA IsendMatches ==
    ASSUME Core, Matching, NEW r \in Rank, NEW c \in Sends[r], Isend(r, c)
    PROVE  Matching'
<1>. DEFINE d == c.dest
            n == Len(wire[r][d])
            long == Split(c.obj)
            h == [part |-> "header", tag |-> c.tag, obj |-> c.obj, whole |-> TRUE]
            b == [part |-> "body", tag |-> c.tag, obj |-> c.obj, whole |-> TRUE]
            parts == IF long THEN <<h, b>> ELSE <<h>>
            q == [send |-> TRUE, peer |-> c.dest, tag |-> c.tag, desc |-> "active",
                  buf |-> IF long THEN "active" ELSE "null", buffer |-> long,
                  message |-> c.obj, status |-> NoStatus,
                  hdr |-> [source |-> r, index |-> n + 1],
                  bod |-> IF long THEN [source |-> r, index |-> n + 2] ELSE Nowhere,
                  cancelled |-> FALSE, told |-> FALSE, held |-> TRUE]
<1>1. c \in [obj : Object, dest : Rank, tag : Tag] /\ d \in Rank /\ c.obj \in Object /\ c.tag \in Tag
  BY RequestsAssumption
<1>2. /\ h \in Part /\ b \in Part /\ h.part = "header" /\ b.part = "body"
      /\ h.obj = c.obj /\ b.obj = c.obj /\ b.whole
  BY <1>1 DEF Part
<1>3. /\ req' = [req EXCEPT ![r] = Append(@, q)]
      /\ wire' = [wire EXCEPT ![r][d] = @ \o parts]
      /\ UNCHANGED <<taken, posted>>
  BY DEF Isend
<1>4. long \in BOOLEAN
  BY DEF Split, HasBody
<1>5. n \in Nat
  BY <1>1, WireTypes
<1>6. Nowhere \in Position
  BY NowhereOK
<1>7. q \in Request /\ q.send
  BY <1>1, <1>4, <1>5, <1>6, NoStatusType DEF Request, Position, Handle
<1>8. PairsOK(wire)
  BY DEF Matching
<1>9. parts = IF Split(c.obj) THEN <<h, b>> ELSE <<h>>
  OBVIOUS
<1>. HIDE DEF q, h, b, parts
<1>10. Join(r, d, parts)
  BY <1>3 DEF Join
<1>. HIDE DEF d, n, long
<1>11. Extends(wire, wire') /\ PairsOK(wire')
  BY <1>1, <1>2, <1>8, <1>9, <1>10, IsendPairs
<1>12. WireOK(wire', taken)
  <2>1. WireOK(wire', taken')
    BY IsendAdvances DEF Proceeds, Advances, Core
  <2>. QED
    BY <1>3, <2>1
<1>13. /\ InOrder(wire', taken) /\ ReceivesOK(req, wire', taken) /\ Owned(req, wire', taken)
       /\ QueuesOK(posted, req, wire') /\ Apart(req)
  BY <1>11, <1>12, ExtendsKeeps DEF Matching
<1>14. Added(req, req', r, q)
  BY <1>3, <1>7, AddedBy
<1>15. ReceivesOK(req', wire', taken) /\ Apart(req') /\ Owned(req', wire', taken)
  BY <1>7, <1>13, <1>14, AddRequest
<1>16. QueuesOK(posted, req', wire')
  <2>1. ASSUME NEW a \in Rank
        PROVE  QueueOK(a, posted[a], req'[a], wire')
    <3>1. QueueOK(a, posted[a], req[a], wire')
      BY <1>13 DEF QueuesOK
    <3>2. \A m \in 1..Len(posted[a]) : posted[a][m].req \in 1..Len(req[a])
      BY DEF Core, PostedOK
    <3>3. /\ \A l \in 1..Len(req[a]) : req'[a][l] = req[a][l]
          /\ \A l \in 1..Len(req'[a]) : l \in 1..Len(req[a]) \/ req'[a][l] = q
      BY <1>14 DEF Added
    <3>4. ~Pending(a, q, wire')
      BY <1>7 DEF Pending
    <3>5. \A m \in 1..Len(posted[a]) : PostedFor(a, posted[a][m], req'[a][posted[a][m].req], wire')
      BY <3>1, <3>2, <3>3 DEF QueueOK
    <3>6. ASSUME NEW l \in 1..Len(req'[a]), Pending(a, req'[a][l], wire'), req'[a][l].desc = "null"
          PROVE  \E m \in 1..Len(posted[a]) : posted[a][m].req = l /\ posted[a][m].part = "body"
      <4>1. l \in 1..Len(req[a]) /\ req'[a][l] = req[a][l]
        BY <3>3, <3>4, <3>6
      <4>2. Pending(a, req[a][l], wire') /\ req[a][l].desc = "null"
        BY <3>6, <4>1
      <4>. QED
        BY <3>1, <4>1, <4>2 DEF QueueOK
    <3>. QED
      BY <3>1, <3>5, <3>6 DEF QueueOK
  <2>. QED
    BY <2>1 DEF QueuesOK
<1>. QED
  BY <1>3, <1>11, <1>13, <1>15, <1>16 DEF Matching

-----------------------------------------------------------------------------
(***************************************************************************)
(* Steps that take a message from the wire.                                *)
(***************************************************************************)
TakenBy(s, d, i) ==
    /\ \A a, b \in Rank :
           taken'[a][b] = IF a = s /\ b = d THEN taken[a][b] \cup {i} ELSE taken[a][b]
    /\ i \notin taken[s][d] /\ i \in taken'[s][d]
    /\ InOrder(wire, taken')
    /\ \A a \in Rank : \A q : ReceiveOK(a, q, wire, taken) /\ q.hdr.source \in Rank =>
           ReceiveOK(a, q, wire, taken')

LEMMA TakeFacts ==
    ASSUME Core, Matching, NEW s \in Rank, NEW d \in Rank, NEW i \in 1..Len(wire[s][d]),
           NEW p, NEW earlier, MayTake(s, d, i, p, earlier), Take(s, d, i)
    PROVE  TakenBy(s, d, i)
<1>0. InOrder(wire, taken)
  BY DEF Matching
<1>1. \A a, b \in Rank :
          taken'[a][b] = IF a = s /\ b = d THEN taken[a][b] \cup {i} ELSE taken[a][b]
  BY DEF Core, WireOK, Take
<1>2. ASSUME NEW a \in Rank, NEW b \in Rank, NEW l \in 1..Len(wire[a][b]), NEW j \in 1..Len(wire[a][b]),
             j < l, wire[a][b][j].tag = wire[a][b][l].tag, l \in taken'[a][b]
      PROVE  j \in taken'[a][b]
  <2>1. CASE l \in taken[a][b]
    <3>1. j \in taken[a][b]
      BY <1>0, <1>2, <2>1 DEF InOrder
    <3>. QED
      BY <1>1, <3>1
  <2>2. CASE l \notin taken[a][b]
    <3>1. a = s /\ b = d /\ l = i
      BY <1>1, <1>2, <2>2
    <3>2. Fits(s, d, i, p) /\ \A m \in 1..(i - 1) : ~Fits(s, d, m, p)
      BY DEF MayTake
    <3>3. j \in 1..(i - 1)
      BY <1>2, <3>1
    <3>4. j \in taken[s][d]
      BY <1>2, <3>1, <3>2, <3>3 DEF Fits
    <3>. QED
      BY <1>1, <3>1, <3>4
  <2>. QED
    BY <2>1, <2>2
<1>3. ASSUME NEW a \in Rank, NEW q, ReceiveOK(a, q, wire, taken), q.hdr.source \in Rank
      PROVE  ReceiveOK(a, q, wire, taken')
  <2>1. taken[q.hdr.source][a] \subseteq taken'[q.hdr.source][a]
    BY <1>1, <1>3
  <2>2. GotHeader(a, q, wire, taken) => GotHeader(a, q, wire, taken')
    BY <2>1 DEF GotHeader
  <2>. QED
    BY <1>3, <2>2 DEF ReceiveOK
<1>4. i \notin taken[s][d]
  BY DEF MayTake, Fits
<1>. QED
  BY <1>1, <1>2, <1>3, <1>4 DEF InOrder, TakenBy

\* Receive k of d gets the body of its object, and leaves the queue if it was there.
LEMMA BodyTaken ==
    ASSUME Core, Matching, wire' = wire, NEW d \in Rank, NEW k \in 1..Len(req[d]),
           Pending(d, req[d][k], wire),
           NEW s \in Rank, NEW i \in 1..Len(wire[s][d]), TakenBy(s, d, i),
           s = req[d][k].hdr.source, i = req[d][k].hdr.index + 1,
           NEW q \in Request, Set(d, k, q), Resembles(req[d][k], q),
           q.bod = [source |-> s, index |-> i], ReceiveOK(d, q, wire, taken'),
           \/ posted' = posted /\ \A n \in 1..Len(posted[d]) : posted[d][n].req # k
           \/ \E n \in 1..Len(posted[d]) : posted[d][n].req = k /\ Unpost(d, n)
    PROVE  Matching'
<1>. DEFINE o == req[d][k]
<1>1. /\ PairsOK(wire) /\ InOrder(wire, taken) /\ Apart(req) /\ Owned(req, wire, taken)
      /\ QueuesOK(posted, req, wire) /\ ReceivesOK(req, wire, taken)
  BY DEF Matching
<1>2. /\ req'[d][k] = q
      /\ \A l \in 1..Len(req[d]) : l # k => req'[d][l] = req[d][l]
      /\ \A a \in Rank : Len(req'[a]) = Len(req[a]) /\ (a # d => req'[a] = req[a])
  BY SetFacts
<1>3. /\ \A a, b \in Rank :
             taken'[a][b] = IF a = s /\ b = d THEN taken[a][b] \cup {i} ELSE taken[a][b]
      /\ InOrder(wire, taken')
      /\ \A a \in Rank : \A x : ReceiveOK(a, x, wire, taken) /\ x.hdr.source \in Rank =>
             ReceiveOK(a, x, wire, taken')
  BY DEF TakenBy
<1>4. ~o.send /\ o.hdr.index # 0 /\ o.bod.index = 0 /\ q.hdr = o.hdr /\ ~q.send
  BY DEF Pending, Resembles
<1>5. ReceiveOK(d, o, wire, taken) /\ o.hdr \in Position /\ o.hdr.index \in Nat
  BY Zenon, <1>4, ReceiveAt
<1>6. wire[s][d][i].part = "body" /\ i \in Nat /\ i # 0
  <2>1. GotHeader(d, o, wire, taken)
    BY Zenon, <1>4, <1>5 DEF ReceiveOK
  <2>2. wire[o.hdr.source][d][o.hdr.index + 1].part = "body"
    BY Zenon, <1>1, <1>5, <2>1, NextIsBody
  <2>3. s = o.hdr.source /\ i = o.hdr.index + 1
    OBVIOUS
  <2>4. wire[s][d][i].part = "body"
    BY Zenon, <2>2, <2>3
  <2>. QED
    BY Zenon, <1>5, <2>3, <2>4, NextIsPositive
<1>7. ~Pending(d, q, wire)
  <2>1. q.bod = [source |-> s, index |-> i]
    OBVIOUS
  <2>2. q.bod.index = i
    BY ONLY <2>1
  <2>. QED
    BY Zenon, <1>6, <2>2 DEF Pending
<1>8. ReceivesOK(req', wire, taken')
  <2>1. ASSUME NEW a \in Rank, NEW l \in 1..Len(req'[a]), ~req'[a][l].send
        PROVE  ReceiveOK(a, req'[a][l], wire, taken')
    <3>1. CASE a = d /\ l = k
      BY <1>2, <3>1
    <3>2. CASE ~(a = d /\ l = k)
      <4>1. l \in 1..Len(req[a]) /\ req'[a][l] = req[a][l]
        BY <1>2, <3>2
      <4>2. ReceiveOK(a, req[a][l], wire, taken) /\ req[a][l].hdr.source \in Rank
        BY <2>1, <4>1, ReceiveAt
      <4>. QED
        BY <1>3, <4>1, <4>2
    <3>. QED
      BY <3>1, <3>2
  <2>. QED
    BY <2>1 DEF ReceivesOK
<1>9. Apart(req')
  <2>1. \A x : Resembles(x, x)
    BY DEF Resembles
  <2>2. ASSUME NEW a \in Rank, NEW l \in 1..Len(req[a])
        PROVE  Resembles(req[a][l], req'[a][l])
    BY Zenon, <1>2, <2>1
  <2>. QED
    BY <1>1, <1>2, <2>2, ResemblesKeeps
<1>10. Owned(req', wire, taken')
  <2>1. ASSUME NEW a \in Rank, NEW b \in Rank, NEW l \in 1..Len(req'[b]),
               Pending(b, req'[b][l], wire), req'[b][l].hdr.source = a
        PROVE  req'[b][l].hdr.index + 1 \notin taken'[a][b]
    <3>1. /\ ~(b = d /\ l = k) /\ l \in 1..Len(req[b]) /\ req'[b][l] = req[b][l]
      BY <1>2, <1>7, <2>1
    <3>2. req[b][l].hdr.index + 1 \notin taken[a][b]
      BY <1>1, <2>1, <3>1 DEF Owned
    <3>3. CASE a = s /\ b = d
      <4>1. ~req[d][l].send /\ req[d][l].hdr \in Position /\ req[d][l].hdr.index \in Nat
        <5>1. l \in 1..Len(req[d]) /\ Pending(d, req[d][l], wire)
          BY Zenon, <2>1, <3>1, <3>3
        <5>2. ~req[d][l].send
          BY Zenon, <5>1 DEF Pending
        <5>. QED
          BY Zenon, <5>1, <5>2, ReceiveAt
      <4>2. o.hdr # req[d][l].hdr
        BY <1>1, <1>4, <3>1, <3>3, <4>1 DEF Apart
      <4>3. req[d][l].hdr.index # o.hdr.index
        <5>1. req[d][l].hdr.source = o.hdr.source
          BY Zenon, <2>1, <3>1, <3>3
        <5>. QED
          BY Zenon, <1>5, <4>1, <4>2, <5>1, SamePlace
      <4>4. req[d][l].hdr.index + 1 # i
        <5>. DEFINE x == req[d][l].hdr.index
                    y == o.hdr.index
        <5>1. x \in Nat /\ y \in Nat /\ x # y /\ i = y + 1
          BY Zenon, <1>5, <4>1, <4>3
        <5>. HIDE DEF x, y
        <5>2. x + 1 # i
          BY ONLY <5>1
        <5>. QED
          BY <5>2 DEF x
      <4>5. taken'[s][d] = taken[s][d] \cup {i}
        BY <1>3
      <4>6. req[d][l].hdr.index + 1 \notin taken'[s][d]
        BY <3>2, <3>3, <4>4, <4>5
      <4>. QED
        BY <3>1, <3>3, <4>6
    <3>4. CASE ~(a = s /\ b = d)
      BY <1>3, <3>1, <3>2, <3>4
    <3>. QED
      BY <3>3, <3>4
  <2>2. ASSUME NEW a \in Rank, NEW b \in Rank, NEW j \in 1..Len(wire[a][b]),
               wire[a][b][j].part = "body", j \notin taken'[a][b], j - 1 \in taken'[a][b]
        PROVE  \E l \in 1..Len(req'[b]) : Pending(b, req'[b][l], wire) /\ BodyOf(req'[b][l], a, j)
    <3>1. j > 1 /\ wire[a][b][j - 1].part = "header"
      <4>1. WireOK(wire, taken)
        BY DEF Core
      <4>2. j \in 1..Len(wire[a][b]) /\ wire[a][b][j].part = "body"
        BY Zenon, <2>2
      <4>. QED
        BY ONLY <4>1, <4>2, a \in Rank, b \in Rank DEF WireOK
    <3>2. j \notin taken[a][b] /\ j - 1 \in taken[a][b] /\ ~(a = s /\ b = d /\ j = i)
      <4>1. CASE a = s /\ b = d
        <5>1. taken'[a][b] = taken[a][b] \cup {i} /\ wire[a][b][i].part = "body"
          BY Zenon, <1>3, <1>6, <4>1
        <5>2. j - 1 # i
          BY <3>1, <5>1
        <5>. QED
          BY <2>2, <5>1, <5>2
      <4>2. CASE ~(a = s /\ b = d)
        <5>1. taken'[a][b] = taken[a][b]
          BY <1>3, <4>2
        <5>. QED
          BY <2>2, <4>2, <5>1
      <4>. QED
        BY <4>1, <4>2
    <3>3. PICK l \in 1..Len(req[b]) : Pending(b, req[b][l], wire) /\ BodyOf(req[b][l], a, j)
      BY <1>1, <2>2, <3>2 DEF Owned
    <3>4. ~(b = d /\ l = k)
      <4>1. SUFFICES ASSUME b = d, l = k
                     PROVE  FALSE
        OBVIOUS
      <4>2. o.hdr.source = a /\ o.hdr.index = j - 1
        BY Zenon, <3>3, <4>1 DEF BodyOf
      <4>3. s = o.hdr.source /\ i = o.hdr.index + 1 /\ o.hdr.index \in Nat
        BY Zenon, <1>5
      <4>4. i = j
        BY ONLY <4>2, <4>3, j \in 1..Len(wire[a][b])
      <4>. QED
        BY Zenon, <3>2, <4>1, <4>2, <4>3, <4>4
    <3>5. req'[b][l] = req[b][l] /\ l \in 1..Len(req'[b])
      BY <1>2, <3>4
    <3>. QED
      BY <3>3, <3>5
  <2>. QED
    BY <2>1, <2>2 DEF Owned
<1>11. QueuesOK(posted', req', wire)
  <2>1. ~Awaited(d, req'[d][k], wire)
    BY <1>2, <1>7 DEF Awaited
  <2>. QED
    BY <1>1, <1>2, <2>1, QueuesWithout
<1>. QED
  BY <1>1, <1>3, <1>8, <1>9, <1>10, <1>11 DEF Matching

\* The message that fulfils the receive of a body is the body of its object.
LEMMA TakesItsBody ==
    ASSUME Core, Matching, NEW d \in Rank, NEW k \in 1..Len(req[d]),
           Pending(d, req[d][k], wire),
           NEW p, p.source = req[d][k].hdr.source,
           p.tag = wire[req[d][k].hdr.source][d][req[d][k].hdr.index].tag,
           NEW s \in Rank, NEW i \in 1..Len(wire[s][d]), NEW earlier, MayTake(s, d, i, p, earlier)
    PROVE  s = req[d][k].hdr.source /\ i = req[d][k].hdr.index + 1
<1>. DEFINE o == req[d][k]
<1>1. ~o.send /\ o.hdr.index # 0
  BY Zenon DEF Pending
<1>2. ReceiveOK(d, o, wire, taken) /\ o.hdr \in Position /\ o.hdr.source \in Rank
  BY Zenon, <1>1, ReceiveAt
<1>3. GotHeader(d, o, wire, taken)
  BY Zenon, <1>1, <1>2 DEF ReceiveOK
<1>4. o.hdr.index + 1 \notin taken[o.hdr.source][d]
  BY <1>2 DEF Matching, Owned
<1>5. Pending(d, o, wire) /\ p.source = o.hdr.source /\ p.tag = wire[o.hdr.source][d][o.hdr.index].tag
  OBVIOUS
<1>. HIDE DEF o
<1>6. s = o.hdr.source /\ i = o.hdr.index + 1
  BY Zenon, <1>2, <1>3, <1>4, <1>5, BodyGoesToOwner
<1>. QED
  BY <1>6 DEF o

LEMMA TestBodyAtOnceMatches ==
    ASSUME Core, Matching, NEW r \in Rank, NEW k \in 1..Len(req[r]), HeaderHere(r, k),
           TestBodyAtOnce(r, k, Seen(r, req[r][k])), wire' = wire
    PROVE  Matching'
<1>. DEFINE o == req[r][k]
            q == Seen(r, o)
            p == BodyReceive(k, q)
<1>1. /\ q \in Request /\ ~q.send /\ ~o.send
      /\ q.hdr \in Position /\ q.hdr.index # 0 /\ q.message = NONE
      /\ GotHeader(r, o, wire, taken) /\ GotHeader(r, q, wire, taken)
  BY HereFacts
<1>2. /\ q.send = o.send /\ q.peer = o.peer /\ q.tag = o.tag /\ q.hdr = o.hdr
      /\ q.cancelled = o.cancelled /\ q.desc = "null"
  BY SeenFields
<1>3. HasBody(HeaderOf(r, q)) /\ ~q.buffer /\ posted' = posted
  BY DEF TestBodyAtOnce
<1>4. /\ IsUnseen(o) /\ SplitAt(r, o.hdr, wire) /\ Pending(r, o, wire)
      /\ p.source = o.hdr.source /\ p.tag = wire[o.hdr.source][r][o.hdr.index].tag
      /\ \A n \in 1..Len(posted[r]) : posted[r][n].req # k
  <2>1. AwaitsBody(r, k, o, p)
    BY Zenon, <1>3, BodyDue
  <2>. HIDE DEF o, p
  <2>. QED
    BY Zenon, <2>1 DEF AwaitsBody
<1>5. PICK s \in Rank : \E j \in 1..Len(wire[s][r]) :
          LET full == [q EXCEPT !.bod = [source |-> s, index |-> j]]
          IN  /\ MayTake(s, r, j, p, posted[r])
              /\ Take(s, r, j)
              /\ Set(r, k, UnpackLong(r, full, StatusAt(r, full.bod)))
  BY DEF TestBodyAtOnce
<1>6. PICK i \in 1..Len(wire[s][r]) :
          LET full == [q EXCEPT !.bod = [source |-> s, index |-> i]]
          IN  /\ MayTake(s, r, i, p, posted[r])
              /\ Take(s, r, i)
              /\ Set(r, k, UnpackLong(r, full, StatusAt(r, full.bod)))
  BY <1>5
<1>. DEFINE at == [source |-> s, index |-> i]
            full == [q EXCEPT !.bod = at]
            status == StatusAt(r, full.bod)
            message == Reconstitute(r, full, ReadBody(MessageAt(r, full.bod)))
            q2 == UnpackLong(r, full, status)
<1>7. MayTake(s, r, i, p, posted[r]) /\ Take(s, r, i) /\ Set(r, k, q2)
  BY <1>6
<1>8. i \in Nat /\ at \in Position /\ at.index # 0 /\ Arrived(r, at, wire)
  BY WireTypes DEF Position, Arrived
<1>9. /\ full \in Request /\ full.bod = at /\ full.send = q.send /\ full.peer = q.peer
      /\ full.tag = q.tag /\ full.hdr = q.hdr /\ full.cancelled = q.cancelled /\ full.desc = q.desc
  BY <1>1, <1>8 DEF Request
<1>10. s = o.hdr.source /\ i = o.hdr.index + 1
  <2>. HIDE DEF p
  <2>. QED
    BY Zenon, <1>4, <1>7, TakesItsBody
<1>11. status \in Status
  BY <1>8, <1>9, StatusType
<1>12. TakenBy(s, r, i)
  <2>. HIDE DEF p
  <2>. QED
    BY <1>7, TakeFacts
<1>13. /\ q2.peer = full.peer /\ q2.tag = full.tag /\ q2.cancelled = full.cancelled
       /\ q2.buffer = FALSE /\ q2.desc = full.desc /\ q2.message = message
  <2>. HIDE DEF full, status
  <2>. QED
    BY <1>9 DEF UnpackLong, Request
<1>14. q2 \in Request /\ q2.send = full.send /\ q2.hdr = full.hdr /\ q2.bod = full.bod
  <2>. HIDE DEF full, status
  <2>. QED
    BY <1>9, <1>11, UnpackLongType
<1>. HIDE DEF p, q, full, status, q2, at
<1>15. /\ full.hdr \in Position /\ full.hdr.index # 0 /\ SplitAt(r, full.hdr, wire)
       /\ full.bod = [source |-> full.hdr.source, index |-> full.hdr.index + 1]
       /\ GotHeader(r, full, wire, taken)
  BY Zenon, <1>1, <1>2, <1>4, <1>9, <1>10 DEF at, GotHeader, Pattern
<1>16. message = wire[full.hdr.source][r][full.hdr.index].obj /\ message \in Object
  <2>1. PairsOK(wire)
    BY DEF Matching
  <2>2. message = MessageAt(r, full.hdr).obj
    BY <1>15, <2>1, LongIsWhole
  <2>. HIDE DEF message
  <2>. QED
    BY <1>15, <2>2, HeaderAt
<1>. HIDE DEF message
<1>17. NONE \notin Object
  BY RequestsAssumption
<1>18. GotHeader(r, q2, wire, taken)
  BY <1>13, <1>14, <1>15 DEF GotHeader, Pattern
<1>19. q2.bod.index # 0
  BY <1>8, <1>9, <1>14
<1>20. ReceiveOK(r, q2, wire, taken)
  <2>1. /\ q2.hdr.index # 0 /\ SplitAt(r, q2.hdr, wire) /\ q2.desc = "null" /\ ~q2.buffer
        /\ q2.bod = [source |-> q2.hdr.source, index |-> q2.hdr.index + 1]
        /\ q2.message # NONE /\ q2.message = wire[q2.hdr.source][r][q2.hdr.index].obj
    BY Zenon, <1>2, <1>9, <1>13, <1>14, <1>15, <1>16, <1>17
  <2>. QED
    BY <1>18, <2>1 DEF ReceiveOK
<1>21. ReceiveOK(r, q2, wire, taken')
  <2>1. q2.hdr.source \in Rank
    BY <1>1, <1>9, <1>14 DEF Position
  <2>. QED
    BY <1>12, <1>20, <2>1 DEF TakenBy
<1>22. Resembles(o, q2)
  <2>1. q2.send = o.send /\ q2.hdr = o.hdr /\ Pattern(q2) = Pattern(o)
    BY <1>2, <1>9, <1>13, <1>14 DEF Pattern
  <2>. QED
    BY <1>4, <2>1 DEF Resembles
<1>23. q2.bod = [source |-> s, index |-> i]
  BY <1>9, <1>14 DEF at
<1>. QED
  BY Zenon, <1>3, <1>4, <1>7, <1>10, <1>12, <1>14, <1>21, <1>22, <1>23, BodyTaken

\* Receive k of d, of which nothing has come, gets a header.
LEMMA HeaderTaken ==
    ASSUME Core, Matching, wire' = wire, NEW d \in Rank, NEW k \in 1..Len(req[d]),
           ~req[d][k].send, req[d][k].hdr.index = 0, ~req[d][k].cancelled,
           NEW s \in Rank, NEW i \in 1..Len(wire[s][d]), TakenBy(s, d, i),
           wire[s][d][i].part = "header", Accepts(Pattern(req[d][k]), s, wire[s][d][i].tag),
           NEW q \in Request, q = [req[d][k] EXCEPT !.hdr = [source |-> s, index |-> i]], Set(d, k, q),
           \E n \in 1..Len(posted[d]) : posted[d][n].req = k /\ Unpost(d, n)
    PROVE  Matching'
<1>. DEFINE o == req[d][k]
<1>1. /\ PairsOK(wire) /\ InOrder(wire, taken) /\ Apart(req) /\ Owned(req, wire, taken)
      /\ QueuesOK(posted, req, wire) /\ ReceivesOK(req, wire, taken) /\ WireOK(wire, taken)
  BY DEF Matching, Core
<1>2. /\ req'[d][k] = q
      /\ \A l \in 1..Len(req[d]) : l # k => req'[d][l] = req[d][l]
      /\ \A a \in Rank : Len(req'[a]) = Len(req[a]) /\ (a # d => req'[a] = req[a])
  BY SetFacts
<1>3. /\ \A a, b \in Rank :
             taken'[a][b] = IF a = s /\ b = d THEN taken[a][b] \cup {i} ELSE taken[a][b]
      /\ InOrder(wire, taken') /\ i \notin taken[s][d] /\ i \in taken'[s][d]
      /\ \A a \in Rank : \A x : ReceiveOK(a, x, wire, taken) /\ x.hdr.source \in Rank =>
             ReceiveOK(a, x, wire, taken')
  BY DEF TakenBy
<1>4. /\ q.hdr = [source |-> s, index |-> i] /\ q.hdr.source = s /\ q.hdr.index = i
      /\ q.send = o.send /\ q.peer = o.peer /\ q.tag = o.tag /\ q.bod = o.bod
      /\ q.cancelled = o.cancelled /\ q.desc = o.desc /\ q.buffer = o.buffer /\ q.message = o.message
  BY RequestAt DEF Request
<1>5. o.bod.index = 0 /\ ~o.buffer /\ o.message = NONE /\ o.desc = "active"
  BY ReceiveAt DEF ReceiveOK
<1>6. i \in Nat /\ i # 0 /\ Len(wire[s][d]) \in Nat
  BY WireTypes
<1>7. ReceiveOK(d, q, wire, taken')
  <2>1. GotHeader(d, q, wire, taken')
    BY <1>3, <1>4 DEF GotHeader, Pattern
  <2>. QED
    BY <1>4, <1>5, <1>6, <2>1 DEF ReceiveOK
<1>8. ReceivesOK(req', wire, taken')
  <2>1. ASSUME NEW a \in Rank, NEW l \in 1..Len(req'[a]), ~req'[a][l].send
        PROVE  ReceiveOK(a, req'[a][l], wire, taken')
    <3>1. CASE a = d /\ l = k
      BY <1>2, <1>7, <3>1
    <3>2. CASE ~(a = d /\ l = k)
      <4>1. l \in 1..Len(req[a]) /\ req'[a][l] = req[a][l]
        BY <1>2, <3>2
      <4>2. ReceiveOK(a, req[a][l], wire, taken) /\ req[a][l].hdr.source \in Rank
        BY <2>1, <4>1, ReceiveAt
      <4>. QED
        BY <1>3, <4>1, <4>2
    <3>. QED
      BY <3>1, <3>2
  <2>. QED
    BY <2>1 DEF ReceivesOK
<1>9. ASSUME NEW l \in 1..Len(req[d]), ~req[d][l].send
      PROVE  req[d][l].hdr # q.hdr
  <2>1. SUFFICES ASSUME req[d][l].hdr = q.hdr
                 PROVE  FALSE
    BY SMTT(40)
  <2>2. req[d][l].hdr.source = s /\ req[d][l].hdr.index = i
    BY <1>4, <2>1
  <2>3. GotHeader(d, req[d][l], wire, taken)
    BY Zenon, <1>6, <1>9, <2>2, ReceiveAt DEF ReceiveOK
  <2>. QED
    BY Zenon, <1>3, <2>2, <2>3 DEF GotHeader
<1>10. Apart(req')
  <2>1. IsUnseen(q) = IsUnseen(o) /\ Pattern(q) = Pattern(o)
    BY <1>4 DEF IsUnseen, Pattern
  <2>2. ASSUME NEW a \in Rank, NEW l \in 1..Len(req[a])
        PROVE  /\ IsUnseen(req'[a][l]) = IsUnseen(req[a][l])
               /\ Pattern(req'[a][l]) = Pattern(req[a][l])
               /\ req'[a][l].send = req[a][l].send
               /\ ~(a = d /\ l = k) => req'[a][l].hdr = req[a][l].hdr
    <3>1. CASE a = d /\ l = k
      BY Zenon, <1>2, <1>4, <2>1, <3>1
    <3>2. CASE ~(a = d /\ l = k)
      <4>1. req'[a][l] = req[a][l]
        BY Zenon, <1>2, <3>2
      <4>. QED
        BY Zenon, <3>2, <4>1
    <3>. QED
      BY <3>1, <3>2
  <2>3. ASSUME NEW a \in Rank, NEW l \in 1..Len(req[a]), NEW m \in 1..Len(req[a]), l # m
        PROVE  /\ IsUnseen(req'[a][l]) /\ IsUnseen(req'[a][m]) =>
                      ~Overlap(Pattern(req'[a][l]), Pattern(req'[a][m]))
               /\ ~req'[a][l].send /\ ~req'[a][m].send /\ req'[a][l].hdr.index # 0 =>
                      req'[a][l].hdr # req'[a][m].hdr
    <3>1. /\ IsUnseen(req[a][l]) /\ IsUnseen(req[a][m]) =>
                 ~Overlap(Pattern(req[a][l]), Pattern(req[a][m]))
          /\ ~req[a][l].send /\ ~req[a][m].send /\ req[a][l].hdr.index # 0 =>
                 req[a][l].hdr # req[a][m].hdr
      BY <1>1, <2>3 DEF Apart
    <3>2. CASE a = d /\ l = k
      <4>1. req'[a][l] = q /\ req'[a][m].hdr = req[d][m].hdr /\ req'[a][m].send = req[d][m].send
        BY <1>2, <2>2, <2>3, <3>2
      <4>. QED
        BY <1>9, <2>2, <3>1, <3>2, <4>1
    <3>3. CASE a = d /\ m = k
      <4>1. req'[a][m] = q /\ req'[a][l].hdr = req[d][l].hdr /\ req'[a][l].send = req[d][l].send
        BY <1>2, <2>2, <2>3, <3>3
      <4>. QED
        BY <1>9, <2>2, <3>1, <3>3, <4>1
    <3>4. CASE ~(a = d /\ l = k) /\ ~(a = d /\ m = k)
      BY <2>2, <3>1, <3>4
    <3>. QED
      BY <3>2, <3>3, <3>4
  <2>. DEFINE rq == req'
  <2>4. \A a \in Rank : \A l, m \in 1..Len(rq[a]) : l # m =>
            /\ IsUnseen(rq[a][l]) /\ IsUnseen(rq[a][m]) =>
                   ~Overlap(Pattern(rq[a][l]), Pattern(rq[a][m]))
            /\ ~rq[a][l].send /\ ~rq[a][m].send /\ rq[a][l].hdr.index # 0 =>
                   rq[a][l].hdr # rq[a][m].hdr
    <3>1. SUFFICES ASSUME NEW a \in Rank, NEW l \in 1..Len(rq[a]), NEW m \in 1..Len(rq[a]), l # m
                   PROVE  /\ IsUnseen(rq[a][l]) /\ IsUnseen(rq[a][m]) =>
                                 ~Overlap(Pattern(rq[a][l]), Pattern(rq[a][m]))
                          /\ ~rq[a][l].send /\ ~rq[a][m].send /\ rq[a][l].hdr.index # 0 =>
                                 rq[a][l].hdr # rq[a][m].hdr
      OBVIOUS
    <3>2. l \in 1..Len(req[a]) /\ m \in 1..Len(req[a])
      BY <1>2
    <3>. QED
      BY <2>3, <3>1, <3>2
  <2>5. Apart(rq)
    <3>. HIDE DEF rq
    <3>. QED
      BY <2>4 DEF Apart
  <2>. QED
    BY <2>5
<1>11. Owned(req', wire, taken')
  <2>1. ASSUME NEW a \in Rank, NEW b \in Rank, NEW l \in 1..Len(req'[b]),
               Pending(b, req'[b][l], wire), req'[b][l].hdr.source = a
        PROVE  req'[b][l].hdr.index + 1 \notin taken'[a][b]
    <3>1. CASE b = d /\ l = k
      <4>1. a = s /\ Split(wire[s][d][i].obj) /\ req'[b][l].hdr.index = i
        BY <1>2, <1>4, <2>1, <3>1 DEF Pending, SplitAt
      <4>2. i + 1 \in 1..Len(wire[s][d]) /\ wire[s][d][i + 1].part = "body"
        <5>1. PairsOK(wire)
          BY <1>1
        <5>2. wire[s][d][i].part = "header" /\ Split(wire[s][d][i].obj)
          BY Zenon, <4>1
        <5>. QED
          BY ONLY <5>1, <5>2, s \in Rank, d \in Rank, i \in 1..Len(wire[s][d]) DEF PairsOK
      <4>3. (i + 1) - 1 = i /\ i + 1 # i
        BY <1>6
      <4>4. i + 1 \notin taken[s][d]
        <5>. DEFINE j == i + 1
        <5>1. j \in 1..Len(wire[s][d]) /\ wire[s][d][j].part = "body" /\ j - 1 = i /\ WireOK(wire, taken)
          BY <1>1, <4>2, <4>3
        <5>2. i \notin taken[s][d]
          BY <1>3
        <5>. HIDE DEF j
        <5>3. j \notin taken[s][d]
          BY <5>1, <5>2 DEF InOrder, WireOK
        <5>. QED
          BY <5>3 DEF j
      <4>5. taken'[s][d] = taken[s][d] \cup {i}
        BY <1>3
      <4>. QED
        BY Zenon, <3>1, <4>1, <4>3, <4>4, <4>5
    <3>2. CASE ~(b = d /\ l = k)
      <4>1. l \in 1..Len(req[b]) /\ req'[b][l] = req[b][l]
        BY <1>2, <3>2
      <4>2. req[b][l].hdr.index + 1 \notin taken[a][b] /\ ~req[b][l].send /\ req[b][l].hdr.index # 0
        BY <1>1, <2>1, <4>1 DEF Owned, Pending
      <4>3. req[b][l].hdr \in Position /\ GotHeader(b, req[b][l], wire, taken)
        BY <4>1, <4>2, ReceiveAt DEF ReceiveOK
      <4>4. wire[a][b][req[b][l].hdr.index + 1].part = "body"
        <5>. DEFINE x == req[b][l]
        <5>1. /\ PairsOK(wire) /\ Pending(b, x, wire) /\ x.hdr.source = a
              /\ x.hdr \in Position /\ GotHeader(b, x, wire, taken)
          BY SMTT(40), <1>1, <2>1, <4>1, <4>3
        <5>. HIDE DEF x
        <5>2. wire[x.hdr.source][b][x.hdr.index + 1].part = "body"
          BY ZenonT(60), <5>1, NextIsBody
        <5>. QED
          BY <5>1, <5>2 DEF x
      <4>5. CASE a = s /\ b = d
        <5>1. req[b][l].hdr.index + 1 # i
          BY <4>4, <4>5
        <5>2. taken'[a][b] = taken[a][b] \cup {i}
          BY <1>3, <4>5
        <5>. QED
          BY <4>1, <4>2, <5>1, <5>2
      <4>6. CASE ~(a = s /\ b = d)
        <5>1. taken'[a][b] = taken[a][b]
          BY <1>3, <4>6
        <5>. QED
          BY <4>1, <4>2, <5>1
      <4>. QED
        BY <4>5, <4>6
    <3>. QED
      BY <3>1, <3>2
  <2>2. ASSUME NEW a \in Rank, NEW b \in Rank, NEW j \in 1..Len(wire[a][b]),
               wire[a][b][j].part = "body", j \notin taken'[a][b], j - 1 \in taken'[a][b]
        PROVE  \E l \in 1..Len(req'[b]) : Pending(b, req'[b][l], wire) /\ BodyOf(req'[b][l], a, j)
    <3>1. CASE a = s /\ b = d /\ j - 1 = i
      <4>1. wire[s][d][j].obj = wire[s][d][i].obj /\ Split(wire[s][d][j].obj)
        BY <1>1, <2>2, <3>1 DEF PairsOK
      <4>2. Pending(d, q, wire) /\ BodyOf(q, s, j)
        BY <1>4, <1>5, <1>6, <3>1, <4>1 DEF Pending, BodyOf, SplitAt
      <4>. QED
        BY <1>2, <3>1, <4>2
    <3>2. CASE ~(a = s /\ b = d /\ j - 1 = i)
      <4>1. j \notin taken[a][b] /\ j - 1 \in taken[a][b]
        <5>1. CASE a = s /\ b = d
          <6>1. taken'[a][b] = taken[a][b] \cup {i}
            BY <1>3, <5>1
          <6>. QED
            BY <2>2, <3>2, <5>1, <6>1
        <5>2. CASE ~(a = s /\ b = d)
          <6>1. taken'[a][b] = taken[a][b]
            BY <1>3, <5>2
          <6>. QED
            BY <2>2, <6>1
        <5>. QED
          BY <5>1, <5>2
      <4>2. PICK l \in 1..Len(req[b]) : Pending(b, req[b][l], wire) /\ BodyOf(req[b][l], a, j)
        BY <1>1, <2>2, <4>1 DEF Owned
      <4>3. ~(b = d /\ l = k)
        BY <4>2 DEF Pending
      <4>4. req'[b][l] = req[b][l] /\ l \in 1..Len(req'[b])
        BY <1>2, <4>3
      <4>. QED
        BY <4>2, <4>4
    <3>. QED
      BY <3>1, <3>2
  <2>. QED
    BY <2>1, <2>2 DEF Owned
<1>12. QueuesOK(posted', req', wire)
  <2>1. ~Awaited(d, req'[d][k], wire)
    BY <1>2, <1>4, <1>5 DEF Awaited
  <2>. QED
    BY <1>1, <1>2, <2>1, QueuesWithout
<1>. QED
  BY <1>1, <1>3, <1>8, <1>10, <1>11, <1>12 DEF Matching

LEMMA MatchMessageMatches ==
    ASSUME Core, Matching, NEW d \in Rank, MatchMessage(d)
    PROVE  Matching'
<1>1. PICK n \in 1..Len(posted[d]), s \in Rank : \E i \in 1..Len(wire[s][d]) :
          LET p  == posted[d][n]
              at == [source |-> s, index |-> i]
          IN  /\ MayTake(s, d, i, p, SubSeq(posted[d], 1, n - 1))
              /\ Take(s, d, i)
              /\ posted' = [posted EXCEPT ![d] = RemoveAt(@, n)]
              /\ req' = IF p.part = "header" THEN [req EXCEPT ![d][p.req].hdr = at]
                                             ELSE [req EXCEPT ![d][p.req].bod = at]
              /\ UNCHANGED <<waiting, abandoned, crashed, wire>>
  BY Zenon DEF MatchMessage
<1>. DEFINE p == posted[d][n]
            k == p.req
            o == req[d][k]
<1>2. PICK i \in 1..Len(wire[s][d]) :
          LET at == [source |-> s, index |-> i]
          IN  /\ MayTake(s, d, i, p, SubSeq(posted[d], 1, n - 1))
              /\ Take(s, d, i)
              /\ Unpost(d, n)
              /\ p.part = "header" => Set(d, k, [o EXCEPT !.hdr = at])
              /\ p.part # "header" => Set(d, k, [o EXCEPT !.bod = at])
              /\ wire' = wire
  BY Zenon, <1>1 DEF Unpost, Set
<1>. DEFINE at == [source |-> s, index |-> i]
<1>3. k \in 1..Len(req[d]) /\ ~o.send /\ p \in PostedReceive
  <2>1. posted[d] \in Seq(PostedReceive) /\ k \in 1..Len(req[d]) /\ ~o.send
    BY DEF Core, PostedOK
  <2>. QED
    BY <2>1, ElementOfSeq
<1>4. PostedFor(d, p, o, wire) /\ ReceiveOK(d, o, wire, taken) /\ o \in Request /\ o.hdr \in Position
  BY <1>3, ReceiveAt DEF Matching, QueuesOK, QueueOK
<1>5. TakenBy(s, d, i)
  BY <1>2, TakeFacts
<1>6. \E m \in 1..Len(posted[d]) : posted[d][m].req = k /\ Unpost(d, m)
  BY <1>2
<1>7. at \in Position
  BY WireTypes DEF Position
<1>8. CASE p.part = "header"
  <2>. DEFINE q == [o EXCEPT !.hdr = at]
  <2>1. o.hdr.index = 0 /\ ~o.cancelled /\ p.source = o.peer /\ p.tag = o.tag
    BY <1>4, <1>8 DEF PostedFor
  <2>2. wire[s][d][i].part = "header"
    BY SMTT(40), <1>2, <1>8, HeaderGetsHeader
  <2>3. Accepts(Pattern(o), s, wire[s][d][i].tag)
    BY Zenon, <1>2, <2>1 DEF MayTake, Fits, Accepts, Pattern
  <2>4. q \in Request /\ Set(d, k, q)
    BY <1>2, <1>4, <1>7, <1>8 DEF Request
  <2>5. wire' = wire
    BY <1>2
  <2>6. q = [req[d][k] EXCEPT !.hdr = [source |-> s, index |-> i]]
    OBVIOUS
  <2>. HIDE DEF q, p, k
  <2>. QED
    BY <1>3, <1>5, <1>6, <2>1, <2>2, <2>3, <2>4, <2>5, <2>6, HeaderTaken
<1>9. CASE p.part # "header"
  <2>. DEFINE q == [o EXCEPT !.bod = at]
  <2>1. p.part = "body"
    BY <1>3, <1>9 DEF PostedReceive
  <2>2. /\ Pending(d, o, wire) /\ o.desc = "null" /\ p.source = o.hdr.source
        /\ p.tag = wire[o.hdr.source][d][o.hdr.index].tag
    BY Zenon, <1>4, <2>1 DEF PostedFor
  <2>3. MayTake(s, d, i, p, SubSeq(posted[d], 1, n - 1)) /\ wire' = wire
    BY Zenon, <1>2
  <2>4. q \in Request /\ Set(d, k, q)
    BY <1>2, <1>4, <1>7, <1>9 DEF Request
  <2>5. /\ q.send = o.send /\ q.peer = o.peer /\ q.tag = o.tag /\ q.hdr = o.hdr /\ q.bod = at
        /\ q.cancelled = o.cancelled /\ q.desc = o.desc /\ q.buffer = o.buffer /\ q.message = o.message
    BY <1>4 DEF Request
  <2>. HIDE DEF q, p, k
  <2>6. s = o.hdr.source /\ i = o.hdr.index + 1
    BY Zenon, <1>3, <2>2, <2>3, TakesItsBody
  <2>7. ReceiveOK(d, q, wire, taken)
    <3>1. q.hdr.index # 0 /\ SplitAt(d, q.hdr, wire)
      BY <2>2, <2>5 DEF Pending
    <3>2. GotHeader(d, q, wire, taken)
      BY Zenon, <1>4, <2>5, <3>1 DEF ReceiveOK, GotHeader, Pattern
    <3>3. q.bod = [source |-> q.hdr.source, index |-> q.hdr.index + 1]
      BY <2>5, <2>6
    <3>. QED
      BY <1>4, <2>2, <2>5, <3>1, <3>2, <3>3 DEF ReceiveOK
  <2>8. ReceiveOK(d, q, wire, taken')
    <3>1. q.hdr.source \in Rank
      BY <1>4, <2>5 DEF Position
    <3>. QED
      BY <1>5, <2>7, <3>1 DEF TakenBy
  <2>9. Resembles(o, q)
    BY <2>5 DEF Resembles, Pattern, IsUnseen
  <2>10. q.bod = [source |-> s, index |-> i]
    BY <2>5
  <2>. HIDE DEF at
  <2>. QED
    BY Zenon, <1>3, <1>5, <1>6, <2>2, <2>3, <2>4, <2>6, <2>8, <2>9, <2>10, BodyTaken
<1>. QED
  BY <1>8, <1>9

-----------------------------------------------------------------------------
(***************************************************************************)
(* The calls.                                                              *)
(***************************************************************************)
LEMMA TestReceiveMatches ==
    ASSUME Core, Matching, NEW r \in Rank, NEW k \in 1..Len(req[r]), TestReceive(r, k), wire' = wire
    PROVE  Matching'
<1>1. HeaderHere(r, k)
  BY DEF TestReceive
<1>2. \/ UnpackShort(r, k, Seen(r, req[r][k])) \/ UnpackCrash(r, Seen(r, req[r][k]))
      \/ PostBodyReceive(r, k, Seen(r, req[r][k])) \/ TestBodyAtOnce(r, k, Seen(r, req[r][k]))
      \/ TestBody(r, k, Seen(r, req[r][k])) \/ TestBodyPending(r, k, Seen(r, req[r][k]))
  BY DEF TestReceive
<1>3. UnpackCrash(r, Seen(r, req[r][k])) => UNCHANGED <<req, taken, posted>>
  BY DEF UnpackCrash
<1>. QED
  BY <1>1, <1>2, <1>3, UnpackShortMatches, PostBodyReceiveMatches, TestBodyAtOnceMatches,
     TestBodyMatches, SameMatching

LEMMA UseMatches ==
    ASSUME Core, Matching, Liberties = {}, NEW r \in Rank, NEW k \in 1..Len(req[r]), UseRequest(r, k)
    PROVE  Matching'
<1>1. CASE Test(r, k)
  <2>1. (TestSend(r, k) \/ TestReceive(r, k)) /\ wire' = wire
    BY <1>1 DEF Test
  <2>. QED
    BY <2>1, SendsMatch, TestReceiveMatches
<1>. QED
  BY <1>1, TestCancelledMatches, CancelMatches, DropMatches, SendsMatch DEF UseRequest

LEMMA ProgramMatches ==
    ASSUME Core, Matching, Liberties = {}, NEW r \in Rank, Program(r)
    PROVE  Matching'
<1>1. ASSUME NEW ks \in WaitLists(r), Wait(r, ks)
      PROVE  Matching'
  <2>1. UNCHANGED <<req, wire, taken, posted>>
    BY <1>1 DEF Wait
  <2>. QED
    BY <2>1, SameMatching
<1>. QED
  BY <1>1, IsendMatches, IrecvMatches, UseMatches DEF Program

LEMMA WaitStepMatches ==
    ASSUME Core, Lists, Matching, Liberties = {}, NEW r \in Rank, WaitStep(r)
    PROVE  Matching'
<1>. DEFINE k == Head(waiting[r])
            q == Seen(r, req[r][k])
<1>1. /\ waiting[r] # <<>> /\ wire' = wire
      /\ WaitSend(r, k) \/ WaitMessageHere(r, k) \/ WaitHeader(r, k) \/ WaitBody(r, k)
  BY DEF WaitStep
<1>2. k \in 1..Len(req[r])
  <2>1. ListOK(waiting[r], req, r)
    BY DEF Lists
  <2>. QED
    BY <1>1, <2>1, HeadOfList
<1>3. CASE WaitHeader(r, k)
  <2>1. HeaderHere(r, k) /\ (UnpackShort(r, k, q) \/ UnpackCrash(r, q) \/ PostBodyReceive(r, k, q))
    BY <1>3 DEF WaitHeader
  <2>2. UnpackCrash(r, q) => UNCHANGED <<req, taken, posted>>
    BY DEF UnpackCrash
  <2>. HIDE DEF k
  <2>. QED
    BY <1>1, <1>2, <2>1, <2>2, UnpackShortMatches, PostBodyReceiveMatches, SameMatching
<1>4. CASE WaitMessageHere(r, k)
  <2>1. UNCHANGED <<req, wire, taken, posted>>
    BY <1>1, <1>4 DEF WaitMessageHere
  <2>. QED
    BY <2>1, SameMatching
<1>. HIDE DEF k
<1>. QED
  BY <1>1, <1>2, <1>3, <1>4, SendsMatch, WaitBodyMatches

LEMMA PollStepMatches ==
    ASSUME Core, Polling, Matching, Liberties = {}, NEW r \in Rank, PollStep(r)
    PROVE  Matching'
<1>. DEFINE k == Head(polling[r].left)
<1>1. polling[r] # None /\ wire' = wire /\ (TestedTrue(r, k) \/ TestedFalse(r, k))
  BY Zenon DEF PollStep
<1>2. k \in 1..Len(req[r])
  <2>1. polling[r].left # <<>> /\ ListOK(polling[r].left, req, r)
    BY <1>1 DEF Polling, PollingOK
  <2>. QED
    BY <2>1, HeadOfList
<1>3. TestSend(r, k) \/ TestReceive(r, k) \/ UNCHANGED <<req, taken, posted>>
  BY <1>1 DEF TestedTrue, TestedFalse
<1>. HIDE DEF k
<1>. QED
  BY <1>1, <1>2, <1>3, SendsMatch, TestReceiveMatches, SameMatching

LEMMA InitMatches == PollInit => Matching
<1>. SUFFICES ASSUME PollInit
              PROVE  Matching
  OBVIOUS
<1>1. /\ req = [r \in Rank |-> <<>>]
      /\ wire = [s \in Rank |-> [d \in Rank |-> <<>>]]
      /\ taken = [s \in Rank |-> [d \in Rank |-> {}]]
      /\ posted = [d \in Rank |-> <<>>]
  BY DEF PollInit, Init
<1>2. PairsOK(wire) /\ InOrder(wire, taken)
  BY <1>1 DEF PairsOK, InOrder
<1>3. ReceivesOK(req, wire, taken) /\ Apart(req)
  BY <1>1 DEF ReceivesOK, Apart
<1>4. Owned(req, wire, taken)
  BY <1>1 DEF Owned
<1>5. QueuesOK(posted, req, wire)
  BY <1>1 DEF QueuesOK, QueueOK
<1>. QED
  BY <1>2, <1>3, <1>4, <1>5 DEF Matching

LEMMA NextMatches ==
    ASSUME Liberties = {}, RequestsInv, Matching, [PollNext]_pollVars
    PROVE  Matching'
<1>1. Core /\ Lists /\ Polling
  BY DEF RequestsInv
<1>2. CASE UNCHANGED vars
  <2>1. UNCHANGED <<req, wire, taken, posted>>
    BY <1>2 DEF vars
  <2>. QED
    BY <2>1, SameMatching
<1>3. CASE PollNext
  <2>1. PICK r \in Rank :
            \/ polling[r] = None /\ Program(r) /\ UNCHANGED polling
            \/ (WaitStep(r) \/ MatchMessage(r)) /\ UNCHANGED polling
            \/ \E p \in Polls[r] : StartPoll(r, p[1], p[2])
            \/ PollStep(r)
    BY <1>3 DEF PollNext
  <2>2. (\E p \in Polls[r] : StartPoll(r, p[1], p[2])) => UNCHANGED vars
    BY DEF StartPoll
  <2>. QED
    BY <1>1, <1>2, <2>1, <2>2, ProgramMatches, WaitStepMatches, MatchMessageMatches, PollStepMatches
<1>. QED
  BY <1>2, <1>3 DEF pollVars

\* The object of a receive that is finished is the one whose header it
\* matched: no part of it is another's, and none is lost.
THEOREM ReceivedIntact ==
    ASSUME Liberties = {}
    PROVE  PollSpec => []Intact
<1>1. PollInit => Matching
  BY InitMatches
<1>2. RequestsInv /\ Matching /\ [PollNext]_pollVars => Matching'
  BY NextMatches
<1>3. RequestsInv /\ Matching => Intact
  <2>. SUFFICES ASSUME RequestsInv, Matching, NEW r \in Rank, NEW k \in 1..Len(req[r]),
                       ~req[r][k].send, req[r][k].message # NONE
                PROVE  /\ MessageAt(r, req[r][k].hdr).part = "header"
                       /\ req[r][k].message = MessageAt(r, req[r][k].hdr).obj
    BY DEF Intact
  <2>1. ReceiveOK(r, req[r][k], wire, taken)
    BY ReceiveAt DEF RequestsInv
  <2>2. GotHeader(r, req[r][k], wire, taken)
    BY <2>1 DEF ReceiveOK
  <2>. QED
    BY Zenon, <2>1, <2>2 DEF MessageAt, ReceiveOK, GotHeader
<1>. QED
  BY <1>1, <1>2, <1>3, AlwaysRequestsInv, PTL DEF PollSpec
=============================================================================
