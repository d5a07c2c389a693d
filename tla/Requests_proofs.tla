---------------------------- MODULE Requests_proofs ----------------------------
(***************************************************************************)
(* For any ranks, messages and requests, and whatever liberties programs   *)
(* take: a send that pyMPI has called complete is over in both its         *)
(* messages, and the buffers of a send that is dropped are kept until it   *)
(* is over.                                                                *)
(*                                                                         *)
(* The argument: the two messages of a split send are neighbours on the    *)
(* wire with one tag, so no receive takes the second before the first; and *)
(* a null handle of a send says that its message is gone.  Every step only *)
(* adds to the wire and to what is taken from it, and keeps what a request *)
(* is about.                                                               *)
(***************************************************************************)
EXTENDS Completion, SequenceTheorems, FiniteSetTheorems, TLAPS

\* The send of the message at position i of w[r][d] is complete.
Done(w, t, r, d, i) == w[r][d][i].part \in EagerParts \/ i \in t[r][d]

WireOK(w, t) ==
    /\ w \in [Rank -> [Rank -> Seq(Part)]]
    /\ t \in [Rank -> [Rank -> SUBSET Nat]]
    /\ \A s, d \in Rank : t[s][d] \subseteq 1..Len(w[s][d])
    /\ \A s, d \in Rank : \A i \in 1..Len(w[s][d]) :
           w[s][d][i].part = "body" =>
               /\ i > 1
               /\ w[s][d][i - 1].part = "header"
               /\ w[s][d][i - 1].tag = w[s][d][i].tag
               /\ i \in t[s][d] => i - 1 \in t[s][d]

SendOK(r, q, w, t) ==
    /\ q.peer \in Rank
    /\ q.hdr.index \in 1..Len(w[r][q.peer])
    /\ q.buffer => q.bod.index # 0
    /\ q.bod.index # 0 =>
           /\ q.buffer
           /\ q.bod.index = q.hdr.index + 1
           /\ q.bod.index \in 1..Len(w[r][q.peer])
           /\ w[r][q.peer][q.bod.index].part = "body"
           /\ q.buf = "null" => Done(w, t, r, q.peer, q.bod.index)
    /\ q.desc = "null" => Done(w, t, r, q.peer, q.hdr.index)
    /\ q.told => q.buf = "null"

Arrived(r, pos, w) == pos.index # 0 => pos.index \in 1..Len(w[pos.source][r])

RequestOK(r, q, w, t) ==
    /\ q \in Request
    /\ q.send => SendOK(r, q, w, t)
    /\ ~q.send => Arrived(r, q.hdr, w) /\ Arrived(r, q.bod, w)

ReqOK(rq, w, t) ==
    /\ rq \in [Rank -> Seq(Request)]
    /\ \A r \in Rank : Len(rq[r]) <= MaxRequests[r]
    /\ \A r \in Rank : \A k \in 1..Len(rq[r]) : RequestOK(r, rq[r][k], w, t)

\* Requests named in the lists of the ranks exist.
ListOK(list, rq, r) ==
    list \in Seq(Nat) /\ \A n \in 1..Len(list) : list[n] \in 1..Len(rq[r])

\* Only receives are posted.
PostedOK(ps, rq) ==
    /\ ps \in [Rank -> Seq(PostedReceive)]
    /\ \A r \in Rank : \A n \in 1..Len(ps[r]) :
           ps[r][n].req \in 1..Len(rq[r]) /\ ~rq[r][ps[r][n].req].send

Over(r, q, w, t) ==
    /\ Done(w, t, r, q.peer, q.hdr.index)
    /\ q.bod.index # 0 => Done(w, t, r, q.peer, q.bod.index)

AbandonedOK(list, rq, w, t, r) ==
    /\ ListOK(list, rq, r)
    /\ \A n \in 1..Len(list) : ~rq[r][list[n]].held
    /\ \A m, n \in 1..Len(list) : list[m] = list[n] => m = n
    /\ \A k \in 1..Len(rq[r]) :
           rq[r][k].send /\ ~rq[r][k].held /\ ~Over(r, rq[r][k], w, t) =>
               \E n \in 1..Len(list) : list[n] = k

PollingOK(p, rq, r) ==
    p # None =>
        /\ p \in Poll
        /\ p.requests # <<>> /\ ListOK(p.requests, rq, r)
        /\ p.left # <<>> /\ ListOK(p.left, rq, r)

Core == ReqOK(req, wire, taken) /\ WireOK(wire, taken) /\ PostedOK(posted, req)

Lists ==
    /\ waiting \in [Rank -> Seq(Nat)]
    /\ abandoned \in [Rank -> Seq(Nat)]
    /\ crashed \in SUBSET Rank
    /\ \A r \in Rank : ListOK(waiting[r], req, r)
    /\ \A r \in Rank : AbandonedOK(abandoned[r], req, wire, taken, r)

Polling ==
    /\ polling \in [Rank -> Poll \cup {None}]
    /\ \A r \in Rank : PollingOK(polling[r], req, r)

RequestsInv == Core /\ Lists /\ Polling

-----------------------------------------------------------------------------
(***************************************************************************)
(* What a step keeps.                                                      *)
(***************************************************************************)

\* Messages are added to the wire and taken from it; the program may spoil one.
Grows(w, t, w2, t2) ==
    \A s, d \in Rank :
        /\ Len(w[s][d]) <= Len(w2[s][d])
        /\ \A i \in 1..Len(w[s][d]) : w2[s][d][i].part = w[s][d][i].part
        /\ t[s][d] \subseteq t2[s][d]

\* The request q is about what it was about, and is held if it was.
SameSend(q, q2) ==
    q2.send = q.send /\ (q.send => q2.peer = q.peer /\ q2.hdr = q.hdr /\ q2.bod = q.bod)

Carries(rq, rq2) ==
    \A r \in Rank :
        /\ Len(rq[r]) <= Len(rq2[r])
        /\ \A k \in 1..Len(rq[r]) : SameSend(rq[r][k], rq2[r][k])

Holds(rq, rq2) ==
    \A r \in Rank :
        /\ \A k \in 1..Len(rq[r]) : rq2[r][k].held = rq[r][k].held
        /\ \A k \in 1..Len(rq2[r]) : k > Len(rq[r]) => rq2[r][k].held

LEMMA MaxRequestsNat == \A r \in Rank : MaxRequests[r] \in Nat
  BY RequestsAssumption

LEMMA DoneStays ==
    ASSUME NEW w, NEW t, NEW w2, NEW t2, Grows(w, t, w2, t2),
           NEW r \in Rank, NEW d \in Rank, NEW i \in 1..Len(w[r][d]), Done(w, t, r, d, i)
    PROVE  Done(w2, t2, r, d, i)
  BY DEF Grows, Done

LEMMA WireLengths ==
    ASSUME NEW w, NEW t, WireOK(w, t), NEW s \in Rank, NEW d \in Rank
    PROVE  w[s][d] \in Seq(Part) /\ Len(w[s][d]) \in Nat
<1>1. w[s][d] \in Seq(Part)
  BY DEF WireOK
<1>. QED
  BY <1>1

LEMMA RequestStays ==
    ASSUME NEW w, NEW t, NEW w2, NEW t2, Grows(w, t, w2, t2),
           WireOK(w, t), WireOK(w2, t2),
           NEW r \in Rank, NEW q, RequestOK(r, q, w, t)
    PROVE  RequestOK(r, q, w2, t2)
<1>1. /\ \A s, d \in Rank : Len(w[s][d]) \in Nat /\ Len(w2[s][d]) \in Nat
      /\ \A s, d \in Rank : Len(w[s][d]) <= Len(w2[s][d])
  BY WireLengths DEF Grows
<1>2. q \in Request
  BY DEF RequestOK
<1>3. CASE q.send
  <2>1. SendOK(r, q, w, t)
    BY <1>3 DEF RequestOK
  <2>2. /\ q.peer \in Rank
        /\ q.hdr.index \in 1..Len(w[r][q.peer])
        /\ q.hdr.index \in 1..Len(w2[r][q.peer])
    BY <1>1, <2>1 DEF SendOK
  <2>3. q.desc = "null" => Done(w2, t2, r, q.peer, q.hdr.index)
    BY <2>1, <2>2, DoneStays DEF SendOK
  <2>4. ASSUME q.bod.index # 0
        PROVE  /\ q.bod.index \in 1..Len(w2[r][q.peer])
               /\ w2[r][q.peer][q.bod.index].part = "body"
               /\ q.buf = "null" => Done(w2, t2, r, q.peer, q.bod.index)
    <3>1. /\ q.bod.index \in 1..Len(w[r][q.peer])
          /\ w[r][q.peer][q.bod.index].part = "body"
          /\ q.buf = "null" => Done(w, t, r, q.peer, q.bod.index)
      BY <2>1, <2>4 DEF SendOK
    <3>2. q.bod.index \in 1..Len(w2[r][q.peer])
      BY <1>1, <2>2, <3>1
    <3>3. w2[r][q.peer][q.bod.index].part = "body"
      BY <2>2, <3>1 DEF Grows
    <3>. QED
      BY <2>2, <3>1, <3>2, <3>3, DoneStays
  <2>. QED
    BY <1>2, <1>3, <2>1, <2>2, <2>3, <2>4 DEF RequestOK, SendOK
<1>4. CASE ~q.send
  <2>1. ASSUME NEW pos \in Position, Arrived(r, pos, w)
        PROVE  Arrived(r, pos, w2)
    BY <1>1, <2>1 DEF Arrived, Position
  <2>2. q.hdr \in Position /\ q.bod \in Position
    BY <1>2 DEF Request
  <2>. QED
    BY <1>2, <1>4, <2>1, <2>2 DEF RequestOK
<1>. QED
  BY <1>3, <1>4

\* A list of requests remains one, and what it says of abandoned sends.
LEMMA ListStays ==
    ASSUME NEW rq \in [Rank -> Seq(Request)], NEW rq2 \in [Rank -> Seq(Request)],
           Carries(rq, rq2), NEW r \in Rank, NEW list, ListOK(list, rq, r)
    PROVE  ListOK(list, rq2, r)
  BY DEF ListOK, Carries

LEMMA OverStays ==
    ASSUME NEW w, NEW t, NEW w2, NEW t2, Grows(w, t, w2, t2),
           NEW r \in Rank, NEW q, NEW q2, q.send, RequestOK(r, q, w, t), SameSend(q, q2),
           Over(r, q, w, t)
    PROVE  Over(r, q2, w2, t2)
<1>1. /\ q.peer \in Rank
      /\ q.hdr.index \in 1..Len(w[r][q.peer])
      /\ q.bod.index # 0 => q.bod.index \in 1..Len(w[r][q.peer])
  BY DEF RequestOK, SendOK
<1>2. q2.peer = q.peer /\ q2.hdr = q.hdr /\ q2.bod = q.bod
  BY DEF SameSend
<1>. QED
  BY <1>1, <1>2, DoneStays DEF Over

LEMMA AbandonedStays ==
    ASSUME NEW rq, NEW rq2 \in [Rank -> Seq(Request)],
           NEW w, NEW t, NEW w2, NEW t2, Grows(w, t, w2, t2),
           ReqOK(rq, w, t), Carries(rq, rq2), Holds(rq, rq2),
           NEW r \in Rank, NEW list, AbandonedOK(list, rq, w, t, r)
    PROVE  AbandonedOK(list, rq2, w2, t2, r)
<1>1. /\ rq \in [Rank -> Seq(Request)]
      /\ \A k \in 1..Len(rq[r]) : RequestOK(r, rq[r][k], w, t)
  BY DEF ReqOK
<1>2. ListOK(list, rq, r) /\ ListOK(list, rq2, r)
  BY <1>1, ListStays DEF AbandonedOK
<1>3. \A n \in 1..Len(list) : ~rq2[r][list[n]].held
  BY <1>2 DEF AbandonedOK, ListOK, Holds
<1>4. ASSUME NEW k \in 1..Len(rq2[r]), rq2[r][k].send, ~rq2[r][k].held,
             ~Over(r, rq2[r][k], w2, t2)
      PROVE  \E n \in 1..Len(list) : list[n] = k
  <2>1. Len(rq[r]) \in Nat /\ Len(rq2[r]) \in Nat
    BY <1>1
  <2>2. k \in 1..Len(rq[r])
    BY <1>4, <2>1 DEF Holds
  <2>3. SameSend(rq[r][k], rq2[r][k])
    BY <2>2 DEF Carries
  <2>4. rq[r][k].send /\ ~rq[r][k].held
    BY <1>4, <2>2, <2>3 DEF SameSend, Holds
  <2>5. ~Over(r, rq[r][k], w, t)
    BY <1>1, <1>4, <2>2, <2>3, <2>4, OverStays
  <2>. QED
    BY <2>2, <2>4, <2>5 DEF AbandonedOK
<1>. QED
  BY <1>2, <1>3, <1>4 DEF AbandonedOK

-----------------------------------------------------------------------------
(***************************************************************************)
(* The small changes that steps are made of.                               *)
(***************************************************************************)

\* A step that leaves MPI's wire alone
LEMMA WireSame ==
    ASSUME Core, UNCHANGED <<wire, taken>>
    PROVE  WireOK(wire', taken') /\ Grows(wire, taken, wire', taken')
<1>1. WireOK(wire, taken) /\ wire' = wire /\ taken' = taken
  BY DEF Core
<1>2. Grows(wire, taken, wire, taken)
  BY <1>1, WireLengths DEF Grows
<1>. QED
  BY <1>1, <1>2

\* A receive takes the first message it fits, and so a header before its body.
LEMMA TakeKeeps ==
    ASSUME Core, NEW s \in Rank, NEW d \in Rank, NEW i \in 1..Len(wire[s][d]), NEW p,
           NEW earlier, MayTake(s, d, i, p, earlier), Take(s, d, i), wire' = wire
    PROVE  WireOK(wire', taken') /\ Grows(wire, taken, wire', taken')
<1>1. /\ wire \in [Rank -> [Rank -> Seq(Part)]]
      /\ taken \in [Rank -> [Rank -> SUBSET Nat]]
      /\ WireOK(wire, taken)
  BY DEF Core, WireOK
<1>2. i \in Nat /\ Len(wire[s][d]) \in Nat
  BY <1>1, WireLengths
<1>3. /\ taken' \in [Rank -> [Rank -> SUBSET Nat]]
      /\ \A a, b \in Rank : taken'[a][b] = IF a = s /\ b = d THEN taken[a][b] \cup {i} ELSE taken[a][b]
  BY <1>1, <1>2 DEF Take
<1>4. Grows(wire, taken, wire', taken')
  <2>1. \A a, b \in Rank : taken[a][b] \subseteq taken'[a][b]
    BY <1>3
  <2>2. \A a, b \in Rank : Len(wire[a][b]) <= Len(wire'[a][b])
    BY <1>1, WireLengths
  <2>. QED
    BY <2>1, <2>2 DEF Grows
<1>5. ASSUME wire[s][d][i].part = "body"
      PROVE  i - 1 \in taken[s][d]
  <2>1. i > 1 /\ i - 1 \in 1..Len(wire[s][d]) /\ i - 1 \in 1..(i - 1)
        /\ wire[s][d][i - 1].tag = wire[s][d][i].tag
    BY <1>1, <1>2, <1>5 DEF WireOK
  <2>2. Fits(s, d, i, p) /\ ~Fits(s, d, i - 1, p)
    BY <2>1 DEF MayTake
  <2>. QED
    BY <2>1, <2>2 DEF Fits
<1>6. ASSUME NEW a \in Rank, NEW b \in Rank, NEW j \in 1..Len(wire[a][b]),
             wire[a][b][j].part = "body", j \in taken'[a][b]
      PROVE  j - 1 \in taken'[a][b]
  <2>1. CASE a = s /\ b = d /\ j = i
    BY <1>3, <1>5, <1>6, <2>1
  <2>2. CASE ~(a = s /\ b = d /\ j = i)
    <3>1. j \in taken[a][b]
      BY <1>3, <1>6, <2>2
    <3>2. j - 1 \in taken[a][b]
      BY <1>1, <1>6, <3>1 DEF WireOK
    <3>. QED
      BY <1>3, <3>2
  <2>. QED
    BY <2>1, <2>2
<1>7. ASSUME NEW a \in Rank, NEW b \in Rank
      PROVE  taken'[a][b] \subseteq 1..Len(wire[a][b])
  <2>1. taken[a][b] \subseteq 1..Len(wire[a][b])
    BY <1>1 DEF WireOK
  <2>2. CASE a = s /\ b = d
    <3>1. taken'[s][d] = taken[s][d] \cup {i}
      BY <1>3
    <3>. QED
      BY <2>1, <2>2, <3>1
  <2>3. CASE ~(a = s /\ b = d)
    BY <1>3, <2>1, <2>3
  <2>. QED
    BY <2>2, <2>3
<1>. QED
  BY <1>1, <1>3, <1>4, <1>6, <1>7 DEF WireOK

\* One request object changes.
LEMMA SetKeeps ==
    ASSUME Core, WireOK(wire', taken'), Grows(wire, taken, wire', taken'),
           NEW r \in Rank, NEW k \in 1..Len(req[r]), NEW q,
           RequestOK(r, q, wire', taken'), SameSend(req[r][k], q), Set(r, k, q)
    PROVE  /\ ReqOK(req', wire', taken') /\ Carries(req, req')
           /\ q.held = req[r][k].held => Holds(req, req')
           /\ req'[r][k] = q
           /\ \A l \in 1..Len(req[r]) : l # k => req'[r][l] = req[r][l]
           /\ \A a \in Rank : Len(req'[a]) = Len(req[a]) /\ (a # r => req'[a] = req[a])
<1>1. /\ req \in [Rank -> Seq(Request)] /\ WireOK(wire, taken)
      /\ \A a \in Rank : Len(req[a]) <= MaxRequests[a]
      /\ \A a \in Rank : \A l \in 1..Len(req[a]) : RequestOK(a, req[a][l], wire, taken)
  BY DEF Core, ReqOK
<1>2. q \in Request
  BY DEF RequestOK
<1>3. req' = [req EXCEPT ![r] = [req[r] EXCEPT ![k] = q]]
  BY <1>1 DEF Set
<1>4. /\ [req[r] EXCEPT ![k] = q] \in Seq(Request)
      /\ Len([req[r] EXCEPT ![k] = q]) = Len(req[r])
      /\ \A l \in 1..Len(req[r]) : [req[r] EXCEPT ![k] = q][l] = IF l = k THEN q ELSE req[r][l]
  BY <1>1, <1>2, ExceptSeq
<1>5. /\ req' \in [Rank -> Seq(Request)]
      /\ \A a \in Rank : a # r => req'[a] = req[a]
      /\ Len(req'[r]) = Len(req[r])
      /\ \A l \in 1..Len(req[r]) : req'[r][l] = IF l = k THEN q ELSE req[r][l]
  BY <1>1, <1>3, <1>4
<1>6. ASSUME NEW a \in Rank, NEW l \in 1..Len(req'[a])
      PROVE  RequestOK(a, req'[a][l], wire', taken')
  <2>1. CASE a = r /\ l = k
    BY <1>5, <2>1
  <2>2. CASE ~(a = r /\ l = k)
    <3>1. l \in 1..Len(req[a]) /\ req'[a][l] = req[a][l]
      BY <1>5, <1>6, <2>2
    <3>. QED
      BY <1>1, <3>1, RequestStays
  <2>. QED
    BY <2>1, <2>2
<1>7. ASSUME NEW a \in Rank, NEW l \in 1..Len(req[a])
      PROVE  /\ SameSend(req[a][l], req'[a][l])
             /\ q.held = req[r][k].held => req'[a][l].held = req[a][l].held
  BY <1>5 DEF SameSend
<1>8. \A a \in Rank : Len(req'[a]) = Len(req[a]) /\ Len(req[a]) \in Nat
  BY <1>1, <1>5
<1>. QED
  BY <1>1, <1>5, <1>6, <1>7, <1>8 DEF ReqOK, Carries, Holds

\* A request object is created.
LEMMA AppendKeeps ==
    ASSUME Core, WireOK(wire', taken'), Grows(wire, taken, wire', taken'),
           NEW r \in Rank, Len(req[r]) < MaxRequests[r],
           NEW q, q.held, RequestOK(r, q, wire', taken'),
           req' = [req EXCEPT ![r] = Append(@, q)]
    PROVE  /\ ReqOK(req', wire', taken') /\ Carries(req, req') /\ Holds(req, req')
           /\ Len(req'[r]) = Len(req[r]) + 1 /\ req'[r][Len(req[r]) + 1] = q
<1>1. /\ req \in [Rank -> Seq(Request)] /\ WireOK(wire, taken)
      /\ \A a \in Rank : Len(req[a]) <= MaxRequests[a]
      /\ \A a \in Rank : \A l \in 1..Len(req[a]) : RequestOK(a, req[a][l], wire, taken)
  BY DEF Core, ReqOK
<1>2. q \in Request
  BY DEF RequestOK
<1>3. /\ Append(req[r], q) \in Seq(Request)
      /\ Len(Append(req[r], q)) = Len(req[r]) + 1
      /\ \A l \in 1..Len(req[r]) : Append(req[r], q)[l] = req[r][l]
      /\ Append(req[r], q)[Len(req[r]) + 1] = q
  BY <1>1, <1>2, AppendProperties
<1>4. /\ req' \in [Rank -> Seq(Request)]
      /\ \A a \in Rank : a # r => req'[a] = req[a]
      /\ Len(req'[r]) = Len(req[r]) + 1
      /\ \A l \in 1..Len(req[r]) : req'[r][l] = req[r][l]
      /\ req'[r][Len(req[r]) + 1] = q
  BY <1>1, <1>3
<1>5. \A a \in Rank : Len(req[a]) \in Nat /\ MaxRequests[a] \in Nat
  BY <1>1, MaxRequestsNat
<1>6. \A a \in Rank : Len(req'[a]) <= MaxRequests[a] /\ Len(req[a]) <= Len(req'[a])
  BY <1>1, <1>4, <1>5
<1>7. ASSUME NEW a \in Rank, NEW l \in 1..Len(req[a])
      PROVE  req'[a][l] = req[a][l] /\ RequestOK(a, req'[a][l], wire', taken')
  <2>1. req'[a][l] = req[a][l]
    BY <1>4
  <2>. QED
    BY <1>1, <2>1, RequestStays
<1>8. ASSUME NEW a \in Rank, NEW l \in 1..Len(req'[a]), l > Len(req[a])
      PROVE  req'[a][l] = q /\ a = r
  BY <1>4, <1>5, <1>8
<1>9. \A a \in Rank : \A l \in 1..Len(req'[a]) : RequestOK(a, req'[a][l], wire', taken')
  BY <1>5, <1>7, <1>8
<1>. QED
  BY <1>4, <1>6, <1>7, <1>8, <1>9 DEF ReqOK, Carries, Holds, SameSend

\* Every posted receive stays where it is.
LEMMA PostedStays ==
    ASSUME Core, ReqOK(req', wire', taken'), Carries(req, req'), posted' = posted
    PROVE  PostedOK(posted', req')
  BY SMTT(40) DEF Core, PostedOK, Carries, SameSend

\* One leaves the queue.
LEMMA UnpostKeeps ==
    ASSUME Core, ReqOK(req', wire', taken'), Carries(req, req'),
           NEW r \in Rank, NEW n \in 1..Len(posted[r]), Unpost(r, n)
    PROVE  PostedOK(posted', req')
<1>1. posted \in [Rank -> Seq(PostedReceive)]
  BY DEF Core, PostedOK
<1>2. Len(posted[r]) \in Nat /\ n \in Nat /\ n - 1 \in Int /\ n + 1 \in Int
  BY <1>1
<1>. DEFINE left == SubSeq(posted[r], 1, n - 1)
            right == SubSeq(posted[r], n + 1, Len(posted[r]))
<1>3. \A m \in 1..Len(posted[r]) : posted[r][m] \in PostedReceive
  BY <1>1, ElementOfSeq
<1>4. /\ left \in Seq(PostedReceive)
      /\ \A m \in 1..Len(left) : \E l \in 1..Len(posted[r]) : left[m] = posted[r][l]
  <2>1. /\ left \in Seq(PostedReceive)
        /\ Len(left) = IF 1 <= n - 1 THEN n - 1 - 1 + 1 ELSE 0
        /\ \A m \in 1..(n - 1 - 1 + 1) : left[m] = posted[r][1 + m - 1]
    <3>1. \A m \in 1..(n - 1) : posted[r][m] \in PostedReceive
      BY <1>2, <1>3
    <3>. QED
      BY <1>2, <3>1, SubSeqProperties
  <2>. QED
    BY <1>2, <2>1
<1>5. /\ right \in Seq(PostedReceive)
      /\ \A m \in 1..Len(right) : \E l \in 1..Len(posted[r]) : right[m] = posted[r][l]
  <2>1. /\ right \in Seq(PostedReceive)
        /\ Len(right) = IF n + 1 <= Len(posted[r]) THEN Len(posted[r]) - (n + 1) + 1 ELSE 0
        /\ \A m \in 1..(Len(posted[r]) - (n + 1) + 1) : right[m] = posted[r][n + 1 + m - 1]
    <3>1. \A m \in (n + 1)..Len(posted[r]) : posted[r][m] \in PostedReceive
      BY <1>2, <1>3
    <3>. QED
      BY <1>2, <3>1, SubSeqProperties
  <2>. QED
    BY <1>2, <2>1
<1>. HIDE DEF left, right
<1>6. /\ left \o right \in Seq(PostedReceive)
      /\ \A m \in 1..Len(left \o right) : \E l \in 1..Len(posted[r]) : (left \o right)[m] = posted[r][l]
  <2>1. /\ left \o right \in Seq(PostedReceive)
        /\ Len(left \o right) = Len(left) + Len(right)
        /\ \A m \in 1..Len(left) + Len(right) :
               (left \o right)[m] = IF m <= Len(left) THEN left[m] ELSE right[m - Len(left)]
    BY <1>4, <1>5, ConcatProperties
  <2>2. Len(left) \in Nat /\ Len(right) \in Nat
    BY <1>4, <1>5
  <2>3. ASSUME NEW m \in 1..Len(left \o right)
        PROVE  \E l \in 1..Len(posted[r]) : (left \o right)[m] = posted[r][l]
    <3>1. CASE m <= Len(left)
      BY <1>4, <2>1, <2>2, <3>1
    <3>2. CASE m > Len(left)
      <4>1. m - Len(left) \in 1..Len(right) /\ (left \o right)[m] = right[m - Len(left)]
        BY <2>1, <2>2, <3>2
      <4>. QED
        BY <1>5, <4>1
    <3>. QED
      BY <2>1, <2>2, <3>1, <3>2
  <2>. QED
    BY <2>1, <2>3
<1>7. posted' = [posted EXCEPT ![r] = left \o right]
  BY DEF Unpost, RemoveAt, left, right
<1>8. /\ posted' \in [Rank -> Seq(PostedReceive)]
      /\ \A a \in Rank : \A m \in 1..Len(posted'[a]) :
             \E l \in 1..Len(posted[a]) : posted'[a][m] = posted[a][l]
  BY <1>1, <1>6, <1>7
<1>9. ASSUME NEW a \in Rank, NEW m \in 1..Len(posted'[a])
      PROVE  posted'[a][m].req \in 1..Len(req'[a]) /\ ~req'[a][posted'[a][m].req].send
  <2>1. PICK l \in 1..Len(posted[a]) : posted'[a][m] = posted[a][l]
    BY <1>8
  <2>2. posted[a][l].req \in 1..Len(req[a]) /\ ~req[a][posted[a][l].req].send
    BY DEF Core, PostedOK
  <2>3. Len(req[a]) <= Len(req'[a]) /\ Len(req[a]) \in Nat /\ Len(req'[a]) \in Nat
    BY DEF Core, ReqOK, Carries
  <2>. QED
    BY SMTT(40), <2>1, <2>2, <2>3 DEF Carries, SameSend
<1>. QED
  BY <1>8, <1>9 DEF PostedOK

\* One joins it.
LEMMA PostKeeps ==
    ASSUME Core, ReqOK(req', wire', taken'), Carries(req, req'),
           NEW r \in Rank, NEW p \in PostedReceive,
           p.req \in 1..Len(req'[r]), ~req'[r][p.req].send,
           posted' = [posted EXCEPT ![r] = Append(@, p)]
    PROVE  PostedOK(posted', req')
<1>1. posted \in [Rank -> Seq(PostedReceive)]
  BY DEF Core, PostedOK
<1>2. /\ Append(posted[r], p) \in Seq(PostedReceive)
      /\ Len(Append(posted[r], p)) = Len(posted[r]) + 1
      /\ \A m \in 1..Len(posted[r]) : Append(posted[r], p)[m] = posted[r][m]
      /\ Append(posted[r], p)[Len(posted[r]) + 1] = p
  BY <1>1, AppendProperties
<1>3. /\ posted' \in [Rank -> Seq(PostedReceive)]
      /\ \A a \in Rank : \A m \in 1..Len(posted'[a]) :
             (m \in 1..Len(posted[a]) /\ posted'[a][m] = posted[a][m]) \/ (a = r /\ posted'[a][m] = p)
  BY <1>1, <1>2
<1>4. ASSUME NEW a \in Rank, NEW m \in 1..Len(posted'[a])
      PROVE  posted'[a][m].req \in 1..Len(req'[a]) /\ ~req'[a][posted'[a][m].req].send
  <2>1. CASE m \in 1..Len(posted[a]) /\ posted'[a][m] = posted[a][m]
    <3>1. posted[a][m].req \in 1..Len(req[a]) /\ ~req[a][posted[a][m].req].send
      BY <2>1 DEF Core, PostedOK
    <3>2. Len(req[a]) <= Len(req'[a]) /\ Len(req[a]) \in Nat /\ Len(req'[a]) \in Nat
      BY DEF Core, ReqOK, Carries
    <3>. QED
      BY SMTT(40), <2>1, <3>1, <3>2 DEF Carries, SameSend
  <2>2. CASE a = r /\ posted'[a][m] = p
    BY <2>2
  <2>. QED
    BY <1>3, <2>1, <2>2
<1>. QED
  BY <1>3, <1>4 DEF PostedOK

-----------------------------------------------------------------------------
(***************************************************************************)
(* The steps, but for those of a program that drops a request.             *)
(***************************************************************************)
Advances == Core' /\ Grows(wire, taken, wire', taken') /\ Carries(req, req')

Proceeds == Advances /\ Holds(req, req')

\* A step of rank r that replaces request k by q and leaves the wire alone
LEMMA QuietSet ==
    ASSUME Core, UNCHANGED <<wire, taken>>,
           NEW r \in Rank, NEW k \in 1..Len(req[r]), NEW q,
           RequestOK(r, q, wire, taken), SameSend(req[r][k], q), Set(r, k, q)
    PROVE  /\ PostedOK(posted', req') => Advances
           /\ posted' = posted => Advances
           /\ \A n \in 1..Len(posted[r]) : Unpost(r, n) => Advances
           /\ q.held = req[r][k].held => Holds(req, req')
<1>1. WireOK(wire', taken') /\ Grows(wire, taken, wire', taken')
  BY WireSame
<1>2. RequestOK(r, q, wire', taken')
  BY SMT
<1>3. /\ ReqOK(req', wire', taken') /\ Carries(req, req')
      /\ q.held = req[r][k].held => Holds(req, req')
  BY <1>1, <1>2, SetKeeps
<1>. QED
  BY <1>1, <1>3, PostedStays, UnpostKeeps DEF Advances, Core

LEMMA RequestAt ==
    ASSUME Core, NEW r \in Rank, NEW k \in 1..Len(req[r])
    PROVE  /\ RequestOK(r, req[r][k], wire, taken)
           /\ req[r][k] \in Request
           /\ req[r][k].send \in BOOLEAN
  BY DEF Core, ReqOK, RequestOK, Request

\* A receive may change but for where its messages are.
LEMMA ReceiveChange ==
    ASSUME NEW w, NEW t, NEW r, NEW q, RequestOK(r, q, w, t), ~q.send,
           NEW q2 \in Request, q2.send = q.send, q2.hdr = q.hdr, q2.bod = q.bod
    PROVE  RequestOK(r, q2, w, t) /\ SameSend(q, q2)
  BY DEF RequestOK, SameSend

LEMMA StatusType ==
    ASSUME Core, NEW r \in Rank, NEW pos \in Position, pos.index # 0, Arrived(r, pos, wire)
    PROVE  StatusAt(r, pos) \in Status
<1>1. pos.source \in Rank /\ pos.index \in 1..Len(wire[pos.source][r])
  BY DEF Position, Arrived
<1>2. wire[pos.source][r] \in Seq(Part)
  BY <1>1, WireLengths DEF Core
<1>3. wire[pos.source][r][pos.index] \in Part
  BY <1>1, <1>2, ElementOfSeq
<1>. QED
  BY <1>1, <1>3 DEF StatusAt, MessageAt, Status, Part

LEMMA NoStatusType == NoStatus \in Status
  BY DEF NoStatus, Status

LEMMA ReconstituteType ==
    ASSUME NEW r, NEW q, NEW body
    PROVE  Reconstitute(r, q, body) \in Object \cup {NONE, Junk}
  BY DEF Reconstitute

\* The changes that a test or a wait makes to a receive leave it a request.
LEMMA SeenType ==
    ASSUME NEW q \in Request, NEW status \in Status
    PROVE  [q EXCEPT !.desc = "null", !.status = status] \in Request
  BY DEF Request, Handle

LEMMA UnpackedType ==
    ASSUME NEW q \in Request, NEW message \in Object \cup {NONE, Junk}
    PROVE  [q EXCEPT !.message = message] \in Request
  BY DEF Request

LEMMA AwaitingType ==
    ASSUME NEW q \in Request
    PROVE  [q EXCEPT !.buffer = TRUE, !.buf = "active"] \in Request
  BY DEF Request, Handle

LEMMA UnpackLongType ==
    ASSUME NEW q \in Request, NEW status \in Status, NEW r
    PROVE  /\ UnpackLong(r, q, status) \in Request
           /\ UnpackLong(r, q, status).send = q.send
           /\ UnpackLong(r, q, status).held = q.held
           /\ UnpackLong(r, q, status).hdr = q.hdr
           /\ UnpackLong(r, q, status).bod = q.bod
<1>. DEFINE message == Reconstitute(r, q, ReadBody(MessageAt(r, q.bod)))
<1>1. message \in Object \cup {NONE, Junk}
  BY ReconstituteType
<1>2. UnpackLong(r, q, status) =
          [q EXCEPT !.buf = "null", !.buffer = FALSE, !.status = status, !.message = message]
  BY DEF UnpackLong
<1>. HIDE DEF message
<1>. DEFINE q1 == [q EXCEPT !.buf = "null", !.buffer = FALSE]
            q2 == [q1 EXCEPT !.status = status, !.message = message]
<1>3. /\ q1 \in Request /\ q1.send = q.send /\ q1.held = q.held
      /\ q1.hdr = q.hdr /\ q1.bod = q.bod
  BY DEF Request, Handle
<1>4. UnpackLong(r, q, status) = q2
  BY <1>2
<1>. HIDE DEF q1
<1>5. /\ q2 \in Request /\ q2.send = q1.send /\ q2.held = q1.held
      /\ q2.hdr = q1.hdr /\ q2.bod = q1.bod
  BY <1>1, <1>3 DEF Request
<1>. HIDE DEF q2
<1>. QED
  BY <1>3, <1>4, <1>5

\* What a test or a wait finds once the header has come
LEMMA SeenOK ==
    ASSUME Core, NEW r \in Rank, NEW k \in 1..Len(req[r]), HeaderHere(r, k)
    PROVE  /\ RequestOK(r, Seen(r, req[r][k]), wire, taken)
           /\ ~Seen(r, req[r][k]).send
           /\ Seen(r, req[r][k]) \in Request
           /\ SameSend(req[r][k], Seen(r, req[r][k]))
           /\ Seen(r, req[r][k]).held = req[r][k].held
           /\ Seen(r, req[r][k]).bod = req[r][k].bod
<1>. DEFINE q == req[r][k]
            status == IF q.desc = "active" THEN StatusAt(r, q.hdr) ELSE NoStatus
<1>1. RequestOK(r, q, wire, taken) /\ q \in Request
  BY RequestAt
<1>2. ~q.send /\ q.hdr.index # 0
  BY DEF HeaderHere
<1>3. q.hdr \in Position /\ Arrived(r, q.hdr, wire)
  BY <1>1, <1>2 DEF RequestOK, Request
<1>4. status \in Status
  BY <1>2, <1>3, StatusType, NoStatusType
<1>5. Seen(r, q) = [q EXCEPT !.desc = "null", !.status = status]
  BY DEF Seen
<1>. HIDE DEF q, status
<1>6. Seen(r, q) \in Request
  BY <1>1, <1>4, <1>5, SeenType
<1>7. /\ Seen(r, q).send = q.send /\ Seen(r, q).hdr = q.hdr /\ Seen(r, q).bod = q.bod
      /\ Seen(r, q).held = q.held
  BY <1>1, <1>5 DEF Request
<1>8. RequestOK(r, Seen(r, q), wire, taken) /\ SameSend(q, Seen(r, q))
  BY <1>1, <1>2, <1>6, <1>7, ReceiveChange
<1>. QED
  BY <1>2, <1>6, <1>7, <1>8 DEF q

-----------------------------------------------------------------------------
\* q is what a test or a wait makes of the receive k of r whose header has come.
Found(r, k, q) ==
    /\ k \in 1..Len(req[r])
    /\ RequestOK(r, q, wire, taken) /\ q \in Request
    /\ ~q.send /\ SameSend(req[r][k], q) /\ q.held = req[r][k].held

LEMMA FoundChange ==
    ASSUME Core, NEW r \in Rank, NEW k, NEW q, Found(r, k, q),
           UNCHANGED <<wire, taken>>,
           NEW q2 \in Request, q2.send = q.send, q2.hdr = q.hdr, q2.bod = q.bod,
           q2.held = q.held, Set(r, k, q2)
    PROVE  /\ PostedOK(posted', req') => Proceeds
           /\ posted' = posted => Proceeds
           /\ ReqOK(req', wire', taken') /\ Carries(req, req')
<1>1. /\ k \in 1..Len(req[r]) /\ RequestOK(r, q, wire, taken) /\ ~q.send
      /\ SameSend(req[r][k], q) /\ q.held = req[r][k].held
  BY DEF Found
<1>2. RequestOK(r, q2, wire, taken)
  BY <1>1, ReceiveChange
<1>3. SameSend(req[r][k], q2) /\ q2.held = req[r][k].held
  BY <1>1 DEF SameSend
<1>4. WireOK(wire', taken') /\ Grows(wire, taken, wire', taken') /\ RequestOK(r, q2, wire', taken')
  BY <1>2, WireSame
<1>5. ReqOK(req', wire', taken') /\ Carries(req, req')
  BY <1>1, <1>3, <1>4, SetKeeps
<1>6. /\ PostedOK(posted', req') => Advances
      /\ posted' = posted => Advances
      /\ Holds(req, req')
  BY <1>1, <1>2, <1>3, QuietSet
<1>. QED
  BY <1>5, <1>6 DEF Proceeds

LEMMA UnpackShortAdvances ==
    ASSUME Core, NEW r \in Rank, NEW k, NEW q, Found(r, k, q),
           UnpackShort(r, k, q), wire' = wire
    PROVE  Proceeds
<1>. DEFINE message == Reconstitute(r, q, <<>>)
            q2 == [q EXCEPT !.message = message]
<1>1. message \in Object \cup {NONE, Junk}
  BY ReconstituteType
<1>2. Set(r, k, q2) /\ UNCHANGED <<taken, posted>>
  BY DEF UnpackShort
<1>3. q \in Request
  BY DEF Found
<1>. HIDE DEF message
<1>4. q2 \in Request /\ q2.send = q.send /\ q2.hdr = q.hdr /\ q2.bod = q.bod /\ q2.held = q.held
  BY <1>1, <1>3, UnpackedType DEF Request
<1>. QED
  BY <1>2, <1>4, FoundChange

LEMMA SameRequests ==
    ASSUME Core, UNCHANGED <<req, wire, taken, posted>>
    PROVE  Proceeds
<1>1. Core'
  BY DEF Core
<1>2. Grows(wire, taken, wire', taken')
  BY WireSame
<1>3. Carries(req, req') /\ Holds(req, req')
  <2>1. \A r \in Rank : Len(req[r]) \in Nat
    BY DEF Core, ReqOK
  <2>. QED
    BY <2>1 DEF Carries, Holds, SameSend
<1>. QED
  BY <1>1, <1>2, <1>3 DEF Proceeds, Advances

LEMMA PostBodyReceiveAdvances ==
    ASSUME Core, NEW r \in Rank, NEW k, NEW q, Found(r, k, q),
           PostBodyReceive(r, k, q), wire' = wire
    PROVE  Proceeds
<1>. DEFINE q2 == [q EXCEPT !.buffer = TRUE, !.buf = "active"]
            p  == BodyReceive(k, q)
<1>1. /\ Set(r, k, q2) /\ UNCHANGED taken
      /\ posted' = [posted EXCEPT ![r] = Append(@, p)]
  BY DEF PostBodyReceive
<1>2. q \in Request /\ k \in 1..Len(req[r]) /\ ~q.send /\ k \in Nat
  BY DEF Found, Core, ReqOK
<1>3. q2 \in Request /\ q2.send = q.send /\ q2.hdr = q.hdr /\ q2.bod = q.bod /\ q2.held = q.held
  BY <1>2, AwaitingType DEF Request
<1>4. p \in PostedReceive /\ p.req = k
  BY <1>2 DEF BodyReceive, PostedReceive, Request, Status
<1>. HIDE DEF q2, p
<1>5. /\ PostedOK(posted', req') => Proceeds
      /\ ReqOK(req', wire', taken') /\ Carries(req, req')
  BY <1>1, <1>3, FoundChange
<1>6. p.req \in 1..Len(req'[r]) /\ ~req'[r][p.req].send
  <2>1. SameSend(req[r][k], req'[r][k]) /\ SameSend(req[r][k], q) /\ Len(req[r]) <= Len(req'[r])
        /\ Len(req[r]) \in Nat /\ Len(req'[r]) \in Nat
    BY <1>2, <1>5 DEF Carries, Found, ReqOK, Core
  <2>. QED
    BY <1>2, <1>4, <2>1 DEF SameSend
<1>7. PostedOK(posted', req')
  BY <1>1, <1>4, <1>5, <1>6, PostKeeps
<1>. QED
  BY <1>5, <1>7

LEMMA TestBodyAdvances ==
    ASSUME Core, NEW r \in Rank, NEW k, NEW q, Found(r, k, q),
           TestBody(r, k, q) \/ TestBodyPending(r, k, q), wire' = wire
    PROVE  Proceeds
<1>1. q \in Request /\ RequestOK(r, q, wire, taken) /\ ~q.send
  BY DEF Found
<1>2. CASE TestBodyPending(r, k, q)
  BY <1>1, <1>2, FoundChange DEF TestBodyPending
<1>3. CASE TestBody(r, k, q)
  <2>. DEFINE status == IF q.buf = "null" THEN NoStatus ELSE StatusAt(r, q.bod)
  <2>1. q.bod \in Position /\ Arrived(r, q.bod, wire) /\ q.bod.index # 0
    BY <1>1, <1>3 DEF RequestOK, Request, TestBody
  <2>2. status \in Status
    BY <2>1, StatusType, NoStatusType
  <2>3. Set(r, k, UnpackLong(r, q, status)) /\ UNCHANGED <<taken, posted>>
    BY <1>3 DEF TestBody
  <2>. HIDE DEF status
  <2>. QED
    BY <1>1, <2>2, <2>3, UnpackLongType, FoundChange
<1>. QED
  BY <1>2, <1>3

LEMMA TestBodyAtOnceAdvances ==
    ASSUME Core, NEW r \in Rank, NEW k, NEW q, Found(r, k, q),
           TestBodyAtOnce(r, k, q), wire' = wire
    PROVE  Proceeds
<1>1. /\ q \in Request /\ RequestOK(r, q, wire, taken) /\ ~q.send /\ k \in 1..Len(req[r])
      /\ SameSend(req[r][k], q) /\ q.held = req[r][k].held
  BY DEF Found
<1>2. PICK s \in Rank : \E i \in 1..Len(wire[s][r]) :
          LET full == [q EXCEPT !.bod = [source |-> s, index |-> i]]
          IN  /\ MayTake(s, r, i, BodyReceive(k, q), posted[r])
              /\ Take(s, r, i)
              /\ Set(r, k, UnpackLong(r, full, StatusAt(r, full.bod)))
  BY DEF TestBodyAtOnce
<1>3. PICK i \in 1..Len(wire[s][r]) :
          LET full == [q EXCEPT !.bod = [source |-> s, index |-> i]]
          IN  /\ MayTake(s, r, i, BodyReceive(k, q), posted[r])
              /\ Take(s, r, i)
              /\ Set(r, k, UnpackLong(r, full, StatusAt(r, full.bod)))
  BY <1>2
<1>. DEFINE at   == [source |-> s, index |-> i]
            full == [q EXCEPT !.bod = at]
            q2   == UnpackLong(r, full, StatusAt(r, full.bod))
<1>4. /\ MayTake(s, r, i, BodyReceive(k, q), posted[r])
      /\ Take(s, r, i) /\ Set(r, k, q2) /\ posted' = posted
  BY <1>3 DEF TestBodyAtOnce
<1>5. WireOK(wire', taken') /\ Grows(wire, taken, wire', taken')
  BY <1>4, TakeKeeps
<1>6. Len(wire[s][r]) \in Nat
  BY WireLengths DEF Core
<1>7. at \in Position /\ at.index # 0 /\ Arrived(r, at, wire)
  BY <1>6 DEF Position, Arrived
<1>8. /\ full \in Request /\ full.bod = at /\ full.hdr = q.hdr
      /\ full.send = q.send /\ full.held = q.held
  BY <1>1, <1>7 DEF Request
<1>9. StatusAt(r, full.bod) \in Status
  BY <1>7, <1>8, StatusType
<1>. HIDE DEF at, full
<1>10. /\ q2 \in Request /\ q2.bod = at /\ q2.hdr = q.hdr
       /\ q2.send = q.send /\ q2.held = q.held
  BY <1>8, <1>9, UnpackLongType
<1>. HIDE DEF q2
<1>11. RequestOK(r, q2, wire, taken)
  BY <1>1, <1>7, <1>10 DEF RequestOK
<1>12. RequestOK(r, q2, wire', taken')
  BY <1>5, <1>11, RequestStays DEF Core
<1>13. SameSend(req[r][k], q2) /\ q2.held = req[r][k].held
  BY <1>1, <1>10 DEF SameSend
<1>14. ReqOK(req', wire', taken') /\ Carries(req, req') /\ Holds(req, req')
  BY <1>1, <1>4, <1>5, <1>12, <1>13, SetKeeps
<1>15. PostedOK(posted', req')
  BY <1>4, <1>14, PostedStays
<1>. QED
  BY <1>5, <1>14, <1>15 DEF Proceeds, Advances, Core

LEMMA TestReceiveAdvances ==
    ASSUME Core, NEW r \in Rank, NEW k \in 1..Len(req[r]), TestReceive(r, k), wire' = wire
    PROVE  Proceeds
<1>. DEFINE q == Seen(r, req[r][k])
<1>1. Found(r, k, q)
  BY SeenOK DEF TestReceive, Found
<1>2. \/ UnpackShort(r, k, q) \/ UnpackCrash(r, q)
      \/ PostBodyReceive(r, k, q) \/ TestBodyAtOnce(r, k, q)
      \/ TestBody(r, k, q) \/ TestBodyPending(r, k, q)
  BY DEF TestReceive
<1>. HIDE DEF q
<1>3. CASE UnpackCrash(r, q)
  BY <1>3, SameRequests DEF UnpackCrash
<1>. QED
  BY <1>1, <1>2, <1>3, UnpackShortAdvances, PostBodyReceiveAdvances, TestBodyAdvances,
     TestBodyAtOnceAdvances

LEMMA TestSendAdvances ==
    ASSUME Core, NEW r \in Rank, NEW k \in 1..Len(req[r]), TestSend(r, k), wire' = wire
    PROVE  Proceeds
<1>. DEFINE q  == req[r][k]
            q2 == [q EXCEPT !.buf = "null", !.told = TRUE]
<1>1. /\ q.send /\ Set(r, k, q2) /\ UNCHANGED <<taken, posted>>
      /\ q.buf = "active" => SendDone(r, q.peer, q.bod.index)
  BY DEF TestSend
<1>2. RequestOK(r, q, wire, taken) /\ q \in Request
  BY RequestAt
<1>. HIDE DEF q
<1>3. /\ q2 \in Request /\ q2.send = q.send /\ q2.peer = q.peer /\ q2.hdr = q.hdr /\ q2.bod = q.bod
      /\ q2.held = q.held /\ q2.desc = q.desc /\ q2.buf = "null" /\ q2.buffer = q.buffer
      /\ q.buf \in {"null", "active"}
  BY <1>2 DEF Request, Handle
<1>. HIDE DEF q2
<1>4. SendOK(r, q2, wire, taken)
  BY <1>1, <1>2, <1>3 DEF RequestOK, SendOK, Done, SendDone
<1>5. RequestOK(r, q2, wire, taken) /\ SameSend(q, q2)
  BY <1>1, <1>3, <1>4 DEF RequestOK, SameSend
<1>. QED
  BY <1>1, <1>3, <1>5, QuietSet DEF Proceeds, q

LEMMA TestCancelledAdvances ==
    ASSUME Core, NEW r \in Rank, NEW k \in 1..Len(req[r]), TestCancelled(r, k)
    PROVE  Proceeds
<1>. DEFINE q  == req[r][k]
            q2 == [q EXCEPT !.buf = "null"]
<1>1. /\ Set(r, k, q2) /\ UNCHANGED <<wire, taken, posted>>
      /\ q.send => SendDone(r, q.peer, q.bod.index)
  BY DEF TestCancelled
<1>2. RequestOK(r, q, wire, taken) /\ q \in Request
  BY RequestAt
<1>. HIDE DEF q
<1>3. /\ q2 \in Request /\ q2.send = q.send /\ q2.peer = q.peer /\ q2.hdr = q.hdr /\ q2.bod = q.bod
      /\ q2.held = q.held /\ q2.desc = q.desc /\ q2.buf = "null" /\ q2.buffer = q.buffer
      /\ q2.told = q.told
  BY <1>2 DEF Request, Handle
<1>. HIDE DEF q2
<1>4. q.send => SendOK(r, q2, wire, taken)
  BY <1>1, <1>2, <1>3 DEF RequestOK, SendOK, Done, SendDone
<1>5. RequestOK(r, q2, wire, taken) /\ SameSend(q, q2)
  BY <1>2, <1>3, <1>4 DEF RequestOK, SameSend
<1>. QED
  BY <1>1, <1>3, <1>5, QuietSet DEF Proceeds, q

LEMMA WaitAdvances ==
    ASSUME Core, NEW r \in Rank, NEW k \in 1..Len(req[r]), wire' = wire,
           WaitSend(r, k) \/ WaitMessageHere(r, k) \/ WaitHeader(r, k) \/ WaitBody(r, k)
    PROVE  Proceeds
<1>1. CASE WaitSend(r, k)
  <2>. DEFINE q  == req[r][k]
              q2 == [q EXCEPT !.desc = "null", !.buf = "null", !.told = TRUE]
  <2>1. /\ q.send /\ Set(r, k, q2) /\ UNCHANGED <<taken, posted>>
        /\ q.desc = "active" => SendDone(r, q.peer, q.hdr.index)
        /\ q.buf = "active" => SendDone(r, q.peer, q.bod.index)
    BY <1>1 DEF WaitSend
  <2>2. RequestOK(r, q, wire, taken) /\ q \in Request
    BY RequestAt
  <2>. HIDE DEF q
  <2>3. /\ q2 \in Request /\ q2.send = q.send /\ q2.peer = q.peer /\ q2.hdr = q.hdr /\ q2.bod = q.bod
        /\ q2.held = q.held /\ q2.desc = "null" /\ q2.buf = "null" /\ q2.buffer = q.buffer
        /\ q.buf \in {"null", "active"} /\ q.desc \in {"null", "active"}
    BY <2>2 DEF Request, Handle
  <2>. HIDE DEF q2
  <2>4. SendOK(r, q2, wire, taken)
    BY <2>1, <2>2, <2>3 DEF RequestOK, SendOK, Done, SendDone
  <2>5. RequestOK(r, q2, wire, taken) /\ SameSend(q, q2)
    BY <2>1, <2>3, <2>4 DEF RequestOK, SameSend
  <2>. QED
    BY <2>1, <2>3, <2>5, QuietSet DEF Proceeds, q
<1>2. CASE WaitMessageHere(r, k)
  BY <1>2, SameRequests DEF WaitMessageHere
<1>3. CASE WaitHeader(r, k)
  <2>. DEFINE q == Seen(r, req[r][k])
  <2>1. Found(r, k, q)
    BY <1>3, SeenOK DEF WaitHeader, Found
  <2>2. UnpackShort(r, k, q) \/ UnpackCrash(r, q) \/ PostBodyReceive(r, k, q)
    BY <1>3 DEF WaitHeader
  <2>. HIDE DEF q
  <2>3. CASE UnpackCrash(r, q)
    BY <2>3, SameRequests DEF UnpackCrash
  <2>. QED
    BY <2>1, <2>2, <2>3, UnpackShortAdvances, PostBodyReceiveAdvances
<1>4. CASE WaitBody(r, k)
  <2>. DEFINE q == req[r][k]
              status == IF q.buf = "null" THEN q.status ELSE StatusAt(r, q.bod)
  <2>1. RequestOK(r, q, wire, taken) /\ q \in Request
    BY RequestAt
  <2>2. ~q.send /\ q.bod.index # 0
    BY <1>4 DEF WaitBody, HeaderHere
  <2>3. Set(r, k, UnpackLong(r, q, status)) /\ UNCHANGED <<taken, posted>>
    BY <1>4 DEF WaitBody
  <2>4. SameSend(q, q)
    BY DEF SameSend
  <2>5. Found(r, k, q)
    BY <2>1, <2>2, <2>4 DEF Found
  <2>. HIDE DEF q
  <2>6. q.bod \in Position /\ Arrived(r, q.bod, wire) /\ q.status \in Status
    BY <2>1, <2>2 DEF RequestOK, Request
  <2>7. status \in Status
    BY <2>2, <2>6, StatusType
  <2>. HIDE DEF status
  <2>. QED
    BY <2>1, <2>3, <2>5, <2>7, UnpackLongType, FoundChange
<1>. QED
  BY <1>1, <1>2, <1>3, <1>4

LEMMA CancelAdvances ==
    ASSUME Core, NEW r \in Rank, NEW k \in 1..Len(req[r]), Cancel(r, k)
    PROVE  Proceeds
<1>. DEFINE q  == req[r][k]
            q2 == [q EXCEPT !.cancelled = TRUE]
            parts == {IF q.buffer THEN "body" ELSE "header"}
<1>1. ~q.send /\ Set(r, k, q2) /\ UNCHANGED <<wire, taken>> /\ \E n \in At(r, k, parts) : Unpost(r, n)
  BY DEF Cancel
<1>2. RequestOK(r, q, wire, taken) /\ q \in Request
  BY RequestAt
<1>3. \E n \in 1..Len(posted[r]) : Unpost(r, n)
  BY <1>1 DEF At
<1>. HIDE DEF q
<1>4. /\ q2 \in Request /\ q2.send = q.send /\ q2.hdr = q.hdr /\ q2.bod = q.bod
      /\ q2.held = q.held
  BY <1>2 DEF Request
<1>5. RequestOK(r, q2, wire, taken) /\ SameSend(q, q2)
  BY <1>1, <1>2, <1>4, ReceiveChange
<1>. QED
  BY <1>1, <1>3, <1>4, <1>5, QuietSet DEF Proceeds, q

LEMMA MatchMessageAdvances ==
    ASSUME Core, NEW d \in Rank, MatchMessage(d)
    PROVE  Proceeds
<1>1. PICK n \in 1..Len(posted[d]), s \in Rank : \E i \in 1..Len(wire[s][d]) :
        LET p  == posted[d][n]
            at == [source |-> s, index |-> i]
        IN  /\ MayTake(s, d, i, p, SubSeq(posted[d], 1, n - 1))
            /\ Take(s, d, i)
            /\ posted' = [posted EXCEPT ![d] = RemoveAt(@, n)]
            /\ req' = IF p.part = "header" THEN [req EXCEPT ![d][p.req].hdr = at]
                                           ELSE [req EXCEPT ![d][p.req].bod = at]
            /\ UNCHANGED <<waiting, abandoned, crashed, wire>>
  BY Zenon DEF MatchMessage
<1>. DEFINE p == posted[d][n]
<1>2. PICK i \in 1..Len(wire[s][d]) :
        LET at == [source |-> s, index |-> i]
        IN  /\ MayTake(s, d, i, p, SubSeq(posted[d], 1, n - 1))
            /\ Take(s, d, i)
            /\ posted' = [posted EXCEPT ![d] = RemoveAt(@, n)]
            /\ req' = IF p.part = "header" THEN [req EXCEPT ![d][p.req].hdr = at]
                                           ELSE [req EXCEPT ![d][p.req].bod = at]
            /\ UNCHANGED <<waiting, abandoned, crashed, wire>>
  BY Zenon, <1>1
<1>. DEFINE at == [source |-> s, index |-> i]
            q  == req[d][p.req]
            q2 == IF p.part = "header" THEN [q EXCEPT !.hdr = at] ELSE [q EXCEPT !.bod = at]
<1>3. /\ WireOK(wire', taken') /\ Grows(wire, taken, wire', taken')
  BY <1>2, TakeKeeps
<1>4. p.req \in 1..Len(req[d]) /\ ~q.send
  BY SMTT(40) DEF Core, PostedOK
<1>5. RequestOK(d, q, wire, taken) /\ q \in Request
  BY <1>4, RequestAt
<1>6. Set(d, p.req, q2)
  BY <1>2 DEF Set
<1>7. at \in Position /\ Arrived(d, at, wire)
  BY DEF Position, Arrived
<1>. HIDE DEF q, at
<1>8. /\ q2 \in Request /\ q2.send = q.send /\ q2.held = q.held
      /\ q2.hdr \in {q.hdr, at} /\ q2.bod \in {q.bod, at}
  BY <1>5, <1>7 DEF Request
<1>. HIDE DEF q2
<1>9. RequestOK(d, q2, wire, taken) /\ SameSend(q, q2)
  BY <1>4, <1>5, <1>7, <1>8 DEF RequestOK, SameSend
<1>10. RequestOK(d, q2, wire', taken')
  BY <1>3, <1>9, RequestStays DEF Core
<1>. HIDE DEF p
<1>11. ReqOK(req', wire', taken') /\ Carries(req, req') /\ Holds(req, req')
  BY <1>3, <1>4, <1>6, <1>8, <1>9, <1>10, SetKeeps DEF q
<1>12. Unpost(d, n)
  BY <1>2 DEF Unpost
<1>13. PostedOK(posted', req')
  BY <1>11, <1>12, UnpostKeeps
<1>. QED
  BY <1>3, <1>11, <1>13 DEF Proceeds, Advances, Core

Join(r, d, parts) == wire' = [wire EXCEPT ![r][d] = @ \o parts]

\* The parts of an object join the wire side by side.
LEMMA IsendWire ==
    ASSUME Core, NEW r \in Rank, NEW d \in Rank, NEW h \in Part, NEW b \in Part,
           h.part = "header", b.part = "body", b.tag = h.tag, NEW parts, parts \in {<<h>>, <<h, b>>},
           Join(r, d, parts), UNCHANGED taken
    PROVE  /\ WireOK(wire', taken') /\ Grows(wire, taken, wire', taken')
           /\ Len(wire'[r][d]) = Len(wire[r][d]) + Len(parts)
           /\ wire'[r][d][Len(wire[r][d]) + 1] = h
           /\ parts = <<h, b>> => wire'[r][d][Len(wire[r][d]) + 2] = b
<1>. DEFINE n == Len(wire[r][d])
            new == wire[r][d] \o parts
<1>1. /\ wire \in [Rank -> [Rank -> Seq(Part)]]
      /\ taken \in [Rank -> [Rank -> SUBSET Nat]]
      /\ WireOK(wire, taken)
  BY DEF Core, WireOK
<1>2. n \in Nat /\ wire[r][d] \in Seq(Part)
  BY <1>1, WireLengths
<1>3. parts \in Seq(Part) /\ Len(parts) \in {1, 2} /\ parts[1] = h
      /\ (Len(parts) = 2 => parts[2] = b) /\ (parts = <<h, b>> => Len(parts) = 2)
  <2>1. CASE parts = <<h>>
    BY <2>1
  <2>2. CASE parts = <<h, b>>
    BY <2>2
  <2>. QED
    BY <2>1, <2>2
<1>4. /\ new \in Seq(Part) /\ Len(new) = n + Len(parts)
      /\ \A i \in 1..n + Len(parts) : new[i] = IF i <= n THEN wire[r][d][i] ELSE parts[i - n]
  BY <1>2, <1>3, ConcatProperties
<1>5. /\ \A i \in 1..n : new[i] = wire[r][d][i]
      /\ new[n + 1] = h
      /\ Len(parts) = 2 => new[n + 2] = b
  <2>. HIDE DEF n, new
  <2>1. n + 1 \in 1..n + Len(parts) /\ (n + 1) - n = 1 /\ ~(n + 1 <= n)
    BY <1>2, <1>3
  <2>2. Len(parts) = 2 => n + 2 \in 1..n + Len(parts) /\ (n + 2) - n = 2 /\ ~(n + 2 <= n)
    BY <1>2
  <2>3. \A i \in 1..n : i \in 1..n + Len(parts) /\ i <= n
    BY <1>2, <1>3
  <2>. QED
    BY <1>3, <1>4, <2>1, <2>2, <2>3
<1>. HIDE DEF n, new
<1>6. /\ wire' \in [Rank -> [Rank -> Seq(Part)]]
      /\ wire'[r][d] = new
      /\ \A s, e \in Rank : ~(s = r /\ e = d) => wire'[s][e] = wire[s][e]
  BY <1>1, <1>4 DEF new, Join
<1>7. n = Len(wire[r][d])
  BY DEF n
<1>8. Grows(wire, taken, wire', taken')
  <2>1. ASSUME NEW s \in Rank, NEW e \in Rank
        PROVE  /\ Len(wire[s][e]) <= Len(wire'[s][e])
               /\ \A i \in 1..Len(wire[s][e]) : wire'[s][e][i].part = wire[s][e][i].part
    <3>1. CASE s = r /\ e = d
      BY SMTT(40), <1>2, <1>3, <1>4, <1>5, <1>6, <1>7, <3>1
    <3>2. CASE ~(s = r /\ e = d)
      <4>1. wire'[s][e] = wire[s][e] /\ Len(wire[s][e]) \in Nat
        BY <1>1, <1>6, <3>2, WireLengths
      <4>. QED
        BY <4>1
    <3>. QED
      BY <3>1, <3>2
  <2>. QED
    BY <2>1 DEF Grows
<1>9. ASSUME NEW s \in Rank, NEW e \in Rank
      PROVE  taken'[s][e] \subseteq 1..Len(wire'[s][e])
  <2>1. taken'[s][e] \subseteq 1..Len(wire[s][e])
    BY <1>1 DEF WireOK
  <2>2. /\ Len(wire[s][e]) \in Nat /\ Len(wire'[s][e]) \in Nat
        /\ Len(wire[s][e]) <= Len(wire'[s][e])
    <3>1. wire[s][e] \in Seq(Part) /\ wire'[s][e] \in Seq(Part)
      BY <1>1, <1>6
    <3>2. Len(wire[s][e]) <= Len(wire'[s][e])
      BY <1>8 DEF Grows
    <3>. QED
      BY <3>1, <3>2
  <2>. QED
    BY <2>1, <2>2
<1>10. ASSUME NEW s \in Rank, NEW e \in Rank, NEW i \in 1..Len(wire'[s][e]),
              wire'[s][e][i].part = "body"
       PROVE  /\ i > 1
              /\ wire'[s][e][i - 1].part = "header"
              /\ wire'[s][e][i - 1].tag = wire'[s][e][i].tag
              /\ i \in taken'[s][e] => i - 1 \in taken'[s][e]
  <2>1. Len(wire[s][e]) \in Nat
    BY <1>1, WireLengths
  <2>2. CASE i \in 1..Len(wire[s][e])
    <3>1. wire'[s][e][i] = wire[s][e][i] /\ (i > 1 => wire'[s][e][i - 1] = wire[s][e][i - 1])
      <4>1. CASE s = r /\ e = d
        <5>1. i \in 1..n /\ (i > 1 => i - 1 \in 1..n)
          BY <1>2, <1>7, <2>2, <4>1
        <5>. QED
          BY <1>5, <1>6, <4>1, <5>1 DEF n
      <4>2. CASE ~(s = r /\ e = d)
        <5>1. wire'[s][e] = wire[s][e]
          BY <1>6, <4>2
        <5>. QED
          BY <5>1
      <4>. QED
        BY <4>1, <4>2
    <3>2. wire[s][e][i].part = "body"
      BY <1>10, <3>1
    <3>3. /\ i > 1
          /\ wire[s][e][i - 1].part = "header"
          /\ wire[s][e][i - 1].tag = wire[s][e][i].tag
          /\ i \in taken[s][e] => i - 1 \in taken[s][e]
      BY <1>1, <2>2, <3>2 DEF WireOK
    <3>. QED
      BY <3>1, <3>3
  <2>3. CASE i \notin 1..Len(wire[s][e])
    <3>1. s = r /\ e = d
      BY <1>6, <2>3
    <3>2. i \in {n + 1, n + 2} /\ (i = n + 2 => Len(parts) = 2)
      <4>1. i \in 1..(n + Len(parts)) /\ i \notin 1..n
        BY <1>4, <1>6, <1>7, <2>3, <3>1
      <4>. QED
        <5>1. CASE Len(parts) = 1
          BY <1>2, <4>1, <5>1
        <5>2. CASE Len(parts) = 2
          BY <1>2, <4>1, <5>2
        <5>. QED
          BY <1>3, <5>1, <5>2
    <3>3. i # n + 1
      BY <1>5, <1>6, <1>10, <3>1
    <3>4. i = n + 2 /\ i - 1 = n + 1 /\ i > 1
      BY <1>2, <3>2, <3>3
    <3>6. wire'[s][e][i] = b /\ wire'[s][e][i - 1] = h
      BY <1>5, <1>6, <3>1, <3>2, <3>4
    <3>5. i \notin taken'[s][e]
      BY <1>1, <2>3 DEF WireOK
    <3>. QED
      BY <3>4, <3>5, <3>6
  <2>. QED
    BY <2>2, <2>3
<1>11. WireOK(wire', taken')
  BY <1>1, <1>6, <1>9, <1>10 DEF WireOK
<1>. QED
  BY <1>3, <1>4, <1>5, <1>6, <1>7, <1>8, <1>11

LEMMA NowhereOK ==
    ASSUME NEW r \in Rank
    PROVE  Nowhere \in Position /\ Nowhere.index = 0
  BY DEF Nowhere, Position

LEMMA IsendAdvances ==
    ASSUME Core, NEW r \in Rank, NEW c \in Sends[r], Isend(r, c)
    PROVE  Proceeds
<1>. DEFINE d == c.dest
            n == Len(wire[r][d])
            long == Split(c.obj)
            h == [part |-> "header", tag |-> c.tag, obj |-> c.obj, whole |-> TRUE]
            b == [part |-> "body", tag |-> c.tag, obj |-> c.obj, whole |-> TRUE]
            parts == IF long THEN <<h, b>> ELSE <<h>>
            q == [send |-> TRUE, peer |-> c.dest, tag |-> c.tag, desc |-> "active",
                  buf |-> IF long THEN "active" ELSE "null", buffer |-> long,
                  message |-> c.obj, status |-> NoStatus,
                  hdr |-> [source |-> r, index |-> n + 1],
                  bod |-> IF long THEN [source |-> r, index |-> n + 2] ELSE Nowhere,
                  cancelled |-> FALSE, told |-> FALSE, held |-> TRUE]
<1>1. c \in [obj : Object, dest : Rank, tag : Tag] /\ d \in Rank /\ c.obj \in Object /\ c.tag \in Tag
  BY RequestsAssumption
<1>2. h \in Part /\ b \in Part /\ h.part = "header" /\ b.part = "body" /\ b.tag = h.tag
  BY <1>1 DEF Part
<1>3. /\ Len(req[r]) < MaxRequests[r] /\ req' = [req EXCEPT ![r] = Append(@, q)]
      /\ wire' = [wire EXCEPT ![r][d] = @ \o parts]
      /\ UNCHANGED <<taken, posted>>
  BY DEF Isend
<1>4. parts \in {<<h>>, <<h, b>>} /\ (long => parts = <<h, b>>)
  OBVIOUS
<1>5. long \in BOOLEAN
  BY DEF Split, HasBody
<1>6. n \in Nat
  BY <1>1, WireLengths DEF Core
<1>7. Nowhere \in Position /\ Nowhere.index = 0
  BY NowhereOK
<1>8. q \in Request
  BY <1>1, <1>5, <1>6, <1>7, NoStatusType DEF Request, Position, Handle
<1>9. /\ q.send /\ q.held /\ q.peer = d /\ q.hdr.index = n + 1 /\ q.buffer = long
      /\ (long => q.bod.index = n + 2 /\ q.buf = "active") /\ (~long => q.bod.index = 0)
      /\ q.desc = "active" /\ ~q.told
  BY <1>7
<1>. HIDE DEF h, b, parts, q
<1>10. /\ WireOK(wire', taken') /\ Grows(wire, taken, wire', taken')
       /\ Len(wire'[r][d]) = n + Len(parts)
       /\ parts = <<h, b>> => wire'[r][d][n + 2] = b
  <2>1. taken' = taken /\ Join(r, d, parts)
    BY <1>3 DEF Join
  <2>. HIDE DEF d
  <2>. QED
    <3>1. d \in Rank
      BY <1>1
    <3>2. h \in Part /\ b \in Part /\ h.part = "header" /\ b.part = "body" /\ b.tag = h.tag
      BY <1>2
    <3>3. parts \in {<<h>>, <<h, b>>}
      BY <1>4
    <3>. HIDE DEF n
    <3>4. /\ WireOK(wire', taken') /\ Grows(wire, taken, wire', taken')
          /\ Len(wire'[r][d]) = Len(wire[r][d]) + Len(parts)
          /\ parts = <<h, b>> => wire'[r][d][Len(wire[r][d]) + 2] = b
      BY <2>1, <3>1, <3>2, <3>3, IsendWire
    <3>. QED
      BY <3>4 DEF n
<1>. HIDE DEF n, long, d
<1>11. Len(wire'[r][d]) >= n + 1 /\ (long => Len(wire'[r][d]) = n + 2)
  <2>1. CASE parts = <<h, b>>
    BY <1>6, <1>10, <2>1
  <2>2. CASE parts = <<h>> /\ ~long
    BY <1>6, <1>10, <2>2
  <2>. QED
    BY <1>4, <2>1, <2>2
<1>12. Len(wire'[r][d]) \in Nat
  BY <1>1, <1>10, WireLengths DEF d
<1>13. SendOK(r, q, wire', taken')
  <2>1. q.hdr.index \in 1..Len(wire'[r][q.peer])
    BY <1>6, <1>9, <1>11, <1>12
  <2>2. ASSUME q.bod.index # 0
        PROVE  /\ q.buffer /\ q.bod.index = q.hdr.index + 1
               /\ q.bod.index \in 1..Len(wire'[r][q.peer])
               /\ wire'[r][q.peer][q.bod.index].part = "body" /\ q.buf = "active"
    <3>1. long
      BY <1>9, <2>2
    <3>2. q.bod.index = n + 2 /\ q.hdr.index = n + 1 /\ q.buffer /\ q.buf = "active" /\ q.peer = d
      BY <1>5, <1>9, <3>1
    <3>3. wire'[r][d][n + 2].part = "body"
      BY <1>2, <1>4, <1>10, <3>1
    <3>4. n + 2 \in 1..Len(wire'[r][d]) /\ n + 2 = (n + 1) + 1
      BY <1>6, <1>11, <1>12, <3>1
    <3>. QED
      BY <3>2, <3>3, <3>4
  <2>3. q.buffer => q.bod.index # 0
    BY <1>6, <1>9
  <2>. QED
    BY <1>1, <1>9, <2>1, <2>2, <2>3 DEF SendOK, d
<1>14. RequestOK(r, q, wire', taken')
  BY <1>8, <1>9, <1>13 DEF RequestOK
<1>15. ReqOK(req', wire', taken') /\ Carries(req, req') /\ Holds(req, req')
  BY <1>3, <1>9, <1>10, <1>14, AppendKeeps
<1>16. PostedOK(posted', req')
  BY <1>3, <1>15, PostedStays
<1>. QED
  BY <1>10, <1>15, <1>16 DEF Proceeds, Advances, Core

LEMMA IrecvAdvances ==
    ASSUME Core, NEW r \in Rank, NEW c \in Receives[r], Irecv(r, c)
    PROVE  Proceeds
<1>. DEFINE q == [send |-> FALSE, peer |-> c.source, tag |-> c.tag, desc |-> "active",
                  buf |-> "null", buffer |-> FALSE, message |-> NONE, status |-> NoStatus,
                  hdr |-> Nowhere, bod |-> Nowhere, cancelled |-> FALSE,
                  told |-> FALSE, held |-> TRUE]
            p == [req |-> Len(req[r]) + 1, part |-> "header", source |-> c.source, tag |-> c.tag]
<1>1. c \in [source : Rank \cup {ANY}, tag : Tag \cup {ANY}]
  BY RequestsAssumption
<1>2. /\ Len(req[r]) < MaxRequests[r] /\ req' = [req EXCEPT ![r] = Append(@, q)]
      /\ posted' = [posted EXCEPT ![r] = Append(@, p)]
      /\ UNCHANGED <<wire, taken>>
  BY DEF Irecv
<1>3. Len(req[r]) \in Nat
  BY DEF Core, ReqOK
<1>4. Nowhere \in Position /\ Nowhere.index = 0
  BY NowhereOK
<1>5. q \in Request /\ ~q.send /\ q.held /\ q.hdr = Nowhere /\ q.bod = Nowhere
  BY <1>1, <1>4, NoStatusType DEF Request, Handle
<1>6. p \in PostedReceive /\ p.req = Len(req[r]) + 1
  BY <1>1, <1>3 DEF PostedReceive
<1>. HIDE DEF q, p
<1>7. WireOK(wire', taken') /\ Grows(wire, taken, wire', taken')
  BY <1>2, WireSame
<1>8. RequestOK(r, q, wire', taken')
  BY <1>4, <1>5 DEF RequestOK, Arrived
<1>9. /\ ReqOK(req', wire', taken') /\ Carries(req, req') /\ Holds(req, req')
      /\ Len(req'[r]) = Len(req[r]) + 1 /\ req'[r][Len(req[r]) + 1] = q
  BY <1>2, <1>5, <1>7, <1>8, AppendKeeps
<1>10. p.req \in 1..Len(req'[r]) /\ ~req'[r][p.req].send
  BY <1>3, <1>5, <1>6, <1>9
<1>11. PostedOK(posted', req')
  BY Zenon, <1>2, <1>6, <1>9, <1>10, PostKeeps
<1>. QED
  BY <1>7, <1>9, <1>11 DEF Proceeds, Advances, Core

\* The program spoils a body: the message stays where it is.
LEMMA ForgetAdvances ==
    ASSUME Core, NEW r \in Rank, NEW k \in 1..Len(req[r]), Forget(r, k)
    PROVE  Proceeds
<1>. DEFINE q  == req[r][k]
            q2 == [q EXCEPT !.message = Junk]
<1>1. /\ q.send /\ q.buffer /\ Set(r, k, q2) /\ UNCHANGED <<taken, posted>>
      /\ \/ wire' = wire
         \/ wire' = [wire EXCEPT ![r][q.peer][q.bod.index].whole = FALSE]
  BY Zenon DEF Forget, Borrowed
<1>2. RequestOK(r, q, wire, taken) /\ q \in Request
  BY RequestAt
<1>3. q.peer \in Rank /\ q.bod.index \in 1..Len(wire[r][q.peer])
  BY Zenon, <1>1, <1>2 DEF RequestOK, SendOK
<1>. HIDE DEF q
<1>4. WireOK(wire', taken') /\ Grows(wire, taken, wire', taken')
  <2>1. CASE wire' = wire
    BY <1>1, <2>1, WireSame
  <2>2. CASE wire' = [wire EXCEPT ![r][q.peer][q.bod.index].whole = FALSE]
    <3>. DEFINE d == q.peer
                i == q.bod.index
                m == [wire[r][d][i] EXCEPT !.whole = FALSE]
    <3>1. /\ wire \in [Rank -> [Rank -> Seq(Part)]] /\ WireOK(wire, taken)
          /\ wire[r][d] \in Seq(Part) /\ Len(wire[r][d]) \in Nat
      BY <1>3, WireLengths DEF Core, WireOK
    <3>2. wire[r][d][i] \in Part
      BY <1>3, <3>1, ElementOfSeq
    <3>3. m \in Part /\ m.part = wire[r][d][i].part /\ m.tag = wire[r][d][i].tag
      BY <3>2 DEF Part
    <3>4. wire' = [wire EXCEPT ![r] = [wire[r] EXCEPT ![d] = [wire[r][d] EXCEPT ![i] = m]]]
      BY <2>2
    <3>. HIDE DEF m, d, i
    <3>5. /\ [wire[r][d] EXCEPT ![i] = m] \in Seq(Part)
          /\ Len([wire[r][d] EXCEPT ![i] = m]) = Len(wire[r][d])
          /\ \A j \in 1..Len(wire[r][d]) :
                 [wire[r][d] EXCEPT ![i] = m][j] = IF j = i THEN m ELSE wire[r][d][j]
      BY <1>3, <3>1, <3>3, ExceptSeq DEF d, i
    <3>6. d \in Rank
      BY <1>3 DEF d
    <3>7. /\ wire' \in [Rank -> [Rank -> Seq(Part)]]
          /\ wire'[r][d] = [wire[r][d] EXCEPT ![i] = m]
          /\ \A s, e \in Rank : ~(s = r /\ e = d) => wire'[s][e] = wire[s][e]
      BY <3>1, <3>4, <3>5, <3>6
    <3>8. ASSUME NEW s \in Rank, NEW e \in Rank
          PROVE  /\ Len(wire'[s][e]) = Len(wire[s][e]) /\ Len(wire[s][e]) \in Nat
                 /\ \A j \in 1..Len(wire[s][e]) :
                        /\ wire'[s][e][j].part = wire[s][e][j].part
                        /\ wire'[s][e][j].tag = wire[s][e][j].tag
      <4>1. CASE s = r /\ e = d
        BY ZenonT(60), <3>1, <3>3, <3>5, <3>7, <4>1
      <4>2. CASE ~(s = r /\ e = d)
        <5>1. wire'[s][e] = wire[s][e] /\ Len(wire[s][e]) \in Nat
          BY <3>1, <3>7, <4>2, WireLengths
        <5>. QED
          BY <5>1
      <4>. QED
        BY <4>1, <4>2
    <3>9. Grows(wire, taken, wire', taken')
      BY <1>1, <3>8 DEF Grows
    <3>10. ASSUME NEW s \in Rank, NEW e \in Rank, NEW j \in 1..Len(wire'[s][e]),
                  wire'[s][e][j].part = "body"
           PROVE  /\ j > 1
                  /\ wire'[s][e][j - 1].part = "header"
                  /\ wire'[s][e][j - 1].tag = wire'[s][e][j].tag
                  /\ j \in taken'[s][e] => j - 1 \in taken'[s][e]
      <4>1. j \in 1..Len(wire[s][e]) /\ wire[s][e][j].part = "body"
        BY <3>8, <3>10
      <4>2. /\ j > 1 /\ wire[s][e][j - 1].part = "header"
            /\ wire[s][e][j - 1].tag = wire[s][e][j].tag
            /\ j \in taken[s][e] => j - 1 \in taken[s][e]
        BY <3>1, <4>1 DEF WireOK
      <4>3. j - 1 \in 1..Len(wire[s][e])
        BY <3>8, <4>1, <4>2
      <4>. QED
        BY <1>1, <3>8, <4>1, <4>2, <4>3
    <3>11. \A s, e \in Rank : taken'[s][e] \subseteq 1..Len(wire'[s][e])
      BY <1>1, <3>1, <3>8 DEF WireOK
    <3>. QED
      BY <1>1, <3>1, <3>7, <3>9, <3>10, <3>11 DEF WireOK
  <2>. QED
    BY <1>1, <2>1, <2>2
<1>5. /\ q2 \in Request /\ q2.send = q.send /\ q2.peer = q.peer /\ q2.hdr = q.hdr /\ q2.bod = q.bod
      /\ q2.held = q.held /\ q2.desc = q.desc /\ q2.buf = q.buf /\ q2.buffer = q.buffer
      /\ q2.told = q.told
  BY <1>2 DEF Request
<1>. HIDE DEF q2
<1>6. RequestOK(r, q2, wire, taken) /\ SameSend(q, q2)
  BY <1>1, <1>2, <1>5 DEF RequestOK, SendOK, SameSend
<1>7. RequestOK(r, q2, wire', taken')
  BY <1>4, <1>6, RequestStays DEF Core
<1>8. ReqOK(req', wire', taken') /\ Carries(req, req') /\ Holds(req, req')
  BY Zenon, <1>1, <1>4, <1>5, <1>6, <1>7, SetKeeps DEF q
<1>9. PostedOK(posted', req')
  BY <1>1, <1>8, PostedStays
<1>. QED
  BY <1>4, <1>8, <1>9 DEF Proceeds, Advances, Core

-----------------------------------------------------------------------------
(***************************************************************************)
(* A program drops a request: only a send that is over, or a receive, is   *)
(* let go.                                                                 *)
(***************************************************************************)
LEMMA IdleSendOver ==
    ASSUME NEW w, NEW t, NEW r \in Rank, NEW q, RequestOK(r, q, w, t), q.send, NothingToDo(q)
    PROVE  Over(r, q, w, t)
  BY DEF RequestOK, SendOK, NothingToDo, Over

LEMMA Dropped ==
    ASSUME Core, Lists, NEW r \in Rank, NEW k \in 1..Len(req[r]), Drop(r, k)
    PROVE  /\ Advances
           /\ \A a \in Rank : Len(req'[a]) = Len(req[a]) /\ (a # r => req'[a] = req[a])
           /\ \A l \in 1..Len(req[r]) : l # k => req'[r][l] = req[r][l]
           /\ req[r][k].held /\ ~req'[r][k].held
           /\ \/ abandoned' = abandoned /\ (req[r][k].send => Over(r, req[r][k], wire, taken))
              \/ abandoned' = [abandoned EXCEPT ![r] = <<k>> \o @]
<1>. DEFINE q  == req[r][k]
            q2 == [q EXCEPT !.held = FALSE]
            q3 == [q EXCEPT !.held = FALSE, !.buffer = FALSE]
<1>1. RequestOK(r, q, wire, taken) /\ q \in Request
  BY RequestAt
<1>2. /\ q2 \in Request /\ q2.send = q.send /\ q2.peer = q.peer /\ q2.hdr = q.hdr /\ q2.bod = q.bod
      /\ q2.desc = q.desc /\ q2.buf = q.buf /\ q2.buffer = q.buffer
      /\ q2.told = q.told /\ ~q2.held
  BY <1>1 DEF Request
<1>3. q3 \in Request /\ q3.send = q.send /\ q3.hdr = q.hdr /\ q3.bod = q.bod /\ ~q3.held
  BY <1>1 DEF Request
<1>4. RequestOK(r, q2, wire, taken) /\ SameSend(q, q2)
  <2>. HIDE DEF q, q2
  <2>. QED
    BY <1>1, <1>2 DEF RequestOK, SendOK, SameSend
<1>5. ~q.send => RequestOK(r, q3, wire, taken) /\ SameSend(q, q3)
  BY <1>1, <1>3, ReceiveChange
<1>6. q.held /\ UNCHANGED <<wire, taken>>
  BY DEF Drop
<1>7. WireOK(wire', taken') /\ Grows(wire, taken, wire', taken') /\ wire' = wire /\ taken' = taken
  BY <1>6, WireSame
<1>8. ASSUME NEW x, RequestOK(r, x, wire, taken), SameSend(q, x), ~x.held, Set(r, k, x),
             posted' = posted \/ \E n \in 1..Len(posted[r]) : Unpost(r, n)
      PROVE  /\ Advances
             /\ \A a \in Rank : Len(req'[a]) = Len(req[a]) /\ (a # r => req'[a] = req[a])
             /\ \A l \in 1..Len(req[r]) : l # k => req'[r][l] = req[r][l]
             /\ ~req'[r][k].held
  <2>1. Advances
    BY <1>6, <1>8, QuietSet
  <2>2. RequestOK(r, x, wire', taken')
    BY <1>7, <1>8
  <2>. QED
    BY <1>7, <1>8, <2>1, <2>2, SetKeeps
<1>9. CASE DropIdle(r, k)
  <2>1. NothingToDo(q) /\ abandoned' = abandoned /\ posted' = posted /\ Set(r, k, q2)
    BY <1>9 DEF DropIdle
  <2>2. q.send => Over(r, q, wire, taken)
    BY <1>1, <2>1, IdleSendOver
  <2>. HIDE DEF q, q2
  <2>. QED
    BY <1>2, <1>4, <1>6, <1>8, <2>1, <2>2 DEF q
<1>10. CASE DropSend(r, k)
  <2>1. /\ abandoned' = [abandoned EXCEPT ![r] = <<k>> \o @]
        /\ posted' = posted /\ Set(r, k, q2)
    BY <1>10 DEF DropSend
  <2>. HIDE DEF q, q2
  <2>. QED
    BY <1>2, <1>4, <1>6, <1>8, <2>1 DEF q
<1>11. CASE DropReceive(r, k)
  <2>1. ~q.send /\ abandoned' = abandoned /\ Set(r, k, q3)
    BY <1>11 DEF DropReceive
  <2>2. posted' = posted \/ \E n \in 1..Len(posted[r]) : Unpost(r, n)
    BY <1>11 DEF DropReceive, At
  <2>. HIDE DEF q, q3
  <2>. QED
    BY <1>3, <1>5, <1>6, <1>8, <2>1, <2>2 DEF q
<1>. QED
  BY <1>9, <1>10, <1>11 DEF Drop

LEMMA DropKeeps ==
    ASSUME Core, Lists, NEW r \in Rank, NEW k \in 1..Len(req[r]), Drop(r, k)
    PROVE  /\ Advances
           /\ abandoned' \in [Rank -> Seq(Nat)]
           /\ \A a \in Rank : AbandonedOK(abandoned'[a], req', wire', taken', a)
<1>1. /\ Advances
      /\ \A a \in Rank : Len(req'[a]) = Len(req[a]) /\ (a # r => req'[a] = req[a])
      /\ \A l \in 1..Len(req[r]) : l # k => req'[r][l] = req[r][l]
      /\ req[r][k].held /\ ~req'[r][k].held
      /\ \/ abandoned' = abandoned /\ (req[r][k].send => Over(r, req[r][k], wire, taken))
         \/ abandoned' = [abandoned EXCEPT ![r] = <<k>> \o @]
  BY Dropped
<1>2. wire' = wire /\ taken' = taken
  BY DEF Drop
<1>3. /\ abandoned \in [Rank -> Seq(Nat)]
      /\ \A a \in Rank : AbandonedOK(abandoned[a], req, wire, taken, a)
  BY DEF Lists
<1>4. \A a \in Rank : Len(req[a]) \in Nat
  BY DEF Core, ReqOK
<1>5. ASSUME NEW a \in Rank, a # r, abandoned'[a] = abandoned[a]
      PROVE  AbandonedOK(abandoned'[a], req', wire', taken', a)
  <2>1. AbandonedOK(abandoned[a], req, wire, taken, a) /\ req'[a] = req[a]
    BY <1>1, <1>3, <1>5
  <2>. QED
    BY <1>2, <1>5, <2>1 DEF AbandonedOK, ListOK
<1>6. SameSend(req[r][k], req'[r][k])
  BY <1>1 DEF Advances, Carries
<1>7. RequestOK(r, req[r][k], wire, taken)
  BY RequestAt
<1>8. CASE abandoned' = abandoned /\ (req[r][k].send => Over(r, req[r][k], wire, taken))
  <2>. DEFINE list == abandoned[r]
  <2>1. AbandonedOK(list, req, wire, taken, r)
    BY <1>3
  <2>2. req'[r][k].send => Over(r, req'[r][k], wire, taken)
    <3>1. Grows(wire, taken, wire, taken)
      BY <1>1, <1>2 DEF Advances
    <3>. QED
      BY <1>6, <1>7, <1>8, <3>1, OverStays DEF SameSend
  <2>. HIDE DEF list
  <2>3. ListOK(list, req', r) /\ \A m, n \in 1..Len(list) : list[m] = list[n] => m = n
    BY <1>1, <2>1 DEF AbandonedOK, ListOK
  <2>4. \A n \in 1..Len(list) : ~req'[r][list[n]].held
    BY <1>1, <2>1 DEF AbandonedOK, ListOK
  <2>5. ASSUME NEW l \in 1..Len(req'[r]), req'[r][l].send, ~req'[r][l].held,
               ~Over(r, req'[r][l], wire, taken)
        PROVE  \E n \in 1..Len(list) : list[n] = l
    <3>1. l # k /\ l \in 1..Len(req[r])
      BY <1>1, <2>2, <2>5
    <3>2. req'[r][l] = req[r][l]
      BY <1>1, <3>1
    <3>. QED
      BY <2>1, <2>5, <3>1, <3>2 DEF AbandonedOK
  <2>6. AbandonedOK(list, req', wire, taken, r)
    BY <2>3, <2>4, <2>5 DEF AbandonedOK
  <2>. QED
    BY <1>1, <1>2, <1>3, <1>5, <1>8, <2>6 DEF list
<1>9. CASE abandoned' = [abandoned EXCEPT ![r] = <<k>> \o @]
  <2>. DEFINE old == abandoned[r]
              new == <<k>> \o old
  <2>1. AbandonedOK(old, req, wire, taken, r) /\ old \in Seq(Nat)
    BY <1>3
  <2>2. k \in Nat /\ <<k>> \in Seq(Nat) /\ Len(<<k>>) = 1 /\ <<k>>[1] = k /\ Len(old) \in Nat
    BY <1>4, <2>1
  <2>3. /\ new \in Seq(Nat) /\ Len(new) = 1 + Len(old)
        /\ \A n \in 1..1 + Len(old) : new[n] = IF n <= 1 THEN <<k>>[n] ELSE old[n - 1]
    BY <2>1, <2>2, ConcatProperties
  <2>4. abandoned'[r] = new /\ abandoned' \in [Rank -> Seq(Nat)]
        /\ \A a \in Rank : a # r => abandoned'[a] = abandoned[a]
    BY <1>3, <1>9, <2>3
  <2>. HIDE DEF old, new
  <2>5. /\ new[1] = k
        /\ \A n \in 1..Len(old) : n + 1 \in 1..Len(new) /\ new[n + 1] = old[n]
        /\ \A n \in 1..Len(new) : n # 1 => n - 1 \in 1..Len(old) /\ new[n] = old[n - 1]
    <3>1. ASSUME NEW n \in 1..Len(old)
          PROVE  n + 1 \in 1..(1 + Len(old)) /\ ~(n + 1 <= 1) /\ (n + 1) - 1 = n
      BY <2>2
    <3>2. ASSUME NEW n \in 1..(1 + Len(old)), n # 1
          PROVE  n - 1 \in 1..Len(old) /\ ~(n <= 1)
      BY <2>2, <3>2
    <3>3. 1 \in 1..(1 + Len(old))
      BY <2>2
    <3>. QED
      BY <2>2, <2>3, <3>1, <3>2, <3>3
  <2>6. \A n \in 1..Len(old) : old[n] \in 1..Len(req[r]) /\ old[n] # k /\ ~req[r][old[n]].held
    BY <1>1, <2>1 DEF AbandonedOK, ListOK
  <2>7. ListOK(new, req', r)
    <3>1. ASSUME NEW n \in 1..Len(new)
          PROVE  new[n] \in 1..Len(req'[r])
      BY <1>1, <2>5, <2>6
    <3>. QED
      BY <2>3, <3>1 DEF ListOK
  <2>8. ASSUME NEW n \in 1..Len(new)
        PROVE  ~req'[r][new[n]].held
    <3>1. CASE n = 1
      BY <1>1, <2>5, <3>1
    <3>2. CASE n # 1
      <4>1. n - 1 \in 1..Len(old) /\ new[n] = old[n - 1]
        BY <2>5, <3>2
      <4>2. new[n] \in 1..Len(req[r]) /\ new[n] # k /\ ~req[r][new[n]].held
        BY <2>6, <4>1
      <4>. QED
        BY <1>1, <4>2
    <3>. QED
      BY <3>1, <3>2
  <2>9. ASSUME NEW m \in 1..Len(new), NEW n \in 1..Len(new), new[m] = new[n]
        PROVE  m = n
    <3>1. m = 1 <=> n = 1
      BY SMTT(40), <2>5, <2>6, <2>9
    <3>2. ASSUME m # 1, n # 1
          PROVE  m - 1 = n - 1
      <4>1. /\ m - 1 \in 1..Len(old) /\ n - 1 \in 1..Len(old)
            /\ old[m - 1] = old[n - 1]
        BY <2>5, <2>9, <3>2
      <4>2. \A i, j \in 1..Len(old) : old[i] = old[j] => i = j
        BY <2>1 DEF AbandonedOK
      <4>. QED
        BY <4>1, <4>2
    <3>3. m \in Int /\ n \in Int
      BY <2>2, <2>3
    <3>. QED
      BY <3>1, <3>2, <3>3
  <2>10. ASSUME NEW l \in 1..Len(req'[r]), req'[r][l].send, ~req'[r][l].held,
                ~Over(r, req'[r][l], wire, taken)
         PROVE  \E n \in 1..Len(new) : new[n] = l
    <3>1. CASE l = k
      <4>1. 1 \in 1..Len(new)
        BY <2>2, <2>3
      <4>. QED
        BY <2>5, <3>1, <4>1
    <3>2. CASE l # k
      <4>1. l \in 1..Len(req[r]) /\ req'[r][l] = req[r][l]
        BY <1>1, <3>2
      <4>2. PICK n \in 1..Len(old) : old[n] = l
        BY <2>1, <2>10, <4>1 DEF AbandonedOK
      <4>. QED
        BY <2>5, <4>2
    <3>. QED
      BY <3>1, <3>2
  <2>11. AbandonedOK(new, req', wire, taken, r)
    BY <2>7, <2>8, <2>9, <2>10 DEF AbandonedOK
  <2>. QED
    BY <1>1, <1>2, <1>5, <2>4, <2>11
<1>. QED
  BY <1>1, <1>8, <1>9

-----------------------------------------------------------------------------
(***************************************************************************)
(* The invariant.                                                          *)
(***************************************************************************)
LEMMA RequestTypes ==
    ASSUME Core
    PROVE  req \in [Rank -> Seq(Request)] /\ \A a \in Rank : Len(req[a]) \in Nat
  BY DEF Core, ReqOK

LEMMA RequestTypesNext ==
    ASSUME Advances
    PROVE  req' \in [Rank -> Seq(Request)] /\ \A a \in Rank : Len(req'[a]) \in Nat
  BY DEF Advances, Core, ReqOK

LEMMA ListOKNext ==
    ASSUME Core, Advances, NEW a \in Rank, NEW list, ListOK(list, req, a)
    PROVE  ListOK(list, req', a)
  BY RequestTypes, RequestTypesNext, ListStays DEF Advances

LEMMA AbandonedNext ==
    ASSUME Core, Lists, Proceeds, UNCHANGED abandoned
    PROVE  /\ abandoned' \in [Rank -> Seq(Nat)]
           /\ \A a \in Rank : AbandonedOK(abandoned'[a], req', wire', taken', a)
<1>1. /\ abandoned \in [Rank -> Seq(Nat)]
      /\ \A a \in Rank : AbandonedOK(abandoned[a], req, wire, taken, a)
  BY DEF Lists
<1>2. /\ req' \in [Rank -> Seq(Request)] /\ ReqOK(req, wire, taken)
      /\ Grows(wire, taken, wire', taken') /\ Carries(req, req') /\ Holds(req, req')
  BY RequestTypesNext DEF Proceeds, Advances, Core
<1>. QED
  BY <1>1, <1>2, AbandonedStays

LEMMA ListsNext ==
    ASSUME Core, Lists, Advances,
           abandoned' \in [Rank -> Seq(Nat)],
           \A a \in Rank : AbandonedOK(abandoned'[a], req', wire', taken', a),
           crashed' \in SUBSET Rank, waiting' \in [Rank -> Seq(Nat)],
           \A a \in Rank : waiting'[a] = waiting[a] \/ ListOK(waiting'[a], req', a)
    PROVE  Lists'
<1>1. \A a \in Rank : ListOK(waiting[a], req', a)
  BY ListOKNext DEF Lists
<1>. QED
  BY <1>1 DEF Lists

LEMMA PollingNext ==
    ASSUME Core, Polling, Advances,
           polling' \in [Rank -> Poll \cup {None}],
           \A a \in Rank : polling'[a] = polling[a] \/ PollingOK(polling'[a], req', a)
    PROVE  Polling'
<1>1. ASSUME NEW a \in Rank
      PROVE  PollingOK(polling[a], req', a)
  <2>1. PollingOK(polling[a], req, a)
    BY DEF Polling
  <2>. QED
    BY <2>1, ListOKNext DEF PollingOK
<1>. QED
  BY <1>1 DEF Polling

\* A step of a rank that only handles a request
LEMMA HandleKeeps ==
    ASSUME Core, Lists, Proceeds, crashed' \in SUBSET Rank, UNCHANGED <<waiting, abandoned>>
    PROVE  Core' /\ Lists' /\ Advances
<1>1. Advances
  BY DEF Proceeds
<1>2. waiting' \in [Rank -> Seq(Nat)] /\ waiting' = waiting
  BY DEF Lists
<1>. QED
  BY <1>1, <1>2, AbandonedNext, ListsNext DEF Advances

LEMMA TestsCrash ==
    ASSUME Lists, NEW r \in Rank, NEW k, TestSend(r, k) \/ TestReceive(r, k)
    PROVE  crashed' \in SUBSET Rank
<1>1. crashed \in SUBSET Rank
  BY DEF Lists
<1>2. CASE TestSend(r, k)
  BY <1>1, <1>2 DEF TestSend
<1>3. CASE TestReceive(r, k)
  BY <1>1, <1>3 DEF TestReceive, UnpackShort, UnpackCrash, PostBodyReceive, TestBodyAtOnce,
     TestBody, TestBodyPending
<1>. QED
  BY <1>2, <1>3

LEMMA UseKeeps ==
    ASSUME Core, Lists, NEW r \in Rank, NEW k \in 1..Len(req[r]), UseRequest(r, k)
    PROVE  Core' /\ Lists' /\ Advances
<1>1. CASE Test(r, k)
  <2>1. (TestSend(r, k) \/ TestReceive(r, k)) /\ UNCHANGED <<waiting, abandoned, wire>>
    BY <1>1 DEF Test
  <2>2. crashed' \in SUBSET Rank
    BY <2>1, TestsCrash
  <2>3. Proceeds
    BY <2>1, TestSendAdvances, TestReceiveAdvances
  <2>. QED
    BY <2>1, <2>2, <2>3, HandleKeeps
<1>2. CASE TestCancelled(r, k)
  <2>1. crashed' \in SUBSET Rank /\ UNCHANGED <<waiting, abandoned>>
    BY <1>2 DEF TestCancelled, Lists
  <2>. QED
    BY <1>2, <2>1, TestCancelledAdvances, HandleKeeps
<1>3. CASE Cancel(r, k)
  <2>1. crashed' \in SUBSET Rank /\ UNCHANGED <<waiting, abandoned>>
    BY <1>3 DEF Cancel, Lists
  <2>. QED
    BY <1>3, <2>1, CancelAdvances, HandleKeeps
<1>4. CASE Forget(r, k)
  <2>1. crashed' \in SUBSET Rank /\ UNCHANGED <<waiting, abandoned>>
    BY Zenon, <1>4 DEF Forget, Lists
  <2>. QED
    BY <1>4, <2>1, ForgetAdvances, HandleKeeps
<1>5. CASE Drop(r, k)
  <2>1. /\ Advances
        /\ abandoned' \in [Rank -> Seq(Nat)]
        /\ \A a \in Rank : AbandonedOK(abandoned'[a], req', wire', taken', a)
    BY <1>5, DropKeeps
  <2>2. crashed' \in SUBSET Rank /\ waiting' = waiting /\ waiting' \in [Rank -> Seq(Nat)]
    BY <1>5 DEF Drop, Lists
  <2>. QED
    BY <2>1, <2>2, ListsNext DEF Advances
<1>. QED
  BY <1>1, <1>2, <1>3, <1>4, <1>5 DEF UseRequest

LEMMA WaitKeeps ==
    ASSUME Core, Lists, NEW r \in Rank, NEW ks \in WaitLists(r), Wait(r, ks)
    PROVE  Core' /\ Lists' /\ Advances
<1>1. PICK n \in 1..Len(req[r]) : ks \in [1..n -> 1..Len(req[r])]
  BY DEF WaitLists
<1>2. Len(req[r]) \in Nat /\ n \in Nat
  BY RequestTypes
<1>3. ks \in Seq(Nat) /\ Len(ks) = n /\ \A m \in 1..Len(ks) : ks[m] \in 1..Len(req[r])
  BY <1>1, <1>2
<1>4. /\ waiting' = [waiting EXCEPT ![r] = ks]
      /\ UNCHANGED <<req, abandoned, crashed, wire, taken, posted>>
  BY DEF Wait
<1>5. Proceeds
  BY <1>4, SameRequests
<1>6. ListOK(ks, req', r)
  BY <1>3, <1>4 DEF ListOK
<1>7. /\ waiting' \in [Rank -> Seq(Nat)]
      /\ \A a \in Rank : waiting'[a] = waiting[a] \/ ListOK(waiting'[a], req', a)
  BY <1>3, <1>4, <1>6 DEF Lists
<1>8. crashed' \in SUBSET Rank
  BY <1>4 DEF Lists
<1>9. Advances
  BY <1>5 DEF Proceeds
<1>. QED
  BY <1>4, <1>5, <1>7, <1>8, <1>9, AbandonedNext, ListsNext DEF Advances

LEMMA HeadOfList ==
    ASSUME NEW rq, NEW r, NEW list, ListOK(list, rq, r), list # <<>>
    PROVE  Head(list) \in 1..Len(rq[r]) /\ ListOK(Tail(list), rq, r)
<1>1. list \in Seq(Nat) /\ Len(list) \in Nat
  BY DEF ListOK
<1>2. Len(list) > 0 /\ Head(list) = list[1]
  BY <1>1
<1>3. /\ Tail(list) \in Seq(Nat) /\ Len(Tail(list)) = Len(list) - 1
      /\ \A n \in 1..Len(Tail(list)) : Tail(list)[n] = list[n + 1]
  BY <1>1, HeadTailProperties
<1>4. 1 \in 1..Len(list) /\ \A n \in 1..Len(Tail(list)) : n + 1 \in 1..Len(list)
  BY <1>1, <1>2, <1>3
<1>. QED
  BY <1>2, <1>3, <1>4 DEF ListOK

LEMMA WaitStepKeeps ==
    ASSUME Core, Lists, NEW r \in Rank, WaitStep(r)
    PROVE  Core' /\ Lists' /\ Advances
<1>. DEFINE k == Head(waiting[r])
<1>1. /\ waiting[r] # <<>> /\ wire' = wire /\ abandoned' = abandoned
      /\ WaitSend(r, k) \/ WaitMessageHere(r, k) \/ WaitHeader(r, k) \/ WaitBody(r, k)
  BY DEF WaitStep
<1>2. /\ waiting \in [Rank -> Seq(Nat)] /\ ListOK(waiting[r], req, r) /\ crashed \in SUBSET Rank
  BY DEF Lists
<1>3. k \in 1..Len(req[r]) /\ ListOK(Tail(waiting[r]), req, r)
  BY <1>1, <1>2, HeadOfList
<1>4. Proceeds /\ Advances
  BY <1>1, <1>3, WaitAdvances DEF Proceeds
<1>5. (waiting' = waiting \/ Waited(r)) /\ crashed' \in SUBSET Rank
  BY <1>1, <1>2 DEF WaitSend, WaitMessageHere, WaitHeader, WaitBody, UnpackShort, UnpackCrash,
     PostBodyReceive
<1>6. ListOK(Tail(waiting[r]), req', r)
  BY <1>3, <1>4, ListOKNext
<1>7. Tail(waiting[r]) \in Seq(Nat)
  BY <1>6 DEF ListOK
<1>8. /\ waiting' \in [Rank -> Seq(Nat)]
      /\ \A a \in Rank : waiting'[a] = waiting[a] \/ ListOK(waiting'[a], req', a)
  BY <1>2, <1>5, <1>6, <1>7 DEF Waited
<1>. QED
  BY <1>1, <1>4, <1>5, <1>8, AbandonedNext, ListsNext DEF Advances

LEMMA MatchMessageKeeps ==
    ASSUME Core, Lists, NEW d \in Rank, MatchMessage(d)
    PROVE  Core' /\ Lists' /\ Advances
<1>1. UNCHANGED <<waiting, abandoned, crashed>>
  BY DEF MatchMessage
<1>2. crashed' \in SUBSET Rank
  BY <1>1 DEF Lists
<1>. QED
  BY <1>1, <1>2, MatchMessageAdvances, HandleKeeps

LEMMA ProgramKeeps ==
    ASSUME Core, Lists, NEW r \in Rank, Program(r)
    PROVE  Core' /\ Lists' /\ Advances
<1>1. ASSUME NEW c \in Sends[r], Isend(r, c)
      PROVE  Core' /\ Lists' /\ Advances
  <2>1. crashed' \in SUBSET Rank /\ UNCHANGED <<waiting, abandoned>>
    BY <1>1 DEF Isend, Lists
  <2>. QED
    BY <1>1, <2>1, IsendAdvances, HandleKeeps
<1>2. ASSUME NEW c \in Receives[r], Irecv(r, c)
      PROVE  Core' /\ Lists' /\ Advances
  <2>1. crashed' \in SUBSET Rank /\ UNCHANGED <<waiting, abandoned>>
    BY <1>2 DEF Irecv, Lists
  <2>. QED
    BY <1>2, <2>1, IrecvAdvances, HandleKeeps
<1>. QED
  BY <1>1, <1>2, UseKeeps, WaitKeeps DEF Program

LEMMA StartPollKeeps ==
    ASSUME Core, Lists, Polling, NEW r \in Rank, NEW p \in Polls[r], StartPoll(r, p[1], p[2])
    PROVE  RequestsInv'
<1>. DEFINE call == p[1]
            ks == p[2]
            new == [call |-> call, requests |-> ks, left |-> ks, found |-> FALSE]
<1>1. call \in PollCall /\ ks \in Seq(1..MaxRequests[r]) /\ ks # <<>>
  BY PollsAssumption
<1>2. /\ polling' = [polling EXCEPT ![r] = new] /\ UNCHANGED vars
      /\ \A n \in 1..Len(ks) : ks[n] <= Len(req[r])
  BY DEF StartPoll
<1>3. Len(req[r]) \in Nat /\ MaxRequests[r] \in Nat
  BY RequestTypes, MaxRequestsNat
<1>4. ks \in Seq(Nat)
  <2>1. 1..MaxRequests[r] \subseteq Nat
    BY <1>3
  <2>. QED
    BY <1>1, <2>1, SeqMonotonic
<1>5. ASSUME NEW n \in 1..Len(ks)
      PROVE  ks[n] \in 1..Len(req[r])
  <2>1. ks[n] \in 1..MaxRequests[r]
    BY <1>1, ElementOfSeq
  <2>. QED
    BY <1>2, <1>3, <2>1
<1>. HIDE DEF call, ks
<1>6. UNCHANGED <<req, waiting, abandoned, crashed, wire, taken, posted>>
  BY <1>2 DEF vars
<1>7. Proceeds /\ crashed' \in SUBSET Rank
  BY <1>6, SameRequests DEF Lists
<1>8. Core' /\ Lists' /\ Advances
  BY <1>6, <1>7, HandleKeeps
<1>9. new \in Poll /\ ListOK(ks, req', r)
  BY <1>1, <1>4, <1>5, <1>6 DEF Poll, ListOK
<1>10. PollingOK(new, req', r)
  BY <1>1, <1>9 DEF PollingOK
<1>. HIDE DEF new
<1>11. /\ polling' \in [Rank -> Poll \cup {None}]
       /\ \A a \in Rank : polling'[a] = polling[a] \/ PollingOK(polling'[a], req', a)
  BY <1>2, <1>9, <1>10 DEF Polling
<1>. QED
  BY <1>8, <1>11, PollingNext DEF RequestsInv

LEMMA PollStepKeeps ==
    ASSUME Core, Lists, Polling, NEW r \in Rank, PollStep(r)
    PROVE  RequestsInv'
<1>. DEFINE p == [polling[r] EXCEPT !.left = Tail(@)]
            k == Head(polling[r].left)
            found == [p EXCEPT !.found = TRUE]
<1>1. /\ polling[r] # None /\ UNCHANGED <<waiting, abandoned, wire>>
      /\ \/ TestedTrue(r, k) /\ (polling' = [polling EXCEPT ![r] = None] \/ Continue(r, found))
         \/ TestedFalse(r, k) /\ Continue(r, p)
  BY Zenon DEF PollStep
<1>2. /\ polling \in [Rank -> Poll \cup {None}] /\ PollingOK(polling[r], req, r)
  BY DEF Polling
<1>3. /\ polling[r] \in Poll /\ polling[r].left # <<>> /\ ListOK(polling[r].left, req, r)
      /\ polling[r].requests # <<>> /\ ListOK(polling[r].requests, req, r)
  BY <1>1, <1>2 DEF PollingOK
<1>4. k \in 1..Len(req[r]) /\ ListOK(Tail(polling[r].left), req, r)
  BY <1>3, HeadOfList
<1>5. \/ TestSend(r, k) \/ TestReceive(r, k)
      \/ UNCHANGED <<req, crashed, taken, posted>>
  BY <1>1 DEF TestedTrue, TestedFalse
<1>6. crashed' \in SUBSET Rank
  BY <1>5, TestsCrash DEF Lists
<1>7. Proceeds
  BY <1>1, <1>4, <1>5, TestSendAdvances, TestReceiveAdvances, SameRequests
<1>8. Core' /\ Lists' /\ Advances
  BY <1>1, <1>6, <1>7, HandleKeeps
<1>9. Tail(polling[r].left) \in Seq(Nat)
  BY <1>4 DEF ListOK
<1>10. /\ p \in Poll /\ p.requests = polling[r].requests /\ p.left = Tail(polling[r].left)
  BY <1>3, <1>9 DEF Poll
<1>11. /\ found \in Poll /\ found.requests = polling[r].requests /\ found.left = Tail(polling[r].left)
  BY <1>10 DEF Poll
<1>12. ListOK(polling[r].requests, req', r) /\ ListOK(Tail(polling[r].left), req', r)
  BY <1>3, <1>4, <1>8, ListOKNext
<1>. HIDE DEF p, k, found
<1>13. ASSUME NEW x \in Poll, x.requests = polling[r].requests, x.left = Tail(polling[r].left),
              Continue(r, x)
       PROVE  /\ polling' \in [Rank -> Poll \cup {None}]
              /\ \A a \in Rank : polling'[a] = polling[a] \/ PollingOK(polling'[a], req', a)
  <2>. DEFINE y == IF x.left # <<>> THEN x
                   ELSE IF x.call \in {"waitany", "waitsome"} /\ ~x.found
                   THEN [x EXCEPT !.left = x.requests] ELSE None
              again == [x EXCEPT !.left = x.requests]
  <2>1. again \in Poll /\ again.left = x.requests /\ again.requests = x.requests
    BY <1>13 DEF Poll
  <2>2. PollingOK(again, req', r)
    BY <1>3, <1>12, <1>13, <2>1 DEF PollingOK
  <2>3. x.left # <<>> => PollingOK(x, req', r)
    BY <1>3, <1>12, <1>13 DEF PollingOK
  <2>4. PollingOK(None, req', r)
    BY DEF PollingOK
  <2>5. y \in {again, None} \/ (x.left # <<>> /\ y = x)
    BY DEF again
  <2>6. polling' = [polling EXCEPT ![r] = y]
    BY <1>13 DEF Continue
  <2>. HIDE DEF y, again
  <2>7. y \in Poll \cup {None} /\ PollingOK(y, req', r)
    BY <1>13, <2>1, <2>2, <2>3, <2>4, <2>5
  <2>. QED
    BY <1>2, <2>6, <2>7
<1>14. CASE polling' = [polling EXCEPT ![r] = None]
  <2>1. PollingOK(None, req', r)
    BY DEF PollingOK
  <2>2. /\ polling' \in [Rank -> Poll \cup {None}]
        /\ \A a \in Rank : polling'[a] = polling[a] \/ PollingOK(polling'[a], req', a)
    BY <1>2, <1>14, <2>1
  <2>. QED
    BY <1>8, <2>2, PollingNext DEF RequestsInv
<1>. QED
  BY <1>1, <1>8, <1>10, <1>11, <1>13, <1>14, PollingNext DEF RequestsInv

LEMMA InitKeeps == PollInit => RequestsInv
<1>. SUFFICES ASSUME PollInit
              PROVE  RequestsInv
  OBVIOUS
<1>1. /\ req = [r \in Rank |-> <<>>] /\ waiting = [r \in Rank |-> <<>>]
      /\ abandoned = [r \in Rank |-> <<>>] /\ crashed = {}
      /\ wire = [s \in Rank |-> [d \in Rank |-> <<>>]]
      /\ taken = [s \in Rank |-> [d \in Rank |-> {}]]
      /\ posted = [d \in Rank |-> <<>>]
      /\ polling = [r \in Rank |-> None]
  BY DEF PollInit, Init
<1>2. ReqOK(req, wire, taken)
  BY <1>1, MaxRequestsNat DEF ReqOK
<1>3. WireOK(wire, taken)
  BY <1>1 DEF WireOK
<1>4. PostedOK(posted, req)
  BY <1>1 DEF PostedOK
<1>5. Lists
  BY <1>1 DEF Lists, ListOK, AbandonedOK
<1>6. Polling
  BY <1>1 DEF Polling, PollingOK
<1>. QED
  BY <1>2, <1>3, <1>4, <1>5, <1>6 DEF RequestsInv, Core

LEMMA NextKeeps == RequestsInv /\ [PollNext]_pollVars => RequestsInv'
<1>. SUFFICES ASSUME RequestsInv, [PollNext]_pollVars
              PROVE  RequestsInv'
  OBVIOUS
<1>1. Core /\ Lists /\ Polling
  BY DEF RequestsInv
<1>2. ASSUME Core' /\ Lists' /\ Advances, polling' = polling
      PROVE  RequestsInv'
  <2>1. polling' \in [Rank -> Poll \cup {None}]
    BY <1>1, <1>2 DEF Polling
  <2>. QED
    BY <1>1, <1>2, <2>1, PollingNext DEF RequestsInv
<1>3. CASE UNCHANGED pollVars
  <2>1. UNCHANGED <<req, waiting, abandoned, crashed, wire, taken, posted, polling>>
    BY <1>3 DEF pollVars, vars
  <2>2. Proceeds /\ crashed' \in SUBSET Rank
    BY <1>1, <2>1, SameRequests DEF Lists
  <2>. QED
    BY <1>1, <1>2, <2>1, <2>2, HandleKeeps
<1>4. CASE PollNext
  <2>1. PICK r \in Rank :
            \/ polling[r] = None /\ Program(r) /\ UNCHANGED polling
            \/ (WaitStep(r) \/ MatchMessage(r)) /\ UNCHANGED polling
            \/ \E p \in Polls[r] : StartPoll(r, p[1], p[2])
            \/ PollStep(r)
    BY <1>4 DEF PollNext
  <2>2. CASE Program(r) /\ UNCHANGED polling
    BY <1>1, <1>2, <2>2, ProgramKeeps
  <2>3. CASE (WaitStep(r) \/ MatchMessage(r)) /\ UNCHANGED polling
    BY <1>1, <1>2, <2>3, WaitStepKeeps, MatchMessageKeeps
  <2>4. CASE \E p \in Polls[r] : StartPoll(r, p[1], p[2])
    BY <1>1, <2>4, StartPollKeeps
  <2>5. CASE PollStep(r)
    BY <1>1, <2>5, PollStepKeeps
  <2>. QED
    BY <2>1, <2>2, <2>3, <2>4, <2>5
<1>. QED
  BY <1>3, <1>4

LEMMA AlwaysRequestsInv == PollSpec => []RequestsInv
<1>1. PollInit => RequestsInv
  BY InitKeeps
<1>2. RequestsInv /\ [PollNext]_pollVars => RequestsInv'
  BY NextKeeps
<1>. QED
  BY <1>1, <1>2, PTL DEF PollSpec

-----------------------------------------------------------------------------
(***************************************************************************)
(* What follows from it.                                                   *)
(***************************************************************************)

\* The requests, queues and lists of the ranks stay what they are, and every
\* number in a list of pyMPI's is that of a request.
THEOREM AlwaysTyped == PollSpec => []PollingTypeOK
<1>1. RequestsInv => PollingTypeOK
  <2>. SUFFICES ASSUME RequestsInv
                PROVE  PollingTypeOK
    OBVIOUS
  <2>1. Core /\ Lists /\ Polling
    BY DEF RequestsInv
  <2>2. ASSUME NEW r \in Rank, NEW list, ListOK(list, req, r)
        PROVE  list \in Seq(1..MaxRequests[r])
    <3>1. Len(req[r]) \in Nat /\ MaxRequests[r] \in Nat /\ Len(req[r]) <= MaxRequests[r]
      BY <2>1, MaxRequestsNat DEF Core, ReqOK
    <3>2. list \in Seq(Nat) /\ \A n \in 1..Len(list) : list[n] \in 1..MaxRequests[r]
      BY <2>2, <3>1 DEF ListOK
    <3>3. Len(list) \in Nat /\ list \in [1..Len(list) -> Nat]
      BY <3>2, LenProperties
    <3>4. list \in [1..Len(list) -> 1..MaxRequests[r]]
      BY <3>2, <3>3
    <3>. DEFINE S == 1..MaxRequests[r]
    <3>. HIDE DEF S
    <3>5. list \in [1..Len(list) -> S]
      BY <3>4 DEF S
    <3>6. list \in Seq(S)
      BY <3>3, <3>5
    <3>. QED
      BY <3>6 DEF S
  <2>3. \A r \in Rank : waiting[r] \in Seq(1..MaxRequests[r])
    BY <2>1, <2>2 DEF Lists
  <2>4. \A r \in Rank : abandoned[r] \in Seq(1..MaxRequests[r])
    BY <2>1, <2>2 DEF Lists, AbandonedOK
  <2>5. /\ req \in [Rank -> Seq(Request)]
        /\ wire \in [Rank -> [Rank -> Seq(Part)]]
        /\ taken \in [Rank -> [Rank -> SUBSET Nat]]
        /\ posted \in [Rank -> Seq(PostedReceive)]
    BY <2>1 DEF Core, ReqOK, WireOK, PostedOK
  <2>. QED
    BY <2>1, <2>3, <2>4, <2>5 DEF PollingTypeOK, TypeOK, Lists, Polling
<1>. QED
  BY <1>1, AlwaysRequestsInv, PTL

\* MPI buffers small messages, and the header of an object that is split is
\* not the larger of its two.
HeadersAreSmall == "body" \in EagerParts => "header" \in EagerParts

\* test looks at the second message of a split send only; that both are gone
\* is because MPI keeps their order.
THEOREM ToldSplitSendsAreOver ==
    ASSUME HeadersAreSmall
    PROVE  PollSpec => []ToldSplitSendIsOver
<1>1. RequestsInv => ToldSplitSendIsOver
  <2>. SUFFICES ASSUME RequestsInv, NEW r \in Rank, NEW k \in 1..Len(req[r]),
                       req[r][k].send, req[r][k].told, req[r][k].bod.index # 0
                PROVE  /\ SendDone(r, req[r][k].peer, req[r][k].hdr.index)
                       /\ SendDone(r, req[r][k].peer, req[r][k].bod.index)
    BY DEF ToldSplitSendIsOver
  <2>. DEFINE q == req[r][k]
              d == q.peer
              h == q.hdr.index
              b == q.bod.index
  <2>1. Core /\ WireOK(wire, taken) /\ RequestOK(r, q, wire, taken)
    BY RequestAt DEF RequestsInv, Core
  <2>2. SendOK(r, q, wire, taken) /\ q \in Request
    BY Zenon, <2>1 DEF RequestOK
  <2>3. /\ d \in Rank /\ h \in 1..Len(wire[r][d]) /\ b = h + 1 /\ b \in 1..Len(wire[r][d])
        /\ wire[r][d][b].part = "body" /\ Done(wire, taken, r, d, b)
    BY <2>2 DEF SendOK
  <2>. HIDE DEF d, h, b
  <2>4. b - 1 = h
    <3>1. h \in Nat
      BY ONLY <2>1, <2>3, r \in Rank DEF Core
    <3>2. b = h + 1
      BY ONLY <2>3
    <3>. QED
      BY ONLY <3>1, <3>2
  <2>5. /\ wire[r][d][h].part = "header"
        /\ b \in taken[r][d] => h \in taken[r][d]
    BY <2>1, <2>3, <2>4 DEF WireOK
  <2>6. SendDone(r, d, h) /\ SendDone(r, d, b)
    BY <2>3, <2>5 DEF Done, SendDone, HeadersAreSmall
  <2>. QED
    BY <2>6 DEF d, h, b
<1>. QED
  BY <1>1, AlwaysRequestsInv, PTL

\* request_dealloc keeps a send that is not over, and keeps it once.
THEOREM AbandonedOutlive == PollSpec => []BuffersOutlive
<1>1. RequestsInv => BuffersOutlive
  <2>. SUFFICES ASSUME RequestsInv, NEW r \in Rank, NEW k \in 1..Len(req[r]),
                       req[r][k].send, ~req[r][k].held,
                       ~(/\ SendDone(r, req[r][k].peer, req[r][k].hdr.index)
                         /\ req[r][k].bod.index # 0 =>
                                SendDone(r, req[r][k].peer, req[r][k].bod.index))
                PROVE  Cardinality({n \in 1..Len(abandoned[r]) : abandoned[r][n] = k}) = 1
    BY Zenon DEF BuffersOutlive
  <2>1. AbandonedOK(abandoned[r], req, wire, taken, r)
    BY Zenon DEF RequestsInv, Lists
  <2>2. ~Over(r, req[r][k], wire, taken)
    BY DEF Over, Done, SendDone
  <2>3. PICK m \in 1..Len(abandoned[r]) : abandoned[r][m] = k
    BY <2>1, <2>2 DEF AbandonedOK
  <2>4. {n \in 1..Len(abandoned[r]) : abandoned[r][n] = k} = {m}
    BY <2>1, <2>3 DEF AbandonedOK
  <2>. QED
    BY <2>4, FS_Singleton
<1>. QED
  BY <1>1, AlwaysRequestsInv, PTL
=============================================================================
