---------------------------- MODULE ObjectChannel ----------------------------
(***************************************************************************)
(* What pyMPI's point-to-point calls promise a Python program, whatever    *)
(* number of MPI messages carries an object: an object that is sent is     *)
(* received at most once, whole, by the rank it was sent to, and objects   *)
(* that one rank sends another with one tag are received in the order in   *)
(* which they were sent (MPI messages do not overtake).                    *)
(***************************************************************************)
EXTENDS Naturals, Sequences

CONSTANTS Rank, Tag, Object

VARIABLES
    sent,       \* sent[s][d]: the objects s has sent d, each with its stamp
    delivered   \* delivered[d]: what d's receives have returned, in order

vars == <<sent, delivered>>

Envelope == [stamp : Nat, tag : Tag, obj : Object]
Delivery == [source : Rank, index : Nat, tag : Tag, obj : Object]

TypeOK ==
    /\ sent \in [Rank -> [Rank -> SUBSET Envelope]]
    /\ delivered \in [Rank -> Seq(Delivery)]

Init ==
    /\ sent = [s \in Rank |-> [d \in Rank |-> {}]]
    /\ delivered = [d \in Rank |-> <<>>]

Received(s, d, stamp) ==
    \E k \in 1..Len(delivered[d]) :
        /\ delivered[d][k].source = s
        /\ delivered[d][k].index = stamp

\* The channel gains one object, stamped later than all before it.
Send(s, d) ==
    /\ UNCHANGED delivered
    /\ \E e \in sent'[s][d] :
          /\ e \in Envelope
          /\ \A f \in sent[s][d] : f.stamp < e.stamp
          /\ sent' = [sent EXCEPT ![s][d] = @ \cup {e}]

Receive(s, d) ==
    /\ UNCHANGED sent
    /\ \E e \in sent[s][d] :
        /\ ~Received(s, d, e.stamp)
        /\ \A f \in sent[s][d] :
               f.tag = e.tag /\ f.stamp < e.stamp => Received(s, d, f.stamp)
        /\ delivered' = [delivered EXCEPT ![d] = Append(@,
               [source |-> s, index |-> e.stamp, tag |-> e.tag, obj |-> e.obj])]

Next == \E s, d \in Rank : Send(s, d) \/ Receive(s, d)

Spec == Init /\ [][Next]_vars
==============================================================================
