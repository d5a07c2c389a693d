------------------------- MODULE RemoteObjects_proofs -------------------------
(***************************************************************************)
(* The numbers of remote objects are unique, for any number of ranks, any  *)
(* programs and any calls.  Ranks leave the reduction that makes a number  *)
(* one by one, and go on to others; the invariant says that a rank still   *)
(* in it has given out no number as large as the one that is to come.      *)
(*                                                                         *)
(* The lists that the hook reads stay in step, and calls are executed as   *)
(* they were sent: the parts of a call that are under way, or in a request, *)
(* are each there once and in the order of sending.                        *)
(***************************************************************************)
EXTENDS RemoteObjects, SequenceTheorems, FiniteSetTheorems, WellFoundedInduction, TLAPS

Objects == DOMAIN objects

ProgTypeOK ==
    /\ objects \in Programs
    /\ made \in [Ranks -> [Objects -> Nat]]
    /\ joined \in [Ranks -> Nat]
    /\ last_unique \in [Ranks -> Nat]

\* A rank is in a reduction of an object of its own that has no number yet.
JoinedOK ==
    \A r \in Ranks : joined[r] # 0 =>
        joined[r] \in Objects /\ r \in Members(joined[r]) /\ made[r][joined[r]] = 0

\* One that has left the reduction has seen all of the others in it.
SeenOK ==
    \A q, r \in Ranks, k \in Objects :
        made[q][k] # 0 /\ r \in Members(k) => joined[r] = k \/ made[r][k] # 0

\* No number of a rank is larger than the last that it has given out, and that
\* one is smaller than the number that it is waiting for.
LastOK ==
    /\ \A r \in Ranks, k \in Objects : made[r][k] <= last_unique[r]
    /\ \A q, r \in Ranks, k \in Objects :
          made[q][k] # 0 /\ joined[r] = k => last_unique[r] < made[q][k]

MemberOK == \A r \in Ranks, k \in Objects : made[r][k] # 0 => r \in Members(k)

\* IdsUnique, in two parts
AgreeOK  == \A q, r \in Ranks, k \in Objects : made[q][k] # 0 /\ made[r][k] # 0 => made[q][k] = made[r][k]
DifferOK == \A r \in Ranks, j, k \in Objects : made[r][j] # 0 /\ j # k => made[r][j] # made[r][k]

IInv == ProgTypeOK /\ JoinedOK /\ SeenOK /\ LastOK /\ MemberOK /\ AgreeOK /\ DifferOK

-----------------------------------------------------------------------------
(***************************************************************************)
(* A set of numbers that ranks have has a largest one.                     *)
(***************************************************************************)
Below == {p \in Nat \X Nat : p[1] < p[2]}

LEMMA LeastNatural ==
    ASSUME NEW T, T \subseteq Nat, T # {}
    PROVE  \E m \in T : \A k \in T : m <= k
<1>1. IsWellFoundedOn(Below, Nat)
  BY NatLessThanWellFounded, Zenon DEF OpToRel, Below
<1>2. PICK x \in T : \A y \in T : <<y, x>> \notin Below
  BY <1>1, WFMin
<1>3. \A y \in T : ~(y < x)
  BY <1>2 DEF Below
<1>. QED
  BY <1>3

LEMMA RanksInt == Ranks \subseteq Int
BY NAssumption DEF Ranks

LEMMA Bounded ==
    ASSUME NEW f \in [Ranks -> Nat]
    PROVE  \E b \in Nat : \A r \in Ranks : f[r] <= b
<1>. DEFINE UpTo(n, b) == \A r \in Ranks : r < n => f[r] <= b
            T == {n \in Nat : \A b \in Nat : ~UpTo(n, b)}
<1>1. T = {}
  <2>1. SUFFICES ASSUME T # {} PROVE FALSE
    OBVIOUS
  <2>2. T \subseteq Nat
    OBVIOUS
  <2>3. PICK m \in T : \A k \in T : m <= k
    <3>. HIDE DEF T
    <3>. QED
      BY <2>1, <2>2, LeastNatural
  <2>4. UpTo(0, 0)
    BY DEF Ranks
  <2>5. m \in Nat /\ m # 0
    BY <2>4
  <2>6. m - 1 \in Nat /\ m - 1 \notin T
    BY <2>3, <2>5
  <2>7. PICK b \in Nat : UpTo(m - 1, b)
    BY <2>6
  <2>8. CASE m - 1 \in Ranks
    <3>. DEFINE c == IF f[m - 1] <= b THEN b ELSE f[m - 1]
    <3>1. c \in Nat /\ b <= c /\ f[m - 1] <= c
      BY <2>8
    <3>2. ASSUME NEW r \in Ranks, r < m PROVE f[r] <= c
      <4>. HIDE DEF c
      <4>1. r \in Int /\ f[r] \in Nat
        BY RanksInt
      <4>2. CASE r = m - 1
        BY <3>1, <4>2
      <4>3. CASE r < m - 1
        BY <2>7, <3>1, <4>1, <4>3
      <4>. QED
        BY <2>5, <3>2, <4>1, <4>2, <4>3
    <3>. QED
      BY <3>1, <3>2
  <2>9. CASE m - 1 \notin Ranks
    <3>1. ASSUME NEW r \in Ranks, r < m PROVE f[r] <= b
      <4>1. r \in Int /\ r # m - 1
        BY <2>9, RanksInt
      <4>2. r < m - 1
        BY <2>5, <3>1, <4>1
      <4>. QED
        BY <2>7, <4>2
    <3>. QED
      BY <3>1
  <2>. QED
    BY <2>8, <2>9
<1>2. N \in Nat /\ N \notin T
  BY <1>1, NAssumption
<1>3. PICK b \in Nat : UpTo(N, b)
  BY <1>2
<1>4. \A r \in Ranks : r < N
  BY NAssumption DEF Ranks
<1>. QED
  BY <1>3, <1>4

LEMMA LargestNatural ==
    ASSUME NEW S, S \subseteq Nat, S # {}, NEW b \in Nat, \A x \in S : x <= b
    PROVE  Max(S) \in S /\ \A x \in S : x <= Max(S)
<1>. DEFINE T == {b - x : x \in S}
<1>1. T \subseteq Nat /\ T # {}
  <2>1. \A x \in S : b - x \in Nat
    OBVIOUS
  <2>. QED
    BY <2>1
<1>2. PICK m \in T : \A k \in T : m <= k
  <2>. HIDE DEF T
  <2>. QED
    BY <1>1, LeastNatural
<1>3. PICK x \in S : m = b - x
  BY <1>2
<1>4. \A y \in S : x >= y
  BY <1>2, <1>3
<1>5. Max(S) \in S /\ \A y \in S : Max(S) >= y
  BY <1>4 DEF Max
<1>. QED
  BY <1>5

LEMMA MembersAreRanks == ASSUME ProgTypeOK, NEW k \in Objects PROVE Members(k) \subseteq Ranks
<1>. DEFINE Obj == [comm : Seq(Ranks), tag : Int, receive : SUBSET Ranks]
<1>1. objects \in Seq(Obj) /\ k \in 1..Len(objects)
  <2>1. Programs \subseteq Seq(Obj)
    BY ProgramsAssumption
  <2>. HIDE DEF Obj
  <2>2. objects \in Seq(Obj)
    BY <2>1 DEF ProgTypeOK
  <2>. QED
    BY <2>2 DEF Objects
<1>2. objects[k] \in Obj
  <2>. HIDE DEF Obj
  <2>. QED
    BY <1>1, ElementOfSeq
<1>3. objects[k].comm \in Seq(Ranks)
  BY <1>2
<1>. QED
  BY <1>3 DEF Members, Comm, ToSet

\* What the ranks agree on is larger than any number that they have given out.
LEMMA AgreedIsNew ==
    ASSUME ProgTypeOK, NEW k \in Objects, NEW r \in Ranks, r \in Members(k)
    PROVE  Agreed(k) \in Nat /\ \A q \in Members(k) : last_unique[q] < Agreed(k)
<1>. DEFINE S == {last_unique[q] : q \in Members(k)}
<1>1. Members(k) \subseteq Ranks
  BY MembersAreRanks
<1>2. S \subseteq Nat /\ S # {}
  BY <1>1 DEF ProgTypeOK
<1>3. PICK b \in Nat : \A q \in Ranks : last_unique[q] <= b
  BY Bounded DEF ProgTypeOK
<1>4. \A x \in S : x <= b
  BY <1>1, <1>3
<1>5. Max(S) \in S /\ \A x \in S : x <= Max(S)
  <2>. HIDE DEF S
  <2>. QED
    BY <1>2, <1>4, LargestNatural
<1>6. Agreed(k) = Max(S) + 1
  BY DEF Agreed
<1>7. Max(S) \in Nat /\ \A q \in Members(k) : last_unique[q] \in S /\ last_unique[q] \in Nat
  BY <1>1, <1>2, <1>5
<1>8. \A q \in Members(k) : last_unique[q] <= Max(S)
  <2>. HIDE DEF S
  <2>. QED
    BY <1>5, <1>7
<1>. QED
  <2>. HIDE DEF S
  <2>. QED
    BY <1>6, <1>7, <1>8

LEMMA ObjectNotZero == ASSUME ProgTypeOK PROVE Objects \subseteq Nat \ {0}
BY ProgramsAssumption DEF ProgTypeOK, Objects

-----------------------------------------------------------------------------
LEMMA InitOK == Init => IInv
<1>. SUFFICES ASSUME Init PROVE IInv
  OBVIOUS
<1>1. ProgTypeOK
  <2>1. DOMAIN objects = 1..Len(objects)
    BY ProgramsAssumption DEF Init
  <2>. QED
    BY <2>1 DEF Init, remote_new, ProgTypeOK, Objects
<1>2. \A r \in Ranks, k \in Objects : made[r][k] = 0 /\ joined[r] = 0 /\ last_unique[r] = 0
  BY <1>1 DEF Init, remote_new, ProgTypeOK, Objects
<1>3. JoinedOK /\ SeenOK
  BY <1>2 DEF Init, remote_new, JoinedOK, SeenOK
<1>. QED
  BY <1>1, <1>2, <1>3 DEF IInv, LastOK, MemberOK, AgreeOK, DifferOK

\* Only what makes objects changes what the invariant is about.
LEMMA ProgStays == ASSUME IInv, UNCHANGED progVars PROVE IInv'
BY DEF progVars, IInv, ProgTypeOK, JoinedOK, SeenOK, LastOK, MemberOK, AgreeOK, DifferOK,
       Objects, Members, Comm

LEMMA JoinOK ==
    ASSUME IInv, NEW r \in Ranks, NEW k \in Objects, remote_init(r, k)
    PROVE  IInv'
<1>. USE DEF IInv
<1>1. /\ joined[r] = 0 /\ made[r][k] = 0 /\ r \in Members(k)
      /\ joined' = [joined EXCEPT ![r] = k]
      /\ UNCHANGED <<objects, made, last_unique>>
  BY DEF remote_init, Running
<1>2. Objects' = Objects /\ \A j \in Objects : Members(j)' = Members(j)
  BY <1>1 DEF Objects, Members, Comm
<1>3. k \in Nat \ {0}
  BY ProgramsAssumption DEF ProgTypeOK, Objects
<1>4. ProgTypeOK'
  BY <1>1, <1>2, <1>3 DEF ProgTypeOK
<1>5. JoinedOK'
  BY <1>1, <1>2, <1>3 DEF ProgTypeOK, JoinedOK
<1>6. \A q \in Ranks : made[q][k] = 0
  BY <1>1, <1>3 DEF SeenOK
<1>7. SeenOK'
  BY <1>1, <1>2, ObjectNotZero DEF ProgTypeOK, SeenOK
<1>8. LastOK'
  BY <1>1, <1>2, <1>6 DEF ProgTypeOK, LastOK
<1>9. MemberOK' /\ AgreeOK' /\ DifferOK'
  BY <1>1, <1>2 DEF MemberOK, AgreeOK, DifferOK
<1>. QED
  BY <1>4, <1>5, <1>7, <1>8, <1>9

\* The number that r leaves the reduction with
LEMMA UniqueIsNew ==
    ASSUME IInv, NEW r \in Ranks, NEW k \in Objects, InitDone(r, k)
    PROVE  /\ Unique(k) \in Nat /\ last_unique[r] < Unique(k)
           /\ \A q \in Ranks : made[q][k] # 0 => made[q][k] = Unique(k)
           /\ \A q \in Ranks : joined[q] = k => last_unique[q] < Unique(k)
<1>. USE DEF IInv
<1>1. joined[r] = k /\ k # 0 /\ r \in Members(k) /\ \A q \in Members(k) : joined[q] = k \/ made[q][k] # 0
  BY DEF InitDone, JoinedOK
<1>. DEFINE known == {q \in Members(k) : made[q][k] # 0}
<1>2. Members(k) \subseteq Ranks
  BY MembersAreRanks
<1>3. CASE known = {}
  <2>1. Unique(k) = Agreed(k)
    BY <1>3 DEF Unique
  <2>2. \A q \in Ranks : made[q][k] = 0
    BY <1>3 DEF MemberOK
  <2>3. \A q \in Ranks : joined[q] = k => q \in Members(k)
    BY <1>1 DEF JoinedOK
  <2>. QED
    BY <1>1, <2>1, <2>2, <2>3, AgreedIsNew
<1>4. CASE known # {}
  <2>1. PICK q \in known : Unique(k) = made[q][k]
    BY <1>4 DEF Unique
  <2>2. q \in Ranks /\ made[q][k] # 0
    BY <1>2
  <2>. QED
    BY <1>1, <2>1, <2>2 DEF ProgTypeOK, LastOK, AgreeOK
<1>. QED
  BY <1>3, <1>4

LEMMA LeaveOK ==
    ASSUME IInv, NEW r \in Ranks, NEW k \in Objects, InitDone(r, k)
    PROVE  IInv'
<1>. USE DEF IInv
<1>. DEFINE u == Unique(k)
<1>1. /\ joined[r] = k /\ r \in Members(k)
      /\ \A q \in Members(k) : joined[q] = k \/ made[q][k] # 0
      /\ made[r][k] = 0 /\ k # 0
  BY DEF InitDone, JoinedOK
<1>2. /\ joined' = [joined EXCEPT ![r] = 0] /\ last_unique' = [last_unique EXCEPT ![r] = u]
      /\ made' = [made EXCEPT ![r][k] = u] /\ objects' = objects
  BY DEF InitDone
<1>3. Objects' = Objects /\ \A j \in Objects : Members(j)' = Members(j)
  BY <1>2 DEF Objects, Members, Comm
<1>4. /\ u \in Nat /\ last_unique[r] < u
      /\ \A q \in Ranks : made[q][k] # 0 => made[q][k] = u
      /\ \A q \in Ranks : joined[q] = k => last_unique[q] < u
  BY UniqueIsNew
<1>5. u # 0
  BY <1>4 DEF ProgTypeOK
<1>. HIDE DEF u
<1>6. ProgTypeOK'
  BY <1>2, <1>3, <1>4 DEF ProgTypeOK
<1>7. /\ made'[r][k] = u /\ joined'[r] = 0 /\ last_unique'[r] = u
      /\ \A j \in Objects \ {k} : made'[r][j] = made[r][j]
      /\ \A q \in Ranks \ {r} : made'[q] = made[q] /\ joined'[q] = joined[q] /\ last_unique'[q] = last_unique[q]
  BY <1>2 DEF ProgTypeOK
<1>8. \A j \in Objects : made[r][j] < u
  BY <1>4 DEF ProgTypeOK, LastOK
<1>9. JoinedOK'
  BY <1>1, <1>3, <1>7 DEF JoinedOK
<1>10. SeenOK'
  <2>. SUFFICES ASSUME NEW p \in Ranks, NEW q \in Ranks, NEW j \in Objects,
                       made'[p][j] # 0, q \in Members(j)
                PROVE  joined'[q] = j \/ made'[q][j] # 0
    BY <1>3 DEF SeenOK
  <2>1. CASE j = k
    BY <1>1, <1>5, <1>7, <2>1
  <2>2. CASE j # k
    <3>1. made[p][j] # 0
      BY <1>7, <2>2
    <3>2. joined[q] = j \/ made[q][j] # 0
      BY <3>1 DEF SeenOK
    <3>. QED
      BY <1>1, <1>7, <2>2, <3>2
  <2>. QED
    BY <2>1, <2>2
<1>11. LastOK'
  <2>1. ASSUME NEW q \in Ranks, NEW j \in Objects PROVE made'[q][j] <= last_unique'[q]
    BY <1>4, <1>7, <1>8 DEF ProgTypeOK, LastOK
  <2>2. ASSUME NEW p \in Ranks, NEW q \in Ranks, NEW j \in Objects, made'[p][j] # 0, joined'[q] = j
        PROVE  last_unique'[q] < made'[p][j]
    <3>1. q # r /\ joined[q] = j
      BY <1>3, <1>7, <2>2, ObjectNotZero
    <3>2. CASE p = r /\ j = k
      BY <1>4, <1>7, <3>1, <3>2
    <3>3. CASE ~(p = r /\ j = k)
      BY <1>7, <2>2, <3>1, <3>3 DEF LastOK
    <3>. QED
      BY <3>2, <3>3
  <2>. QED
    BY <1>3, <2>1, <2>2 DEF LastOK
<1>12. MemberOK'
  BY <1>1, <1>3, <1>7 DEF MemberOK
<1>13. AgreeOK'
  BY <1>3, <1>4, <1>7 DEF AgreeOK
<1>14. DifferOK'
  BY <1>3, <1>4, <1>7, <1>8 DEF ProgTypeOK, DifferOK
<1>. QED
  BY <1>6, <1>9, <1>10, <1>11, <1>12, <1>13, <1>14

LEMMA NextOK == IInv /\ [Next]_vars => IInv'
<1>. SUFFICES ASSUME IInv, [Next]_vars PROVE IInv'
  OBVIOUS
<1>1. CASE UNCHANGED vars
  BY <1>1, ProgStays DEF vars
<1>2. ASSUME NEW r \in Ranks, NEW k \in DOMAIN objects, remote_init(r, k) \/ InitDone(r, k)
      PROVE  IInv'
  BY <1>2, JoinOK, LeaveOK DEF Objects
<1>3. ASSUME NEW r \in Ranks, NEW k \in DOMAIN objects, NEW call \in Calls, Call(r, k, call)
      PROVE  IInv'
  BY <1>3, ProgStays DEF Call
<1>4. ASSUME NEW q \in Ranks, NEW r \in Ranks, Match(q, r) PROVE IInv'
  BY <1>4, ProgStays DEF Match
<1>5. ASSUME NEW r \in Ranks, Hook(r) \/ Surfaces(r) PROVE IInv'
  BY <1>5, ProgStays DEF Hook, rco_housekeeping, HookNext, PostBody, HookGarbled,
                 MethodReturns, MethodRaises, Surfaces
<1>. QED
  BY <1>1, <1>2, <1>3, <1>4, <1>5 DEF Next

(***************************************************************************)
(* The ranks agree on the number of every remote object, and no rank has   *)
(* two objects of one number, whatever communicators they were made on,    *)
(* for any number of ranks.                                                *)
(***************************************************************************)
THEOREM IdsAlwaysUnique == Spec => []IdsUnique
<1>1. IInv => IdsUnique
  BY DEF IInv, AgreeOK, DifferOK, IdsUnique, Made, Number, Objects
<1>. QED
  BY <1>1, InitOK, NextOK, PTL DEF Spec

-----------------------------------------------------------------------------
(***************************************************************************)
(* Sequences of anything.                                                  *)
(***************************************************************************)
IsList(s) == s \in Seq(ToSet(s))

LEMMA ListOf == ASSUME NEW S, NEW s \in Seq(S) PROVE IsList(s)
<1>1. s \in [1..Len(s) -> S] /\ Len(s) \in Nat /\ DOMAIN s = 1..Len(s)
  BY LenProperties
<1>2. s \in [1..Len(s) -> ToSet(s)]
  BY <1>1 DEF ToSet
<1>. QED
  BY <1>1, <1>2, SeqDef DEF IsList

LEMMA ListFacts ==
    ASSUME NEW s, IsList(s)
    PROVE  Len(s) \in Nat /\ DOMAIN s = 1..Len(s) /\ ToSet(s) = {s[i] : i \in 1..Len(s)}
BY LenProperties DEF IsList, ToSet

LEMMA NewList ==
    ASSUME NEW n \in Nat, NEW s, DOMAIN s = 1..n, s = [i \in 1..n |-> s[i]]
    PROVE  IsList(s) /\ Len(s) = n
<1>1. s \in [1..n -> ToSet(s)]
  BY DEF ToSet
<1>2. s \in Seq(ToSet(s))
  BY <1>1, SeqDef
<1>. QED
  BY <1>2, LenProperties DEF IsList

LEMMA EmptyList == IsList(<<>>) /\ Len(<<>>) = 0
BY EmptySeq DEF IsList

LEMMA Concatenated ==
    ASSUME NEW s, NEW t, IsList(s), IsList(t)
    PROVE  /\ IsList(s \o t) /\ Len(s \o t) = Len(s) + Len(t)
           /\ \A i \in 1..(Len(s) + Len(t)) : (s \o t)[i] = IF i <= Len(s) THEN s[i] ELSE t[i - Len(s)]
<1>. DEFINE S == ToSet(s) \cup ToSet(t)
<1>1. s \in Seq(S) /\ t \in Seq(S)
  BY SeqMonotonic DEF IsList
<1>2. s \o t \in Seq(S)
  BY <1>1, ConcatProperties
<1>. HIDE DEF S
<1>3. IsList(s \o t)
  BY <1>2, ListOf
<1>. QED
  BY <1>1, <1>3, ConcatProperties

LEMMA Appended ==
    ASSUME NEW s, NEW e, IsList(s)
    PROVE  /\ IsList(Append(s, e)) /\ Len(Append(s, e)) = Len(s) + 1
           /\ Append(s, e)[Len(s) + 1] = e
           /\ \A i \in 1..Len(s) : Append(s, e)[i] = s[i]
<1>. DEFINE S == ToSet(s) \cup {e}
<1>1. s \in Seq(S) /\ e \in S
  BY SeqMonotonic DEF IsList
<1>. HIDE DEF S
<1>2. /\ Append(s, e) \in Seq(S) /\ Len(Append(s, e)) = Len(s) + 1
      /\ Append(s, e)[Len(s) + 1] = e
      /\ \A i \in 1..Len(s) : Append(s, e)[i] = s[i]
  BY <1>1, LenProperties
<1>3. IsList(Append(s, e))
  BY <1>2, ListOf
<1>. QED
  BY <1>2, <1>3

\* With its i-th element replaced
Put(s, i, e) == [s EXCEPT ![i] = e]

LEMMA Assigned ==
    ASSUME NEW s, NEW e, NEW t, NEW i \in 1..Len(s), IsList(s), t = Put(s, i, e)
    PROVE  /\ IsList(t) /\ Len(t) = Len(s) /\ t[i] = e
           /\ \A j \in 1..Len(s) : j # i => t[j] = s[j]
<1>. DEFINE S == ToSet(s) \cup {e}
<1>1. s \in Seq(S) /\ e \in S
  BY SeqMonotonic DEF IsList
<1>. HIDE DEF S
<1>2. /\ t \in Seq(S) /\ Len(t) = Len(s)
      /\ \A j \in 1..Len(s) : t[j] = IF j = i THEN e ELSE s[j]
  BY <1>1, ExceptSeq DEF Put
<1>3. IsList(t)
  BY <1>2, ListOf
<1>. QED
  BY <1>2, <1>3

\* Without its n-th element, the others in their order
Shifted(n, i) == IF i < n THEN i ELSE i + 1

LEMMA Removed ==
    ASSUME NEW s, NEW n \in 1..Len(s), IsList(s)
    PROVE  /\ IsList(RemoveAt(s, n)) /\ Len(RemoveAt(s, n)) = Len(s) - 1
           /\ \A i \in 1..Len(RemoveAt(s, n)) :
                 RemoveAt(s, n)[i] = s[Shifted(n, i)] /\ Shifted(n, i) \in 1..Len(s) \ {n}
<1>. DEFINE S     == ToSet(s)
            left  == SubSeq(s, 1, n - 1)
            right == SubSeq(s, n + 1, Len(s))
<1>1. s \in Seq(S) /\ Len(s) \in Nat /\ n \in Nat
  BY ListFacts DEF IsList
<1>. HIDE DEF S
<1>2. \A i \in 1..Len(s) : s[i] \in S
  BY <1>1, ElementOfSeq
<1>3. left \in Seq(S) /\ Len(left) = n - 1 /\ \A i \in 1..(n - 1) : left[i] = s[i]
  BY <1>1, <1>2
<1>4. right \in Seq(S) /\ Len(right) = Len(s) - n /\ \A i \in 1..(Len(s) - n) : right[i] = s[n + i]
  BY <1>1, <1>2
<1>5. RemoveAt(s, n) = left \o right
  BY DEF RemoveAt
<1>. HIDE DEF left, right
<1>6. /\ left \o right \in Seq(S) /\ Len(left \o right) = Len(left) + Len(right)
      /\ \A i \in 1..(Len(left) + Len(right)) :
             (left \o right)[i] = IF i <= Len(left) THEN left[i] ELSE right[i - Len(left)]
  BY <1>3, <1>4, ConcatProperties
<1>7. Len(left \o right) = Len(s) - 1 /\ Len(left) + Len(right) = Len(s) - 1
  BY <1>1, <1>3, <1>4, <1>6
<1>8. ASSUME NEW i \in 1..(Len(s) - 1) PROVE (left \o right)[i] = s[Shifted(n, i)]
  <2>0. (left \o right)[i] = IF i <= n - 1 THEN left[i] ELSE right[i - (n - 1)]
    BY <1>3, <1>6, <1>7
  <2>1. CASE i < n
    BY <1>1, <1>3, <2>0, <2>1 DEF Shifted
  <2>2. CASE ~(i < n)
    <3>1. i - (n - 1) \in 1..(Len(s) - n) /\ n + (i - (n - 1)) = i + 1 /\ ~(i <= n - 1)
      BY <1>1, <2>2
    <3>. QED
      BY <1>4, <2>0, <2>2, <3>1 DEF Shifted
  <2>. QED
    BY <2>1, <2>2
<1>9. \A i \in 1..(Len(s) - 1) : Shifted(n, i) \in 1..Len(s) \ {n}
  BY <1>1 DEF Shifted
<1>10. IsList(left \o right)
  BY <1>6, ListOf
<1>. QED
  BY <1>5, <1>7, <1>8, <1>9, <1>10

\* The order is kept, and nothing else is lost.
LEMMA RemovedRest ==
    ASSUME NEW s, NEW n \in 1..Len(s), IsList(s)
    PROVE  /\ \A i, j \in 1..(Len(s) - 1) : i < j => Shifted(n, i) < Shifted(n, j)
           /\ \A j \in 1..Len(s) \ {n} : \E i \in 1..(Len(s) - 1) : Shifted(n, i) = j
<1>1. Len(s) \in Nat
  BY ListFacts
<1>2. ASSUME NEW j \in 1..Len(s) \ {n} PROVE \E i \in 1..(Len(s) - 1) : Shifted(n, i) = j
  <2>1. CASE j < n
    <3>1. j \in 1..(Len(s) - 1) /\ Shifted(n, j) = j
      BY <1>1, <2>1 DEF Shifted
    <3>. QED
      BY <3>1
  <2>2. CASE j > n
    <3>1. j - 1 \in 1..(Len(s) - 1) /\ Shifted(n, j - 1) = j
      BY <1>1, <2>2 DEF Shifted
    <3>. QED
      BY <3>1
  <2>. QED
    BY <1>1, <2>1, <2>2
<1>. QED
  BY <1>1, <1>2 DEF Shifted

\* The first place of a list where something holds
LEMMA FirstOf ==
    ASSUME NEW I, I \subseteq Nat, I # {}
    PROVE  Min(I) \in I /\ \A i \in I : Min(I) <= i
<1>1. PICK m \in I : \A i \in I : m <= i
  BY LeastNatural
<1>. QED
  BY <1>1 DEF Min

-----------------------------------------------------------------------------
(***************************************************************************)
(* The lists of a rank, and where messages are.                            *)
(***************************************************************************)
DomainsOK ==
    /\ DOMAIN sends_posted = Ranks /\ DOMAIN recvs_posted = Ranks /\ DOMAIN object_cache = Ranks
    /\ DOMAIN posted = Ranks /\ DOMAIN wire = Ranks /\ DOMAIN executed = Ranks
    /\ hook \in [Ranks -> Nat] /\ pending \in [Ranks -> BOOLEAN]
    /\ looping \subseteq Ranks /\ garbled \subseteq Ranks

Waiting(r) == {k \in Objects : made[r][k] # 0 /\ r \in objects[k].receive}

\* What TypeOK says of the lists of one rank
ListsOK(r) ==
    /\ IsList(recvs_posted[r]) /\ IsList(object_cache[r]) /\ IsList(posted[r])
    /\ Len(object_cache[r]) = Len(recvs_posted[r])
    /\ hook[r] <= Len(recvs_posted[r]) + 1
    /\ IsInjective(object_cache[r]) /\ ToSet(object_cache[r]) = Waiting(r)
    /\ IsInjective(posted[r])
    /\ ToSet(posted[r]) \subseteq {i \in 1..Len(recvs_posted[r]) : Len(recvs_posted[r][i]) < 2}
    /\ {i \in 1..Len(recvs_posted[r]) : recvs_posted[r][i] = <<>>} \subseteq ToSet(posted[r])

\* A call is recorded with an object that its caller has made.
CalledOK ==
    /\ IsList(called)
    /\ \A c \in 1..Len(called) :
         called[c].from \in Ranks /\ called[c].object \in Objects /\ IsList(called[c].to)
         /\ made[called[c].from][called[c].object] # 0

WireOK ==
    \A q \in Ranks :
        /\ IsList(wire[q])
        /\ \A p \in 1..Len(wire[q]) : Sent(wire[q][p]) /\ wire[q][p].from = q
        /\ \A m \in sends_posted[q] : Sent(m) /\ m.from = q

\* For an object of this rank, and on the way to it, was m meant: m is for the
\* tag and the communicator of object k.
Meant(r, k, m) == Sent(m) /\ m.to = r /\ m.comm = objects[k].comm /\ m.tag = objects[k].tag

Parcel(r, k, s) == IsList(s) /\ Len(s) <= 2 /\ \A p \in 1..Len(s) : Meant(r, k, s[p])

ReceivedOK(r) ==
    \A i \in 1..Len(recvs_posted[r]) : Parcel(r, object_cache[r][i], recvs_posted[r][i])

\* It is all of its call.
Whole(r, k, m) == Meant(r, k, m) /\ (m.body <=> m.long)

ExecutedOK(r) ==
    /\ IsList(executed[r])
    /\ \A x \in 1..Len(executed[r]) :
         executed[r][x].object \in Waiting(r) /\ Whole(r, executed[r][x].object, executed[r][x].message)

StateOK ==
    /\ DomainsOK /\ CalledOK /\ WireOK
    /\ \A r \in Ranks : ListsOK(r) /\ ReceivedOK(r) /\ ExecutedOK(r)

-----------------------------------------------------------------------------
(***************************************************************************)
(* No message is in two places, and of those that the same receives may    *)
(* take, the later is farther from being executed.  As a method that       *)
(* returns may call others, the three places are parameters: w, the wire,  *)
(* rp, what has been received, and ex, what has been executed.             *)
(***************************************************************************)
Before(m, v) ==
    \/ m.call < v.call
    \/ m.call = v.call /\ (m.n < v.n \/ (m.n = v.n /\ ~m.body /\ v.body))

\* The same receives of the same rank may take them.
Alike(m, v) == m.to = v.to /\ m.comm = v.comm /\ m.tag = v.tag

Follow(w, m) == \A p \in 1..Len(w[m.from]) : Alike(w[m.from][p], m) => Before(m, w[m.from][p])

SentInOrder(w) ==
    \A q \in Ranks : \A i, j \in 1..Len(w[q]) : i < j => Before(w[q][i], w[q][j])

Full(rp, r) == {i \in 1..Len(rp[r]) : rp[r][i] # <<>>}

ReceivedInOrder(w, rp) ==
    \A r \in Ranks : \A i \in Full(rp, r) :
        /\ Follow(w, Last(rp[r][i]))
        /\ \A j \in Full(rp, r) \ {i} : Last(rp[r][i]) # Last(rp[r][j])

ExecutedInOrder(w, ex) ==
    \A r \in Ranks : \A x \in 1..Len(ex[r]) :
        LET e == ex[r][x]
        IN  /\ Follow(w, e.message)
            /\ \A y \in 1..(x - 1) :
                 /\ e.message.method # "raises" => ex[r][y].message # e.message
                 /\ ex[r][y].object = e.object /\ ex[r][y].message.from = e.message.from
                      => ex[r][y].message = e.message \/ Before(ex[r][y].message, e.message)

\* What has been received is not older than what has been executed.
NotYetExecuted(rp, ex) ==
    \A r \in Ranks : \A x \in 1..Len(ex[r]), i \in Full(rp, r) :
        LET e == ex[r][x]
            m == Last(rp[r][i])
        IN  /\ m.method # "raises" => e.message # m
            /\ object_cache[r][i] = e.object /\ e.message.from = m.from
                 => e.message = m \/ Before(e.message, m)

InOrder(w, rp, ex) ==
    SentInOrder(w) /\ ReceivedInOrder(w, rp) /\ ExecutedInOrder(w, ex) /\ NotYetExecuted(rp, ex)

CInv == IInv /\ StateOK /\ InOrder(wire, recvs_posted, executed)

-----------------------------------------------------------------------------
(***************************************************************************)
(* What a call sends.                                                      *)
(***************************************************************************)
LEMMA TargetsList ==
    ASSUME NEW d \in Destination, NEW size \in Nat
    PROVE  IsList(partial_message(d, size).to)
<1>1. CASE d.kind = "slice"
  <2>. DEFINE step  == IF d.step = Omitted THEN 1 ELSE d.step
              start == Bound(d.start, IF step < 0 THEN size - 1 ELSE 0, size)
              stop  == Bound(d.stop, IF step < 0 THEN -1 ELSE size, size)
              far   == IF start > stop THEN start - stop ELSE stop - start
              meets == {n \in 0..far : start + n * step = stop}
              count == IF meets # {} THEN Min(meets) ELSE far + size
              sends == {n \in 0..(count - 1) : start + n * step \in 0..(size - 1)}
              to    == [n \in 1..Cardinality(sends) |-> start + (Min(sends) + n - 1) * step]
  <2>1. d.start \in Int /\ d.stop \in Int /\ d.step \in Int
    BY <1>1 DEF Destination
  <2>2. start \in Int /\ stop \in Int /\ far \in Nat
    BY <2>1 DEF Bound
  <2>3. count \in Int
    <3>. HIDE DEF start, stop, step, far
    <3>1. meets \subseteq Nat
      OBVIOUS
    <3>. HIDE DEF meets
    <3>2. meets # {} => Min(meets) \in Nat
      BY <2>2, <3>1, FirstOf
    <3>. QED
      BY <2>2, <3>2
  <2>. HIDE DEF count
  <2>4. Cardinality(sends) \in Nat
    <3>1. sends \subseteq 0..(count - 1)
      OBVIOUS
    <3>. HIDE DEF sends
    <3>2. IsFiniteSet(0..(count - 1))
      BY <2>3, FS_Interval
    <3>. QED
      BY <3>1, <3>2, FS_Subset, FS_CardinalityType
  <2>. HIDE DEF sends
  <2>5. IsList(to)
    <3>1. DOMAIN to = 1..Cardinality(sends) /\ to = [n \in 1..Cardinality(sends) |-> to[n]]
      OBVIOUS
    <3>. HIDE DEF to
    <3>. QED
      BY <2>4, <3>1, NewList
  <2>6. partial_message(d, size).to = to
    BY <1>1, Zenon DEF partial_message, SliceTargets, sends, count
  <2>. QED
    BY <2>5, <2>6
<1>2. CASE d.kind = "ranks"
  <2>. DEFINE bad == {i \in 1..Len(d.ranks) : d.ranks[i] \notin 0..(size - 1)}
              to  == IF bad = {} THEN d.ranks ELSE SubSeq(d.ranks, 1, Min(bad) - 1)
  <2>1. d.ranks \in Seq(Int)
    BY <1>2 DEF Destination
  <2>2. Len(d.ranks) \in Nat /\ \A i \in 1..Len(d.ranks) : d.ranks[i] \in Int
    BY <2>1
  <2>3. ASSUME bad = {} PROVE IsList(to)
    <3>1. IsList(d.ranks)
      BY <2>1, ListOf
    <3>2. to = d.ranks
      BY <2>3
    <3>. HIDE DEF to
    <3>. QED
      BY <3>1, <3>2
  <2>4. ASSUME bad # {} PROVE IsList(to)
    <3>1. bad \subseteq 1..Len(d.ranks) /\ bad \subseteq Nat
      OBVIOUS
    <3>. HIDE DEF bad
    <3>2. Min(bad) \in 1..Len(d.ranks)
      BY <2>4, <3>1, FirstOf
    <3>3. SubSeq(d.ranks, 1, Min(bad) - 1) \in Seq(Int)
      BY <2>2, <3>2, SubSeqProperties
    <3>4. IsList(SubSeq(d.ranks, 1, Min(bad) - 1))
      BY <3>3, ListOf
    <3>5. to = SubSeq(d.ranks, 1, Min(bad) - 1)
      BY <2>4
    <3>. HIDE DEF to
    <3>. QED
      BY <3>4, <3>5
  <2>5. partial_message(d, size).to = to
    BY <1>2 DEF partial_message
  <2>. QED
    BY <2>3, <2>4, <2>5
<1>. QED
  BY <1>1, <1>2 DEF Destination

\* What was called and what was made stays.
Keeps ==
    /\ objects' = objects
    /\ \A q \in Ranks, k \in Objects : made[q][k] # 0 => made'[q][k] = made[q][k]
    /\ IsList(called') /\ Len(called) <= Len(called')
    /\ \A c \in 1..Len(called) : called'[c] = called[c]

LEMMA SentKept ==
    ASSUME CalledOK, Keeps, NEW m, Sent(m)
    PROVE  Sent(m)'
<1>1. DOMAIN called = 1..Len(called) /\ DOMAIN called' = 1..Len(called') /\ Len(called) \in Nat /\ Len(called') \in Nat
  BY ListFacts DEF CalledOK, Keeps
<1>2. m.call \in 1..Len(called) /\ called'[m.call] = called[m.call] /\ m.call \in 1..Len(called')
  BY <1>1 DEF Sent, Keeps
<1>3. called[m.call].from \in Ranks /\ called[m.call].object \in Objects
      /\ made[called[m.call].from][called[m.call].object] # 0
  BY <1>2 DEF CalledOK
<1>4. made'[called[m.call].from][called[m.call].object] = made[called[m.call].from][called[m.call].object]
  BY <1>3 DEF Keeps
<1>. QED
  BY <1>1, <1>2, <1>4 DEF Sent, Keeps, Comm

LEMMA MeantKept ==
    ASSUME CalledOK, Keeps, NEW r, NEW k, NEW m, Meant(r, k, m)
    PROVE  Meant(r, k, m)'
BY SentKept DEF Meant, Keeps

LEMMA ParcelKept ==
    ASSUME CalledOK, Keeps, NEW r, NEW k, NEW s, Parcel(r, k, s)
    PROVE  Parcel(r, k, s)'
BY MeantKept DEF Parcel

LEMMA WholeKept ==
    ASSUME CalledOK, Keeps, NEW r, NEW k, NEW m, Whole(r, k, m)
    PROVE  Whole(r, k, m)'
BY MeantKept DEF Whole

\* The last part of what has been received
LEMMA LastPart ==
    ASSUME NEW r, NEW k, NEW s, Parcel(r, k, s), s # <<>>
    PROVE  Len(s) \in 1..2 /\ Last(s) = s[Len(s)] /\ Meant(r, k, Last(s))
<1>1. s \in Seq(ToSet(s)) /\ Len(s) \in Nat /\ Len(s) <= 2
  BY ListFacts DEF Parcel, IsList
<1>2. Len(s) # 0
  <2>. DEFINE S == ToSet(s)
  <2>1. s \in Seq(S)
    BY <1>1
  <2>. HIDE DEF S
  <2>. QED
    BY <2>1, EmptySeq
<1>3. PICK l : l = Len(s)
  OBVIOUS
<1>4. l \in Nat /\ l <= 2 /\ l # 0
  BY ONLY <1>1, <1>2, <1>3, Zenon
<1>5. l \in 1..2
  BY ONLY <1>4
<1>6. Len(s) \in 1..2
  BY ONLY <1>3, <1>5, Zenon
<1>. QED
  BY <1>6 DEF Last, Parcel

LEMMA SentFacts ==
    ASSUME CalledOK, NEW m, Sent(m)
    PROVE  /\ m.call \in 1..Len(called) /\ Len(called) \in Nat /\ m.from \in Ranks
           /\ ~Before(m, m)
<1>1. m.call \in 1..Len(called) /\ Len(called) \in Nat /\ m.from \in Ranks
  BY ListFacts DEF CalledOK, Sent
<1>2. IsList(called[m.call].to) /\ m.n \in DOMAIN called[m.call].to
  BY <1>1 DEF CalledOK, Sent
<1>3. m.n \in Nat
  BY <1>2, ListFacts
<1>. QED
  BY <1>1, <1>3 DEF Before

-----------------------------------------------------------------------------
(***************************************************************************)
(* A call, or a method that calls another, sends messages that are later   *)
(* than all others.                                                        *)
(***************************************************************************)
SendsOK ==
    /\ Keeps /\ CalledOK' /\ WireOK'
    /\ DOMAIN wire' = Ranks /\ DOMAIN sends_posted' = Ranks /\ looping' \subseteq Ranks
    /\ InOrder(wire', recvs_posted, executed)

LEMMA NothingSent ==
    ASSUME CInv, UNCHANGED <<objects, made, wire, sends_posted, looping, called>>
    PROVE  SendsOK
<1>. USE DEF CInv, StateOK
<1>1. Keeps
  BY ListFacts DEF CalledOK, Keeps
<1>2. CalledOK' /\ WireOK'
  BY <1>1, SentKept DEF CalledOK, WireOK, Keeps, Objects
<1>. QED
  BY <1>1, <1>2 DEF SendsOK, DomainsOK

\* What ps holds of ms: headers and bodies, each header before its body and all
\* of one message before the next
PartsOf(ps, ms, long) ==
    /\ IsList(ps)
    /\ \A p \in 1..Len(ps) : \E n \in 1..Len(ms) : ps[p] = ms[n] \/ (long /\ ps[p] = Body(ms[n]))
    /\ \A p, q \in 1..Len(ps) : p < q =>
          \E i, j \in 1..Len(ms) :
             /\ ps[p] \in {ms[i], Body(ms[i])} /\ ps[q] \in {ms[j], Body(ms[j])}
             /\ i < j \/ (i = j /\ ps[p] = ms[i] /\ ps[q] = Body(ms[i]))

\* Parts lays the messages out in this order
LEMMA PartsOrder ==
    ASSUME NEW ms, NEW long, IsList(ms)
    PROVE  PartsOf(Parts(ms, long), ms, long)
<1>1. Len(ms) \in Nat
  BY ListFacts
<1>2. CASE ~long
  <2>1. Parts(ms, long) = ms
    BY <1>2 DEF Parts
  <2>2. PartsOf(ms, ms, long)
    BY <1>1 DEF PartsOf
  <2>. QED
    BY ONLY <2>1, <2>2, Zenon
<1>3. CASE long
  <2>. DEFINE L == 2 * Len(ms)
              At(p) == IF p % 2 = 1 THEN ms[(p + 1) \div 2] ELSE Body(ms[p \div 2])
              both == [p \in 1..L |-> At(p)]
  <2>1. Parts(ms, long) = both
    BY <1>3 DEF Parts
  <2>2. IsList(both) /\ Len(both) = L
    <3>1. DOMAIN both = 1..L /\ both = [p \in 1..L |-> both[p]]
      OBVIOUS
    <3>2. L \in Nat
      BY <1>1
    <3>. HIDE DEF both, L
    <3>. QED
      BY <3>1, <3>2, NewList
  <2>3. \A p \in 1..L : both[p] = At(p)
    OBVIOUS
  <2>4. ASSUME NEW p \in 1..L
        PROVE  \/ /\ p % 2 = 1 /\ (p + 1) \div 2 \in 1..Len(ms) /\ both[p] = ms[(p + 1) \div 2]
                  /\ p = 2 * ((p + 1) \div 2) - 1
               \/ /\ p % 2 = 0 /\ p \div 2 \in 1..Len(ms) /\ both[p] = Body(ms[p \div 2])
                  /\ p = 2 * (p \div 2)
    <3>1. p \in Nat /\ p >= 1 /\ p <= 2 * Len(ms)
      BY <1>1
    <3>2. CASE p % 2 = 1
      <4>1. (p + 1) \div 2 \in 1..Len(ms) /\ p = 2 * ((p + 1) \div 2) - 1
        BY <1>1, <3>1, <3>2
      <4>2. both[p] = ms[(p + 1) \div 2]
        BY <2>3, <3>2
      <4>. QED
        BY <3>2, <4>1, <4>2
    <3>3. CASE p % 2 # 1
      <4>1. p % 2 = 0 /\ p \div 2 \in 1..Len(ms) /\ p = 2 * (p \div 2)
        BY <1>1, <3>1, <3>3
      <4>2. both[p] = Body(ms[p \div 2])
        BY <2>3, <3>3
      <4>. QED
        BY <4>1, <4>2
    <3>. QED
      BY <3>2, <3>3
  <2>. HIDE DEF both, L
  <2>5. ASSUME NEW p \in 1..L
        PROVE  \E n \in 1..Len(ms) : \/ both[p] = ms[n] /\ p = 2 * n - 1
                                     \/ both[p] = Body(ms[n]) /\ p = 2 * n
    <3>1. CASE p % 2 = 1
      <4>1. PICK n : n = (p + 1) \div 2
        OBVIOUS
      <4>2. n \in 1..Len(ms) /\ both[p] = ms[n] /\ p = 2 * n - 1
        BY <2>4, <3>1, <4>1
      <4>. QED
        BY <4>2
    <3>2. CASE p % 2 # 1
      <4>1. PICK n : n = p \div 2
        OBVIOUS
      <4>2. n \in 1..Len(ms) /\ both[p] = Body(ms[n]) /\ p = 2 * n
        BY <2>4, <3>2, <4>1
      <4>. QED
        BY <4>2
    <3>. QED
      BY <3>1, <3>2
  <2>6. ASSUME NEW p \in 1..L, NEW q \in 1..L, p < q
        PROVE  \E i, j \in 1..Len(ms) :
                  /\ both[p] \in {ms[i], Body(ms[i])} /\ both[q] \in {ms[j], Body(ms[j])}
                  /\ i < j \/ (i = j /\ both[p] = ms[i] /\ both[q] = Body(ms[i]))
    <3>1. PICK i \in 1..Len(ms) : \/ both[p] = ms[i] /\ p = 2 * i - 1
                                  \/ both[p] = Body(ms[i]) /\ p = 2 * i
      BY <2>5
    <3>2. PICK j \in 1..Len(ms) : \/ both[q] = ms[j] /\ q = 2 * j - 1
                                  \/ both[q] = Body(ms[j]) /\ q = 2 * j
      BY <2>5
    <3>3. i < j \/ (i = j /\ p = 2 * i - 1 /\ q = 2 * i)
      BY <1>1, <2>6, <3>1, <3>2
    <3>4. i = j /\ p = 2 * i - 1 /\ q = 2 * i => both[p] = ms[i] /\ both[q] = Body(ms[i])
      BY <1>1, <3>1, <3>2
    <3>. QED
      BY <3>1, <3>2, <3>3, <3>4
  <2>7. PartsOf(both, ms, long)
    <3>1. /\ \A p \in 1..Len(both) : \E n \in 1..Len(ms) :
                 both[p] = ms[n] \/ (long /\ both[p] = Body(ms[n]))
      BY <1>3, <2>2, <2>5
    <3>. QED
      BY <2>2, <2>6, <3>1 DEF PartsOf
  <2>. QED
    BY ONLY <2>1, <2>7, Zenon
<1>. QED
  BY <1>2, <1>3

LEMMA CallSent ==
    ASSUME CInv, NEW r \in Ranks, NEW k \in Objects, made[r][k] # 0,
           NEW d \in Destination, NEW method, NEW long \in BOOLEAN,
           partial_call(r, k, d, method, long), UNCHANGED <<objects, made>>
    PROVE  SendsOK
<1>. USE DEF CInv, StateOK
<1>. DEFINE where    == partial_message(d, Len(Comm(k)))
            ranks    == [n \in 1..Len(where.to) |-> Comm(k)[where.to[n] + 1]]
            messages == [n \in 1..Len(where.to) |-> Message(r, k, ranks[n], method, long, n)]
            c        == [from |-> r, object |-> k, method |-> method, long |-> long, to |-> ranks]
<1>1. /\ wire' = [wire EXCEPT ![r] = wire[r] \o Parts(messages, long)]
      /\ sends_posted' = [sends_posted EXCEPT ![r] = sends_posted[r] \cup ToSet(messages)]
      /\ called' = Append(called, c)
      /\ looping' = looping \/ looping' = looping \cup {r}
  BY DEF partial_call
<1>2. Len(Comm(k)) \in Nat
  <2>. DEFINE Obj == [comm : Seq(Ranks), tag : Int, receive : SUBSET Ranks]
  <2>1. Programs \subseteq Seq(Obj)
    BY ProgramsAssumption
  <2>. HIDE DEF Obj
  <2>2. objects \in Seq(Obj) /\ k \in 1..Len(objects)
    BY <2>1 DEF IInv, ProgTypeOK, Objects
  <2>3. objects[k] \in Obj
    BY <2>2, ElementOfSeq
  <2>4. objects[k].comm \in Seq(Ranks)
    BY <2>3 DEF Obj
  <2>. QED
    BY <2>4 DEF Comm
<1>3. Len(where.to) \in Nat
  BY <1>2, TargetsList, ListFacts
<1>. HIDE DEF where
<1>4. IsList(messages) /\ Len(messages) = Len(where.to)
  <2>1. DOMAIN messages = 1..Len(where.to) /\ messages = [n \in 1..Len(where.to) |-> messages[n]]
    OBVIOUS
  <2>. HIDE DEF messages
  <2>. QED
    BY <1>3, <2>1, NewList
\* a header, and the body that goes with it
<1>. DEFINE Part(m, n, body) ==
                /\ m.from = r /\ m.to = c.to[n] /\ m.hash = made[r][k]
                /\ m.tag = objects[k].tag /\ m.comm = objects[k].comm
                /\ m.method = method /\ m.long = long /\ m.call = Len(called) + 1 /\ m.n = n
                /\ m.body = body
<1>5. \A n \in 1..Len(messages) : Part(messages[n], n, FALSE) /\ Part(Body(messages[n]), n, TRUE)
  <2>1. ASSUME NEW n \in 1..Len(where.to)
        PROVE  messages[n] = Message(r, k, ranks[n], method, long, n) /\ c.to[n] = ranks[n]
    OBVIOUS
  <2>. HIDE DEF ranks, c, messages
  <2>2. ASSUME NEW n \in 1..Len(where.to), NEW m, m = Message(r, k, ranks[n], method, long, n)
        PROVE  Part(m, n, FALSE) /\ Part(Body(m), n, TRUE)
    BY ONLY <2>1, <2>2 DEF Message, Body, Comm, Number, Tag
  <2>. HIDE DEF Part
  <2>. QED
    BY <1>4, <2>1, <2>2
<1>6. /\ Len(called) \in Nat /\ IsList(called') /\ Len(called') = Len(called) + 1
      /\ called'[Len(called) + 1] = c /\ \A i \in 1..Len(called) : called'[i] = called[i]
  <2>. HIDE DEF c
  <2>. QED
    BY <1>1, Appended, ListFacts DEF CalledOK
<1>24. /\ c.from = r /\ c.object = k /\ c.method = method /\ c.long = long
       /\ DOMAIN c.to = 1..Len(messages) /\ IsList(c.to)
  <2>1. DOMAIN ranks = 1..Len(where.to) /\ ranks = [n \in 1..Len(where.to) |-> ranks[n]]
    OBVIOUS
  <2>2. c.from = r /\ c.object = k /\ c.method = method /\ c.long = long /\ c.to = ranks
    OBVIOUS
  <2>. HIDE DEF ranks, c
  <2>. QED
    BY <1>3, <1>4, <2>1, <2>2, NewList
<1>. HIDE DEF messages, c
\* what is sent is fixed before the step
<1>22. PICK hs, ms : hs = messages /\ ms = Parts(messages, long)
  OBVIOUS
<1>23. IsList(hs) /\ Len(hs) \in Nat /\ \A n \in 1..Len(hs) : Part(hs[n], n, FALSE) /\ Part(Body(hs[n]), n, TRUE)
  BY <1>4, <1>5, <1>22, ListFacts
<1>29. ms = Parts(hs, long)
  BY ONLY <1>22, Zenon
<1>7. Keeps
  BY <1>6 DEF Keeps
<1>8. CalledOK'
  <2>2. \A i \in 1..Len(called') : i \in 1..Len(called) \/ i = Len(called) + 1
    BY <1>6
  <2>. QED
    BY <1>24, <1>6, <2>2 DEF CalledOK, Objects
<1>25. ASSUME NEW n \in 1..Len(hs), NEW m, NEW body \in BOOLEAN, body => long, Part(m, n, body)
       PROVE  Sent(m)' /\ m.from = r
  <2>1. called'[m.call] = c /\ m.call \in DOMAIN called' /\ m.n \in DOMAIN c.to
    BY <1>24, <1>6, <1>22, <1>25, ListFacts
  <2>2. /\ m.from = c.from /\ m.method = c.method /\ m.long = c.long /\ m.to = c.to[m.n]
        /\ m.hash = made'[m.from][c.object] /\ m.comm = objects'[c.object].comm
        /\ m.tag = objects'[c.object].tag /\ (m.body => m.long)
    BY <1>24, <1>25
  <2>. QED
    BY <2>1, <2>2, <1>25 DEF Sent, Comm
<1>26. ASSUME NEW n \in 1..Len(hs) PROVE /\ Sent(hs[n])' /\ hs[n].from = r
                                         /\ long => Sent(Body(hs[n]))' /\ Body(hs[n]).from = r
  BY <1>23, <1>25
<1>27. /\ IsList(ms)
       /\ \A p \in 1..Len(ms) : \E n \in 1..Len(hs) : ms[p] = hs[n] \/ (long /\ ms[p] = Body(hs[n]))
       /\ \A p, q \in 1..Len(ms) : p < q =>
             \E i, j \in 1..Len(hs) :
                /\ ms[p] \in {hs[i], Body(hs[i])} /\ ms[q] \in {hs[j], Body(hs[j])}
                /\ i < j \/ (i = j /\ ms[p] = hs[i] /\ ms[q] = Body(hs[i]))
  <2>1. IsList(hs)
    BY <1>23
  <2>2. PartsOf(Parts(hs, long), hs, long)
    BY ONLY <2>1, PartsOrder, Zenon
  <2>3. PartsOf(ms, hs, long)
    BY ONLY <1>29, <2>2, Zenon
  <2>. QED
    BY ONLY <2>3, Zenon DEF PartsOf
<1>9. IsList(ms) /\ \A n \in 1..Len(ms) : ms[n].from = r /\ ms[n].call = Len(called) + 1
  <2>. SUFFICES ASSUME NEW p \in 1..Len(ms) PROVE ms[p].from = r /\ ms[p].call = Len(called) + 1
    BY <1>27
  <2>1. PICK n \in 1..Len(hs) : ms[p] = hs[n] \/ ms[p] = Body(hs[n])
    BY <1>27
  <2>. QED
    BY <1>23, <2>1
<1>28. ASSUME NEW p \in 1..Len(ms), NEW q \in 1..Len(ms), p < q PROVE Before(ms[p], ms[q])
  <2>1. PICK i \in 1..Len(hs), j \in 1..Len(hs) :
               /\ ms[p] \in {hs[i], Body(hs[i])} /\ ms[q] \in {hs[j], Body(hs[j])}
               /\ i < j \/ (i = j /\ ms[p] = hs[i] /\ ms[q] = Body(hs[i]))
    BY <1>27, <1>28
  <2>2. ms[p].call = ms[q].call /\ ms[p].n = i /\ ms[q].n = j
    BY <1>23, <2>1
  <2>3. i = j => ~ms[p].body /\ ms[q].body
    BY <1>23, <2>1
  <2>. QED
    BY <2>1, <2>2, <2>3 DEF Before
<1>14. \A n \in 1..Len(ms) : Sent(ms[n])'
  <2>. SUFFICES ASSUME NEW p \in 1..Len(ms) PROVE Sent(ms[p])'
    OBVIOUS
  <2>1. PICK n \in 1..Len(hs) : ms[p] = hs[n] \/ (long /\ ms[p] = Body(hs[n]))
    BY <1>27
  <2>. QED
    BY <1>26, <2>1 DEF Sent
<1>. HIDE DEF Part
<1>10. /\ IsList(wire'[r]) /\ Len(wire'[r]) = Len(wire[r]) + Len(ms)
       /\ \A p \in 1..(Len(wire[r]) + Len(ms)) :
             wire'[r][p] = IF p <= Len(wire[r]) THEN wire[r][p] ELSE ms[p - Len(wire[r])]
       /\ \A q \in Ranks \ {r} : wire'[q] = wire[q]
       /\ Len(wire[r]) \in Nat /\ Len(ms) \in Nat
  <2>1. IsList(wire[r]) /\ DOMAIN wire = Ranks
    BY DEF WireOK, DomainsOK
  <2>2. wire'[r] = wire[r] \o ms /\ \A q \in Ranks \ {r} : wire'[q] = wire[q]
    BY <1>1, <1>22, <2>1
  <2>3. Len(wire[r]) \in Nat /\ Len(ms) \in Nat
    BY <1>9, <2>1, ListFacts
  <2>4. /\ IsList(wire[r] \o ms) /\ Len(wire[r] \o ms) = Len(wire[r]) + Len(ms)
        /\ \A p \in 1..(Len(wire[r]) + Len(ms)) : (wire[r] \o ms)[p] =
               IF p <= Len(wire[r]) THEN wire[r][p] ELSE ms[p - Len(wire[r])]
    BY <1>9, <2>1, Concatenated
  <2>. QED
    BY <2>2, <2>3, <2>4
<1>11. /\ sends_posted'[r] = sends_posted[r] \cup ToSet(hs)
       /\ \A q \in Ranks \ {r} : sends_posted'[q] = sends_posted[q]
       /\ ToSet(hs) = {hs[n] : n \in 1..Len(hs)}
  <2>1. sends_posted' = [sends_posted EXCEPT ![r] = sends_posted[r] \cup ToSet(hs)]
    BY <1>1, <1>22, Zenon
  <2>2. ToSet(hs) = {hs[n] : n \in 1..Len(hs)}
    BY <1>23, ListFacts
  <2>. QED
    BY <2>1, <2>2 DEF DomainsOK
<1>12. \A p \in 1..Len(wire'[r]) :
          \/ p \in 1..Len(wire[r]) /\ wire'[r][p] = wire[r][p]
          \/ /\ p > Len(wire[r]) /\ p - Len(wire[r]) \in 1..Len(ms)
             /\ wire'[r][p] = ms[p - Len(wire[r])]
  BY <1>10
<1>13. WireOK'
  <2>1. \A q \in Ranks : IsList(wire'[q])
    BY <1>10 DEF WireOK
  <2>2. ASSUME NEW q \in Ranks, NEW p \in 1..Len(wire'[q])
        PROVE  Sent(wire[q][p])' /\ wire'[q][p].from = q
    <3>1. PICK v : v = wire'[q][p]
      OBVIOUS
    <3>2. CASE q = r /\ p - Len(wire[r]) \in 1..Len(ms) /\ wire'[r][p] = ms[p - Len(wire[r])]
      <4>1. PICK n \in 1..Len(ms) : v = ms[n]
        BY <3>1, <3>2
      <4>2. Sent(v)' /\ v.from = q
        BY <1>9, <1>14, <3>2, <4>1 DEF Sent
      <4>. QED
        BY <3>1, <4>2 DEF Sent
    <3>3. CASE p \in 1..Len(wire[q]) /\ wire'[q][p] = wire[q][p]
      <4>1. Sent(v) /\ v.from = q
        BY <3>1, <3>3 DEF WireOK
      <4>2. Sent(v)'
        BY <1>7, <4>1, SentKept
      <4>. QED
        BY <3>1, <4>1, <4>2 DEF Sent
    <3>. QED
      BY <1>10, <1>12, <3>2, <3>3
  <2>3. ASSUME NEW q \in Ranks, NEW m \in sends_posted'[q] PROVE Sent(m)' /\ m.from = q
    <3>1. CASE m \in sends_posted[q]
      BY <1>7, <3>1, SentKept DEF WireOK
    <3>2. CASE m \notin sends_posted[q]
      <4>1. q = r /\ m \in ToSet(hs)
        BY <1>11, <2>3, <3>2
      <4>2. PICK n \in 1..Len(hs) : m = hs[n]
        BY <1>11, <4>1
      <4>. QED
        BY <1>26, <4>1, <4>2 DEF Sent
    <3>. QED
      BY <3>1, <3>2
  <2>. QED
    BY <2>1, <2>2, <2>3 DEF WireOK
<1>15. \A q \in Ranks : \A p \in 1..Len(wire[q]) : wire[q][p].call \in 1..Len(called)
  BY SentFacts DEF WireOK
<1>16. SentInOrder(wire')
  <2>. SUFFICES ASSUME NEW q \in Ranks, NEW i \in 1..Len(wire'[q]), NEW j \in 1..Len(wire'[q]), i < j
                PROVE  Before(wire'[q][i], wire'[q][j])
    BY DEF SentInOrder
  <2>1. CASE q # r
    BY <1>10, <2>1 DEF InOrder, SentInOrder
  <2>2. CASE q = r /\ j <= Len(wire[r])
    <3>1. i \in 1..Len(wire[r]) /\ j \in 1..Len(wire[r])
      BY <1>10, <2>2
    <3>. QED
      BY <1>12, <2>2, <3>1 DEF InOrder, SentInOrder
  <2>3. CASE q = r /\ j > Len(wire[r]) /\ i <= Len(wire[r])
    <3>1. i \in 1..Len(wire[r]) /\ wire'[r][i] = wire[r][i]
      BY <1>10, <2>3
    <3>2. wire'[r][i].call <= Len(called) /\ wire'[r][i].call \in Nat
      BY <1>15, <3>1
    <3>3. wire'[r][j].call = Len(called) + 1
      <4>1. j - Len(wire[r]) \in 1..Len(ms) /\ wire'[r][j] = ms[j - Len(wire[r])]
        BY <1>10, <1>12, <2>3
      <4>. QED
        BY <1>9, <4>1
    <3>. QED
      BY <1>6, <2>3, <3>2, <3>3 DEF Before
  <2>4. CASE q = r /\ i > Len(wire[r])
    <3>1. /\ wire'[r][i] = ms[i - Len(wire[r])] /\ i - Len(wire[r]) \in 1..Len(ms)
          /\ wire'[r][j] = ms[j - Len(wire[r])] /\ j - Len(wire[r]) \in 1..Len(ms)
      BY <1>10, <1>12, <2>4
    <3>2. i - Len(wire[r]) < j - Len(wire[r])
      BY <1>10
    <3>3. PICK a, b : /\ a \in 1..Len(ms) /\ b \in 1..Len(ms) /\ a < b
                      /\ wire'[r][i] = ms[a] /\ wire'[r][j] = ms[b]
      BY Zenon, <3>1, <3>2
    <3>. QED
      BY <1>28, <2>4, <3>3
  <2>. QED
    BY <1>10, <2>1, <2>2, <2>3, <2>4
<1>17. ASSUME NEW m, Sent(m), Follow(wire, m) PROVE Follow(wire', m)
  <2>1. m.call \in 1..Len(called) /\ Len(called) \in Nat
    BY <1>17, SentFacts
  <2>. SUFFICES ASSUME NEW p \in 1..Len(wire'[m.from]), Alike(wire'[m.from][p], m)
                PROVE  Before(m, wire'[m.from][p])
    BY DEF Follow
  <2>2. m.from \in Ranks
    BY <1>17, SentFacts
  <2>3. CASE m.from = r /\ p > Len(wire[r])
    <3>1. wire'[r][p].call = Len(called) + 1
      <4>1. p - Len(wire[r]) \in 1..Len(ms) /\ wire'[r][p] = ms[p - Len(wire[r])]
        BY <1>10, <1>12, <2>3
      <4>. QED
        BY <1>9, <4>1
    <3>. QED
      BY <2>1, <2>3, <3>1 DEF Before
  <2>4. CASE ~(m.from = r /\ p > Len(wire[r]))
    <3>1. p \in 1..Len(wire[m.from]) /\ wire'[m.from][p] = wire[m.from][p]
      BY <1>10, <1>12, <2>2, <2>4
    <3>. QED
      BY <1>17, <3>1 DEF Follow
  <2>. QED
    BY <2>3, <2>4
<1>18. ReceivedInOrder(wire', recvs_posted)
  <2>. SUFFICES ASSUME NEW s \in Ranks, NEW i \in Full(recvs_posted, s)
                PROVE  Follow(wire', Last(recvs_posted[s][i]))
    BY DEF InOrder, ReceivedInOrder
  <2>1. Parcel(s, object_cache[s][i], recvs_posted[s][i]) /\ recvs_posted[s][i] # <<>>
    BY DEF ReceivedOK, Full
  <2>2. Sent(Last(recvs_posted[s][i]))
    BY <2>1, LastPart DEF Meant
  <2>3. Follow(wire, Last(recvs_posted[s][i]))
    BY DEF InOrder, ReceivedInOrder
  <2>. QED
    BY <1>17, <2>2, <2>3
<1>19. ExecutedInOrder(wire', executed)
  BY <1>17 DEF InOrder, ExecutedInOrder, ExecutedOK, Whole, Meant
<1>20. looping' \subseteq Ranks
  BY <1>1 DEF DomainsOK
<1>21. DOMAIN wire' = Ranks /\ DOMAIN sends_posted' = Ranks
  BY <1>1 DEF DomainsOK
<1>. QED
  BY <1>7, <1>8, <1>13, <1>16, <1>18, <1>19, <1>20, <1>21 DEF SendsOK, InOrder

-----------------------------------------------------------------------------
(***************************************************************************)
(* What a receive takes: the first of its kind, of those that are on the   *)
(* way from one rank.                                                      *)
(***************************************************************************)
LEMMA Matched ==
    ASSUME CInv, NEW q \in Ranks, NEW r \in Ranks, Match(q, r)
    PROVE  \E at \in 1..Len(wire[q]), first \in 1..Len(posted[r]) :
              LET m == wire[q][at]
                  i == posted[r][first]
              IN  /\ i \in 1..Len(recvs_posted[r]) /\ Len(recvs_posted[r][i]) < 2
                  /\ Meant(r, object_cache[r][i], m) /\ m.from = q
                  /\ \A p \in 1..(at - 1) : ~Alike(wire[q][p], m)
                  /\ recvs_posted' = [recvs_posted EXCEPT ![r][i] = Append(recvs_posted[r][i], m)]
                  /\ posted' = [posted EXCEPT ![r] = RemoveAt(posted[r], first)]
                  /\ wire' = [wire EXCEPT ![q] = RemoveAt(wire[q], at)]
<1>. USE DEF CInv, StateOK
<1>. DEFINE I     == {p \in 1..Len(wire[q]) : \E i \in ToSet(posted[r]) : Fits(r, i, wire[q][p])}
            at    == IF I # {} THEN Min(I) ELSE 0
            m     == wire[q][at]
            J     == {n \in 1..Len(posted[r]) : Fits(r, posted[r][n], m)}
            first == IF J # {} THEN Min(J) ELSE 0
            i     == posted[r][first]
<1>1. /\ at # 0
      /\ recvs_posted' = [recvs_posted EXCEPT ![r][i] = Append(recvs_posted[r][i], m)]
      /\ posted' = [posted EXCEPT ![r] = RemoveAt(posted[r], first)]
      /\ wire' = [wire EXCEPT ![q] = RemoveAt(wire[q], at)]
  BY DEF Match, SelectInSeq
<1>2. I \subseteq Nat
  OBVIOUS
<1>3. at \in I /\ \A p \in I : at <= p
  <2>. HIDE DEF I
  <2>1. I # {} /\ at = Min(I)
    BY <1>1
  <2>. HIDE DEF at
  <2>. QED
    BY <1>2, <2>1, FirstOf
<1>. HIDE DEF at
<1>4. at \in 1..Len(wire[q]) /\ \E j \in ToSet(posted[r]) : Fits(r, j, m)
  BY <1>3
<1>5. J # {} /\ J \subseteq Nat
  <2>1. PICK j \in ToSet(posted[r]) : Fits(r, j, m)
    BY <1>4
  <2>2. PICK n \in 1..Len(posted[r]) : j = posted[r][n]
    BY <2>1, ListFacts DEF ListsOK
  <2>. QED
    BY <2>1, <2>2
<1>6. first \in J
  <2>1. first = Min(J)
    BY <1>5
  <2>. HIDE DEF J, first
  <2>. QED
    BY <1>5, <2>1, FirstOf
<1>. HIDE DEF first
<1>7. first \in 1..Len(posted[r]) /\ Fits(r, i, m) /\ i \in ToSet(posted[r])
  BY <1>6, ListFacts DEF ListsOK
<1>8. i \in 1..Len(recvs_posted[r]) /\ Len(recvs_posted[r][i]) < 2
  BY <1>7 DEF ListsOK
<1>9. Sent(m) /\ m.from = q
  BY <1>4 DEF WireOK
<1>10. ASSUME NEW p \in 1..(at - 1), Alike(wire[q][p], m) PROVE FALSE
  <2>2. p \in 1..Len(wire[q]) /\ ~(at <= p)
    BY <1>4, ListFacts DEF WireOK
  <2>3. wire[q][p].from = m.from
    BY <1>9, <2>2 DEF WireOK
  <2>1. Fits(r, i, wire[q][p])
    BY <1>7, <1>10, <2>3 DEF Fits, Alike
  <2>. QED
    BY <1>3, <1>7, <2>1, <2>2
<1>11. Meant(r, object_cache[r][i], m)
  BY <1>7, <1>9 DEF Fits, Meant
<1>. HIDE DEF m, i
<1>. QED
  BY <1>1, <1>4, <1>7, <1>8, <1>9, <1>10, <1>11 DEF m, i

LEMMA MatchOrder ==
    ASSUME CInv, NEW q \in Ranks, NEW r \in Ranks, NEW at \in 1..Len(wire[q]),
           NEW i \in 1..Len(recvs_posted[r]), NEW m, m = wire[q][at], Meant(r, object_cache[r][i], m), m.from = q,
           \A p \in 1..(at - 1) : ~Alike(wire[q][p], m),
           recvs_posted' = [recvs_posted EXCEPT ![r][i] = Append(recvs_posted[r][i], m)],
           wire' = [wire EXCEPT ![q] = RemoveAt(wire[q], at)]
    PROVE  InOrder(wire', recvs_posted', executed)
<1>. USE DEF CInv, StateOK, InOrder
<1>1. /\ IsList(wire'[q]) /\ Len(wire'[q]) = Len(wire[q]) - 1 /\ Len(wire[q]) \in Nat
      /\ \A p \in 1..Len(wire'[q]) :
            wire'[q][p] = wire[q][Shifted(at, p)] /\ Shifted(at, p) \in 1..Len(wire[q]) \ {at}
      /\ \A s \in Ranks \ {q} : wire'[s] = wire[s]
  <2>1. IsList(wire[q]) /\ DOMAIN wire = Ranks
    BY DEF WireOK, DomainsOK
  <2>2. wire'[q] = RemoveAt(wire[q], at) /\ \A s \in Ranks \ {q} : wire'[s] = wire[s]
    BY <2>1
  <2>3. /\ IsList(RemoveAt(wire[q], at)) /\ Len(RemoveAt(wire[q], at)) = Len(wire[q]) - 1
        /\ \A p \in 1..Len(RemoveAt(wire[q], at)) :
              /\ RemoveAt(wire[q], at)[p] = wire[q][Shifted(at, p)]
              /\ Shifted(at, p) \in 1..Len(wire[q]) \ {at}
    BY <2>1, Removed
  <2>4. Len(wire[q]) \in Nat
    BY <2>1, ListFacts
  <2>. QED
    BY <2>2, <2>3, <2>4
<1>2. /\ Len(recvs_posted'[r]) = Len(recvs_posted[r])
      /\ recvs_posted'[r][i] = Append(recvs_posted[r][i], m)
      /\ \A j \in 1..Len(recvs_posted[r]) : j # i => recvs_posted'[r][j] = recvs_posted[r][j]
      /\ \A s \in Ranks \ {r} : recvs_posted'[s] = recvs_posted[s]
  <2>1. IsList(recvs_posted[r]) /\ DOMAIN recvs_posted = Ranks
    BY DEF ListsOK, DomainsOK
  <2>2. recvs_posted'[r] = Put(recvs_posted[r], i, Append(recvs_posted[r][i], m))
        /\ \A s \in Ranks \ {r} : recvs_posted'[s] = recvs_posted[s]
    BY <2>1 DEF Put
  <2>. QED
    BY <2>1, <2>2, Assigned
<1>3. \A p \in 1..Len(wire[q]) \ {at} : Alike(wire[q][p], m) => Before(m, wire[q][p])
  <2>. SUFFICES ASSUME NEW p \in 1..Len(wire[q]) \ {at}, Alike(wire[q][p], m)
                PROVE  Before(m, wire[q][p])
    OBVIOUS
  <2>1. at < p
    BY <1>1
  <2>. QED
    BY <1>1, <2>1 DEF SentInOrder
<1>4. SentInOrder(wire')
  <2>. SUFFICES ASSUME NEW s \in Ranks, NEW a \in 1..Len(wire'[s]), NEW b \in 1..Len(wire'[s]), a < b
                PROVE  Before(wire'[s][a], wire'[s][b])
    BY DEF SentInOrder
  <2>1. CASE s # q
    BY <1>1, <2>1 DEF SentInOrder
  <2>2. CASE s = q
    <3>1. Shifted(at, a) < Shifted(at, b)
      BY <1>1, <2>2 DEF Shifted
    <3>2. PICK c, d : /\ c \in 1..Len(wire[q]) /\ d \in 1..Len(wire[q]) /\ c < d
                      /\ wire'[q][a] = wire[q][c] /\ wire'[q][b] = wire[q][d]
      <4>1. /\ Shifted(at, a) \in 1..Len(wire[q]) /\ wire'[q][a] = wire[q][Shifted(at, a)]
            /\ Shifted(at, b) \in 1..Len(wire[q]) /\ wire'[q][b] = wire[q][Shifted(at, b)]
        BY <1>1, <2>2
      <4>. QED
        BY Zenon, <3>1, <4>1
    <3>. QED
      BY Zenon, <2>2, <3>2 DEF SentInOrder
  <2>. QED
    BY <2>1, <2>2
<1>5. ASSUME NEW v, Sent(v), Follow(wire, v) PROVE Follow(wire', v)
  <2>1. v.from \in Ranks
    BY <1>5, SentFacts
  <2>. SUFFICES ASSUME NEW p \in 1..Len(wire'[v.from]), Alike(wire'[v.from][p], v)
                PROVE  Before(v, wire'[v.from][p])
    BY DEF Follow
  <2>2. \E j \in 1..Len(wire[v.from]) : wire'[v.from][p] = wire[v.from][j]
    BY <1>1, <2>1
  <2>. QED
    BY <1>5, <2>2 DEF Follow
<1>6. Follow(wire', m)
  BY <1>1, <1>3 DEF Follow
<1>7. \A v : Alike(v, v) /\ (Sent(v) => ~Before(v, v))
  BY SentFacts DEF Alike
<1>8. ASSUME NEW v, v.from = q, Follow(wire, v), Alike(m, v) PROVE Before(v, m)
  BY <1>8 DEF Follow
<1>15. Append(recvs_posted[r][i], m) # <<>> /\ Last(Append(recvs_posted[r][i], m)) = m
  <2>. DEFINE t == Append(recvs_posted[r][i], m)
              l == Len(recvs_posted[r][i])
  <2>1. IsList(recvs_posted[r][i])
    BY DEF ReceivedOK, Parcel
  <2>2. l \in Nat
    BY <2>1, ListFacts
  <2>3. Len(t) = l + 1 /\ t[l + 1] = m
    BY <2>1, Appended
  <2>. HIDE DEF t, l
  <2>4. t # <<>>
    BY <2>2, <2>3, EmptyList
  <2>5. Last(t) = m
    BY <2>3 DEF Last
  <2>. QED
    BY <2>4, <2>5 DEF t
<1>9. /\ Full(recvs_posted', r) = Full(recvs_posted, r) \cup {i}
      /\ \A s \in Ranks \ {r} : Full(recvs_posted', s) = Full(recvs_posted, s)
      /\ \A j \in Full(recvs_posted, r) \ {i} : recvs_posted'[r][j] = recvs_posted[r][j]
      /\ Last(recvs_posted'[r][i]) = m
  BY <1>2, <1>15 DEF Full
<1>16. ASSUME NEW s \in Ranks, NEW j \in Full(recvs_posted', s), ~(s = r /\ j = i)
       PROVE  j \in Full(recvs_posted, s) /\ recvs_posted'[s][j] = recvs_posted[s][j]
  <2>1. CASE s = r
    <3>1. j \in 1..Len(recvs_posted[r]) /\ j # i /\ recvs_posted'[r][j] # <<>>
      BY <1>2, <1>16, <2>1 DEF Full
    <3>. QED
      BY <1>2, <2>1, <3>1 DEF Full
  <2>2. CASE s # r
    BY <1>2, <2>2 DEF Full
  <2>. QED
    BY <2>1, <2>2
<1>10. ASSUME NEW s \in Ranks, NEW j \in Full(recvs_posted, s)
       PROVE  Last(recvs_posted[s][j]) # m /\ Sent(Last(recvs_posted[s][j])) /\ Follow(wire', Last(recvs_posted[s][j]))
  <2>1. Sent(Last(recvs_posted[s][j])) /\ Follow(wire, Last(recvs_posted[s][j]))
    <3>1. Parcel(s, object_cache[s][j], recvs_posted[s][j]) /\ recvs_posted[s][j] # <<>>
      BY DEF ReceivedOK, Full
    <3>2. Sent(Last(recvs_posted[s][j]))
      BY <3>1, LastPart DEF Meant
    <3>. QED
      BY <3>2 DEF ReceivedInOrder
  <2>. QED
    BY <1>5, <1>7, <1>8, <2>1
<1>11. ReceivedInOrder(wire', recvs_posted')
  <2>. SUFFICES ASSUME NEW s \in Ranks, NEW j \in Full(recvs_posted', s)
                PROVE  /\ Follow(wire', Last(recvs_posted'[s][j]))
                       /\ \A l \in Full(recvs_posted', s) \ {j} :
                             Last(recvs_posted'[s][j]) # Last(recvs_posted'[s][l])
    BY DEF ReceivedInOrder
  <2>1. CASE s = r /\ j = i
    <3>1. ASSUME NEW l \in Full(recvs_posted', r) \ {i} PROVE Last(recvs_posted'[r][l]) # m
      <4>1. l \in Full(recvs_posted, r) /\ recvs_posted'[r][l] = recvs_posted[r][l]
        BY <1>16
      <4>. QED
        BY <1>10, <4>1
    <3>2. Last(recvs_posted'[r][i]) = m
      BY <1>9
    <3>3. \A l \in Full(recvs_posted', r) \ {i} : m # Last(recvs_posted'[r][l])
      BY <3>1
    <3>. QED
      BY Zenon, <1>6, <2>1, <3>2, <3>3
  <2>2. CASE ~(s = r /\ j = i)
    <3>1. j \in Full(recvs_posted, s) /\ recvs_posted'[s][j] = recvs_posted[s][j]
      BY <1>16, <2>2
    <3>2. ASSUME NEW l \in Full(recvs_posted', s) \ {j}
          PROVE  Last(recvs_posted'[s][j]) # Last(recvs_posted'[s][l])
      <4>1. CASE s = r /\ l = i
        BY <1>9, <1>10, <3>1, <4>1
      <4>2. CASE ~(s = r /\ l = i)
        <5>1. l \in Full(recvs_posted, s) /\ recvs_posted'[s][l] = recvs_posted[s][l]
          BY <1>16, <4>2
        <5>. QED
          BY <3>1, <5>1 DEF ReceivedInOrder
      <4>. QED
        BY <4>1, <4>2
    <3>. QED
      BY <1>10, <3>1, <3>2
  <2>. QED
    BY <2>1, <2>2
<1>12. ASSUME NEW s \in Ranks, NEW x \in 1..Len(executed[s])
       PROVE  /\ Follow(wire', executed[s][x].message) /\ executed[s][x].message # m
              /\ s = r /\ object_cache[r][i] = executed[s][x].object /\ executed[s][x].message.from = q
                    => Before(executed[s][x].message, m)
  <2>. DEFINE v == executed[s][x].message
              o == executed[s][x].object
  <2>1. Meant(s, o, v) /\ Follow(wire, v)
    BY DEF ExecutedOK, Whole, ExecutedInOrder
  <2>. HIDE DEF v, o
  <2>2. Follow(wire', v) /\ v # m
    BY <1>5, <1>7, <1>8, <2>1 DEF Meant
  <2>3. s = r /\ object_cache[r][i] = o /\ v.from = q => Before(v, m)
    BY <1>8, <2>1 DEF Meant, Alike
  <2>. QED
    BY <2>2, <2>3 DEF v, o
<1>13. ExecutedInOrder(wire', executed)
  BY <1>12 DEF ExecutedInOrder
<1>14. NotYetExecuted(recvs_posted', executed)
  <2>. SUFFICES ASSUME NEW s \in Ranks, NEW x \in 1..Len(executed[s]), NEW j \in Full(recvs_posted', s)
                PROVE  LET e == executed[s][x]
                           v == Last(recvs_posted'[s][j])
                       IN  /\ v.method # "raises" => e.message # v
                           /\ object_cache[s][j] = e.object /\ e.message.from = v.from
                                => e.message = v \/ Before(e.message, v)
    BY DEF NotYetExecuted
  <2>1. CASE s = r /\ j = i
    BY <1>9, <1>12, <2>1
  <2>2. CASE ~(s = r /\ j = i)
    <3>1. j \in Full(recvs_posted, s) /\ recvs_posted'[s][j] = recvs_posted[s][j]
      BY <1>16, <2>2
    <3>. QED
      BY <3>1 DEF NotYetExecuted
  <2>. QED
    BY <2>1, <2>2
<1>. QED
  BY <1>4, <1>11, <1>13, <1>14

-----------------------------------------------------------------------------
(***************************************************************************)
(* An object executes what its receive has taken.  w and rp are the wire   *)
(* and the receives after the step: the receive is new, or the method has  *)
(* raised.                                                                 *)
(***************************************************************************)
LEMMA ExecuteOrder ==
    ASSUME CInv, NEW r \in Ranks, NEW i \in Full(recvs_posted, r), Execute(r, i),
           NEW w, InOrder(w, recvs_posted, executed), NEW rp,
           \A s \in Ranks : \A j \in Full(rp, s) : j \in Full(recvs_posted, s) /\ rp[s][j] = recvs_posted[s][j],
           i \in Full(rp, r) => Last(recvs_posted[r][i]).method = "raises"
    PROVE  InOrder(w, rp, executed')
<1>. USE DEF CInv, StateOK
<1>. DEFINE m == Last(recvs_posted[r][i])
            o == object_cache[r][i]
            n == Len(executed[r])
<1>1. /\ Len(executed'[r]) = n + 1 /\ n \in Nat /\ executed'[r][n + 1] = [object |-> o, message |-> m]
      /\ \A x \in 1..n : executed'[r][x] = executed[r][x]
      /\ \A s \in Ranks \ {r} : executed'[s] = executed[s]
  <2>1. IsList(executed[r]) /\ DOMAIN executed = Ranks
    BY DEF ExecutedOK, DomainsOK
  <2>2. executed'[r] = Append(executed[r], [object |-> o, message |-> m])
        /\ \A s \in Ranks \ {r} : executed'[s] = executed[s]
    BY <2>1 DEF Execute
  <2>. HIDE DEF m, o
  <2>. QED
    BY <2>1, <2>2, Appended, ListFacts
<1>2. executed'[r][n + 1].object = o /\ executed'[r][n + 1].message = m
  BY <1>1
<1>3. ASSUME NEW s \in Ranks, NEW x \in 1..Len(executed'[s])
      PROVE  (s = r /\ x = n + 1) \/ (x \in 1..Len(executed[s]) /\ executed'[s][x] = executed[s][x])
  BY <1>1
<1>. HIDE DEF m, o
<1>4. ReceivedInOrder(w, rp)
  BY DEF InOrder, ReceivedInOrder
<1>5. Follow(w, m)
  BY DEF InOrder, ReceivedInOrder, m
<1>6. ASSUME NEW y \in 1..n
      PROVE  /\ m.method # "raises" => executed[r][y].message # m
             /\ executed[r][y].object = o /\ executed[r][y].message.from = m.from
                  => executed[r][y].message = m \/ Before(executed[r][y].message, m)
  BY DEF InOrder, NotYetExecuted, m, o
<1>7. ExecutedInOrder(w, executed')
  <2>. SUFFICES ASSUME NEW s \in Ranks, NEW x \in 1..Len(executed'[s])
                PROVE  LET e == executed'[s][x]
                       IN  /\ Follow(w, e.message)
                           /\ \A y \in 1..(x - 1) :
                                /\ e.message.method # "raises" => executed'[s][y].message # e.message
                                /\ executed'[s][y].object = e.object
                                   /\ executed'[s][y].message.from = e.message.from
                                     => \/ executed'[s][y].message = e.message
                                        \/ Before(executed'[s][y].message, e.message)
    BY DEF ExecutedInOrder
  <2>1. CASE s = r /\ x = n + 1
    <3>1. executed'[s][x].object = o /\ executed'[s][x].message = m
      BY <1>2, <2>1
    <3>2. \A y \in 1..(x - 1) : y \in 1..n /\ executed'[s][y] = executed[r][y]
      BY <1>1, <2>1
    <3>. QED
      BY Zenon, <1>5, <1>6, <3>1, <3>2
  <2>2. CASE x \in 1..Len(executed[s]) /\ executed'[s][x] = executed[s][x]
    <3>1. \A y \in 1..(x - 1) : executed'[s][y] = executed[s][y]
      <4>1. CASE s = r
        BY <1>1, <2>2, <4>1
      <4>2. CASE s # r
        BY <1>1, <4>2
      <4>. QED
        BY <4>1, <4>2
    <3>2. /\ Follow(w, executed[s][x].message)
          /\ \A y \in 1..(x - 1) :
               /\ executed[s][x].message.method # "raises" => executed[s][y].message # executed[s][x].message
               /\ executed[s][y].object = executed[s][x].object
                  /\ executed[s][y].message.from = executed[s][x].message.from
                    => \/ executed[s][y].message = executed[s][x].message
                       \/ Before(executed[s][y].message, executed[s][x].message)
      BY <2>2 DEF InOrder, ExecutedInOrder
    <3>. QED
      BY Zenon, <2>2, <3>1, <3>2
  <2>. QED
    BY <1>3, <2>1, <2>2
<1>8. NotYetExecuted(rp, executed')
  <2>. SUFFICES ASSUME NEW s \in Ranks, NEW x \in 1..Len(executed'[s]), NEW j \in Full(rp, s)
                PROVE  LET e == executed'[s][x]
                           v == Last(rp[s][j])
                       IN  /\ v.method # "raises" => e.message # v
                           /\ object_cache[s][j] = e.object /\ e.message.from = v.from
                                => e.message = v \/ Before(e.message, v)
    BY DEF NotYetExecuted
  <2>0. j \in Full(recvs_posted, s) /\ rp[s][j] = recvs_posted[s][j]
    OBVIOUS
  <2>1. CASE x \in 1..Len(executed[s]) /\ executed'[s][x] = executed[s][x]
    BY <2>0, <2>1 DEF InOrder, NotYetExecuted
  <2>2. CASE s = r /\ x = n + 1 /\ j = i
    BY <1>2, <2>0, <2>2 DEF m
  <2>3. CASE s = r /\ x = n + 1 /\ j # i
    <3>1. Last(recvs_posted[r][j]) # m
      BY <2>0, <2>3 DEF InOrder, ReceivedInOrder, m
    <3>2. object_cache[r][j] # o
      <4>1. DOMAIN object_cache[r] = 1..Len(recvs_posted[r]) /\ IsInjective(object_cache[r])
        BY ListFacts DEF ListsOK
      <4>. QED
        BY <2>0, <2>3, <4>1 DEF IsInjective, Full, o
    <3>. QED
      BY <1>2, <2>0, <2>3, <3>1, <3>2
  <2>. QED
    BY <1>3, <2>1, <2>2, <2>3
<1>. QED
  BY <1>4, <1>7, <1>8 DEF InOrder

-----------------------------------------------------------------------------
(***************************************************************************)
(* What a step leaves alone stays as it was.                               *)
(***************************************************************************)
LEMMA OrderLater ==
    ASSUME object_cache' = object_cache, InOrder(wire', recvs_posted', executed')
    PROVE  InOrder(wire, recvs_posted, executed)'
<1>1. SentInOrder(wire)' /\ ReceivedInOrder(wire, recvs_posted)' /\ ExecutedInOrder(wire, executed)'
  BY Zenon DEF InOrder, SentInOrder, ReceivedInOrder, ExecutedInOrder
<1>2. NotYetExecuted(recvs_posted, executed)'
  BY Zenon DEF InOrder, NotYetExecuted
<1>. QED
  BY <1>1, <1>2 DEF InOrder

LEMMA ListsKept ==
    ASSUME NEW r \in Ranks, ListsOK(r), hook'[r] <= Len(recvs_posted[r]) + 1,
           objects' = objects, made'[r] = made[r], recvs_posted'[r] = recvs_posted[r],
           object_cache'[r] = object_cache[r], posted'[r] = posted[r]
    PROVE  ListsOK(r)'
<1>1. Waiting(r)' = Waiting(r)
  BY DEF Waiting, Objects
<1>. QED
  BY <1>1 DEF ListsOK

LEMMA ReceivedKept ==
    ASSUME CalledOK, Keeps, NEW r \in Ranks, ReceivedOK(r),
           recvs_posted'[r] = recvs_posted[r], object_cache'[r] = object_cache[r]
    PROVE  ReceivedOK(r)'
BY ParcelKept DEF ReceivedOK

LEMMA ExecutedKept ==
    ASSUME CalledOK, Keeps, NEW r \in Ranks, ExecutedOK(r), executed'[r] = executed[r],
           \A k \in Objects : made[r][k] # 0 => made'[r][k] # 0
    PROVE  ExecutedOK(r)'
<1>1. Waiting(r) \subseteq Waiting(r)'
  BY DEF Waiting, Keeps, Objects
<1>. QED
  BY <1>1, WholeKept DEF ExecutedOK

LEMMA SameKeeps ==
    ASSUME CalledOK, UNCHANGED <<objects, made, called>>
    PROVE  Keeps /\ CalledOK'
<1>1. Keeps
  BY ListFacts DEF CalledOK, Keeps
<1>. QED
  BY <1>1 DEF CalledOK, Objects

LEMMA RestInit == Init => StateOK /\ InOrder(wire, recvs_posted, executed)
<1>. SUFFICES ASSUME Init PROVE StateOK /\ InOrder(wire, recvs_posted, executed)
  OBVIOUS
<1>1. DomainsOK
  BY DEF Init, DomainsOK
<1>2. \A r \in Ranks : /\ sends_posted[r] = {} /\ recvs_posted[r] = <<>> /\ object_cache[r] = <<>>
                       /\ posted[r] = <<>> /\ wire[r] = <<>> /\ executed[r] = <<>> /\ hook[r] = 0
  BY DEF Init
<1>3. /\ IsList(<<>>) /\ Len(<<>>) = 0 /\ 1..Len(<<>>) = {} /\ ToSet(<<>>) = {} /\ DOMAIN <<>> = {}
      /\ IsInjective(<<>>)
  <2>1. IsList(<<>>) /\ Len(<<>>) = 0
    BY EmptyList
  <2>2. DOMAIN <<>> = {} /\ ToSet(<<>>) = {}
    BY <2>1, ListFacts
  <2>. QED
    BY <2>1, <2>2 DEF IsInjective
<1>4. CalledOK
  BY <1>3 DEF Init, CalledOK
<1>5. WireOK
  BY <1>2, <1>3 DEF WireOK
<1>6. \A r \in Ranks : Waiting(r) = {}
  BY InitOK DEF Init, remote_new, Waiting, IInv, ProgTypeOK, Objects
<1>7. \A r \in Ranks : ListsOK(r)
  <2>. SUFFICES ASSUME NEW r \in Ranks PROVE ListsOK(r)
    OBVIOUS
  <2>1. 1..Len(recvs_posted[r]) = {}
    BY <1>2, <1>3
  <2>2. hook[r] <= Len(recvs_posted[r]) + 1
    BY <1>2, <1>3
  <2>. QED
    BY <1>2, <1>3, <1>6, <2>1, <2>2 DEF ListsOK
<1>8. \A r \in Ranks : ReceivedOK(r) /\ ExecutedOK(r)
  BY <1>2, <1>3 DEF ReceivedOK, ExecutedOK
<1>9. InOrder(wire, recvs_posted, executed)
  BY <1>2, <1>3 DEF InOrder, SentInOrder, ReceivedInOrder, ExecutedInOrder, NotYetExecuted, Full
<1>. QED
  BY <1>1, <1>4, <1>5, <1>7, <1>8, <1>9 DEF StateOK

\* Steps that move no message: a rank joins a reduction, the hook drops requests
\* of sends, runs over a receive that is not fulfilled or comes upon what is no
\* call, an exception comes up.
LEMMA QuietRest ==
    ASSUME CInv, UNCHANGED <<objects, made, recvs_posted, object_cache, posted, wire, looping, called, executed>>,
           DomainsOK', \A r \in Ranks : hook'[r] <= Len(recvs_posted[r]) + 1,
           \A q \in Ranks : sends_posted'[q] \subseteq sends_posted[q]
    PROVE  StateOK' /\ InOrder(wire, recvs_posted, executed)'
<1>. USE DEF CInv, StateOK
<1>1. Keeps /\ CalledOK'
  BY SameKeeps
<1>2. WireOK'
  BY <1>1, SentKept DEF WireOK
<1>3. ASSUME NEW r \in Ranks PROVE ListsOK(r)' /\ ReceivedOK(r)' /\ ExecutedOK(r)'
  BY <1>1, ListsKept, ReceivedKept, ExecutedKept
<1>4. InOrder(wire, recvs_posted, executed)'
  BY DEF InOrder, SentInOrder, ReceivedInOrder, ExecutedInOrder, NotYetExecuted
<1>. QED
  BY <1>1, <1>2, <1>3, <1>4

LEMMA JoinRest ==
    ASSUME CInv, NEW r \in Ranks, NEW k \in Objects, remote_init(r, k)
    PROVE  StateOK' /\ InOrder(wire, recvs_posted, executed)'
<1>1. DomainsOK' /\ \A q \in Ranks : hook'[q] <= Len(recvs_posted[q]) + 1
  BY DEF remote_init, listVars, hookVars, callVars, CInv, StateOK, DomainsOK, ListsOK
<1>. QED
  BY <1>1, QuietRest DEF remote_init, listVars, hookVars, callVars

LEMMA HookRest ==
    ASSUME CInv, NEW r \in Ranks, rco_housekeeping(r) \/ HookNext(r) \/ HookGarbled(r) \/ Surfaces(r)
    PROVE  StateOK' /\ InOrder(wire, recvs_posted, executed)'
<1>. USE DEF CInv, StateOK
<1>1. \A q \in Ranks : Len(recvs_posted[q]) \in Nat /\ hook[q] \in Nat /\ hook[q] <= Len(recvs_posted[q]) + 1
  BY ListFacts DEF ListsOK, DomainsOK
<1>2. CASE rco_housekeeping(r)
  <2>1. DomainsOK' /\ \A q \in Ranks : hook'[q] <= Len(recvs_posted[q]) + 1
    BY <1>1, <1>2 DEF rco_housekeeping, DomainsOK, callVars
  <2>2. \A q \in Ranks : sends_posted'[q] \subseteq sends_posted[q]
    BY <1>2 DEF rco_housekeeping, DomainsOK
  <2>. QED
    BY <1>2, <2>1, <2>2, QuietRest DEF rco_housekeeping, progVars, callVars
<1>3. CASE HookNext(r)
  <2>1. hook' = [hook EXCEPT ![r] = 0] \/ (hook[r] <= Len(recvs_posted[r]) /\ hook' = [hook EXCEPT ![r] = @ + 1])
    BY <1>1, <1>3 DEF HookNext
  <2>2. hook \in [Ranks -> Nat] /\ hook' \in [Ranks -> Nat]
    BY <1>1, <2>1 DEF DomainsOK
  <2>3. \A q \in Ranks : hook'[q] <= Len(recvs_posted[q]) + 1
    BY <1>1, <2>1, <2>2
  <2>4. DomainsOK'
    BY <1>3, <2>2 DEF HookNext, DomainsOK, listVars, callVars
  <2>. QED
    BY <1>3, <2>3, <2>4, QuietRest DEF HookNext, progVars, listVars, callVars
<1>4. CASE HookGarbled(r)
  <2>1. DomainsOK' /\ \A q \in Ranks : hook'[q] <= Len(recvs_posted[q]) + 1
    BY <1>1, <1>4 DEF HookGarbled, DomainsOK, listVars, callVars
  <2>. QED
    BY <1>4, <2>1, QuietRest DEF HookGarbled, progVars, listVars, callVars
<1>5. CASE Surfaces(r)
  <2>1. DomainsOK' /\ \A q \in Ranks : hook'[q] <= Len(recvs_posted[q]) + 1
    BY <1>1, <1>5 DEF Surfaces, DomainsOK, listVars, callVars
  <2>. QED
    BY <1>5, <2>1, QuietRest DEF Surfaces, progVars, listVars, callVars
<1>. QED
  BY <1>2, <1>3, <1>4, <1>5

LEMMA CallRest ==
    ASSUME CInv, NEW r \in Ranks, NEW k \in Objects, NEW call \in Calls, Call(r, k, call)
    PROVE  StateOK' /\ InOrder(wire, recvs_posted, executed)'
<1>. USE DEF CInv, StateOK
<1>1. call[1] \in Destination /\ call[3] \in BOOLEAN
  BY CallsAssumption
<1>2. /\ made[r][k] # 0 /\ partial_call(r, k, call[1], call[2], call[3])
      /\ UNCHANGED <<objects, made, recvs_posted, object_cache, posted, hook, pending, garbled, executed>>
  BY DEF Call, Made, Number, Partial, progVars, hookVars
<1>3. SendsOK
  BY <1>1, <1>2, CallSent
<1>4. DomainsOK'
  BY <1>2, <1>3 DEF SendsOK, DomainsOK
<1>5. ASSUME NEW q \in Ranks PROVE ListsOK(q)' /\ ReceivedOK(q)' /\ ExecutedOK(q)'
  <2>1. ListsOK(q)'
    BY <1>2, ListsKept DEF ListsOK
  <2>. QED
    BY <1>2, <1>3, <2>1, ReceivedKept, ExecutedKept DEF SendsOK
<1>6. InOrder(wire, recvs_posted, executed)'
  BY <1>2, <1>3 DEF SendsOK, InOrder, ReceivedInOrder, ExecutedInOrder, NotYetExecuted
<1>. QED
  BY <1>3, <1>4, <1>5, <1>6 DEF SendsOK

-----------------------------------------------------------------------------
\* What is appended to a list without repetitions and is not in it
LEMMA AppendedOnce ==
    ASSUME NEW s, NEW e, IsList(s), IsInjective(s), e \notin ToSet(s)
    PROVE  IsList(Append(s, e)) /\ IsInjective(Append(s, e)) /\ ToSet(Append(s, e)) = ToSet(s) \cup {e}
<1>. DEFINE t == Append(s, e)
<1>1. Len(s) \in Nat /\ DOMAIN s = 1..Len(s) /\ ToSet(s) = {s[j] : j \in 1..Len(s)}
  BY ListFacts
<1>2. IsList(t) /\ Len(t) = Len(s) + 1 /\ t[Len(s) + 1] = e /\ \A j \in 1..Len(s) : t[j] = s[j]
  BY Appended
<1>. HIDE DEF t
<1>3. DOMAIN t = 1..Len(t) /\ ToSet(t) = {t[j] : j \in 1..Len(t)}
  BY <1>2, ListFacts
<1>4. \A j \in 1..Len(t) : j \in 1..Len(s) \/ j = Len(s) + 1
  BY <1>1, <1>2
<1>5. IsInjective(t)
  <2>. SUFFICES ASSUME NEW j \in 1..Len(t), NEW l \in 1..Len(t), t[j] = t[l]
                PROVE  j = l
    BY <1>3 DEF IsInjective
  <2>1. CASE j \in 1..Len(s) /\ l \in 1..Len(s)
    BY <1>1, <1>2, <2>1 DEF IsInjective
  <2>. QED
    BY <1>1, <1>2, <1>4, <2>1
<1>6. Len(s) + 1 \in 1..Len(t) /\ 1..Len(s) \subseteq 1..Len(t)
  BY <1>1, <1>2
<1>7. ToSet(t) = ToSet(s) \cup {e}
  BY <1>1, <1>2, <1>3, <1>4, <1>6
<1>. QED
  BY <1>2, <1>5, <1>7 DEF t

LEMMA MatchRest ==
    ASSUME CInv, NEW q \in Ranks, NEW r \in Ranks, Match(q, r)
    PROVE  StateOK' /\ InOrder(wire, recvs_posted, executed)'
<1>. USE DEF CInv, StateOK
<1>1. PICK at \in 1..Len(wire[q]), first \in 1..Len(posted[r]) :
          LET m == wire[q][at]
              i == posted[r][first]
          IN  /\ i \in 1..Len(recvs_posted[r]) /\ Len(recvs_posted[r][i]) < 2
              /\ Meant(r, object_cache[r][i], m) /\ m.from = q
              /\ \A p \in 1..(at - 1) : ~Alike(wire[q][p], m)
              /\ recvs_posted' = [recvs_posted EXCEPT ![r][i] = Append(recvs_posted[r][i], m)]
              /\ posted' = [posted EXCEPT ![r] = RemoveAt(posted[r], first)]
              /\ wire' = [wire EXCEPT ![q] = RemoveAt(wire[q], at)]
  BY Matched, Zenon
<1>2. PICK m, i : m = wire[q][at] /\ i = posted[r][first]
  OBVIOUS
<1>3. /\ i \in 1..Len(recvs_posted[r]) /\ Len(recvs_posted[r][i]) < 2
      /\ Meant(r, object_cache[r][i], m) /\ m.from = q
      /\ \A p \in 1..(at - 1) : ~Alike(wire[q][p], m)
      /\ recvs_posted' = [recvs_posted EXCEPT ![r][i] = Append(recvs_posted[r][i], m)]
      /\ posted' = [posted EXCEPT ![r] = RemoveAt(posted[r], first)]
      /\ wire' = [wire EXCEPT ![q] = RemoveAt(wire[q], at)]
  BY <1>1, <1>2
<1>4. UNCHANGED <<objects, made, sends_posted, object_cache, hook, pending, garbled, looping, called, executed>>
  BY DEF Match, progVars, hookVars, callVars
<1>5. InOrder(wire', recvs_posted', executed)
  BY <1>2, <1>3, MatchOrder
<1>6. InOrder(wire, recvs_posted, executed)'
  BY <1>4, <1>5 DEF InOrder, SentInOrder, ReceivedInOrder, ExecutedInOrder, NotYetExecuted
<1>7. Keeps /\ CalledOK'
  BY <1>4, SameKeeps
<1>8. DomainsOK'
  BY <1>3, <1>4 DEF DomainsOK
<1>9. WireOK'
  <2>1. wire'[q] = RemoveAt(wire[q], at) /\ \A s \in Ranks \ {q} : wire'[s] = wire[s]
    BY <1>3 DEF DomainsOK
  <2>2. at \in 1..Len(wire[q]) /\ IsList(wire[q])
    BY DEF WireOK
  <2>3. /\ IsList(wire'[q])
        /\ \A p \in 1..Len(wire'[q]) : /\ wire'[q][p] = wire[q][Shifted(at, p)]
                                       /\ Shifted(at, p) \in 1..Len(wire[q])
    BY ONLY <2>1, <2>2, Removed
  <2>4. ASSUME NEW s \in Ranks PROVE IsList(wire'[s])
    BY <2>1, <2>3 DEF WireOK
  <2>5. ASSUME NEW s \in Ranks, NEW p \in 1..Len(wire'[s])
        PROVE  Sent(wire[s][p])' /\ wire'[s][p].from = s
    <3>1. PICK v : v = wire'[s][p]
      OBVIOUS
    <3>2. PICK l \in 1..Len(wire[s]) : v = wire[s][l]
      BY <2>1, <2>3, <2>5, <3>1
    <3>3. Sent(v) /\ v.from = s
      BY <3>2 DEF WireOK
    <3>4. Sent(v)'
      BY <1>7, <3>3, SentKept
    <3>. QED
      BY ONLY <3>1, <3>3, <3>4 DEF Sent
  <2>6. ASSUME NEW s \in Ranks, NEW v \in sends_posted'[s] PROVE Sent(v)' /\ v.from = s
    BY <1>4, <1>7, <2>6, SentKept DEF WireOK
  <2>. QED
    BY <2>4, <2>5, <2>6 DEF WireOK
<1>10. /\ IsList(recvs_posted'[r]) /\ Len(recvs_posted'[r]) = Len(recvs_posted[r])
       /\ recvs_posted'[r][i] = Append(recvs_posted[r][i], m)
       /\ \A j \in 1..Len(recvs_posted[r]) : j # i => recvs_posted'[r][j] = recvs_posted[r][j]
       /\ \A s \in Ranks \ {r} : recvs_posted'[s] = recvs_posted[s] /\ posted'[s] = posted[s]
  <2>1. IsList(recvs_posted[r]) /\ DOMAIN recvs_posted = Ranks /\ DOMAIN posted = Ranks
    BY DEF ListsOK, DomainsOK
  <2>2. recvs_posted'[r] = Put(recvs_posted[r], i, Append(recvs_posted[r][i], m))
        /\ \A s \in Ranks \ {r} : recvs_posted'[s] = recvs_posted[s] /\ posted'[s] = posted[s]
    BY <1>3, <2>1 DEF Put
  <2>3. i \in 1..Len(recvs_posted[r])
    BY <1>3
  <2>4. PICK e : e = Append(recvs_posted[r][i], m)
    OBVIOUS
  <2>5. recvs_posted'[r] = Put(recvs_posted[r], i, e) /\ IsList(recvs_posted[r])
    BY <2>1, <2>2, <2>4, Zenon
  <2>6. /\ IsList(recvs_posted'[r]) /\ Len(recvs_posted'[r]) = Len(recvs_posted[r])
        /\ recvs_posted'[r][i] = e
        /\ \A j \in 1..Len(recvs_posted[r]) : j # i => recvs_posted'[r][j] = recvs_posted[r][j]
    BY ONLY <2>3, <2>5, Assigned
  <2>. QED
    BY <2>2, <2>4, <2>6
<1>11. /\ IsList(posted'[r]) /\ IsInjective(posted'[r]) /\ ToSet(posted'[r]) = ToSet(posted[r]) \ {i}
  <2>1. IsList(posted[r]) /\ IsInjective(posted[r]) /\ posted'[r] = RemoveAt(posted[r], first)
    BY <1>3 DEF ListsOK, DomainsOK
  <2>2. /\ Len(posted[r]) \in Nat /\ DOMAIN posted[r] = 1..Len(posted[r])
        /\ ToSet(posted[r]) = {posted[r][j] : j \in 1..Len(posted[r])}
    BY <2>1, ListFacts
  <2>3. /\ IsList(posted'[r]) /\ Len(posted'[r]) = Len(posted[r]) - 1
        /\ \A j \in 1..Len(posted'[r]) : /\ posted'[r][j] = posted[r][Shifted(first, j)]
                                         /\ Shifted(first, j) \in 1..Len(posted[r]) \ {first}
    <3>1. first \in 1..Len(posted[r])
      OBVIOUS
    <3>. QED
      BY ONLY <2>1, <3>1, Removed
  <2>4. /\ DOMAIN posted'[r] = 1..Len(posted'[r])
        /\ ToSet(posted'[r]) = {posted'[r][j] : j \in 1..Len(posted'[r])}
    BY <2>3, ListFacts
  <2>5. \A j, l \in 1..(Len(posted[r]) - 1) : Shifted(first, j) = Shifted(first, l) => j = l
    BY <2>2 DEF Shifted
  <2>6. IsInjective(posted'[r])
    <3>. SUFFICES ASSUME NEW j \in 1..Len(posted'[r]), NEW l \in 1..Len(posted'[r]),
                         posted'[r][j] = posted'[r][l]
                  PROVE  j = l
      BY <2>4 DEF IsInjective
    <3>1. Shifted(first, j) = Shifted(first, l)
      BY <2>1, <2>2, <2>3 DEF IsInjective
    <3>. QED
      BY <2>3, <2>5, <3>1
  <2>7. ToSet(posted'[r]) \subseteq ToSet(posted[r]) \ {i}
    <3>. SUFFICES ASSUME NEW j \in 1..Len(posted'[r])
                  PROVE  posted'[r][j] \in ToSet(posted[r]) /\ posted'[r][j] # posted[r][first]
      BY <1>2, <2>4
    <3>1. PICK l \in 1..Len(posted[r]) : l # first /\ posted'[r][j] = posted[r][l]
      BY <2>3
    <3>. QED
      BY <2>1, <2>2, <3>1 DEF IsInjective
  <2>8. ToSet(posted[r]) \ {i} \subseteq ToSet(posted'[r])
    <3>. SUFFICES ASSUME NEW j \in 1..Len(posted[r]), posted[r][j] # i
                  PROVE  \E l \in 1..Len(posted'[r]) : posted'[r][l] = posted[r][j]
      BY <2>2, <2>4
    <3>1. j # first
      BY <1>2
    <3>2. PICK l \in 1..(Len(posted[r]) - 1) : Shifted(first, l) = j
      BY <2>1, <3>1, RemovedRest
    <3>. QED
      BY <2>3, <3>2
  <2>. QED
    BY <2>3, <2>6, <2>7, <2>8
<1>15. Parcel(r, object_cache[r][i], Append(recvs_posted[r][i], m)) /\ Append(recvs_posted[r][i], m) # <<>>
  <2>. DEFINE t == recvs_posted[r][i]
              u == Append(t, m)
  <2>1. IsList(t) /\ Len(t) \in Nat /\ Len(t) < 2 /\ \A p \in 1..Len(t) : Meant(r, object_cache[r][i], t[p])
    BY <1>3, ListFacts DEF ReceivedOK, Parcel
  <2>. HIDE DEF t
  <2>2. IsList(u) /\ Len(u) = Len(t) + 1 /\ u[Len(t) + 1] = m /\ \A p \in 1..Len(t) : u[p] = t[p]
    BY <2>1, Appended
  <2>. HIDE DEF u
  <2>3. u # <<>> /\ Len(u) <= 2
    BY <2>1, <2>2, EmptyList
  <2>4. ASSUME NEW p \in 1..Len(u) PROVE Meant(r, object_cache[r][i], u[p])
    <3>1. p \in 1..Len(t) \/ p = Len(t) + 1
      BY <2>1, <2>2
    <3>. QED
      BY <1>3, <2>1, <2>2, <3>1
  <2>5. Parcel(r, object_cache[r][i], u)
    BY <2>2, <2>3, <2>4 DEF Parcel
  <2>. QED
    BY <2>3, <2>5 DEF u, t
<1>12. ASSUME NEW s \in Ranks PROVE ListsOK(s)'
  <2>1. CASE s # r
    BY <1>4, <1>10, <2>1, ListsKept DEF ListsOK
  <2>2. CASE s = r
    <3>1. Waiting(r)' = Waiting(r)
      BY <1>4 DEF Waiting, Objects
    <3>2. /\ ToSet(posted'[r]) \subseteq {j \in 1..Len(recvs_posted'[r]) : Len(recvs_posted'[r][j]) < 2}
          /\ {j \in 1..Len(recvs_posted'[r]) : recvs_posted'[r][j] = <<>>} \subseteq ToSet(posted'[r])
      <4>1. /\ ToSet(posted[r]) \subseteq {j \in 1..Len(recvs_posted[r]) : Len(recvs_posted[r][j]) < 2}
            /\ {j \in 1..Len(recvs_posted[r]) : recvs_posted[r][j] = <<>>} \subseteq ToSet(posted[r])
        BY DEF ListsOK
      <4>2. recvs_posted'[r][i] # <<>>
        BY <1>10, <1>15
      <4>. QED
        BY <1>3, <1>10, <1>11, <4>1, <4>2
    <3>. QED
      BY <1>4, <1>10, <1>11, <2>2, <3>1, <3>2 DEF ListsOK
  <2>. QED
    BY <2>1, <2>2
<1>13. ASSUME NEW s \in Ranks PROVE ReceivedOK(s)'
  <2>1. CASE s # r
    BY <1>4, <1>7, <1>10, <2>1, ReceivedKept
  <2>2. CASE s = r
    <3>. SUFFICES ASSUME NEW j \in 1..Len(recvs_posted[r])
                  PROVE  Parcel(r, object_cache[r][j], recvs_posted[r][j])'
      BY <1>10, <2>2 DEF ReceivedOK
    <3>1. PICK v, k : v = recvs_posted'[r][j] /\ k = object_cache[r][j]
      OBVIOUS
    <3>3. Parcel(r, k, v)
      BY <1>10, <1>15, <3>1 DEF ReceivedOK
    <3>4. Parcel(r, k, v)'
      BY <1>7, <3>3, ParcelKept
    <3>5. IsList(v) /\ Len(v) <= 2 /\ object_cache'[r][j] = k
      BY <1>4, <3>1, <3>3 DEF Parcel
    <3>6. ASSUME NEW p \in 1..Len(v) PROVE Meant(r, object_cache[r][j], recvs_posted[r][j][p])'
      <4>1. PICK w : w = v[p]
        OBVIOUS
      <4>2. Meant(r, k, w)'
        BY <3>4, <4>1 DEF Parcel
      <4>. QED
        BY ONLY <3>1, <3>5, <4>1, <4>2 DEF Meant, Sent
    <3>. QED
      BY ONLY <3>1, <3>5, <3>6 DEF Parcel
  <2>. QED
    BY <2>1, <2>2
<1>14. ASSUME NEW s \in Ranks PROVE ExecutedOK(s)'
  BY <1>4, <1>7, ExecutedKept
<1>. QED
  BY <1>6, <1>7, <1>8, <1>9, <1>12, <1>13, <1>14

\* The receive of a body
LEMMA BodyRest ==
    ASSUME CInv, NEW r \in Ranks, PostBody(r)
    PROVE  StateOK' /\ InOrder(wire, recvs_posted, executed)'
<1>. USE DEF CInv, StateOK
<1>. DEFINE i == hook[r]
<1>1. /\ i \in 1..Len(recvs_posted[r]) /\ i \notin ToSet(posted[r]) /\ Len(recvs_posted[r][i]) = 1
      /\ posted' = [posted EXCEPT ![r] = Append(posted[r], i)]
  BY ListFacts DEF PostBody, Fulfilled, Got, DomainsOK, ListsOK
<1>2. UNCHANGED <<objects, made, sends_posted, recvs_posted, object_cache, wire, hook, pending, garbled,
                  looping, called, executed>>
  BY DEF PostBody, progVars, hookVars, callVars
<1>. HIDE DEF i
<1>3. Keeps /\ CalledOK'
  BY <1>2, SameKeeps
<1>4. DomainsOK'
  BY <1>1, <1>2 DEF DomainsOK
<1>5. WireOK'
  BY <1>2, <1>3, SentKept DEF WireOK
<1>6. /\ IsList(posted'[r]) /\ IsInjective(posted'[r]) /\ ToSet(posted'[r]) = ToSet(posted[r]) \cup {i}
      /\ \A q \in Ranks \ {r} : posted'[q] = posted[q]
  <2>1. /\ IsList(posted[r]) /\ IsInjective(posted[r]) /\ posted'[r] = Append(posted[r], i)
        /\ \A q \in Ranks \ {r} : posted'[q] = posted[q]
    BY <1>1 DEF ListsOK, DomainsOK
  <2>. QED
    BY <1>1, <2>1, AppendedOnce
<1>7. ASSUME NEW s \in Ranks PROVE ListsOK(s)'
  <2>1. CASE s # r
    BY <1>2, <1>6, <2>1, ListsKept DEF ListsOK
  <2>2. CASE s = r
    <3>1. Waiting(r)' = Waiting(r)
      BY <1>2 DEF Waiting, Objects
    <3>2. /\ ToSet(posted'[r]) \subseteq {j \in 1..Len(recvs_posted[r]) : Len(recvs_posted[r][j]) < 2}
          /\ {j \in 1..Len(recvs_posted[r]) : recvs_posted[r][j] = <<>>} \subseteq ToSet(posted'[r])
      <4>1. /\ ToSet(posted[r]) \subseteq {j \in 1..Len(recvs_posted[r]) : Len(recvs_posted[r][j]) < 2}
            /\ {j \in 1..Len(recvs_posted[r]) : recvs_posted[r][j] = <<>>} \subseteq ToSet(posted[r])
        BY DEF ListsOK
      <4>2. i \in {j \in 1..Len(recvs_posted[r]) : Len(recvs_posted[r][j]) < 2}
        BY ONLY <1>1
      <4>. QED
        BY ONLY <1>6, <4>1, <4>2
    <3>. QED
      BY <1>2, <1>6, <2>2, <3>1, <3>2 DEF ListsOK
  <2>. QED
    BY <2>1, <2>2
<1>8. ASSUME NEW s \in Ranks PROVE ReceivedOK(s)' /\ ExecutedOK(s)'
  BY <1>2, <1>3, ReceivedKept, ExecutedKept
<1>9. InOrder(wire, recvs_posted, executed)'
  BY <1>2 DEF InOrder, SentInOrder, ReceivedInOrder, ExecutedInOrder, NotYetExecuted
<1>. QED
  BY <1>3, <1>4, <1>5, <1>7, <1>8, <1>9

-----------------------------------------------------------------------------
\* What the hook has reached is a call, and all of it is there.
LEMMA ReadyFacts ==
    ASSUME CInv, NEW r \in Ranks, Ready(r)
    PROVE  /\ hook[r] \in 1..Len(recvs_posted[r]) /\ recvs_posted[r][hook[r]] # <<>>
           /\ Len(recvs_posted[r]) \in Nat /\ hook[r] \notin ToSet(posted[r])
           /\ Whole(r, object_cache[r][hook[r]], Last(recvs_posted[r][hook[r]]))
<1>. USE DEF CInv, StateOK
<1>. DEFINE i == hook[r]
            s == recvs_posted[r][i]
<1>1. i \in 1..Len(recvs_posted[r]) /\ Len(recvs_posted[r]) \in Nat /\ i \notin ToSet(posted[r])
  BY ListFacts DEF Ready, Fulfilled, DomainsOK, ListsOK
<1>2. s # <<>>
  BY <1>1 DEF ListsOK
<1>3. Parcel(r, object_cache[r][i], s)
  BY <1>1 DEF ReceivedOK
<1>4. ~s[1].body /\ IF s[1].long THEN Len(s) = 2 /\ s[2].body ELSE Len(s) = 1
  BY DEF Ready, Got
<1>. HIDE DEF i, s
<1>5. Last(s) = s[Len(s)] /\ Meant(r, object_cache[r][i], Last(s))
  BY <1>2, <1>3, LastPart
<1>6. Last(s).body <=> Last(s).long
  <2>1. CASE s[1].long
    <3>1. Last(s) = s[2] /\ s[2].body
      BY <1>4, <1>5, <2>1
    <3>2. Last(s).body => Last(s).long
      BY <1>5 DEF Meant, Sent
    <3>. QED
      BY <3>1, <3>2
  <2>2. CASE ~s[1].long
    BY <1>4, <1>5, <2>2
  <2>. QED
    BY <2>1, <2>2
<1>. QED
  BY <1>1, <1>2, <1>5, <1>6 DEF Whole, i, s

\* The object at the place that the hook has reached executes its message.
LEMMA ExecutedNext ==
    ASSUME CInv, Keeps, NEW r \in Ranks, Ready(r), Execute(r, hook[r]), made' = made
    PROVE  /\ hook[r] \in Full(recvs_posted, r) /\ Len(recvs_posted[r]) \in Nat
           /\ DOMAIN executed' = Ranks /\ \A s \in Ranks : ExecutedOK(s)'
<1>. USE DEF CInv, StateOK
<1>. DEFINE i == hook[r]
<1>1. i \in 1..Len(recvs_posted[r]) /\ recvs_posted[r][i] # <<>> /\ Len(recvs_posted[r]) \in Nat
  BY ReadyFacts
<1>2. PICK m, o : m = Last(recvs_posted[r][i]) /\ o = object_cache[r][i]
  OBVIOUS
<1>3. Whole(r, o, m)
  BY <1>2, ReadyFacts
<1>4. o \in Waiting(r)
  BY <1>1, <1>2, ListFacts DEF ListsOK
<1>5. DOMAIN executed' = Ranks /\ \A s \in Ranks \ {r} : executed'[s] = executed[s]
  BY DEF Execute, DomainsOK
<1>6. /\ IsList(executed'[r]) /\ Len(executed'[r]) = Len(executed[r]) + 1
      /\ Len(executed[r]) \in Nat
      /\ executed'[r][Len(executed[r]) + 1] = [object |-> o, message |-> m]
      /\ \A x \in 1..Len(executed[r]) : executed'[r][x] = executed[r][x]
  <2>1. IsList(executed[r]) /\ executed'[r] = Append(executed[r], [object |-> o, message |-> m])
    BY <1>2 DEF Execute, DomainsOK, ExecutedOK
  <2>. QED
    BY <2>1, Appended, ListFacts
<1>7. Waiting(r)' = Waiting(r) /\ Whole(r, o, m)'
  BY <1>3, WholeKept DEF Waiting, Keeps, Objects
<1>8. ExecutedOK(r)'
  <2>. SUFFICES ASSUME NEW x \in 1..Len(executed'[r])
                PROVE  /\ executed'[r][x].object \in Waiting(r)'
                       /\ Whole(r, executed[r][x].object, executed[r][x].message)'
    BY <1>6 DEF ExecutedOK
  <2>1. CASE x = Len(executed[r]) + 1
    <3>1. executed'[r][x].object = o /\ executed'[r][x].message = m
      BY <1>6, <2>1
    <3>. QED
      BY <1>4, <1>7, <3>1 DEF Whole, Meant, Sent
  <2>2. CASE x \in 1..Len(executed[r])
    <3>1. PICK e : e = executed[r][x]
      OBVIOUS
    <3>2. executed'[r][x] = e /\ e.object \in Waiting(r) /\ Whole(r, e.object, e.message)
      BY <1>6, <2>2, <3>1 DEF ExecutedOK
    <3>3. Whole(r, e.object, e.message)'
      BY <3>2, WholeKept
    <3>. QED
      BY <1>7, <3>2, <3>3 DEF Whole, Meant, Sent
  <2>. QED
    BY <1>6, <2>1, <2>2
<1>9. ASSUME NEW s \in Ranks \ {r} PROVE ExecutedOK(s)'
  BY <1>5, ExecutedKept
<1>. QED
  BY <1>1, <1>5, <1>8, <1>9 DEF Full

LEMMA RaisesRest ==
    ASSUME CInv, NEW r \in Ranks, MethodRaises(r)
    PROVE  StateOK' /\ InOrder(wire, recvs_posted, executed)'
<1>. USE DEF CInv, StateOK
<1>1. /\ Ready(r) /\ Last(recvs_posted[r][hook[r]]).method = "raises"
      /\ Execute(r, hook[r]) \/ UNCHANGED executed
      /\ hook' = [hook EXCEPT ![r] = 0] /\ pending' = [pending EXCEPT ![r] = TRUE]
      /\ UNCHANGED <<objects, made, sends_posted, recvs_posted, object_cache, posted, wire, garbled, looping, called>>
  BY DEF MethodRaises, Got, progVars, listVars, callVars
<1>2. Keeps /\ CalledOK'
  BY <1>1, SameKeeps
<1>3. /\ hook[r] \in Full(recvs_posted, r) /\ Len(recvs_posted[r]) \in Nat
      /\ DOMAIN executed' = Ranks /\ \A s \in Ranks : ExecutedOK(s)'
  <2>1. CASE Execute(r, hook[r])
    BY <1>1, <1>2, <2>1, ExecutedNext
  <2>2. CASE UNCHANGED executed
    <3>1. hook[r] \in Full(recvs_posted, r) /\ Len(recvs_posted[r]) \in Nat
      BY <1>1, ReadyFacts DEF Full
    <3>2. \A s \in Ranks : ExecutedOK(s)'
      BY <1>1, <1>2, <2>2, ExecutedKept
    <3>. QED
      BY <2>2, <3>1, <3>2 DEF DomainsOK
  <2>. QED
    BY <1>1, <2>1, <2>2
<1>4. DomainsOK'
  BY <1>1, <1>3 DEF DomainsOK
<1>5. WireOK'
  BY <1>1, <1>2, SentKept DEF WireOK
<1>6. ASSUME NEW s \in Ranks PROVE ListsOK(s)' /\ ReceivedOK(s)'
  <2>1. hook'[s] <= Len(recvs_posted[s]) + 1
    BY <1>1, <1>3 DEF DomainsOK, ListsOK
  <2>. QED
    BY <1>1, <1>2, <2>1, ListsKept, ReceivedKept
<1>7. InOrder(wire, recvs_posted, executed')
  <2>1. InOrder(wire, recvs_posted, executed)
    OBVIOUS
  <2>2. \A s \in Ranks : \A j \in Full(recvs_posted, s) :
           j \in Full(recvs_posted, s) /\ recvs_posted[s][j] = recvs_posted[s][j]
    OBVIOUS
  <2>3. CASE Execute(r, hook[r])
    BY <1>1, <1>3, <2>1, <2>2, <2>3, ExecuteOrder
  <2>4. CASE UNCHANGED executed
    BY <2>1, <2>4
  <2>. QED
    BY <1>1, <2>3, <2>4
<1>8. InOrder(wire, recvs_posted, executed)'
  BY <1>1, <1>7 DEF InOrder, SentInOrder, ReceivedInOrder, ExecutedInOrder, NotYetExecuted
<1>. QED
  BY <1>2, <1>3, <1>4, <1>5, <1>6, <1>8

LEMMA ReturnsRest ==
    ASSUME CInv, NEW r \in Ranks, MethodReturns(r)
    PROVE  StateOK' /\ InOrder(wire, recvs_posted, executed)'
<1>. USE DEF CInv, StateOK
<1>. DEFINE i == hook[r]
<1>1. /\ Ready(r) /\ Execute(r, i) /\ hook' = [hook EXCEPT ![r] = i + 1]
      /\ recvs_posted' = [recvs_posted EXCEPT ![r][i] = <<>>]
      /\ posted' = [posted EXCEPT ![r] = Append(posted[r], i)]
      /\ UNCHANGED <<objects, made, object_cache, pending, garbled>>
  BY DEF MethodReturns, Repost, progVars
<1>2. i \in 1..Len(recvs_posted[r]) /\ recvs_posted[r][i] # <<>> /\ Len(recvs_posted[r]) \in Nat
      /\ i \notin ToSet(posted[r])
  BY <1>1, ReadyFacts
<1>3. SendsOK
  <2>1. CASE UNCHANGED <<wire, sends_posted, callVars>>
    BY <1>1, <2>1, NothingSent DEF callVars
  <2>2. CASE partial_call(r, object_cache[r][i], [kind |-> "ranks", ranks |-> <<0>>], "returns", FALSE)
    <3>1. object_cache[r][i] \in Objects /\ made[r][object_cache[r][i]] # 0
      BY <1>2, ListFacts DEF ListsOK, Waiting
    <3>2. <<0>> \in Seq(Int)
      OBVIOUS
    <3>3. [kind |-> "ranks", ranks |-> <<0>>] \in Destination
      BY <3>2 DEF Destination
    <3>. QED
      BY <1>1, <2>2, <3>1, <3>3, CallSent
  <2>. QED
    BY <2>1, <2>2 DEF MethodReturns
<1>4. Keeps
  BY <1>3 DEF SendsOK
<1>5. i \in Full(recvs_posted, r) /\ DOMAIN executed' = Ranks /\ \A s \in Ranks : ExecutedOK(s)'
  BY <1>1, <1>4, ExecutedNext
<1>6. DomainsOK'
  BY <1>1, <1>2, <1>3, <1>5 DEF DomainsOK, SendsOK
<1>7. /\ IsList(recvs_posted'[r]) /\ Len(recvs_posted'[r]) = Len(recvs_posted[r])
      /\ recvs_posted'[r][i] = <<>>
      /\ \A j \in 1..Len(recvs_posted[r]) : j # i => recvs_posted'[r][j] = recvs_posted[r][j]
      /\ \A s \in Ranks \ {r} : recvs_posted'[s] = recvs_posted[s] /\ posted'[s] = posted[s] /\ hook'[s] = hook[s]
  <2>1. IsList(recvs_posted[r]) /\ DOMAIN recvs_posted = Ranks /\ DOMAIN posted = Ranks
    BY DEF ListsOK, DomainsOK
  <2>2. recvs_posted'[r] = Put(recvs_posted[r], i, <<>>)
        /\ \A s \in Ranks \ {r} : recvs_posted'[s] = recvs_posted[s] /\ posted'[s] = posted[s]
    BY <1>1, <2>1 DEF Put
  <2>3. \A s \in Ranks \ {r} : hook'[s] = hook[s]
    BY <1>1 DEF DomainsOK
  <2>. HIDE DEF i
  <2>. QED
    BY <1>2, <2>1, <2>2, <2>3, Assigned
<1>8. /\ IsList(posted'[r]) /\ IsInjective(posted'[r]) /\ ToSet(posted'[r]) = ToSet(posted[r]) \cup {i}
  <2>1. IsList(posted[r]) /\ IsInjective(posted[r]) /\ posted'[r] = Append(posted[r], i)
    BY <1>1 DEF ListsOK, DomainsOK
  <2>. HIDE DEF i
  <2>. QED
    BY <1>2, <2>1, AppendedOnce
<1>9. ASSUME NEW s \in Ranks PROVE ListsOK(s)'
  <2>1. CASE s # r
    BY <1>1, <1>7, <2>1, ListsKept DEF ListsOK
  <2>2. CASE s = r
    <3>1. Waiting(r)' = Waiting(r)
      BY <1>1 DEF Waiting, Objects
    <3>2. /\ ToSet(posted'[r]) \subseteq {j \in 1..Len(recvs_posted'[r]) : Len(recvs_posted'[r][j]) < 2}
          /\ {j \in 1..Len(recvs_posted'[r]) : recvs_posted'[r][j] = <<>>} \subseteq ToSet(posted'[r])
      <4>1. /\ ToSet(posted[r]) \subseteq {j \in 1..Len(recvs_posted[r]) : Len(recvs_posted[r][j]) < 2}
            /\ {j \in 1..Len(recvs_posted[r]) : recvs_posted[r][j] = <<>>} \subseteq ToSet(posted[r])
        BY DEF ListsOK
      <4>2. Len(<<>>) < 2
        BY EmptyList
      <4>. HIDE DEF i
      <4>. QED
        BY <1>2, <1>7, <1>8, <4>1, <4>2
    <3>3. hook'[r] <= Len(recvs_posted'[r]) + 1
      BY <1>1, <1>2, <1>7 DEF DomainsOK
    <3>. QED
      BY <1>1, <1>7, <1>8, <2>2, <3>1, <3>2, <3>3 DEF ListsOK
  <2>. QED
    BY <2>1, <2>2
<1>10. ASSUME NEW s \in Ranks PROVE ReceivedOK(s)'
  <2>1. CASE s # r
    <3>1. /\ CalledOK /\ Keeps /\ ReceivedOK(s)
          /\ recvs_posted'[s] = recvs_posted[s] /\ object_cache'[s] = object_cache[s]
      BY Zenon, <1>1, <1>4, <1>7, <2>1
    <3>. QED
      BY Zenon, <3>1, ReceivedKept
  <2>2. CASE s = r
    <3>. SUFFICES ASSUME NEW j \in 1..Len(recvs_posted[r])
                  PROVE  Parcel(r, object_cache[r][j], recvs_posted[r][j])'
      BY <1>7, <2>2 DEF ReceivedOK
    <3>1. PICK v, k : v = recvs_posted'[r][j] /\ k = object_cache[r][j]
      OBVIOUS
    <3>3. Parcel(r, k, v)
      <4>1. CASE j = i
        <5>1. v = <<>>
          BY <1>7, <3>1, <4>1
        <5>. QED
          BY <5>1, EmptyList DEF Parcel
      <4>2. CASE j # i
        BY <1>7, <3>1, <4>2 DEF ReceivedOK
      <4>. QED
        BY <4>1, <4>2
    <3>4. Parcel(r, k, v)'
      BY <1>4, <3>3, ParcelKept
    <3>5. k = object_cache'[r][j]
      BY <1>1, <3>1
    <3>. QED
      BY <3>1, <3>4, <3>5, Zenon
  <2>. QED
    BY <2>1, <2>2
<1>11. InOrder(wire', recvs_posted', executed')
  <2>1. InOrder(wire', recvs_posted, executed)
    BY <1>3 DEF SendsOK
  <2>2. \A s \in Ranks : \A j \in Full(recvs_posted', s) :
           /\ j \in Full(recvs_posted, s) /\ recvs_posted'[s][j] = recvs_posted[s][j]
           /\ ~(s = r /\ j = i)
    BY <1>7 DEF Full
  <2>3. CInv /\ i \in Full(recvs_posted, r) /\ Execute(r, i) /\ i \notin Full(recvs_posted', r)
    BY <1>1, <1>5, <2>2
  <2>. HIDE DEF i, CInv, StateOK
  <2>. QED
    BY Zenon, <2>1, <2>2, <2>3, ExecuteOrder
<1>12. InOrder(wire, recvs_posted, executed)'
  BY Zenon, <1>1, <1>11, OrderLater
<1>. QED
  BY <1>3, <1>5, <1>6, <1>9, <1>10, <1>12 DEF SendsOK

-----------------------------------------------------------------------------
\* A new object that waits for calls: its receive and its place in the list are
\* the last, and no other receive of the rank is for it.
LEMMA NewReceive ==
    ASSUME CInv, NEW r \in Ranks, NEW k \in Objects, Waits(r, k), objects' = objects,
           hook' = hook, made[r][k] = 0, made'[r][k] # 0, r \in objects[k].receive,
           \A j \in Objects \ {k} : made'[r][j] = made[r][j]
    PROVE  /\ ListsOK(r)' /\ Len(recvs_posted[r]) \in Nat
           /\ \A i \in 1..Len(recvs_posted'[r]) : recvs_posted'[r][i] # <<>> =>
                 /\ i \in 1..Len(recvs_posted[r]) /\ recvs_posted'[r][i] = recvs_posted[r][i]
                 /\ object_cache'[r][i] = object_cache[r][i]
<1>. USE DEF CInv, StateOK
<1>. DEFINE n == Len(recvs_posted[r])
            l == Len(posted[r])
<1>1. /\ recvs_posted'[r] = Append(recvs_posted[r], <<>>) /\ object_cache'[r] = Append(object_cache[r], k)
      /\ posted'[r] = Append(posted[r], n + 1)
      /\ IsList(recvs_posted[r]) /\ IsList(object_cache[r]) /\ IsList(posted[r]) /\ Len(object_cache[r]) = n
  BY DEF Waits, DomainsOK, ListsOK
<1>2. n \in Nat /\ l \in Nat
  BY <1>1, ListFacts
<1>3. /\ IsList(recvs_posted'[r]) /\ Len(recvs_posted'[r]) = n + 1 /\ recvs_posted'[r][n + 1] = <<>>
      /\ \A i \in 1..n : recvs_posted'[r][i] = recvs_posted[r][i]
  BY <1>1, Appended
<1>4. /\ IsList(object_cache'[r]) /\ Len(object_cache'[r]) = n + 1 /\ object_cache'[r][n + 1] = k
      /\ \A i \in 1..n : object_cache'[r][i] = object_cache[r][i]
  BY <1>1, Appended
<1>5. /\ IsList(posted'[r]) /\ Len(posted'[r]) = l + 1 /\ posted'[r][l + 1] = n + 1
      /\ \A i \in 1..l : posted'[r][i] = posted[r][i]
  <2>. HIDE DEF n
  <2>. QED
    BY <1>1, Appended
<1>. HIDE DEF n, l
<1>6. \A i \in 1..(n + 1) : i \in 1..n \/ i = n + 1
  BY <1>2
<1>7. \A i \in 1..(l + 1) : i \in 1..l \/ i = l + 1
  BY <1>2
<1>8. n + 1 \in 1..(n + 1) /\ 1..n \subseteq 1..(n + 1) /\ n + 1 \notin 1..n
      /\ l + 1 \in 1..(l + 1) /\ 1..l \subseteq 1..(l + 1)
  BY <1>2
<1>9. Waiting(r)' = Waiting(r) \cup {k} /\ k \notin Waiting(r)
  BY DEF Waiting, Objects
<1>10. /\ DOMAIN object_cache[r] = 1..n /\ ToSet(object_cache[r]) = {object_cache[r][i] : i \in 1..n}
       /\ DOMAIN object_cache'[r] = 1..(n + 1)
       /\ ToSet(object_cache'[r]) = {object_cache'[r][i] : i \in 1..(n + 1)}
  <2>1. DOMAIN object_cache[r] = 1..n /\ ToSet(object_cache[r]) = {object_cache[r][i] : i \in 1..n}
    BY <1>1, ListFacts
  <2>2. /\ DOMAIN object_cache'[r] = 1..(n + 1)
        /\ ToSet(object_cache'[r]) = {object_cache'[r][i] : i \in 1..(n + 1)}
    BY <1>4, ListFacts
  <2>. QED
    BY <2>1, <2>2
<1>11. /\ DOMAIN posted[r] = 1..l /\ ToSet(posted[r]) = {posted[r][i] : i \in 1..l}
       /\ DOMAIN posted'[r] = 1..(l + 1)
       /\ ToSet(posted'[r]) = {posted'[r][i] : i \in 1..(l + 1)}
  <2>1. DOMAIN posted[r] = 1..l /\ ToSet(posted[r]) = {posted[r][i] : i \in 1..l}
    BY <1>1, ListFacts DEF l
  <2>2. DOMAIN posted'[r] = 1..(l + 1) /\ ToSet(posted'[r]) = {posted'[r][i] : i \in 1..(l + 1)}
    BY <1>5, ListFacts
  <2>. QED
    BY <2>1, <2>2
<1>12. ToSet(object_cache[r]) = Waiting(r) /\ IsInjective(object_cache[r])
  BY DEF ListsOK
<1>13. ToSet(object_cache'[r]) = Waiting(r)'
  BY <1>4, <1>6, <1>8, <1>9, <1>10, <1>12
<1>14. \A i \in 1..n : object_cache[r][i] # k
  BY <1>9, <1>10, <1>12
<1>15. IsInjective(object_cache'[r])
  <2>. SUFFICES ASSUME NEW i \in 1..(n + 1), NEW j \in 1..(n + 1), object_cache'[r][i] = object_cache'[r][j]
                PROVE  i = j
    BY <1>10 DEF IsInjective
  <2>1. CASE i \in 1..n /\ j \in 1..n
    BY <1>4, <1>10, <1>12, <2>1 DEF IsInjective
  <2>. QED
    BY <1>4, <1>6, <1>14, <2>1
<1>16. /\ ToSet(posted[r]) \subseteq {i \in 1..n : Len(recvs_posted[r][i]) < 2} /\ IsInjective(posted[r])
       /\ {i \in 1..n : recvs_posted[r][i] = <<>>} \subseteq ToSet(posted[r])
  BY DEF ListsOK, n
<1>17. \A i \in 1..l : posted[r][i] # n + 1
  BY <1>8, <1>11, <1>16
<1>18. IsInjective(posted'[r])
  <2>. SUFFICES ASSUME NEW i \in 1..(l + 1), NEW j \in 1..(l + 1), posted'[r][i] = posted'[r][j]
                PROVE  i = j
    BY <1>11 DEF IsInjective
  <2>1. CASE i \in 1..l /\ j \in 1..l
    BY <1>5, <1>11, <1>16, <2>1 DEF IsInjective
  <2>. QED
    BY <1>5, <1>7, <1>17, <2>1
<1>19. ToSet(posted'[r]) = ToSet(posted[r]) \cup {n + 1}
  BY <1>5, <1>7, <1>8, <1>11
<1>20. /\ ToSet(posted'[r]) \subseteq {i \in 1..(n + 1) : Len(recvs_posted'[r][i]) < 2}
       /\ {i \in 1..(n + 1) : recvs_posted'[r][i] = <<>>} \subseteq ToSet(posted'[r])
  BY <1>3, <1>6, <1>8, <1>16, <1>19, EmptyList
<1>21. hook'[r] <= (n + 1) + 1
  <2>1. hook[r] <= n + 1 /\ hook[r] \in Nat
    BY DEF ListsOK, DomainsOK, n
  <2>. QED
    BY <1>2, <2>1
<1>22. ListsOK(r)'
  BY <1>3, <1>4, <1>5, <1>13, <1>15, <1>18, <1>20, <1>21 DEF ListsOK
<1>. QED
  BY <1>2, <1>3, <1>4, <1>6, <1>22 DEF n

LEMMA LeaveRest ==
    ASSUME CInv, NEW r \in Ranks, NEW k \in Objects, InitDone(r, k)
    PROVE  StateOK' /\ InOrder(wire, recvs_posted, executed)'
<1>. USE DEF CInv, StateOK
<1>. DEFINE u == Unique(k)
<1>1. made[r][k] = 0 /\ u # 0 /\ joined[r] = k /\ k # 0
  <2>1. u \in Nat /\ last_unique[r] < u /\ last_unique[r] \in Nat
    BY UniqueIsNew DEF IInv, ProgTypeOK
  <2>2. u # 0
    <3>. HIDE DEF u
    <3>. QED
      BY <2>1
  <2>. QED
    BY <2>2 DEF InitDone, IInv, JoinedOK
<1>2. /\ made' = [made EXCEPT ![r][k] = u]
      /\ IF r \in objects[k].receive THEN Waits(r, k) ELSE UNCHANGED <<recvs_posted, object_cache, posted>>
      /\ UNCHANGED <<objects, sends_posted, wire, hook, pending, garbled, looping, called, executed>>
  BY DEF InitDone, hookVars, callVars
<1>. HIDE DEF u
<1>3. /\ made'[r][k] = u /\ \A j \in Objects \ {k} : made'[r][j] = made[r][j]
      /\ \A q \in Ranks \ {r} : made'[q] = made[q]
  BY <1>2 DEF IInv, ProgTypeOK
<1>4. \A q \in Ranks, j \in Objects : made[q][j] # 0 => made'[q][j] = made[q][j]
  BY <1>1, <1>3
<1>5. Keeps
  BY <1>2, <1>4, ListFacts DEF Keeps, CalledOK
<1>6. CalledOK'
  BY <1>2, <1>4 DEF CalledOK, Objects
<1>7. WireOK'
  BY <1>2, <1>5, SentKept DEF WireOK
<1>8. /\ \A q \in Ranks \ {r} : recvs_posted'[q] = recvs_posted[q] /\ object_cache'[q] = object_cache[q]
                               /\ posted'[q] = posted[q]
      /\ DOMAIN recvs_posted' = Ranks /\ DOMAIN object_cache' = Ranks /\ DOMAIN posted' = Ranks
  BY <1>2 DEF Waits, DomainsOK
<1>9. DomainsOK'
  BY <1>2, <1>8 DEF DomainsOK
<1>10. /\ ListsOK(r)' /\ Len(recvs_posted[r]) \in Nat
       /\ \A i \in 1..Len(recvs_posted'[r]) : recvs_posted'[r][i] # <<>> =>
             /\ i \in 1..Len(recvs_posted[r]) /\ recvs_posted'[r][i] = recvs_posted[r][i]
             /\ object_cache'[r][i] = object_cache[r][i]
  <2>1. CASE r \in objects[k].receive
    BY <1>1, <1>2, <1>3, <2>1, NewReceive
  <2>2. CASE r \notin objects[k].receive
    <3>1. Waiting(r)' = Waiting(r)
      BY <1>1, <1>2, <1>3, <2>2 DEF Waiting, Objects
    <3>. QED
      BY <1>2, <2>2, <3>1, ListFacts DEF ListsOK
  <2>. QED
    BY <2>1, <2>2
<1>11. \A q \in Ranks : \A i \in Full(recvs_posted', q) :
          /\ i \in Full(recvs_posted, q) /\ recvs_posted'[q][i] = recvs_posted[q][i]
          /\ object_cache'[q][i] = object_cache[q][i]
  BY <1>8, <1>10 DEF Full
<1>12. ASSUME NEW q \in Ranks PROVE ListsOK(q)'
  <2>1. CASE q = r
    BY <1>10, <2>1
  <2>2. CASE q # r
    BY Zenon, <1>2, <1>3, <1>8, <2>2, ListsKept DEF ListsOK
  <2>. QED
    BY <2>1, <2>2
<1>13. ASSUME NEW q \in Ranks PROVE ReceivedOK(q)'
  <2>. SUFFICES ASSUME NEW i \in 1..Len(recvs_posted'[q])
                PROVE  Parcel(q, object_cache[q][i], recvs_posted[q][i])'
    BY DEF ReceivedOK
  <2>1. PICK v, j : v = recvs_posted'[q][i] /\ j = object_cache'[q][i]
    OBVIOUS
  <2>2. Parcel(q, j, v)
    <3>1. CASE v = <<>>
      BY <3>1, EmptyList DEF Parcel
    <3>2. CASE v # <<>>
      <4>1. i \in Full(recvs_posted', q)
        BY <2>1, <3>2 DEF Full
      <4>2. i \in Full(recvs_posted, q) /\ v = recvs_posted[q][i] /\ j = object_cache[q][i]
        BY <1>11, <2>1, <4>1
      <4>. QED
        BY <4>2 DEF ReceivedOK, Full
    <3>. QED
      BY <3>1, <3>2
  <2>3. Parcel(q, j, v)'
    BY <1>5, <2>2, ParcelKept
  <2>4. IsList(v) /\ Len(v) <= 2
    BY <2>2 DEF Parcel
  <2>5. ASSUME NEW p \in 1..Len(v) PROVE Meant(q, object_cache[q][i], recvs_posted[q][i][p])'
    <3>1. PICK w : w = v[p]
      OBVIOUS
    <3>2. Meant(q, j, w)'
      BY <2>3, <3>1 DEF Parcel
    <3>. QED
      BY ONLY <2>1, <3>1, <3>2 DEF Meant, Sent
  <2>. QED
    BY ONLY <2>1, <2>4, <2>5 DEF Parcel
<1>14. ASSUME NEW q \in Ranks PROVE ExecutedOK(q)'
  BY <1>2, <1>4, <1>5, ExecutedKept
<1>15. InOrder(wire, recvs_posted, executed)'
  <2>. InOrder(wire, recvs_posted, executed)
    OBVIOUS
  <2>. HIDE DEF CInv, StateOK
  <2>1. ReceivedInOrder(wire', recvs_posted')
    BY <1>2, <1>11 DEF InOrder, ReceivedInOrder
  <2>2. NotYetExecuted(recvs_posted, executed)'
    <3>1. ASSUME NEW q \in Ranks, NEW x \in 1..Len(executed[q]), NEW i \in Full(recvs_posted', q)
          PROVE  LET e == executed[q][x]
                     m == Last(recvs_posted'[q][i])
                 IN  /\ m.method # "raises" => e.message # m
                     /\ object_cache'[q][i] = e.object /\ e.message.from = m.from
                          => e.message = m \/ Before(e.message, m)
      <4>1. /\ i \in Full(recvs_posted, q) /\ recvs_posted'[q][i] = recvs_posted[q][i]
            /\ object_cache'[q][i] = object_cache[q][i]
        BY <1>11
      <4>2. NotYetExecuted(recvs_posted, executed)
        BY DEF InOrder
      <4>. QED
        BY <4>1, <4>2 DEF NotYetExecuted
    <3>2. executed' = executed
      BY <1>2
    <3>. QED
      BY Zenon, <3>1, <3>2 DEF NotYetExecuted
  <2>3. SentInOrder(wire') /\ ExecutedInOrder(wire', executed')
    BY <1>2 DEF InOrder
  <2>. QED
    BY Zenon, <2>1, <2>2, <2>3 DEF InOrder, SentInOrder, ReceivedInOrder, ExecutedInOrder
<1>. QED
  BY <1>6, <1>7, <1>9, <1>12, <1>13, <1>14, <1>15

-----------------------------------------------------------------------------
LEMMA AllNextOK == CInv /\ [Next]_vars => CInv'
<1>. SUFFICES ASSUME CInv, [Next]_vars PROVE CInv'
  OBVIOUS
<1>1. IInv'
  BY NextOK DEF CInv
<1>2. StateOK' /\ InOrder(wire, recvs_posted, executed)'
  <2>1. CASE UNCHANGED vars
    <3>1. DomainsOK' /\ \A q \in Ranks : hook'[q] <= Len(recvs_posted[q]) + 1
      BY <2>1 DEF vars, listVars, hookVars, callVars, CInv, StateOK, DomainsOK, ListsOK
    <3>. QED
      BY <2>1, <3>1, QuietRest DEF vars, progVars, listVars, hookVars, callVars
  <2>2. ASSUME NEW r \in Ranks, NEW k \in Objects, remote_init(r, k) \/ InitDone(r, k)
        PROVE  StateOK' /\ InOrder(wire, recvs_posted, executed)'
    BY <2>2, JoinRest, LeaveRest
  <2>3. ASSUME NEW r \in Ranks, NEW k \in Objects, NEW call \in Calls, Call(r, k, call)
        PROVE  StateOK' /\ InOrder(wire, recvs_posted, executed)'
    BY <2>3, CallRest
  <2>4. ASSUME NEW q \in Ranks, NEW r \in Ranks, Match(q, r)
        PROVE  StateOK' /\ InOrder(wire, recvs_posted, executed)'
    BY <2>4, MatchRest
  <2>5. ASSUME NEW r \in Ranks, Hook(r) \/ Surfaces(r)
        PROVE  StateOK' /\ InOrder(wire, recvs_posted, executed)'
    BY <2>5, HookRest, BodyRest, ReturnsRest, RaisesRest DEF Hook
  <2>. QED
    BY <2>1, <2>2, <2>3, <2>4, <2>5 DEF Next, Objects
<1>. QED
  BY <1>1, <1>2 DEF CInv

LEMMA AllAlways == Spec => []CInv
<1>1. Init => CInv
  BY InitOK, RestInit DEF CInv
<1>. QED
  BY <1>1, AllNextOK, PTL DEF Spec

(***************************************************************************)
(* The lists that the hook reads by one index stay in step, for any number *)
(* of ranks, programs and calls: each object that waits for calls has one  *)
(* request, whose parts and the receives that MPI has for it agree.        *)
(***************************************************************************)
THEOREM ListsAlwaysInStep == Spec => []TypeOK
<1>1. ASSUME CInv PROVE TypeOK
  <2>. USE <1>1 DEF CInv, StateOK
  <2>. SUFFICES ASSUME NEW r \in Ranks
                PROVE  /\ made[r] \in [DOMAIN objects -> Nat]
                       /\ joined[r] \in 0..Len(objects) /\ last_unique[r] \in Nat
                       /\ hook[r] \in 0..(Len(recvs_posted[r]) + 1) /\ pending[r] \in BOOLEAN
                       /\ \A m \in sends_posted[r] : Sent(m) /\ m.from = r
                       /\ Len(object_cache[r]) = Len(recvs_posted[r]) /\ IsInjective(object_cache[r])
                       /\ ToSet(object_cache[r]) = {k \in DOMAIN objects : Made(r, k) /\ r \in objects[k].receive}
                       /\ ToSet(posted[r]) \subseteq {i \in DOMAIN recvs_posted[r] : Len(recvs_posted[r][i]) < 2}
                       /\ {i \in DOMAIN recvs_posted[r] : recvs_posted[r][i] = <<>>} \subseteq ToSet(posted[r])
                       /\ IsInjective(posted[r])
    BY DEF TypeOK, DomainsOK
  <2>1. made[r] \in [DOMAIN objects -> Nat] /\ last_unique[r] \in Nat
    BY DEF IInv, ProgTypeOK, Objects
  <2>2. joined[r] \in 0..Len(objects)
    <3>1. DOMAIN objects = 1..Len(objects) /\ Len(objects) \in Nat
      BY ProgramsAssumption DEF IInv, ProgTypeOK
    <3>. QED
      BY <3>1 DEF IInv, JoinedOK, Objects
  <2>3. hook[r] \in 0..(Len(recvs_posted[r]) + 1) /\ pending[r] \in BOOLEAN
    BY ListFacts DEF DomainsOK, ListsOK
  <2>4. \A m \in sends_posted[r] : Sent(m) /\ m.from = r
    BY DEF WireOK
  <2>5. Len(object_cache[r]) = Len(recvs_posted[r]) /\ IsInjective(object_cache[r]) /\ IsInjective(posted[r])
    BY DEF ListsOK
  <2>6. ToSet(object_cache[r]) = {k \in DOMAIN objects : Made(r, k) /\ r \in objects[k].receive}
    BY DEF ListsOK, Waiting, Made, Number, Objects
  <2>7. /\ ToSet(posted[r]) \subseteq {i \in DOMAIN recvs_posted[r] : Len(recvs_posted[r][i]) < 2}
        /\ {i \in DOMAIN recvs_posted[r] : recvs_posted[r][i] = <<>>} \subseteq ToSet(posted[r])
    BY ListFacts DEF ListsOK
  <2>. QED
    BY <2>1, <2>2, <2>3, <2>4, <2>5, <2>6, <2>7
<1>. QED
  BY <1>1, AllAlways, PTL

(***************************************************************************)
(* Calls are executed where they were sent, whole, once unless their       *)
(* method raises, in the order of their caller on each object, and by the  *)
(* object they were meant for if that has its tag for itself: for any      *)
(* number of ranks, programs and calls.                                    *)
(***************************************************************************)
THEOREM CallsAlwaysRight == Spec => []CallsRight
<1>1. ASSUME CInv PROVE CallsRight
  <2>. USE <1>1 DEF CInv, StateOK
  <2>. SUFFICES ASSUME NEW r \in Ranks, NEW x \in DOMAIN executed[r]
                PROVE  LET o == executed[r][x].object
                           m == executed[r][x].message
                           k == called[m.call].object
                       IN  /\ Sent(m) /\ m.to = r /\ (m.body <=> m.long)
                           /\ Comm(o) = m.comm /\ objects[o].tag = m.tag
                           /\ Alone(k) => o = k /\ m.hash = made[r][o]
                           /\ \A y \in 1..(x - 1) :
                                LET d == executed[r][y]
                                IN  /\ m.method # "raises" => d.message # m
                                    /\ d.object = o /\ d.message.from = m.from => d.message.call <= m.call
    BY DEF CallsRight
  <2>. DEFINE o == executed[r][x].object
              m == executed[r][x].message
              k == called[m.call].object
  <2>1. x \in 1..Len(executed[r]) /\ Len(executed[r]) \in Nat
    BY ListFacts DEF ExecutedOK
  <2>2. Meant(r, o, m) /\ (m.body <=> m.long) /\ o \in Objects /\ made[r][o] # 0
    BY <2>1 DEF ExecutedOK, Whole, Waiting
  <2>3. ASSUME NEW y \in 1..(x - 1)
        PROVE  /\ m.method # "raises" => executed[r][y].message # m
               /\ executed[r][y].object = o /\ executed[r][y].message.from = m.from
                    => executed[r][y].message = m \/ Before(executed[r][y].message, m)
    BY <2>1 DEF InOrder, ExecutedInOrder
  <2>4. ASSUME NEW y \in 1..(x - 1) PROVE Sent(executed[r][y].message)
    BY <2>1 DEF ExecutedOK, Whole, Meant
  <2>. HIDE DEF o, m
  <2>5. m.call \in 1..Len(called) /\ m.from \in Ranks /\ Len(called) \in Nat
    BY <2>2, SentFacts DEF Meant
  <2>6. /\ k \in Objects /\ made[called[m.call].from][k] # 0 /\ m.from = called[m.call].from
        /\ m.comm = Comm(k) /\ m.tag = objects[k].tag /\ m.hash = made[m.from][k]
    BY <2>2, <2>5 DEF CalledOK, Meant, Sent
  <2>. HIDE DEF k
  <2>7. ASSUME Alone(k) PROVE o = k /\ m.hash = made[r][o]
    <3>1. o = k
      BY <2>2, <2>6, <2>7 DEF Alone, Meant, Comm, Objects
    <3>. QED
      BY <2>2, <2>5, <2>6, <3>1 DEF IInv, AgreeOK
  <2>8. ASSUME NEW y \in 1..(x - 1), executed[r][y].object = o, executed[r][y].message.from = m.from
        PROVE  executed[r][y].message.call <= m.call
    <3>1. executed[r][y].message.call \in Nat
      BY <2>4, SentFacts
    <3>. QED
      BY <2>3, <2>5, <2>8, <3>1 DEF Before
  <2>. QED
    BY <2>2, <2>3, <2>7, <2>8 DEF Meant, Comm, o, m, k
<1>. QED
  BY <1>1, AllAlways, PTL
=============================================================================
